----------------------------- MODULE MCPrograms -----------------------------
(***************************************************************************)
(* The small programs on the instances that TLC explores.                  *)
(***************************************************************************)
EXTENDS Programs

CONSTANTS a, b, c   \* characters; signals; a process

\* The text of config, of two numbers.
Digits == <<1, 2, 3, 10>>

\* Two rows of text, of two characters and of one.
TwoLines == << <<a, b>>, <<b>> >>
=============================================================================
