------------------------------ MODULE TimerFd ------------------------------
(***************************************************************************)
(* The part of Linux timerfd(2) that the timer driver of the smart LED     *)
(* program calls: a timer counts down from its it_value, then expires once *)
(* per it_interval.  Setting it_value to zero disarms the timer, a         *)
(* negative value is refused (EINVAL) and leaves the timer alone, and      *)
(* every accepted timerfd_settime forgets the expirations not yet read.    *)
(*                                                                         *)
(* Time is counted in abstract units (the code counts nanoseconds).  The   *)
(* 64-bit expiration count is kept as "is there one": the program only     *)
(* logs the rest.                                                          *)
(***************************************************************************)
EXTENDS Integers

Timer == [armed : BOOLEAN, rem : Nat, intv : Nat, pend : BOOLEAN]

\* timerfd_create: a timer is born disarmed.
Created == [armed |-> FALSE, rem |-> 0, intv |-> 0, pend |-> FALSE]

\* timerfd_settime(fd, 0, {value, interval}, NULL)
Settime(t, value, interval) ==
  IF value < 0 \/ interval < 0
    THEN t
    ELSE [armed |-> value > 0, rem |-> value, intv |-> interval, pend |-> FALSE]

\* timerfd_gettime: the time to the next expiration, zero when disarmed.
Remaining(t) == t.rem

\* One unit of time goes by for a timer that is not yet due.
Elapsed(t) == IF t.armed THEN [t EXCEPT !.rem = @ - 1] ELSE t

\* The count-down reached zero and the expiry interrupt has not run yet.
Due(t) == t.armed /\ t.rem = 0

\* The expiry interrupt: a periodic timer is reloaded, a one-shot one stops.
Expired(t) == [armed |-> t.intv > 0, rem |-> t.intv, intv |-> t.intv, pend |-> TRUE]

\* read(2) of the expiration count.  It blocks unless t.pend.
Cleared(t) == [t EXCEPT !.pend = FALSE]
=============================================================================
