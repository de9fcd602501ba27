# CSEL1 exercises in TLA+

This directory is a verification development for the C programs and kernel
modules of the CSEL1 course repository (`src/`).  It holds TLA+ modules that
model the parts of the repository with behaviour worth worrying about, TLC
configurations that check them on small instances, and TLAPS proofs of
properties that hold for every instance.  `PROJECT.json` lists the components,
the runs, the theorems, the hazards with the properties that cover them and,
for every definition, the lines it models.

## 1. The system

The repository is a set of small programs for one board (NanoPi NEO Plus2).
Paths below are relative to `src/src/`.

| component | state it keeps | operations | interacts through |
|---|---|---|---|
| smart LED, event loop (`04_system/smart/smart_led_control.c`) | which button repeats, the batch of events of one `epoll_wait` | `init_app`, `handle_events` (one case per descriptor), `main`'s loop | epoll, six descriptors |
| smart LED, timer driver (`04_system/smart/drivers/timer/timer.c`) | period, duty, their initial values, three timerfds | `init_timers`, `update_timers_value`, `start_timers`, increase/decrease/reset, `start/stop_press_timer`, `clear_timer_event` | timerfd |
| smart LED, buttons and LED (`drivers/user-io`) | sysfs value files; the pins, which outlive the process | `open_*`, `close_led`, `clear_button_event`, `led_on/off` | sysfs GPIO |
| interrupt counter (`03_drivers/exercice07`) | an atomic counter, a wait queue | interrupt handler, `poll`, the reader's `select` loop | wait queue, `select` |
| two kernel threads (`02_modules/exercice07`) | an atomic flag, a wait queue | two thread bodies, init, exit | `wait_event_interruptible`, `wake_up`, `kthread_stop` |
| parent and child (`05_system/exercice01`) | a message counter, a buffer | fork, child's writes and sleeps, parent's read loop, signal handler | stream socket pair, signals |
| the kernel modules (`02_modules/*`, `03_drivers/*`) | what they hold of the kernel: devices, numbers, classes, mappings, interrupts, threads, memory | init, exit, probe, remove | driver core, VFS, `insmod`/`rmmod`, bind/unbind |
| character drivers (`exercice02, 03, 05.1, 06, 06.1`, `sample06.2, 06.3`) | a text buffer per minor | open, read, write | VFS |
| attributes (`exercice05, 05.1, 09`, `sample05, 05.1, 06.2, 06.3`) | a number, a string, a structure | show, store, ioctl | sysfs, ioctl |
| procfs entries (`03_drivers/exercice10`) | a number and a configuration | read, write | procfs |
| daemon and process (`01_environment`) | descriptors, session, ids, a signal counter | start-up, sleep, signal handler | signals, syslog |
| polling LED (`04_system/silly`) | phase and a time stamp | a busy loop | sysfs GPIO, clock |
| cgroup programs (`05_system/exercice02, 03`) | blocks, a process tree | allocate, fork, compute | cgroups |
| OLED (`07_miniproj/oled`) | the display's position and memory | commands, data, text | I2C |
| tool demonstrations (`01_environment`, `06_optimization`), `procstat`, mapping programs | none that outlives a call | | |

What is hard in it:

* *Time.* The smart LED reads its timers, computes new first expiries and
  writes them back while the timers run; `timerfd_settime` forgets what expired
  and was not read; a remaining time of 0 handed back to it disarms the timer; the
  roundings of the scaling accumulate, down to a period of 0.  The polling LED
  reads the clock, decides and writes in separate steps.
* *Stale batches.* `epoll_wait` returns two events, and handling the first can
  stop or restart the timer of the second, whose blocking read comes next.
* *Check-then-act.* The `poll` method tests a counter and decrements it
  separately; the threads test a flag, sleep and decrement.
* *Lost wake-ups.* Both wait queues are signalled while the other side is
  between its test and its sleep.
* *Teardown.* `rmmod` stops two threads that wait for each other; a driver is
  unbound under open files; `exit` runs after an `init` that half failed.
* *Crash and restart.* The smart LED can be killed at any of its calls; the
  pins stay exported and the next run starts from there.
* *Streams.* Messages written one by one may be read together; reads are
  interrupted; the child may die.
* *Signals.* A handler runs between any two steps, inside another handler, and
  inside `syslog`, whose lock it wants; it cuts a sleep short.
* *Unlocked data.* Stores and shows of several processes go through a
  structure or a string field by field, byte by byte.
* *Partial failure.* Most init and probe functions return early without undoing
  what they did, or do not look at the result at all; the start of the smart
  LED and of the daemon is a row of calls that may fail one by one; writes to
  the display get lost.

## 2. The modules

| module | what it is |
|---|---|
| `TimerFd` | the part of timerfd(2) the programs use, as operators on a timer record (external: the kernel is not in `src/`) |
| `TimerMath` | the arithmetic of `timer.c`: scaling, initial duty, re-phasing, with C division and signed wrap-around |
| `SquareWave` | abstract: a square wave whose shape may change but whose next edge does not move |
| `BlinkTimers`, `MCBlinkTimers` | the timer driver, one action per system call, with time and expiries between them; its start periods for TLC |
| `SmartLed` | the whole program in its loop: epoll, buttons, repeat timer, LED, user, clock |
| `SmartStart` | its start and end call by call, with failures, death and restart |
| `PollDriver` | the interrupt counter and the processes that select on it |
| `KickedThreads` | the two threads, the wait queue and rmmod |
| `SocketPair` | the two processes, the stream, signals |
| `CharDevice` | the text buffer of one minor of the character drivers, used by several files |
| `KernelModules` | what init, exit, probe and remove of every module ask of the kernel, as lists of calls |
| `ModuleLife` | executes those lists: insmod, probing, unbinding, rmmod, open files, failing calls |
| `Attributes` | shows and stores of the sysfs attributes and of the ioctl structure by several processes |
| `ProcfsEntry` | piecewise reads of the two procfs entries |
| `SillyLed` | the polling LED against the clock |
| `Daemon` | the daemon and the process, with signals between any two steps |
| `CpuGroups`, `MemGroup` | the two cgroup programs |
| `Oled` | the display and what is sent to it |
| `Programs`, `MCPrograms` | one of ten of these programs at a time; their values for TLC |
| `BlinkTimersProofs`, `SmartLedProofs`, `KickedThreadsProofs`, `CharDeviceProofs`, `ModuleLifeProofs` | the proofs about the module of that name |
| `ProcessProofs`, `TextProofs`, `ProgramProofs` | the proofs about `Programs`: processes that wait, read and get signals (`PollDriver`, `SocketPair`, `Daemon`); texts read and written piece by piece (`Attributes`, `ProcfsEntry`); the rest |

`SmartLed` and `BlinkTimers` share `TimerFd` and `TimerMath`; `BlinkTimers`
splits an update into its calls, `SmartLed` takes an update as one step and
adds everything around it.  Both are shown to implement `SquareWave`.
`SmartStart` ends where `SmartLed` begins.  `ModuleLife` runs the lists of
`KernelModules`; what the loaded modules then do is in `CharDevice`,
`Attributes`, `ProcfsEntry`, `PollDriver` and `KickedThreads`.

### How the code appears

**BlinkTimers.**  `period_ns`, `duty_ns`, `init_period_ns`, `init_duty_ns` are
the file-scope variables of `timer.c`; `p1`, `p2` are the kernel's timers behind
`fd_p1`, `fd_p2`; `val` is the two `it_value`s computed by
`update_timers_value`; `pc` is where an update is: `Get1`, `Get2`
(`timerfd_gettime`), `Set1`, `Set2` (`timerfd_settime`).  `IncreaseTimerPeriod`
divides by `press_factor`, as the code does (its documentation at
`timer.c:221` says the period is increased; it gets shorter).  `HandleP1`,
`HandleP2` are the handlers of the loop.  `Elapse`, `Expire1`, `Expire2` are
the clock and the interrupts.  `spent` is a history variable that no guard reads:
has a timer been given, or been found with, no time left?

**SmartLed.**  `ready` is epoll's ready list: an item joins when it becomes
ready, `epoll_wait` scans it from the front, returns at most `MaxEvents` items
that are still ready, and puts them back at the end (level-triggered).  `batch`
is the part of the events array not yet handled; `pc` is `init`, `wait`,
`handle` or `exited`.  A handler of a timer is enabled only when its blocking
read returns.  `button` is the level of the pins, `edge` the edges sysfs has to
report; the value read is the level at the time of the read, as in
`clear_button_event`.  The `else` of the press timer's handler (neither
direction repeats) is kept as a branch of `HandlePress`; `RepeatHasOwner` says
what reaches it.

**SmartStart.**  `InitApp` is the row of calls of `init_app`, each a pair of an
operation and a pin, timer or epoll, and `next` the number of the one it has
come to.  `Possible` is what sysfs allows: only
a free pin can be exported, only an exported one unexported, configured or
opened; a pin that another driver has claimed is neither.  A failed call on a
pin is not looked at; a failed `timerfd_create` ends `init_timers` (on to
`Epoll`), whose result is not looked at either; a failed epoll call ends the start, which then
goes through `close_led` like the end of the loop.  `Kill` ends the process
anywhere, `Restart` runs it again over the pins as they are.

**PollDriver.**  `nb_of_interrupts` is the atomic counter; the interrupt handler
increments it and then wakes the queue in a second step; the `poll` method
registers, tests, and decrements in three.  `WakeUp` is `select` polling again.

**KickedThreads.**  Thread 1's `wait_event_interruptible` is unfolded into
`Prepare1`, `Test1`, `Scheduled1`; the exit function into `Stop2`, `Stop1`,
`Unload`.

**SocketPair.**  `stream` is the socket's queue of bytes, message by message; a
read takes all of it.  `buf` keeps its contents when a read fails, as the C
array does.

**CharDevice.**  `buffer` is `s_buffer`, `private_data` or `mydata->buffer` of
one minor; `off` the `f_pos` of each open file, `op` the call it is in.  The
seven drivers have the same write and two kinds of read, chosen once by `drv`:
up to the end of the buffer (`exercice02`, `03`, `05.1`) or of the text
(`exercice06`, `06.1`, `sample06.2`, `06.3`).  A call is `ReadBegin` or
`WriteBegin` (what the driver computes, and the NUL it places), then the copy,
byte by byte for a write, then `...End` or `...Fault`.  Comparisons of the
signed rest with the unsigned count are modelled by what they do (`Clipped`,
`Refused`).  The position changes only in a call that succeeds, because the
kernel writes `f_pos` back only then; so it makes no difference that some
drivers advance `*off` before the test and some after.  A refused write has
`count = -EIO`, a huge number: `WriteRefused` puts a NUL five bytes in front of
the position (it may cut text that was there) and the call fails.  The bytes of a
write are any, `NUL` among them.  Fixed at the start are `users`, the set of
files in use, `fits`, whether they only write what there is room for, and `plain`,
whether they write no `NUL`; a property that needs one of them names it.

**KernelModules and ModuleLife.**  Each function of a module is a sequence of
calls.  A call obtains or gives back one resource (`<<"misc", 1>>`, a chrdev
region, an allocation), follows a pointer (`on`), and has a rule that says when
it is made and what becomes of its result: *chained* (`if (status == 0) status
= ...`), *untested* (made on success, result dropped), *unchecked*, *noted*,
*latest* (overwrites the status), *required* (ends the function).
`ModuleLife` takes the list apart call by call; `Fail` lets any of them fail,
`Oops` follows a pointer that is not good.  The kernel around it is modelled by
what the modules rely on: an `init` that returns an error is followed by
nothing; `platform_driver_register` probes the device that is there; a failed
probe and every remove release what came from `devm_`; an open file keeps its
module but not its driver binding; devices are opened as soon as they are
registered.  `Instances` is not 0 because `exercice03` refuses to load with none
(`skeleton.c:109`).  `exercice06/skeleton.c` selects by macro among three ways to
register its driver; the one selected, `BOTH`, defines the init function twice
and does not compile, so the list follows the first, `INIT` (lines 199-221).

**Attributes.**  An attribute is a row of slots: one number, the fields of a
structure, or the bytes of a string.  A text is a row of words, each a number
of the process that writes or `Junk`.  `Parsed` is what `simple_strtol`,
`kstrtol`, `sscanf`, `strncpy` and `copy_from_user` make of a text; a store
puts the result in slot by slot, a show takes it out slot by slot.  The string
takes at most `Size - 1` bytes of what it is given and says so, and the caller
writes the rest again (`StoreAgain`).

**ProcfsEntry.**  Every read formats the number anew into a stack buffer and
copies from its *beginning*; the offset only limits the length, in an unsigned
comparison.  `Unset` stands for the bytes of `temp` that `snprintf` did not
write.  `WriteVal` converts a `temp` that nobody terminates: without a newline
a stray digit of the stack (`Stray`) may follow the number.

**SillyLed.**  The unexport and export of the pin, its configuration with the
first write (`Configure`), all untested, the first reading of the clock
(`StartClock`), then the loop: `ReadClock`, `Test`, `WriteLed`.  `Tick` lets up to
`MaxGap` units go by between two steps, from the first write on.  `since` is the
clock minus `t1`; `onset`, which no guard reads, tells the first phase.

**Daemon.**  `Following` leads from each step of `daemon.c` to the next;
`process.c` lacks the forks and begins behind them.  Each step may be refused by
the kernel, and does what the code does then.  `fd` is the descriptor table.  A handler is a frame on a
stack, in two steps: `syslog` and the load of the counter, then its store.
`syslog` opens the lowest free descriptor when it has no connection, and never
returns when its lock is held by what the handler interrupted (`Hung`).

**CpuGroups, MemGroup.**  The process tree of the two forks as written: the
first child runs out of its block into the second fork.  Blocks are allocated,
touched (which charges the group) and freed; the loops are those of the code.

**Oled.**  `part`, `row` and `written` say which function sends, for which row of
the display, and how many of its messages are out; `Messages` are all of them, as
the functions of `ssd1306.c` put them together, and `Following` is the order of
the calls, the loop of `ssd1306_clear_display` and `main`.  The next message is
`Received` or `Lost`.  `screen` is the display's memory, into which data go at its
own pointer.

**Programs, MCPrograms.**  These programs share nothing, so they are explored in
one run and proved about side by side: `prog`, chosen in the initial state, names
the one that runs, and the others' variables stay as they are.  `Programs`
instantiates the modules for any constants, assumes what the modules assume of
them (`ProgramsAssumption`), keeps each module's fairness, and repeats its
properties under their names; the proofs are about it.  `MCPrograms` adds the
values of the table below.

## 3. The runs

| run | shows | bounds and why they are enough |
|---|---|---|
| `blink_smooth` | the driver implements `SquareWave`, first expiries never negative | periods 6 and 9 (one odd, so roundings differ), up to 14; phases at least 1; several steps in both directions and resets |
| `blink_lag` | what alone stops a timer, and that it is for good; phases within the time one update took | up to 2 units inside an update, interrupts as late as they like (`LateExpiry`); start periods 8, 0 and -1, uneven duty (40%), steps without a lower bound, down to 0, and up past the largest long (1023); 4.9 million states |
| `smart_safe` | one owner of the repeat, events array, square wave | K1 and K3, both held at once; batches of two; init and epoll failures; the process arbitrarily slow; period 4 |
| `smart_live` | edges served, repeat stops, LED recovers | K1 and K2, one at a time; the same period |
| `smart_stuck` (violation) | the program can hang in a read | K1 alone |
| `poll_two` (violation) | two processes count interrupts that never were | two processes, two interrupts |
| `kicked_threads` | kicks real and delivered, exit ends, no code after unload | four 5-second time-outs, so several kicks and an exit at any point |
| `char_device` | text ends in the buffer, reads stay in their window, writes end the text | one text byte and the `NUL`, six bytes and an error number of 5, so that -EIO reaches into the text; two files, counts up to 2, positions up to 7, beyond the end |
| `socket_late` (violation) | a late parent never ends | five messages |
| `small_programs` | everything listed below for ten programs | see below |
| `module_life` | what unloading leaves, what a failed init leaves in reach, which calls follow bad pointers, what open files can rely on | all 21 modules; parameters `elements` 2 and `instances` 3; up to two children of the device-tree node (the code's distinction is 0, 1, several); one unbinding, so a bind after it; any number of failing calls |
| `module_leftover` (violation) | a device outlives its module although no call failed | as `module_life` |

What `small_programs` checks, per program:

| program | properties | instance |
|---|---|---|
| `SocketPair` | `InOrder`, `ParentEnds` | five messages as in the code, three signals, timely and late parents, a child killed at any point |
| `PollDriver` | `NoPhantom`, `AllCounted` | one process, six interrupts, whose wake-ups may overtake each other |
| `Attributes` | `ShowStops`, `StoreTakesEffect`, `ShowTellsTruth` | two processes, a buffer of 3, texts of up to 3 words, so that a string needs two pieces and a structure is complete |
| `ProcfsEntry` | `WholeText` | numbers of one and two digits, a text of 4, a write buffer of 3, pieces up to 5 |
| `SillyLed` | `PhaseLength`, `LedBlinks` | periods 0, 100, 199 (both phases empty; the division exact; the division truncated), delays up to 2 |
| `Daemon` | `Detaches`, `CountExact`, `DaemonEnds` | daemon and process, root or not; two signals, three sent, so handlers nest twice; five descriptors; two units of sleep |
| `CpuGroups` | `GroupsApart` | the program itself |
| `MemGroup` | `FreedAll` | four blocks, a limit of three |
| `Oled` | `DamageContained` | three rows of three characters of two columns, columns sent in two halves; two lost writes |
| `SmartStart` | `CleanLife` | the LED's and K1's pins claimed or left over; two runs; two failing calls |

`TypeOK` there is the conjunction of the ten type invariants.  Those of
`KickedThreads` and `CharDevice` are not among the runs: they are conjuncts of
the proved inductive invariants.

Some properties name exceptions, because the code has them: `UnloadComplete`,
`FailedInitIsInert`, `OpenFilesServed` and `StrayCallsExplained` list the
modules and circumstances in which the promise is not kept, so that a module
that joins or leaves the list breaks the run; `Detaches` excepts a handler that
called `syslog` while the standard descriptors were closed, `CountExact` nested
handlers, `DaemonEnds` a handler called inside `syslog`, `WholeText` pieces and
writes in between.

Every property has a mutant in `PROJECT.json`: a plausible slip in one mapped
definition (kept next to it, marked `(mutant)`) that breaks it.

### Bounds

`MaxPeriod` caps the period from above and `MinPhase`, where it is not 0, each
phase from below: in `BlinkTimers` a step outside them is not taken, in `SmartLed`
it leaves the period alone (the handler has other effects).  The code has no such
limits.  `blink_lag` has none either: its `MaxPeriod` is `LongMax`, the word size,
beyond which arithmetic wraps, and its `MinPhase` is 0.  `blink_smooth` and the
runs of `SmartLed` have phases of at least one unit, because the square wave they
compare with has edges.  With `K1` held for some twenty seconds the code gets
beyond that: the period reaches 0, the timers become one-shot and run out.

`MaxLag` bounds
the time inside one update, `Hands` how many buttons are in use at once,
`MaxCount` and `MaxOff` the bytes of one call and the positions, `MaxText` the
words of a text, `MaxGap` the time between two steps of a loop,
`MaxInterrupts`, `MaxTimeouts`, `MaxSignals`, `MaxUnbinds`, `MaxRuns` and
`MaxFailures` count events of the environment.
`LateExpiry = FALSE` (`blink_smooth`) says that a due timer's interrupt runs
before the process does; with `TRUE` (`blink_lag`) `timerfd_gettime` may answer 0.

Deadlock is checked in `blink_*`, `smart_safe`, `smart_live` and `char_device`,
where somebody can always do something.  In the others the programs end, the
environment runs out of bounded events, or (`smart_stuck`) the program hangs.

### Fairness

* `SmartLed`: `SF(Process)`.  The process is runnable whenever no expiry
  interrupt is due; with timers of one or two units it is preempted over and
  over, and a scheduler that runs it in between gives strong, not weak,
  fairness.  `WF(Elapse)`, `WF(Expire)`: time passes and interrupts run.  The
  user owes nothing.  `LedRecovers` assumes in addition that from some point on
  no time passes while the process has work (`KeepsUp`).
* `PollDriver`: interrupt handlers finish, processes are scheduled.
* `KickedThreads`: both threads and the exit function are scheduled; the sleep
  of thread 2 ends.
* `SocketPair`: both processes are scheduled.  Whether the child's `sleep(2)`
  outlasts the parent's delay is the fixed choice `timely`.
* `SillyLed`: the process is scheduled; time passes (strongly, because a step
  of the loop may always come first).
* `Daemon`: the process and its handlers are scheduled; nobody has to send a
  signal.

## 4. What the violations are

* `PressReadReturns`: `[K1 released, press]` in one batch: the first handler
  stops the press timer, the second reads it for ever.
* `CountIsReal`: two pollers decrement 1 twice; the counter stays at -1, which
  is "non-zero", and every later poll succeeds.  With one process the same
  property is a theorem (`OneCountsExactly`).
* `ExitHeeded`: "Bye" and "exit" arrive in one read; "exit" is not compared;
  after the child's close `read` returns 0 for ever.
* `UnloadedMeansGone`: `exercice05.1` destroys device number 0 instead of the
  one it created (and `sample06.3` deregisters only its last child).

Other behaviours of this kind contradict nothing the repository says.  They are
recorded in the properties that hold, as what these have to leave out:

* `LedRecovers`: when p1 expires and K1 is handled before it, `start_timers`
  forgets the expiration and the LED stays on for a whole period.
* `BlinkArmed`: an update that finds a timer with no time left, because its
  interrupt is late or because the period has come to 0, hands the 0 back to
  `timerfd_settime`, which disarms the timer.  No button brings it back: every
  later update reads 0 from it and hands that on.
* `EndOfText`: a second file, the `NUL` of a refused write or a `NUL` among the
  bytes written leaves the position behind `strlen`; the rest is negative, is
  compared unsigned, and the read goes on behind the end of the text.
* `OpenFilesServed`, `FailedInitIsInert`, `UnloadComplete`, `StrayCallsExplained`:
  the modules and circumstances they name do lose memory under open files, leave
  callbacks into freed code or leave devices behind.  The properties do not watch
  over these; they say that it happens nowhere else.

## 5. What is proved

All proofs are checked by TLAPS without assumptions beyond the `ASSUME`s of the
modules, their `...Assumption` definitions, and those stated in the theorems.

* `BlinkTimersProofs`.  `StaysArmed` and `WaveKept` assume nothing of the
  constants: they hold for every period, 0 and negative ones among them, every
  duty, factor and word size, updates of any length and interrupts of any delay.
  `LagInv` has three parts.  `Typed` are loose types (an overflow makes a period
  negative) and says that a timer that is off has no time left.  `Frozen` follows
  a 0 from the timer it was read of through `cur` and `val` back into a timer:
  once `spent`, one of the two is off at rest.  `Running` says that until then
  what is read is positive, so that a sound shape arms both timers whatever ran
  before, and how far p1 may have drifted from `val[1]` between the two restarts:
  it is at most `lag` behind, or it has expired once and is as far behind the
  period (`Drifted`).  That it cannot expire twice, and that the drift cannot turn
  one phase into the other, is where `Thick`, phases longer than an update, is
  needed.  What an update reads of the timers only has to be positive: errors of
  one update are not handed on to the next.
  `TypeCorrect` assumes `MinPhase >= 1`: below it periods overflow and go negative.
  `DriverImplementsWave` assumes `Smooth` (no time inside an update).  Its
  invariant `SmoothInv` says for every value of `pc` how the timers stand to
  each other: while an update is under way they still have the *old* phases, so
  it ties `cur` and then `val` to the timers instead, until both have been set.
* `SmartLedProofs`: `RepeatOwned` (`RepeatHasOwner` for every set of buttons,
  batch size, period and interleaving), through `OwnerInv`.
  `LoopTypeCorrect`: all types, among them that the kernel's ready list holds no
  descriptor twice and a batch never overruns the array of events (`LoopInv`).
  What `epoll_wait` picks from that list is a `SelectSeq`; the proof goes by the
  least counterexample among the natural numbers (`LeastOf`, `UpTo`), an induction
  that needs no operator as a parameter.
  `ProgramImplementsWave`: the whole loop refines `SquareWave`.  It assumes
  `Lasting`, that no phase in use is shorter than one unit of time (`MinPhase >=
  1`), as the runs' bounds do; `TimersInv` says how the two timers stand to each
  other before and after `start_timers`.
* `KickedThreadsProofs`: `KicksReal`, `UnloadSafe`, through `KickInv`, which
  counts the kicks that are under way.
* `CharDeviceProofs`: `TextTerminated`, `ReadsStayInside`, `TextEndsReads`,
  `WritesEndTheText`, for every size of the buffer, every count and any number
  of files.  `DeviceInv` adds two facts: an accepted write lies wholly inside
  the buffer or wholly behind it (`WritesFit`), and what the only user has
  copied so far, and its NUL, are still there (`WriteUndisturbed`).  `EndOfText`
  counts bytes with `strlen`; `StrlenIs` turns that into a statement about the
  bytes themselves, which is what the steps preserve.  `Terminated` and
  `ReadsInside` hold whatever is written, `EndOfText` needs `fits` and `plain`;
  that is a condition in the property, not an assumption about the constants.
* `ModuleLifeProofs`, about all 21 modules at once, for any number of list
  elements, buffers, children of the device node and unbindings.  It comes in two
  halves.  The first reads the lists of calls.  One lemma per module says what
  the later proofs need of its list, without regard to any state: whether a call
  finds what it relies on among the earlier ones (`Supplied`) and not yet given
  back (`Ordered`), whether exit gives back all that init asks for (`Returned`)
  and relies on nothing else (`Matched`), whether anything that can fail comes
  after what the kernel calls (`Inert`), whether the memory of a device comes
  before the device (`Founded`).  `InitFunctions` and `PlatformFunctions` collect
  them; a driver that keeps these keeps the theorems.  The second half follows
  the calls that are left (`todo`), never the module:
  `Base` says which calls may be left in which phase, `Loading` that while no
  call has failed they find what they rely on.  On these stand one invariant for
  each property.  `UnloadsCompletely`: `Tracked`, what is held will be given back
  by the calls left, or by exit, or by the driver core.  `StraysExplained`:
  `Stray`, for the careful modules also after a failure, because there every
  call left is guarded by the status.  `FailsInertly`: `Quiet`, once
  something is there that the kernel would call, the status is 0 and no call left
  can change it.
  `FilesServed`: `Shut` (no door is open once exit has begun), `Buffered` (the
  buffers of `exercice03`) and `MiscServed` (each misc device has its memory, as
  long as the driver core has not taken it).
  The modules and failures these properties except are all needed: with any one
  of them struck out, TLC has a counterexample within the bounds of the run.
* `ProcessProofs`, about `Programs`.
  `WakeUpsKept`, for any number of processes: whoever sleeps while interrupts are
  there to be counted has been woken or is about to be.  It rests on
  `Registered`: who has polled is on the wait queue, because `poll_wait` comes
  before the test.  `OneCountsExactly`: one process alone never counts too much,
  through an equation between what occurred, the counter, and what was printed
  (`ExactInv`).
  `AnnouncedInOrder`, for any number of messages, signals and a child that dies:
  `OrderInv` places the messages; what was announced comes before what is in
  `buf`, and that before what is in the stream, which has no gap and ends with
  the last one written.
  `CountsExactly`, for any number of signals: `CountInv` bounds what every
  handler on the stack has loaded by the handlers that have ended, and says that
  without a nested one there is at most one handler and what it has loaded is
  exact.
  `ComesUpDetached` has two invariants.  `PlaceInv` says for each step of the
  start which session, directory and ids the process has by then.  `PlugInv` is
  about descriptors, for any table of them: how far the loop that closes them has
  come, which are closed, and that the log's is the only other one open, unless a
  handler's `syslog` has taken one of the first three.
* `TextProofs`, about `Programs`.
  `ShowsStop`, `ShowsTellTruth` and `StoresTakeEffect`, for all five kinds of
  attribute, every size of the buffers and any number of processes.  One
  invariant carries them, `AttrInv`: every call is well formed (`AttrTyped`),
  and every call that no other has disturbed has so far done what it should
  (`Undisturbed`): a store has put into its slots what its piece of the text
  says and left the others as they were, a show has found what is there.  The
  last byte of the text attribute is only ever written by a store whose piece
  fills the buffer, and then with the NUL; that holds of disturbed calls too and
  is why every show stops.
  `ReadsWholeText`, for every text and any pieces: `ReadSoFar` relates what the
  reader has got to its position, and `EntryInv` keeps the text one that
  `snprintf` has written, as long as nobody writes.
* `ProgramProofs`, about `Programs`.
  `PhasesHold`, for every period and delay: `PhaseInv` keeps the distance of two
  moments, the clock reading that ended the last phase and the write it led to
  (`Clocked`): it is below one delay, whatever came before, which is why
  lateness does not add up.  In the first phase the reading comes after the write,
  and the phase may be longer by that delay (`Slack`).
  `AllBlocksFreed`, for every number of blocks and every limit: `MemInv` says of
  each pointer whether it is still to come, allocated, freed or never set, from
  where the loop stands.
  `GroupsStayApart`: `CpuInv` says which processes of the tree there can be at
  which stage of the others.
  `LivesCleanly`: `Place` gives each of the 29 calls of `init_app` its number,
  and `Prepared` says of every pin and timer what a call that has been passed has
  left behind: the state it is meant to bring about, or a reason.  That an
  `unexport` comes before each `export` is what makes it hold over whatever an
  earlier run left.
  `DamageStays`, for every size of the display, all texts that fit and any
  number of failures: `Aimed` says that in a row no failure shows in the
  display's pointer is where the program believes it to be, `Drawn` what is
  cleared and what has its text from where the program stands, and `SwitchedOn`
  that the display is on.  `Painted`, what one message changes, is the same for a
  message that arrives and for one that is lost, so that `DrawnMoves` is proved
  once.
  `TypesKept`: the type invariants of all ten programs, from the invariants
  above and what little they lack (`PollTyped`, `SocketTyped`, `SignalsInv`,
  `ClockInv`).

Only model-checked: the liveness properties (`ButtonServed`, `RepeatStops`,
`LedRecovers`, `KickDelivered`, `ExitCompletes`, `ParentEnds`, `AllCounted`,
`LedBlinks`, `DaemonEnds`), since TLAPS does not do liveness under fairness.
Every invariant and action property of a passing run is stated by a theorem.

## 6. Not modelled, and what is left

Not modelled, with the reason:

* `procstat`: a third-party formatter of `/proc/<pid>/stat`;
* the exercises of `06_optimization` and the remaining demonstrations of
  `01_environment` (leaks, crashes, back-traces, tracing, Fibonacci): subjects
  of measuring tools, without behaviour beyond the measured loop or crash;
* the user-space mapping programs (`exercice01`, `04`, `sample01`): straight-line
  programs that map a device, read it and end;
* of the character devices `pread`/`pwrite` and two processes that share one
  open file; of `exercice08` the mmap method, one remap call without state; of
  `exercice09` the two commands that carry one number, each one assignment; of
  `02_modules/exercice06` the body of its single thread, a sleep and a print;
* `close_buttons` and `led_toggle`, which nobody calls; the font table and the
  register values of the display, which are data;
* build, boot and deployment files.

What is left: the Fibonacci functions as pure recursive functions against each
other.
