# sysvkit in TLA+

sysvkit runs systemd units on machines that have System V init.  This directory
models it in TLA+, checks the models with TLC, and proves the central results with
TLAPS.  Source paths below are relative to `src/src/`.

## The system

* **`sysvrun`** is what an init script runs.  `sysvrun start` reads a unit file and
  daemonizes a *monitor* (`sysvrun/monitor.c`) for the service.  The monitor starts the
  service, follows all its processes, restarts it as the unit's `Restart=` asks, and
  serves a *control socket* through which later commands (`stop`, `restart`, `reload`,
  `status`; `sysvrun/service.c`) reach it.
* The monitor learns of forks, sessions and exits from the kernel's *process event
  connector*, a netlink multicast.  `common/cn_proc.c` speaks the protocol;
  `common/procwatch.c` keeps the *table of descendants* from it.
* **`fork.c`** runs a function in a child or daemon and learns through a *report pipe*
  whether it succeeded.  Both `sysvrun start` (to start a monitor) and the monitor (to
  start the service) use it.
* A *start limiter* in the monitor gives up when a service restarts too often.
* **`systemctl`** imitates the systemd command: it invokes init scripts
  (`systemctl/start-stop.c`, `reload.c`, `status.c`, `show.c`) and keeps the links in
  `/etc/rc?.d` (`systemctl/service.c`, `enable-disable.c`).
* **Commands** of a unit (`ExecStart=`, `ExecStop=`, `ExecReload=`) are built, given their
  directories and credentials, and executed by `sysvrun/command.c`, which also reads and
  removes PID files.
* **Unit files** are parsed by `sysvrun/systemd.c` into a table (`common/unit.c`), with the
  help of `common/text.c` and `common/timespan.c`.  `sysvrun convert` embeds a unit in an
  init script, which `sysvrun/sysvinit.c` reads back.
* The rest is lists, environments, logging, and `mockd`, a daemon for tests.

## The modules

| Module | Models | Its state |
|---|---|---|
| `StartLimit` | the ring of start times in `monitor_func()` | clock, ring, cursor |
| `Kernel` | (external) processes and the event socket | live processes, session leaders, queue of events |
| `ProcTable` | what procwatch promises: tracked processes, and those to collect | one value, `table` |
| `ProcWatch` | `procwatch.c` over `Kernel` | one function per field of `struct process`; ready list |
| `Monitor` | `monitor.c`, the server: `monitor_func()`, `_watch()`, `_wait()`, control requests | fields of `struct monitor`, locals of `monitor_watch()`, `pc`; over `Kernel` and `ProcTable` |
| `MonitorLife` | what a client can see of a monitor | type, state, phase |
| `Control` | commands of several clients (`service.c`), the client half of the control socket, over many `MonitorLife`s | program counter and locals per client; who is bound to the socket |
| `CnProc` | `cn_proc.c` and starting, reconnecting and stopping procwatch, several monitors | kernel's listener count, sockets, `listening` |
| `ForkReport`, `ExitCodes` | `fork.c`: parent, intermediate process, child, pipe; the codes it passes on | program counters, pipe contents, holders of the writing end |
| `Command` | `command.c` over `ForkReport`: building a command, the system calls of `command_exec_func()`, PID files | the `struct command`, calls yet to make, credentials of the child |
| `Service` | one command of `service.c` from beginning to end, over `Command`: prerequisites, all plans of `service_stop()`, reload, status | stack of activations, locals; what each monitor tells; the PID file |
| `Text`, `Timespan`, `UnitFile` | `text.c`, `timespan.c`, `systemd.c`, `unit.c`, `sysvinit.c`, and the settings in `service.c`, as operators on texts | none |
| `UnitRules` | the rules that comments of `systemd.c` and `timespan.c` state, as reference definitions | none |
| `Output` | `byte_array_to_file()` and its callers, several processes, any texts | temporary files, the output file, exit statuses |
| `Convert` | `sysvrun convert` and `sysvrun show`: `UnitFile` and `Output` together | adds the input and the service loaded |
| `RcLinks` | `service_manip()`, one system call per step, several commands | directories, locals of the scan |
| `Systemctl` | the commands of `systemctl` over lists of services, several users | services' states, locals of the command |

`MCx` instantiates `x` for TLC.  `xProofs` holds the proofs about `x`; those about
`Output` and `RcLinks` are in `FileProofs`, and `ServiceProofs` is also about `Command` and
`ForkReport`.  Two refinements tie the layers together: `ProcWatch` implements `ProcTable`, on whose
operators `Monitor` is built, and `Monitor` implements `MonitorLife`, on which `Control` is
built.  `Convert` extends `Output`: each of its steps is a step of `Output` with the text
said, so that what is proved of `Output` holds of it.  `ForkReport` has no run of its own:
it runs in `Service`, below the functions that the code really forks.

Actions carry the names of the C functions where there is one action per function; long functions are split where they block or where other processes can be
noticed to act.  `PROJECT.json` maps every definition to its lines.

Definitions whose comment begins with *Mutant of* are not part of the models.  They are
faulty forms of a definition, kept to show that a property can fail.

### Granularity and abstraction

* In `Monitor` a turn of `monitor_watch()` is: wake up (serve one request, maybe run a
  kill pass), ingest all events, collect processes.  The service's processes may act
  between any two of these; with `Still = {"done"}` (run `MonitorKills`) also
  within them, between any two events.
* Time in `Monitor` is abstract: `sent` tells whether the last kill pass is longer ago
  than `TimeoutStopSec`, and `early` whether the uptime is below it, which matters
  because zero stands for "never" in `ko.sent`.  The start limiter's verdict is arbitrary
  there and has its own module.
* Types `exec` and `simple` behave alike and are one type, as are `notify`, `dbus` and
  `idle`.
* In `Control` a request waits in the listen queue until the monitor serves it or is
  gone.  Deadlines pass at any time.  The outcome of prerequisites and of `ExecStop` is
  arbitrary.  Monitors speak the current protocol version.
* In `CnProc` acknowledgements go to everybody connected while the kernel's count is
  positive.  A socket that is full drops them.  Sequence numbers play no part, because
  the code does not look at them.
* `Service` follows one client through its whole command, `Control` several clients
  through the parts that interact.  In `Service` a monitor is only the state it tells; it
  acts by itself and for other users, but for services outside `busy`, which keep still.
  A prerequisite is a nested activation of `service_start()`.
* In `Command` a program is there, missing, or not found in `PATH`.  A failing call that
  nothing in the unit explains sets `fault`; properties about reasons need that there was
  none.  Calls of `command_exec_func()` that the unit does not need are skipped.
  `execve()` and a report through the pipe are one step: the pipe closes on exec.
* In `Command` a program was looked up inside the root directory, and is executed by a path
  that has the root directory's in front, after that was entered: with a `RootDirectory=`
  other than `/` the call fails.
* In `ForkReport` a `read()` of the pipe gives a whole report or the end of the file.  It
  cannot fail: the descriptor is open and blocks, no signal has a handler, and a report is
  far smaller than the pipe.
* Texts in `UnitFile` are sequences of tokens: a word, a digit, a blank, a quote, a
  backslash, a line end, a control character.  Sizes of buffers count tokens.  `sWords` and
  `tWords` tell which words make a blank of a backslash before them.
  Case in booleans, and the effect of the umask on the mode of the output, are left out.
* Hash tables are run through in every order (`Render`).
* In `RcLinks` an uninitialised `sb` is an arbitrary choice.

## What is checked

Constants prefixed `Max`, and `Horizon`, `FirstRl`, `LastRl`, are bounds, and appear in
guards only; `Word` and the sizes of buffers are small where the code's are large.  Deadlock is not checked where the modelled system really may stop: a
monitor that is done, commands that have returned, a clock at its horizon, an event
socket without events.

### Runs that pass

| Run | Shows | Bounds and size |
|---|---|---|
| `StartLimits` | any `Burst`+1 consecutive starts span the interval (`RateBound`) | 14 ticks, ring of 3, several laps |
| `ProcWatchTable` | parent pointers and child lists agree and nobody is collected twice (`Consistent`); without losses no dead process is taken for running (`NoGhosts`); `procwatch.c` implements `ProcTable` (`ImplementsTable`) | 3 processes with reused numbers; 277,000 states |
| `MonitorUnits` | orders are obeyed (`OrderObeyed`); signals follow orders (`SignalsOrdered`); restarted when, and only when, the main process really ended in a way the policy names (`RestartJustified`, `PolicyFollowed`); the watch does not end before the main process, even if events are lost (`WatchedToTheEnd`); `Monitor` implements `MonitorLife` | every type, kill mode and policy; 2 processes, 2 starts, 2 orders, 1 loss; 1,050,000 states |
| `MonitorKills` | instances do not overlap (`OneInstance`); an empty table means that nobody is left (`NoneLeftTrue`); a stop order ends the monitor (`StopEnds`); the end of the main process is noticed (`MainExitNoticed`) | every kill mode; 3 processes that act between any two events and end cleanly or by a signal; liveness; 740,000 states |
| `ControlTruth` | one monitor at a time (`OneMonitor`); a reported start, stop or restart really happened (`StartTruth`, `StopTruth`, `RestartTruth`) | 2 of start, stop and restart at once on top of an earlier monitor or none, without faults and with failing requests and monitors; 639,000 states |
| `ControlReturns` | every command returns (`CommandsReturn`) | liveness; 2 of start, restart, status and reload at once, a service that may fail to execute; 67,000 states |
| `CnProcCounts` | the kernel's count covers all who listen (`Covered`), with crashes, failing sends, reopened sockets, others' acknowledgements and refusals | 2 monitors and another program; 85,000 states; also checked once with 3 monitors (3,600,000 states) |
| `ServiceCommands` | a superuser's command runs with the directories and credentials the unit asks for (`ExecAsAsked`), and is not kept from running by an earlier step (`FailsForReason`); forks are reported truly (`ReportTruth`), and so are reloads (`ReloadTruth`) and stops (`StopAccounted`); nothing is started before what it requires (`Grounded`); a PID file outlives its process (`PidFileKept`); commands return (`CommandReturns`) | 3 services, in a chain, a fan and a cycle, and a missing one; 2 users; 121 cases of verb, units and user; liveness; 156,000 states |
| `UnitFiles` | the parser, the splitting of words and time spans do what the rules say (`ParseMeans`, `SplitMeans`, `SpanMeans`); whole services survive writing and reading (`RoundTrip`); output is whole and exit statuses are true (`OutputWhole`, `ConvertTruth`) | 2,657 unit files, 878 time spans, two processes on one output; word of 12 bits; 135,000 states |
| `RcCommands` | after `enable` or `disable` the links are right in every runlevel without an error, and the count of `is-enabled` is right (`CommandsDone`); others' links are kept (`OthersKept`) | 2 commands at once, 2 runlevels, one of each kind, 36 contents; 1,941,000 states |
| `SystemctlCommands` | exit codes mean what they say (`SuccessMeans`, `CodeTrue`); `try-` commands act only on what they saw running (`TryNeverStarts`) | 2 users, 2 arguments, every command; 1,356,000 states |

What is proved below for every instance is not all checked again: the type invariants of
`StartLimit`, `Control`, `CnProc`, `ForkReport` and `Output`, `RingIsHistory` and `NoLitter`
have proofs and no run.

The bounds let the interesting cases happen.  Three processes are a main process, a
child that may be orphaned, and a second instance or a grandchild; two are enough for
what is said of the main process and its successor.  Two starts are needed for anything
about restarts, and two orders for a stop overtaken by a restart.  A queue of two events
separates a fork from its event.  Runlevels 5 and 6 stand for those with start links and
with stop links, which is all the code tells apart.  `MaxDepth` of 3 holds the longest
chain of three services; a cycle reaches it and stays there.  The lines of the unit files
were chosen for the cases of the parser, and those of the second section come in pairs in
both orders; values and buffers are of a size that some values just fit and some just do
not; and the numbers of time spans lie around the word and its quotients by the units.

### A run that fails

It checks one sentence of a comment against the code and finds an execution that
contradicts it; `PROJECT.json` quotes the sentence.

| Run | The code |
|---|---|
| `ForkingOrderLost` | a stop order comes in before the child of a forking service is collected; its readiness sets `mon.state` to running, and the order is forgotten |

### Where the properties are qualified

The models follow the code in each of the following.  A property that would not hold
because of one of them says so in its hypothesis.

* **Orders** (`OrderObeyed`): readiness overwrites an order to a forking service
  (`sysvrun/monitor.c:669`) and to a one-shot service (`:688`).
* **Types never reported running** (`RestartJustified`, `PolicyFollowed`):
  `notify`, `dbus` and `idle` stay in state restarting after a restart, and are restarted
  whatever the policy when they end (`:941`).  For the same reason a new instance of any
  type but `simple` and `exec` is taken for one that is to be killed (`:556`,
  `SignalsOrdered`).
* **Forking services** (same properties): a daemon that fails before it is identified
  leaves no status, which counts as clean (`:703`); the previous instance's main PID is
  kept over a restart (`:638`).
* **Kill passes**: the first pass misses processes whose fork event is unread (`:604`),
  and the watch ends while descendants of the main process may be alive (`:696`).
  `OneInstance` speaks of the main process only, and `NoneLeftTrue` of an empty table.
* **Start limiter**: within the interval after boot the zeroes of the unused slots count
  as starts (`:854`), so a service may be given up early.  `RateBound` is one-sided.
* **Commands**: a service that could not be executed is reported started, because
  `monitor_func()` tests a variable that is never set (`:993`; `StartTruth` needs that
  there is no such fault).  `service_restart()` may go on after a failed stop
  (`sysvrun/service.c:808`; `RestartTruth`).
* **Connector** (`Covered`): `cn_proc_send()` returns -1 on failure, which the caller takes
  for success (`common/cn_proc.c:200`), so another's acknowledgement is taken for one's
  own; and another's refusal, heard while disabling, makes the next enable do nothing
  (`:207`).  The variable `misled` remembers these two.
* **Report pipe** (`ReportTruth`): end of file counts as success, also when the child was
  killed (`common/fork.c:211`).
* **Links, dangling**: after `ENOENT` from `fstatat()` the previous, or an uninitialised, `sb`
  is looked at (`systemctl/service.c:205`), so that a dangling link may be taken for the
  service's own, and deleted.  `OthersKept` speaks of links to another script and of
  files.
* **Links**: something that is not a link keeps `enable` from creating its own, without an
  error (`systemctl/service.c:238`), as does a dangling link of its name; `CommandsDone` needs
  `Clear` for `enable` and `NoneDangles` for `is-enabled`.  Links of
  all runlevels count for `is-enabled`, stop links too (`:260`).
* **Lists of services**: a name without an init script ends the command
  (`systemctl/start-stop.c:73`), and a service that ends between the two invocations of
  its script is started by `try-restart` (`:45`).

* **Prerequisites**: services that require each other make `service_start()` call itself
  without end (`sysvrun/service.c:547`; `CommandReturns` excludes cycles, `Grounded` does
  not).  A prerequisite whose monitor was killed, or could not execute it, counts as
  started (`Grounded` needs that there is no such fault).
* **Credentials** (`ExecAsAsked` is about the superuser): zero stands for a key that is not
  given, so `User=` and `Group=` of the superuser are not switched to by others; a user
  without a group keeps the groups of sysvrun; the working directory `~` is never
  resolved.
* **PID files** (`PidFileKept`, `StopAccounted`): with `KillMode=none` plan C signals nobody
  and removes the file of a live process; it removes it also when the signal failed, and
  when a new process has written its number since (`sysvrun/service.c:742`).
  `StopAccounted` counts a monitor of an old version that was signalled as stopped,
  as the code does.
* **Unit files** (`ParseMeans`, `RoundTrip`): the reference rules are stated for whole lines
  of printable characters.  Any other character ends a value, and the rest of the line is
  parsed as a new one.  A value that is continued right after `=`, or set after it was
  erased, begins with a blank, and then is not taken for a type, mode or policy; merged
  values may be too long for the line they are written to, and a backslash at the
  end of a value joins it with the next: `RoundTrip` needs `Plain` values.
* **Words** (`SplitMeans`): an escaped character is seen a second time
  (`sysvrun/systemd.c:155`), so values with a backslash are excluded.
* **Time spans** (`SpanMeans`): a product of number and unit wraps unnoticed
  (`common/timespan.c:91`, `:133`; `PartsFit`), and a sum may equal `TS_INFINITY`.
* **Output**: without `-o` a failure to flush at exit is not noticed, so `ConvertTruth` is
  about output files.  A unit file that cannot be parsed makes `service_find()` try the
  init scripts.

### Where the code and its documentation disagree

The models follow the code.  Only the first disagreement has a run; the others are stated
here, with the property that says what the code does instead.

| Said | Done |
|---|---|
| a forking service without a main process is given one chance "before we give up" (`sysvrun/monitor.c:559`) | the order is forgotten once the child is collected (`:669`); run `ForkingOrderLost` |
| the monitor loops "until all descendants have terminated" (`sysvrun/internals.md:74`; `sysvrun/monitor.c:515`) | the watch ends with the main process, unless the service is being stopped and its kill mode is not `process` (`:692`); `WatchedToTheEnd` says what remains |
| the outcome of the last descendant stands for that of the service (`internals.md:78`) | the status of the main process alone is kept; `RestartJustified`, `PolicyFollowed` |
| the restart policy decides, and a restart waits for `RestartSec` (`internals.md:80-82`) | `notify`, `dbus` and `idle` units are never reported running: they are started again from state starting at once, without policy, delay or start limit, or, after an order to restart, from state restarting whatever their policy (`monitor.c:941`); the two properties above leave them out |
| "Did we get a stop or restart order?" (`monitor.c:555`) | state restarting is also that of a restarted instance that is not reported running, which is sent signals without an order; `SignalsOrdered` is about `simple` and `exec` |
| the monitor ends with `EXIT_FAILURE` "if (pid < 0)" (`monitor.c:993`) | nothing sets `pid` when the service cannot be executed, and success is reported; `StartTruth` leaves this out |
| an existing output file is truncated, and deleted in case of error (`sysvrun/sysvrun.md:25-26`) | it is replaced as a whole or kept as it was; `OutputWhole` |
| enabling, disabling and being enabled are about runlevels 2 through 5 (`systemctl/systemctl.md:72-74`, `../README.md:51`, `systemctl/service.c:280-313`) | all seven are scanned and given links, stop links in 0, 1 and 6, and these count as enabled, too; `CommandsDone` is about all seven |
| "This links to our service." (`systemctl/service.c:210`) | a dangling link is judged by the previous one's `sb`; `CommandsDone` and `OthersKept` leave out the cases where that misleads |
| a command is resolved "relative to the command's root" (`sysvrun/command.c:120`) | the path found has the root directory in front, and is looked up once more inside it, so that only `RootDirectory=/` works; `FailsForReason` counts this as a reason |

### Fairness

* `Monitor!Fairness`: weak fairness of the monitor's own steps, of `poll()` returning
  when events wait, and of delays and timeouts passing; and that the kernel ends a
  process that was sent SIGKILL.  Nothing is assumed of the service's processes.
* `Monitor!ClientPolls`, the hypothesis of `StopEnds`: requests keep coming.
  `monitor_control_wait()` polls the status until the monitor stops.  It is needed,
  because `monitor_watch()` polls without a timeout, so nothing else wakes it when a kill
  timeout passes.
* `Control!FairSpec`: a monitor neither stays busy nor sleeps for ever (weak); a client
  whose request can be served again and again is served, since it waits in the listen
  queue, and a deadline that stands is noticed (strong).  A running service need not end.
* `Service!FairSpec`: sysvrun and the processes that it forks run on, a new monitor comes
  to a verdict, and the program of a command that `command_run()` waits for ends.  Nothing
  is assumed of other monitors and users.

## What is proved

Proofs hold for every value of the constants that satisfies the named assumptions, hence
for any number of processes, clients, users, services or texts.  Every safety property
that a run checks is also a theorem, except those of the last paragraph.  Each theorem is
proved from an invariant that is stronger than the property; what it adds is what the code
relies on without saying so.

**`StartLimitProofs`** (`LimitAssumption`): `TypeCorrect`, `RingHistory` and
`StartRateBounded`.  The bound is not inductive by itself: the test looks at one slot
only.  `StartLimit!IInv` adds that the ring is the recent history (`RingIsHistory`), hence
the slot under the cursor is the start `Burst` starts ago, and that no start is planned
further ahead than the delay (`PlannedNotAhead`), hence the unsigned difference does not
wrap.  `RateBound` itself is stated for clocks and delays that do not overflow the word
(`NoWrap`).

**`ProcWatchProofs`** (`ProcWatchAssumption`): `StructuresSound`, `NoGhostsKept` and
`TableImplemented`, which is the refinement of `ProcTable`.  `ProcWatchInv` has a part about
the kernel and one about the table.  An exit event is the last one that names its
process (`ExitsLast`), so an event read later cannot bring the process back; without it
neither `NoGhosts` nor that a process is handed out once is inductive.  The parent
pointers form a forest, and the list of collected processes has no duplicates.

**`MonitorProofs`** (`MonitorAssumption`):

* `TypeCorrect`, which includes that there are at most two kill passes.
* `OrdersStayObeyed`.  `IInv` adds that a monitor that reads orders is in no final state,
  and that one about to fork is restarting.  For forking units `ForkingOrderLost` refutes
  the property.
* `SimpleSignalsOrdered`.  `SInv` adds that during the watch of a simple service a
  stopping state means that an order came in.
* `LifeImplemented`, the refinement of `MonitorLife`.  It needs `StateInv`: in which states
  `monitor_func()` starts, watches and waits.
* `PolicyIsFollowed`, `RestartsAreJustified` and `OneAtATime`.  They rest on a chain of
  invariants.  `EventInv` keeps processes, queue and table in step.  `MainInv` says that
  the status the monitor has recorded, or will have once it has read the queue and
  collected the process, is the one the main process ended with.  `OrderInv`, `FateInv` and
  `JustInv` say why a service is about to be started again.  `KillInv` says that a main
  process not seen to end is tracked, or will be before the passes are over, and has been
  sent SIGKILL after the second pass.
* `NoneIsLeft`.  `LeftInv` says that every live process of the first instance is in the
  table or its fork is still to be read, and that whoever forked it is tracked then.  So
  with an empty table the earliest unread fork would be the monitor's own, and none of
  these is unread when it collects.
* `WatchIsComplete`, from `MainInv` if no events were lost, and from `EndInv` if some were
  while the first instance ran: nobody but the main process enters an empty table, so that
  either it is tracked, or it has ended, or nothing was ever collected, in which case
  `NoneLeft` does not hold.

**`ControlProofs`** (`ControlAssumption`): `OneMonitorAtATime`, `StartIsTrue`, `StopIsTrue` and
`ControlTypeCorrect` from `Control!ControlInv`, which adds that a client's monitor is not
born before it is forked, that a monitor that serves has not come to its end, that whoever
was told "stopped" saw no monitor, and that a client whose monitor has launched the
service saw it.  `RestartIsTrue` from `Control!RestartInv`: once the stop order is given the
monitor halts until a moment without one is seen, whatever other clients order, and
the service is forked only after such a moment.

**`CnProcProofs`** (`CnProcAssumption`): `CountCovers` and `CnProcTypeCorrect`.  `Covered` is not
inductive: the kernel counts requests, and the program believes acknowledgements.
`CountInv` compares the count with those whose request has been counted, which a step
changes by at most one; the proof follows how each step changes both sides.

**`ServiceProofs`** (`ServiceAssumption`, `CodesAssumption`), about `ForkReport`, `Command` and
`Service`:

* `SuccessIsTrue` and `FailureIsTrue`, about `fork.c` by itself.  The invariant says what
  is in the pipe, given where child and parent are, and who still holds its writing end.
* `CommandSound`: the invariant `CommandInv` of a whole command, on which the others rest.
  `StackInv`: each activation of `service_start()` is waited for by the one below, and
  for a service that one requires.  `RunInv`: what was forked is what sysvrun waits for,
  and its `struct command` has not changed since it was built and found fit to run.
  `ExecInv`: the calls of `command_exec_func()` were made in order up to some point, and
  the process is as they leave it; its credentials follow from how far it got.
  `StatusInv`: how the process ended.
* `ReportIsTrue`, `ExecutedAsAsked` and `FailsOnlyForReason` follow from `CommandInv`.
* `ReloadIsTrue`.  `ReloadInv`: the exit code is that of the command, or says why none was
  run.
* `StopIsAccounted` and the action property `PidFileIsKept`.  `WorldInv`: what is the case
  now was the case at some moment of the command.  `StopInv`: at each plan of
  `service_stop()`, what it takes for a success is one.
* `StartsAreGrounded`, an action property.  `GroundInv`: each activation of
  `service_start()` has seen running the prerequisites that it is done with, or knows that
  one failed; and a monitor that has reported readiness, which the pipe still has to tell,
  was seen running.

**`FileProofs`** (`RcAssumption`), about `Output` and `RcLinks`: `OutputIsWhole`, `OutputTruth` and
`OutputTidy`.  `OutputInv` adds what each process's temporary file holds at each place, and
that a process whose file was renamed does not change its text any more.  `Convert`'s
steps are steps of `Output`, so the theorems apply to it.  `OthersProved` and `CommandsProved`, from
`LinksInv`: what others own stays; an unwanted link of our own is on the list of whoever is
scanning its runlevel and not looked at yet; the right one is there, or somebody who found
it missing is about to create it; and the total of `is-enabled` is the number of runlevels
passed that have one; all of it while other commands work on the same directories.

**`SystemctlProofs`** (`SystemctlAssumption`): `SuccessProved`, `CodeProved` and `TryProved`.
`SystemctlInv` says for each user what the command has become on its way through
`start_stop()` and `reload()`, and that the result so far is the tally of the services that
have been dealt with, each of which was seen in the state asked for if it is zero.

Only model-checked:

* liveness, `StopEnds`, `MainExitNoticed`, `CommandsReturn` and `CommandReturns`, which is out
  of the prover's reach;
* `ParseMeans`, `SplitMeans`, `SpanMeans` and `RoundTrip`, about what recursive definitions of
  `UnitFile`, `Timespan` and `Text` compute: the prover has no induction over data.

## What is not modelled

* `service_control()`, which copies lines between a terminal and the control socket, and
  the foreground mode of `command_monitor()`.
* The environment of commands (`common/environment.c`), lists (`common/strlist.c`) and
  `command_to_byte_array()`: data that no property tells apart.
* Option parsing in both programs, logging, process titles, the clock, and `mockd`.
* The output of the service, which the monitor logs.
* Durations in `Control` and `Service`.  `service_stop()` hands microseconds to a function
  that takes milliseconds (`sysvrun/service.c:699`), which shows in no order of events.
