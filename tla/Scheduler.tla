----------------------------- MODULE Scheduler -----------------------------
(***************************************************************************)
(* The run loop: Kernel::run, step_process, step_host and why_idle         *)
(* (kernel/mod.rs), driven by a caller through Session::step (lib.rs).     *)
(*                                                                         *)
(* One call of run walks the list of instances again and again.  Each is   *)
(* taken as far as it goes without blocking; a call that would block is    *)
(* kept with the instance and retried when the list comes round.  Nobody   *)
(* is told that what it waits for has arrived: a pass in which nothing ran *)
(* ends the call, and why_idle guesses from flags and deadlines what the   *)
(* caller has to do.  Those guesses, and the marks that keep a process     *)
(* from being retried too early, are what this module is about.            *)
(*                                                                         *)
(* Processes and their records are module Processes, in any order; this    *)
(* module gives the order, and is shown to take only those steps.  There   *)
(* is one pipe, which may be made again once nobody has an end of it, and  *)
(* a task holds each end once: descriptors and their counts are module     *)
(* Descriptors.  A program is any sequence of calls.  Signals, setjmp and  *)
(* memory are left out.                                                    *)
(***************************************************************************)
EXTENDS Integers, FiniteSets, SequencesExt

CONSTANTS MaxPid, Limit, Codes, None,   \* see Processes
          Bodies,       \* what execve may start: "guest", and the host commands
                        \* that read standard input ("filter") or do not ("source")
          Uses,         \* calls and events that happen in an instance of this module
          PipeCapacity, \* PIPE_CAPACITY
          MaxOutput,    \* bound: what a host command writes in all
          MaxTime       \* bound: the last instant of the clock

VARIABLES table, nextPid, stack, spawn, finished    \* see Processes

VARIABLES order,        \* Kernel::procs: the bottom pids of the instances, in order
          proc,         \* Proc of each instance: body, resume, parked, phase
          holds,        \* what each task has open: "in" (session stdin), "r", "w"
          fill,         \* bytes in the pipe
          stdin,        \* StdinBuffer
          wake,         \* ProcRecord::wake_at
          now,          \* Instant::now()
          pending,      \* Shared::vfs_pending and host_pending
          run,          \* where Kernel::run is, and its locals
          report,       \* what Session::step last returned
          asked         \* history: instances told AGAIN since the caller had control

procVars == <<table, nextPid, stack, spawn, finished>>
ioVars == <<holds, fill, stdin>>
vars == <<procVars, order, proc, ioVars, wake, now, pending, run, report, asked>>

P == INSTANCE Processes

First == P!First
Pid == P!Pid

Time == 0 .. MaxTime
Call == [op : {"read", "write", "stdin", "vfs"}, arg : {0}]
            \cup [op : {"sleep", "ppoll", "pselect"}, arg : Time]  \* a deadline; 0: none
            \cup [op : {"wait"}, arg : Pid \cup {0}]
Polls == {"ppoll", "pselect"}

Proc == [body : {"guest", "filter", "source"}, call : Call \cup {None},
         parked : BOOLEAN, left : 0 .. MaxOutput \cup {None}]
NewProc(body) == [body |-> body, call |-> None, parked |-> FALSE, left |-> None]

NoFlags == [vfs |-> FALSE, host |-> FALSE]

Reports == {"none", "budget", "vfs", "host", "until", "stdin", "deadlock"}

ASSUME SchedulerAssumption ==
    /\ MaxPid \in Nat /\ MaxPid >= First /\ Limit \in Nat       \* as in Processes
    /\ None \notin P!Status \cup P!ProcRecord
    /\ Bodies \subseteq {"guest", "filter", "source"}
    /\ PipeCapacity \in Nat \ {0} /\ MaxOutput \in Nat /\ MaxTime \in Nat
    /\ None \notin Call \cup Nat

-----------------------------------------------------------------------------
Readers == {q \in Pid : "r" \in holds[q]}
Writers == {q \in Pid : "w" \in holds[q]}
Room == PipeCapacity - fill

inst == order[run.index]        \* the instance being stepped
task == P!Current(inst)         \* its ctx.task

(* release_desc, through fill: a pipe without ends is collected. *)
Pipe(h, n) == IF \E q \in Pid : h[q] \cap {"r", "w"} # {} THEN n ELSE 0

(* release_fds for every task in D. *)
CloseAll(D) ==
    /\ holds' = [q \in Pid |-> IF q \in D THEN {} ELSE holds[q]]
    /\ fill' = Pipe(holds', fill)

(* set_exit clears the deadline of the dead, and it goes with the record.  *)
(* It is not cleared when the call that set it returns.                    *)
WakeOfTheLiving == wake' = [q \in Pid |-> IF P!AliveIn(table', q) THEN wake[q] ELSE None]

(* The end of a turn: the next instance of the list. *)
Advance(ran) == run' = [run EXCEPT !.at = "pass", !.index = @ + 1,
                                   !.progressed = @ \/ ran, !.waited = NoFlags]

(* The end of an instance ends run with the session; otherwise the list    *)
(* closes up and the index stays where it is.                              *)
EndedUnseen == run' = [run EXCEPT !.at = IF finished' = None THEN "pass" ELSE "over",
                                  !.waited = NoFlags]       \* mutant: no progress
Ended == run' = [run EXCEPT !.at = IF finished' = None THEN "pass" ELSE "over",
                            !.progressed = TRUE, !.waited = NoFlags]

(* An instance is parked if its turn set a flag that was not set before.   *)
Before == IF run.at = "run" THEN run.waited ELSE pending
Park(pr) == [pr EXCEPT !.parked = \E why \in {"vfs", "host"} : pending'[why] /\ ~Before[why]]

-----------------------------------------------------------------------------
(* The calls the current task can make. *)
Requests ==
    {c \in Call :
        /\ c.op \in Uses
        /\ c.op = "read" => "r" \in holds[task]
        /\ c.op = "write" => "w" \in holds[task]
        /\ c.op = "stdin" => "in" \in holds[task]
        /\ c.op = "sleep" => c.arg = now + 1
        /\ c.op \in Polls => c.arg \in {0, now + 1}
        /\ c.op = "wait" => c.arg < nextPid}

(* poll_one on the inputs of task q: a poll watches all it has. *)
InputReady(q) ==
    \/ "r" \in holds[q] /\ (fill > 0 \/ Writers = {})
    \/ "in" \in holds[q] /\ (stdin.data > 0 \/ stdin.closed)

(* Whether a call of task q can be answered now; a Vfs decides for itself. *)
Answerable(q, c) ==
    CASE c.op = "read"  -> fill > 0 \/ Writers = {}
      [] c.op = "write" -> Room > 0 \/ Readers = {}
      [] c.op = "stdin" -> stdin.data > 0 \/ stdin.closed
      [] c.op = "sleep" -> now >= c.arg
      [] c.op \in Polls -> InputReady(q) \/ (c.arg # 0 /\ now >= c.arg)
      [] c.op = "wait"  -> P!Candidates(q, c.arg) = {} \/ P!Reapable(q, c.arg) # {}
      [] c.op = "vfs"   -> TRUE

(* read_bytes, write_bytes, wait4, nanosleep and a file operation when     *)
(* they have an answer; a guest may ask for less than there is.            *)
Answer(c) ==
    /\ Answerable(task, c)
    /\ fill' \in CASE c.op = "read" /\ fill > 0         -> 0 .. fill - 1
                   [] c.op = "write" /\ Readers # {}   -> fill + 1 .. PipeCapacity
                   [] OTHER                            -> {fill}
    /\ stdin' = IF c.op = "stdin" /\ stdin.data > 0
                THEN [stdin EXCEPT !.data = @ - 1, !.wanted = FALSE] ELSE stdin
    /\ \/ /\ c.op = "wait" /\ P!Reap(inst, c.arg)
          /\ WakeOfTheLiving
       \/ /\ c.op = "wait" => P!Reapable(task, c.arg) = {}
          /\ UNCHANGED <<procVars, wake>>
    /\ UNCHANGED <<order, holds, now, pending, report, asked>>

(* Whether a call that blocks asks the caller for standard input: a read   *)
(* of it, and a ppoll without a timeout if descriptor 0 is open, which is  *)
(* standard input or, when that is closed, may be an end of the pipe.      *)
(* pselect6 never does.                                                    *)
Asks(c) ==
    CASE c.op = "stdin" -> {TRUE}
      [] c.op = "ppoll" /\ c.arg = 0 -> IF "in" \in holds[task] THEN {TRUE} ELSE BOOLEAN
      [] OTHER -> {FALSE}

Timed(c) == c.op = "sleep" \/ (c.op \in Polls /\ c.arg # 0)

(* Mutant: a timed poll does not say when it wants to be woken. *)
BlockUntimed(c) ==
    /\ c.op = "vfs" \/ ~Answerable(task, c)
    /\ stdin' \in {[stdin EXCEPT !.wanted = @ \/ asks] : asks \in Asks(c)}
    /\ wake' = IF c.op = "sleep" THEN [wake EXCEPT ![task] = c.arg] ELSE wake
    /\ pending' = [pending EXCEPT !.vfs = @ \/ c.op = "vfs"]
    /\ asked' = IF c.op = "vfs" THEN asked \cup {inst} ELSE asked
    /\ proc' = [proc EXCEPT ![inst] = Park([@ EXCEPT !.call = c])]
    /\ UNCHANGED <<procVars, order, holds, fill, now, report>>

(* The same when they have none. *)
Block(c) ==
    /\ c.op = "vfs" \/ ~Answerable(task, c)
    /\ stdin' \in {[stdin EXCEPT !.wanted = @ \/ asks] : asks \in Asks(c)}
    /\ wake' = IF Timed(c) THEN [wake EXCEPT ![task] = c.arg] ELSE wake
    /\ pending' = [pending EXCEPT !.vfs = @ \/ c.op = "vfs"]
    /\ asked' = IF c.op = "vfs" THEN asked \cup {inst} ELSE asked
    /\ proc' = [proc EXCEPT ![inst] = Park([@ EXCEPT !.call = c])]
    /\ UNCHANGED <<procVars, order, holds, fill, now, report>>

-----------------------------------------------------------------------------
(* finish_process on the instance being stepped. *)
EndInstance(status) ==
    /\ P!Finish(inst, status)
    /\ order' = RemoveAt(order, run.index)
    /\ proc' = [proc EXCEPT ![inst] = NewProc("guest")]
    /\ CloseAll(ToSet(stack[inst]))
    /\ WakeOfTheLiving
    /\ Ended

(* A guest's turn, between the imports it calls. *)
InGuest == run.at = "run"

GuestCalls(c) == InGuest /\ c \in Requests /\ Answer(c) /\ UNCHANGED <<proc, run>>

GuestBlocks(c) == InGuest /\ c \in Requests /\ Block(c) /\ Advance(TRUE)

GuestExits(status) ==
    /\ InGuest
    /\ Len(stack[inst]) = 1 \/ status = "SIGSEGV"
    /\ EndInstance(status)
    /\ UNCHANGED <<stdin, now, pending, report, asked>>

(* pipe2; its failures are in Descriptors. *)
GuestMakesPipe ==
    /\ InGuest /\ "pipe2" \in Uses
    /\ Readers \cup Writers = {}
    /\ holds' = [holds EXCEPT ![task] = @ \cup {"r", "w"}]
    /\ UNCHANGED <<procVars, order, proc, fill, stdin, wake, now, pending, run, report, asked>>

GuestCloses(end) ==
    /\ InGuest /\ end \in holds[task]
    /\ end = "in" => {"stdin", "ppoll"} \cap Uses # {}
    /\ holds' = [holds EXCEPT ![task] = @ \ {end}]
    /\ fill' = Pipe(holds', fill)
    /\ UNCHANGED <<procVars, order, proc, stdin, wake, now, pending, run, report, asked>>

GuestVforks ==
    /\ InGuest /\ P!Vfork(inst)
    /\ holds' = [holds EXCEPT ![nextPid] = holds[task]]
    /\ UNCHANGED <<order, proc, fill, stdin, wake, now, pending, run, report, asked>>

ChildExits(status) ==
    /\ InGuest /\ P!ExitChild(inst, status)
    /\ CloseAll({task})
    /\ WakeOfTheLiving
    /\ UNCHANGED <<order, proc, stdin, now, pending, run, report, asked>>

(* The program of a child in the spawn queue is kept at its own place.     *)
ChildExecs(body) ==
    /\ InGuest /\ P!ExecChild(inst)
    /\ proc' = [proc EXCEPT ![task] = NewProc(body)]
    /\ UNCHANGED <<order, ioVars, wake, now, pending, run, report, asked>>

(* replace_instance: the new Proc takes the place of the old one. *)
GuestExecs(body) ==
    /\ InGuest /\ Len(stack[inst]) = 1 /\ "exec" \in Uses
    /\ proc' = [proc EXCEPT ![inst] = NewProc(body)]
    /\ Advance(TRUE)
    /\ UNCHANGED <<procVars, order, ioVars, wake, now, pending, report, asked>>

(* The same when the new program cannot be started: the step reports Stuck *)
(* though the list has closed up and a process has ended.                  *)
GuestExecFails ==
    /\ InGuest /\ "exec_fails" \in Uses /\ P!ExecFails(inst)
    /\ order' = RemoveAt(order, run.index)
    /\ proc' = [proc EXCEPT ![inst] = NewProc("guest")]
    /\ CloseAll({inst})
    /\ WakeOfTheLiving
    /\ Advance(FALSE)
    /\ UNCHANGED <<stdin, now, pending, report, asked>>

-----------------------------------------------------------------------------
(* A turn of the loop at the instance run.index. *)
Turn == run.at = "pass" /\ run.index <= Len(order)
Awake == Turn /\ ~proc[inst].parked

SkipParked ==
    /\ Turn /\ proc[inst].parked
    /\ Advance(FALSE)
    /\ UNCHANGED <<procVars, order, proc, ioVars, wake, now, pending, report, asked>>

(* Resume::Fresh and Resume::Rewind. *)
EnterGuest ==
    /\ Awake /\ proc[inst].body = "guest" /\ proc[inst].call = None
    /\ run' = [run EXCEPT !.at = "run", !.waited = pending]
    /\ UNCHANGED <<procVars, order, proc, ioVars, wake, now, pending, report, asked>>

(* Resume::Blocked, answered at last: the guest goes on in the same turn. *)
RetryAnswered ==
    /\ Awake /\ proc[inst].call # None
    /\ Answer(proc[inst].call)
    /\ proc' = [proc EXCEPT ![inst].call = None]
    /\ run' = [run EXCEPT !.at = "run", !.waited = pending]

RetryBlocked ==
    /\ Awake /\ proc[inst].call # None
    /\ Block(proc[inst].call)
    /\ Advance(FALSE)

(* step_host, from where it was left: Reading and Flushing.                *)
InHost == Awake /\ proc[inst].body # "guest"
HostReads == proc[inst].body = "filter" /\ proc[inst].left = None
FromPipe == HostReads /\ "r" \in holds[inst]
FromStdin == HostReads /\ "r" \notin holds[inst] /\ "in" \in holds[inst]
Drained == IF FromPipe THEN 0 ELSE fill

(* Standard input taken in whole; pipes are read without asking for it.    *)
Emptied(wanted) == IF FromStdin THEN [stdin EXCEPT !.data = 0, !.wanted = wanted] ELSE stdin

(* It takes what there is, and waits for the rest. *)
HostWaitsForInput ==
    /\ InHost
    /\ (FromPipe /\ Writers # {}) \/ (FromStdin /\ ~stdin.closed)
    /\ fill' = Drained
    /\ stdin' = Emptied(TRUE)
    /\ Advance(FALSE)
    /\ UNCHANGED <<procVars, order, proc, holds, wake, now, pending, report, asked>>

InputComplete ==
    /\ InHost
    /\ FromPipe => Writers = {}
    /\ FromStdin => stdin.closed
    /\ stdin' = Emptied(stdin.wanted /\ stdin.data = 0)

HostSaysAgain ==
    /\ InputComplete /\ proc[inst].left = None /\ "host" \in Uses
    /\ fill' = Drained
    /\ pending' = [pending EXCEPT !.host = TRUE]
    /\ asked' = asked \cup {inst}
    /\ proc' = [proc EXCEPT ![inst] = Park(@)]
    /\ Advance(FALSE)
    /\ UNCHANGED <<procVars, order, holds, wake, now, report>>

(* The command answers, at once or on an earlier turn, and its output goes *)
(* down the pipe as far as there is room.                                  *)
ToFlush == IF proc[inst].left = None THEN 0 .. MaxOutput ELSE {proc[inst].left}
ToPipe(n) == n > 0 /\ "w" \in holds[inst] /\ Readers # {}

HostFills(n) ==
    /\ InputComplete /\ n \in ToFlush
    /\ ToPipe(n) /\ n > PipeCapacity - Drained
    /\ fill' = PipeCapacity
    /\ proc' = [proc EXCEPT ![inst].left = n - (PipeCapacity - Drained)]
    /\ Advance(FALSE)
    /\ UNCHANGED <<procVars, order, holds, wake, now, pending, report, asked>>

HostEnds(n, status) ==
    /\ InputComplete /\ n \in ToFlush
    /\ ToPipe(n) => n <= PipeCapacity - Drained
    /\ P!Finish(inst, status)
    /\ order' = RemoveAt(order, run.index)
    /\ proc' = [proc EXCEPT ![inst] = NewProc("guest")]
    /\ holds' = [holds EXCEPT ![inst] = {}]
    /\ fill' = Pipe(holds', IF ToPipe(n) THEN Drained + n ELSE Drained)
    /\ WakeOfTheLiving
    /\ Ended
    /\ UNCHANGED <<now, pending, report, asked>>

-----------------------------------------------------------------------------
(* The top of the loop: every queued child, then the clock, then a pass.   *)
AtTop == run.at = "top"

StartChildUnlisted ==                       \* mutant: it never enters the list
    AtTop /\ P!Start /\ UNCHANGED <<order, proc, ioVars, wake, now, pending, run, report, asked>>

StartChild ==
    /\ AtTop /\ P!Start
    /\ order' = Append(order, Head(spawn))
    /\ UNCHANGED <<proc, ioVars, wake, now, pending, run, report, asked>>

StartChildFailsUnseen ==                    \* mutant: no exit is recorded
    /\ AtTop /\ spawn # <<>> /\ spawn' = Tail(spawn)
    /\ CloseAll({Head(spawn)})
    /\ UNCHANGED <<table, nextPid, stack, finished, order, proc, stdin, wake, now, pending, run,
                   report, asked>>

StartChildFails ==
    /\ AtTop /\ P!StartFails /\ "start_fails" \in Uses
    /\ CloseAll({Head(spawn)})
    /\ WakeOfTheLiving
    /\ proc' = [proc EXCEPT ![Head(spawn)] = NewProc("guest")]
    /\ UNCHANGED <<order, stdin, now, pending, run, report, asked>>

WallClock ==
    /\ AtTop /\ spawn = <<>> /\ "wall_clock" \in Uses
    /\ P!KillAll(order)
    /\ order' = <<>>
    /\ CloseAll(Pid)
    /\ WakeOfTheLiving
    /\ run' = [run EXCEPT !.at = "over"]
    /\ UNCHANGED <<proc, stdin, now, pending, report, asked>>

BeginPass ==
    /\ AtTop /\ spawn = <<>>
    /\ run' = [run EXCEPT !.at = "pass", !.index = 1, !.progressed = FALSE]
    /\ UNCHANGED <<procVars, order, proc, ioVars, wake, now, pending, report, asked>>

(* The end of a pass. *)
PassDone == run.at = "pass" /\ run.index > Len(order)

NothingLeft ==
    /\ PassDone /\ P!NoneLeft
    /\ run' = [run EXCEPT !.at = "over"]
    /\ UNCHANGED <<order, proc, ioVars, wake, now, pending, report, asked>>

(* Mutant: deadlines are not looked at. *)
WhyIdleTimeless == IF pending.vfs THEN "vfs" ELSE IF pending.host THEN "host"
                   ELSE IF stdin.wanted /\ ~stdin.closed THEN "stdin" ELSE "deadlock"

(* why_idle, which takes the flag it reports and leaves the other. *)
WhyIdle == IF pending.vfs THEN "vfs"
           ELSE IF pending.host THEN "host"
           ELSE IF \E q \in Pid : wake[q] # None THEN "until"
           ELSE IF stdin.wanted /\ ~stdin.closed THEN "stdin"
           ELSE "deadlock"

Returns(why) == report' = why /\ run' = [run EXCEPT !.at = "caller", !.index = 1,
                                                    !.progressed = FALSE]

GoIdle ==
    /\ PassDone /\ order # <<>> /\ ~run.progressed
    /\ Returns(WhyIdle)
    /\ pending' = [vfs |-> FALSE, host |-> pending.host /\ pending.vfs]
    /\ UNCHANGED <<procVars, order, proc, ioVars, wake, now, asked>>

OutOfBudget ==
    /\ PassDone /\ order # <<>> /\ run.progressed /\ "budget" \in Uses
    /\ Returns("budget")
    /\ UNCHANGED <<procVars, order, proc, ioVars, wake, now, pending, asked>>

GoRoundInside ==                            \* mutant: the queue is read once per step
    /\ PassDone /\ order # <<>> /\ run.progressed
    /\ run' = [run EXCEPT !.at = "pass", !.index = 1, !.progressed = FALSE]
    /\ UNCHANGED <<procVars, order, proc, ioVars, wake, now, pending, report, asked>>

GoRound ==
    /\ PassDone /\ order # <<>> /\ run.progressed
    /\ run' = [run EXCEPT !.at = "top", !.index = 1, !.progressed = FALSE]
    /\ UNCHANGED <<procVars, order, proc, ioVars, wake, now, pending, report, asked>>

-----------------------------------------------------------------------------
(* The caller of Session::step, between two steps. *)
Caller == run.at = "caller"

StillParked == proc                         \* mutant
Unparked == [q \in Pid |-> [proc[q] EXCEPT !.parked = FALSE]]

Step ==
    /\ Caller
    /\ run' = [run EXCEPT !.at = "top"]
    /\ proc' = Unparked
    /\ report' = "none"
    /\ asked' = {}
    /\ UNCHANGED <<procVars, order, ioVars, wake, now, pending>>

WriteStdin ==
    /\ Caller /\ "stdin" \in Uses /\ stdin.data = 0 /\ ~stdin.closed
    /\ stdin' = [stdin EXCEPT !.data = 1, !.wanted = FALSE]
    /\ report' = "none"
    /\ UNCHANGED <<procVars, order, proc, holds, fill, wake, now, pending, run, asked>>

CloseStdin ==
    /\ Caller /\ "stdin" \in Uses /\ ~stdin.closed
    /\ stdin' = [stdin EXCEPT !.closed = TRUE, !.wanted = FALSE]
    /\ report' = "none"
    /\ UNCHANGED <<procVars, order, proc, holds, fill, wake, now, pending, run, asked>>

Tick ==
    /\ now < MaxTime /\ now' = now + 1
    /\ UNCHANGED <<procVars, order, proc, ioVars, wake, pending, run, report, asked>>

-----------------------------------------------------------------------------
Init ==
    /\ P!Init
    /\ order = <<First>>
    /\ proc = [q \in Pid |-> NewProc("guest")]
    /\ holds = [q \in Pid |-> IF q = First THEN {"in"} ELSE {}]
    /\ fill = 0
    /\ stdin \in [data : {0}, closed : {"stdin" \notin Uses}, wanted : {FALSE}]
    /\ wake = [q \in Pid |-> None]
    /\ now = 0
    /\ pending = NoFlags
    /\ run = [at |-> "caller", index |-> 1, progressed |-> FALSE, waited |-> NoFlags]
    /\ report = "none"
    /\ asked = {}

Guest ==
    \/ \E c \in Call : GuestCalls(c) \/ GuestBlocks(c)
    \/ \E status \in Codes \cup {"SIGSEGV"} : GuestExits(status)
    \/ GuestMakesPipe
    \/ \E end \in {"in", "r", "w"} : GuestCloses(end)
    \/ GuestVforks
    \/ \E status \in Codes : ChildExits(status)
    \/ \E body \in Bodies : ChildExecs(body) \/ GuestExecs(body)
    \/ GuestExecFails

Host ==
    \/ HostWaitsForInput
    \/ HostSaysAgain
    \/ \E n \in 0 .. MaxOutput :
          HostFills(n) \/ \E status \in Codes \cup {"126"} : HostEnds(n, status)

Loop ==
    \/ SkipParked \/ EnterGuest \/ RetryAnswered \/ RetryBlocked
    \/ StartChild \/ StartChildFails \/ WallClock \/ BeginPass
    \/ NothingLeft \/ GoIdle \/ OutOfBudget \/ GoRound

Next == Guest \/ Host \/ Loop \/ Step \/ WriteStdin \/ CloseStdin \/ Tick

Spec == Init /\ [][Next]_vars

(* A program ends its turn in the end, by a call that blocks, by execve or *)
(* by its own end: nothing preempts it.  The caller steps as the reports   *)
(* ask it to: not after an error, not before standard input has come, not  *)
(* before the deadline.  Time passes.                                      *)
GuestYields ==
    \/ \E c \in Call : GuestBlocks(c)
    \/ \E status \in Codes \cup {"SIGSEGV"} : GuestExits(status)
    \/ \E body \in Bodies : GuestExecs(body)
    \/ GuestExecFails

StepWhenAsked ==
    /\ Step
    /\ report \notin {"deadlock", "stdin"}
    /\ report = "until" => \E q \in Pid : wake[q] # None /\ wake[q] <= now

FairSpec ==
    /\ Spec
    /\ WF_vars(Loop \/ Host) /\ WF_vars(GuestYields)
    /\ WF_vars(StepWhenAsked) /\ WF_vars(Tick)

-----------------------------------------------------------------------------
Listed == ToSet(order)

TypeOK ==
    /\ P!TypeOK
    /\ Listed = P!Instances /\ Len(order) = Cardinality(Listed)
    /\ proc \in [Pid -> Proc]
    /\ holds \in [Pid -> SUBSET {"in", "r", "w"}]
    /\ fill \in 0 .. PipeCapacity
    /\ stdin \in [data : 0 .. 1, closed : BOOLEAN, wanted : BOOLEAN]
    /\ wake \in [Pid -> Time \cup {None}]
    /\ now \in Time
    /\ pending \in [vfs : BOOLEAN, host : BOOLEAN]
    /\ run \in [at : {"caller", "top", "pass", "run", "over"}, index : 1 .. MaxPid + 1,
                progressed : BOOLEAN, waited : [vfs : BOOLEAN, host : BOOLEAN]]
    /\ report \in Reports
    /\ asked \subseteq Pid

(* The run loop takes the steps of Processes and no others. *)
ImplementsProcesses == P!Spec

(* What session q's instance could do if it were stepped now, as far as    *)
(* that does not depend on the clock or on what the caller awaits.         *)
GuestCouldRun(q) ==
    proc[q].call # None =>
        \/ /\ proc[q].call.op \in {"read", "write", "stdin", "wait"}
           /\ Answerable(P!Current(q), proc[q].call)
        \/ proc[q].call.op \in Polls /\ InputReady(P!Current(q))
HostCouldRun(q) ==
    IF proc[q].left # None THEN "w" \notin holds[q] \/ Readers = {} \/ Room > 0
    ELSE IF proc[q].body = "source" THEN TRUE
    ELSE IF "r" \in holds[q] THEN fill > 0 \/ Writers = {}
    ELSE "in" \in holds[q] => stdin.data > 0 \/ stdin.closed
CouldRun(q) == IF proc[q].body = "guest" THEN GuestCouldRun(q) ELSE HostCouldRun(q)

Told(why) == Caller /\ report = why
WaitsFor(op) == {q \in Listed : proc[q].call # None /\ proc[q].call.op = op}
HostsAsked == {q \in Listed \cap asked : proc[q].body # "guest"}
Sleepers == {q \in Listed : proc[q].call # None /\ Timed(proc[q].call)}
StdinPollers == {q \in WaitsFor("ppoll") : proc[q].call.arg = 0 /\ "in" \in holds[P!Current(q)]}

(* step reports that it waits for the caller only when no instance could   *)
(* go on without it: a pipe filled, drained or closed late in a pass is    *)
(* noticed by one more pass, however the instances are ordered.            *)
NothingRunnableWhenIdle ==
    \A why \in Reports \ {"none", "budget"} : Told(why) =>
        \A q \in Listed : proc[q].parked \/ ~CouldRun(q)

(* A deadlock is reported only when everybody waits for somebody else in   *)
(* the session: nobody for the clock, for open standard input, for a Vfs   *)
(* or for a host command, and nobody for what is already there.            *)
DeadlockIsReal ==
    Told("deadlock") =>
        /\ \A q \in Listed : ~CouldRun(q)
        /\ Sleepers \cup WaitsFor("vfs") \cup HostsAsked = {}
        /\ ~stdin.closed => WaitsFor("stdin") \cup StdinPollers = {}

(* Whoever was told AGAIN and still waits is reported before anything      *)
(* else: the caller does not sleep or type while its Vfs has work to do.   *)
AgainIsReported ==
    \A why \in Reports \ {"none", "budget"} : Told(why) =>
        /\ WaitsFor("vfs") # {} => why = "vfs"
        /\ HostsAsked # {} => why \in {"vfs", "host"}

(* A record's deadline belongs to a live process, and one that is asleep   *)
(* has its own there: why_idle finds whoever sleeps.                       *)
SleepersHaveDeadlines ==
    /\ \A q \in Pid : wake[q] # None => P!Alive(q)
    /\ \A q \in Sleepers : wake[P!Current(q)] = proc[q].call.arg

(* A process that waits for a child gets its status once the child is      *)
(* dead, though nobody is woken: a pass, or a step of the caller's, comes. *)
WaitIsAnswered ==
    \A q \in Pid :
        (q \in WaitsFor("wait") /\ P!Reapable(P!Current(q), proc[q].call.arg) # {})
            ~> (q \notin WaitsFor("wait") \/ P!Over)

(* A reader of a pipe that nobody can write to any more gets end of file,  *)
(* whichever way the last writer went.                                     *)
EndOfFileArrives ==
    \A q \in Pid : (q \in WaitsFor("read") /\ Writers = {}) ~> (q \notin WaitsFor("read") \/ P!Over)

(* A sleeper, or a poll with a timeout, wakes up: its deadline is reported *)
(* and the caller comes back.                                              *)
SleepersWake == \A q \in Pid : q \in Sleepers ~> (q \notin Sleepers \/ P!Over)

(* A child that has called execve is started, or reported as failed.       *)
ChildrenStart == \A q \in Pid : q \in ToSet(spawn) ~> (q \notin ToSet(spawn) \/ P!Over)

(* INTEGRATION.md says: "A `Deadlock` error means every process is blocked *)
(* with nothing to wake it."                                               *)
DeadlockMeansBlocked == Told("deadlock") => \A q \in Listed : ~CouldRun(q)
=============================================================================
