------------------------------ MODULE Signals ------------------------------
(***************************************************************************)
(* Signals: who raises them, what they do to a blocked call, and how the   *)
(* guest comes to run its handlers (kernel/task.rs, kernel/syscall.rs,     *)
(* set_exit in kernel/mod.rs, and musl's side of it in src/toolchain).     *)
(*                                                                         *)
(* Nothing is delivered from outside.  A signal is a bit in the record of  *)
(* the process; every call, as it returns, computes a flag in the guest's  *)
(* memory; and musl, seeing the flag, fetches signals one at a time and    *)
(* runs their handlers before the call returns to the program.  The flag   *)
(* is looked at only there, so it is part of where[b] here: "leaving" is   *)
(* the fetch loop.                                                         *)
(*                                                                         *)
(* Processes and records are module Processes, and any instance may step   *)
(* at any time.  That is more than the run loop allows, but an instance    *)
(* may be left between two calls (at setjmp, and before it first runs), so *)
(* signals do arrive at a program that is not in a call.  A process that   *)
(* has ended has nothing pending here: the code keeps the bits, and never  *)
(* looks at them.                                                          *)
(***************************************************************************)
EXTENDS Integers, FiniteSets, SequencesExt

CONSTANTS MaxPid, Limit, Codes, None,   \* see Processes
          Signals,      \* the signals of this instance of the module
          Masks,        \* sets of signals that programs block, unblock and suspend with
          Dispositions, \* what programs install: "DFL", "IGN", "run" a handler, and
                        \* "once", a handler with SA_RESETHAND
          Waits,        \* what wait4 is called with, see Name
          Bodies,       \* what execve starts: "guest", "host"
          Groups,       \* the processes that are moved, and the groups they are moved to
          MaxFrames,    \* bound: handlers and vforks on one guest stack
          Uses          \* calls made in this instance of the module

VARIABLES table, nextPid, stack, spawn, finished    \* see Processes

VARIABLES pending,      \* ProcRecord::pending
          group,        \* ProcRecord::pgid
          mask,         \* Task::sigmask
          act,          \* Task::sigact
          saved,        \* ExecState::mask_to_restore, of each instance
          where,        \* where each instance is: User, Leaving, Command, or blocked in a call
          frames,       \* what is on its stack: "handler" and "vfork" frames
          own,          \* history: the mask each program last asked for itself
          late          \* history: instances signalled since they last left the kernel

procVars == <<table, nextPid, stack, spawn, finished>>
vars == <<procVars, pending, group, mask, act, saved, where, frames, own, late>>

P == INSTANCE Processes

First == P!First
Pid == P!Pid
KILL == 9
TERM == 15
CHLD == 17

(* kill and wait4 name processes by pid, by group (negated), 0 for the     *)
(* caller's own group and -1 for everybody.                                *)
Everybody == -1
Name == {Everybody, 0} \cup Pid \cup {-n : n \in 2 .. MaxPid}

ASSUME SignalsAssumption ==
    /\ MaxPid \in Nat /\ MaxPid >= First /\ Limit \in Nat       \* as in Processes
    /\ None \notin P!Status \cup P!ProcRecord /\ \A m \in SUBSET Signals : m # None
    /\ Signals \subseteq {KILL, TERM, CHLD} /\ {KILL, CHLD} \subseteq Signals
    /\ \A m \in Masks : m \subseteq Signals
    /\ Dispositions \subseteq {"DFL", "IGN", "run", "once"}
    /\ Waits \subseteq Name
    /\ MaxFrames \in Nat
    /\ {"0", "SIGTERM"} \subseteq Codes

User == [at |-> "user"]
Leaving == [at |-> "leaving"]
Command == [at |-> "host"]
Blocked(op, arg) == [at |-> "blocked", op |-> op, arg |-> arg]
Where == {User, Leaving, Command} \cup {Blocked("wait", n) : n \in Waits}
            \cup {Blocked("suspend", m) : m \in Masks}

Me(b) == P!Current(b)
In(b, places) == ~P!Over /\ b \in P!Instances /\ where[b].at \in places

-----------------------------------------------------------------------------
(* task.rs: SigAction::is_ignored and triage. *)
Ignored(a, s) == a[s] = "IGN" \/ (a[s] = "DFL" /\ s = CHLD)
LiveWhenMaskable(pend, m, a) == {s \in pend \ m : ~Ignored(a, s)}     \* mutant: SIGKILL too
LiveOf(pend, m, a) == {s \in pend : ~Ignored(a, s) /\ (s \notin m \/ s = KILL)}
Live(p) == LiveOf(pending[p], mask[p], act[p])

(* reset_handlers_for_exec. *)
ResetForExec(a) == [s \in Signals |-> IF a[s] = "IGN" THEN "IGN" ELSE "DFL"]

RaisedIn(pend, D, S) == [q \in Pid |-> IF q \in D THEN pend[q] \cup S ELSE pend[q]]

(* What set_exit does for each process of D, once the records are those of *)
(* table': SIGCHLD for a parent that lives on.                             *)
ParentsTold(D) == {q \in Pid : P!AliveIn(table', q) /\ \E p \in D : table[p].ppid = q}
RaiseForDeaths(D) ==
    pending' = [q \in Pid |-> IF P!AliveIn(table', q)
                              THEN RaisedIn(pending, ParentsTold(D), {CHLD})[q] ELSE {}]

(* The tasks of the dead, for their next owner. *)
Forget(D) ==
    /\ group' = [q \in Pid |-> IF table'[q] = None THEN First ELSE group[q]]
    /\ mask' = [q \in Pid |-> IF q \in D THEN {} ELSE mask[q]]
    /\ own' = [q \in Pid |-> IF q \in D THEN {} ELSE own[q]]
    /\ act' = [q \in Pid |-> IF q \in D THEN [s \in Signals |-> "DFL"] ELSE act[q]]

Signalled(c) == stack'[c] # <<>> /\ ~(pending'[Me(c)'] \subseteq pending[Me(c)'])
Noted(fresh) == late' = {c \in P!Instances' : c \notin fresh /\ (c \in late \/ Signalled(c))}

(* Mutant: the flag is computed for the task at the bottom of the stack. *)
FinishForBottom(b, before) ==
    /\ mask' = IF saved[b] = None THEN before ELSE [before EXCEPT ![Me(b)] = saved[b]]
    /\ saved' = [saved EXCEPT ![b] = None]
    /\ where' = [where EXCEPT ![b] =
                    IF LiveOf(pending'[b], mask'[b], act'[b]) = {} THEN User ELSE Leaving]
    /\ Noted({b})

(* finish, for a call of instance b that returns: the saved mask goes back *)
(* first, then the flag is computed for the task that is current now.      *)
(* before is the mask the call leaves, which is the saved one's to undo.   *)
Finish(b, before) ==
    /\ mask' = IF saved[b] = None THEN before ELSE [before EXCEPT ![Me(b)] = saved[b]]
    /\ saved' = [saved EXCEPT ![b] = None]
    /\ where' = [where EXCEPT ![b] =
                    IF LiveOf(pending'[Me(b)'], mask'[Me(b)'], act'[Me(b)']) = {}
                    THEN User ELSE Leaving]
    /\ Noted({b})

ReturnsUnflagged(b) ==                      \* mutant: the way out that forgets the flag
    /\ UNCHANGED <<procVars, pending, group, mask, act, saved, frames, own>>
    /\ where' = [where EXCEPT ![b] = User]
    /\ Noted({b})

(* A call that returns and has done nothing to the state of this module:   *)
(* a refused one, EINTR, or any call of another module.                    *)
Returns(b) ==
    /\ UNCHANGED <<procVars, pending, group, act, frames, own>>
    /\ Finish(b, mask)

-----------------------------------------------------------------------------
(* rt_sigaction.  SIGKILL cannot be caught or ignored. *)
ActOnAnything(b, s, d) ==                   \* mutant: it can
    /\ In(b, {"user"}) /\ "sigaction" \in Uses
    /\ act' = [act EXCEPT ![Me(b)][s] = d]
    /\ UNCHANGED <<procVars, pending, group, frames, own>>
    /\ Finish(b, mask)

Sigaction(b, s, d) ==
    /\ In(b, {"user"}) /\ "sigaction" \in Uses /\ s # KILL
    /\ act' = [act EXCEPT ![Me(b)][s] = d]
    /\ UNCHANGED <<procVars, pending, group, frames, own>>
    /\ Finish(b, mask)

(* rt_sigprocmask: what the caller may not block is left out. *)
Sigprocmask(b, set) ==
    /\ In(b, {"user"}) /\ "sigprocmask" \in Uses
    /\ \E m \in {mask[Me(b)] \cup (set \ {KILL}), mask[Me(b)] \ set, set \ {KILL}} :
          /\ own' = [own EXCEPT ![Me(b)] = m]
          /\ UNCHANGED <<procVars, pending, group, act, frames>>
          /\ Finish(b, [mask EXCEPT ![Me(b)] = m])

(* What `interrupted` finds of the caller. *)
Interrupted(b) == Live(Me(b)) # {}

(* rt_sigsuspend, called and retried: the temporary mask is put in, once,  *)
(* and a signal it lets through ends the call, at once or later.           *)
SuspendsEachTime(b, m) ==                   \* mutant: the retry saves the temporary mask
    LET p == Me(b)
        wakes == LiveOf(pending[p], m, act[p]) # {}
    IN IF wakes
       THEN /\ where' = [where EXCEPT ![b] = IF LiveOf(pending[p], mask[p], act[p]) = {}
                                             THEN User ELSE Leaving]
            /\ saved' = [saved EXCEPT ![b] = None]
            /\ UNCHANGED <<procVars, pending, group, mask, act, frames, own>>
            /\ Noted({b})
       ELSE /\ saved' = [saved EXCEPT ![b] = mask[p]]
            /\ mask' = [mask EXCEPT ![p] = m]
            /\ where' = [where EXCEPT ![b] = Blocked("suspend", m)]
            /\ UNCHANGED <<procVars, pending, group, act, frames, own, late>>

Suspends(b, m) ==
    LET p == Me(b)
        old == IF saved[b] = None THEN mask[p] ELSE saved[b]
        wakes == LiveOf(pending[p], m, act[p]) # {}
    IN IF wakes
       THEN /\ UNCHANGED <<procVars, pending, group, act, frames, own>>
            /\ Finish(b, [mask EXCEPT ![p] = old])
       ELSE /\ saved' = [saved EXCEPT ![b] = old]
            /\ mask' = [mask EXCEPT ![p] = m]
            /\ where' = [where EXCEPT ![b] = Blocked("suspend", m)]
            /\ UNCHANGED <<procVars, pending, group, act, frames, own, late>>

Sigsuspend(b, m) == In(b, {"user"}) /\ "suspend" \in Uses /\ Suspends(b, m)

(* The children wait4 looks at. *)
Matches(p, name, c) ==
    CASE name = Everybody -> TRUE
      [] name = 0         -> group[c] = group[p]
      [] name > 0         -> c = name
      [] OTHER            -> group[c] = -name
Children(p, name) == {c \in P!Candidates(p, 0) : Matches(p, name, c)}
Dead(p, name) == {c \in Children(p, name) : P!Zombie(c)}

(* wait4 that has an answer takes it, whether or not a signal is waiting.  *)
WaitAnswered(b, name) ==
    /\ \/ /\ Dead(Me(b), name) # {}
          /\ P!Reap(b, Min(Dead(Me(b), name)))
       \/ Children(Me(b), name) = {} /\ UNCHANGED procVars
    /\ UNCHANGED <<pending, act, frames>>
    /\ Finish(b, [q \in Pid |-> IF table'[q] = None THEN {} ELSE mask[q]])
    /\ own' = [q \in Pid |-> IF table'[q] = None THEN {} ELSE own[q]]
    /\ group' = [q \in Pid |-> IF table'[q] = None THEN First ELSE group[q]]

(* Fault::Block. *)
WouldWait(b, name) ==
    /\ Children(Me(b), name) # {} /\ Dead(Me(b), name) = {}
    /\ ~Interrupted(b)
    /\ where' = [where EXCEPT ![b] = Blocked("wait", name)]
    /\ UNCHANGED <<procVars, pending, group, mask, act, saved, frames, own, late>>

Wait4(b, name) ==
    /\ In(b, {"user"}) /\ name \in Waits
    /\ WaitAnswered(b, name) \/ WouldWait(b, name)

(* Any other call that does not wait.  One that waits is like wait4: it is *)
(* interrupted in the same place (dispatch).                               *)
OtherCall(b) == In(b, {"user"}) /\ Returns(b)

(* Mutant: wait4 goes on waiting whatever is pending. *)
RetryDeaf(b) ==
    /\ In(b, {"blocked"})
    /\ LET op == where[b].op
           arg == where[b].arg
       IN IF op = "suspend" THEN Suspends(b, arg) ELSE WaitAnswered(b, arg)

(* The run loop tries a blocked call again: dispatch with the same         *)
(* arguments.  A call that is neither answered nor interrupted stays.      *)
Retry(b) ==
    /\ In(b, {"blocked"})
    /\ LET op == where[b].op
           arg == where[b].arg
       IN IF op = "suspend" THEN Suspends(b, arg)
          ELSE \/ WaitAnswered(b, arg)
               \/ Dead(Me(b), arg) = {} /\ Interrupted(b) /\ Returns(b)

-----------------------------------------------------------------------------
(* send_signal: kill, tkill and tgkill.  A process can be named after its  *)
(* end, a group or everybody cannot.                                       *)
Targets(p, name) ==
    {q \in Pid :
        CASE name > 0         -> q = name /\ table[q] # None
          [] name = 0         -> P!Alive(q) /\ group[q] = group[p]
          [] name = Everybody -> P!Alive(q) /\ q \notin {First, p}
          [] OTHER            -> P!Alive(q) /\ group[q] = -name}

Kill(b, name, s) ==
    /\ In(b, {"user"}) /\ "kill" \in Uses
    /\ pending' = RaisedIn(pending, {q \in Targets(Me(b), name) : P!Alive(q)}, {s})
    /\ UNCHANGED <<procVars, group, act, frames, own>>
    /\ Finish(b, mask)

(* setpgid, for any record and any group, and setsid. *)
Setpgid(b, q, g) ==
    /\ In(b, {"user"}) /\ {q, g} \subseteq Groups
    /\ table[q] # None
    /\ group' = [group EXCEPT ![q] = g]
    /\ UNCHANGED <<procVars, pending, act, frames, own>>
    /\ Finish(b, mask)

(* clone: the child gets its parent's group, mask and dispositions, and    *)
(* nothing pending.                                                        *)
Vfork(b) ==
    /\ In(b, {"user"}) /\ Len(frames[b]) < MaxFrames
    /\ P!Vfork(b)
    /\ pending' = [pending EXCEPT ![nextPid] = {}]
    /\ group' = [group EXCEPT ![nextPid] = group[Me(b)]]
    /\ act' = [act EXCEPT ![nextPid] = act[Me(b)]]
    /\ own' = [own EXCEPT ![nextPid] = own[Me(b)]]
    /\ frames' = [frames EXCEPT ![b] = Append(@, "vfork")]
    /\ Finish(b, [mask EXCEPT ![nextPid] = mask[Me(b)]])

(* The handlers and vforks above the frame that vfork returns to go with   *)
(* the child's own frames.                                                 *)
VforkReturns(b) ==
    LET here == SelectLastInSeq(frames[b], LAMBDA f : f = "vfork")
    IN frames' = [frames EXCEPT ![b] = SubSeq(@, 1, here - 1)]

(* exit in a vfork child: the parent is told, and is current when the flag *)
(* is computed.                                                            *)
ExitChild(b) ==
    /\ In(b, {"user"}) /\ P!ExitChild(b, "0")
    /\ RaiseForDeaths({Me(b)})
    /\ VforkReturns(b)
    /\ group' = [q \in Pid |-> IF table'[q] = None THEN First ELSE group[q]]
    /\ act' = [act EXCEPT ![Me(b)] = [s \in Signals |-> "DFL"]]
    /\ own' = [own EXCEPT ![Me(b)] = {}]
    /\ Finish(b, [mask EXCEPT ![Me(b)] = {}])

(* execve in a vfork child: its handlers are reset when it starts. *)
ExecChild(b) ==
    /\ In(b, {"user"}) /\ P!ExecChild(b)
    /\ VforkReturns(b)
    /\ UNCHANGED <<pending, group, act, own>>
    /\ Finish(b, mask)

(* start and replace_instance: what is pending stays pending, and the new  *)
(* program looks for it in its first call.                                 *)
Begins(q, body) ==
    /\ where' = [where EXCEPT ![q] = IF body = "host" THEN Command ELSE User]
    /\ act' = [act EXCEPT ![q] = ResetForExec(@)]
    /\ late' = late \cup {q}
    /\ UNCHANGED <<pending, group, mask, own>>

Start(body) ==
    /\ P!Start
    /\ Begins(Head(spawn), body)
    /\ UNCHANGED <<saved, frames>>

Exec(b, body) ==
    /\ In(b, {"user"}) /\ Len(stack[b]) = 1 /\ "exec" \in Uses
    /\ Begins(b, body)
    /\ frames' = [frames EXCEPT ![b] = <<>>]
    /\ UNCHANGED <<procVars, saved>>

(* The end of a whole instance, and of a child that could not be started.  *)
Gone(b) ==
    /\ saved' = [saved EXCEPT ![b] = None]
    /\ where' = [where EXCEPT ![b] = User]
    /\ frames' = [frames EXCEPT ![b] = <<>>]

Dies(b, status) ==
    /\ P!Finish(b, status)
    /\ RaiseForDeaths(ToSet(stack[b]))
    /\ Forget(ToSet(stack[b]))
    /\ Gone(b)
    /\ Noted({b})

Exits(b) == In(b, {"user", "host"}) /\ Len(stack[b]) = 1 /\ Dies(b, "0")

StartFails ==
    /\ "start_fails" \in Uses /\ P!StartFails
    /\ RaiseForDeaths({Head(spawn)})
    /\ Forget({Head(spawn)})
    /\ UNCHANGED <<saved, where, frames>>
    /\ Noted({})

-----------------------------------------------------------------------------
(* sigfetch, as next_signal answers it: ignored signals are dropped, the   *)
(* lowest deliverable one is taken.                                        *)
FetchNothing(b) ==
    /\ In(b, {"leaving"}) /\ ~Interrupted(b)
    /\ pending' = [pending EXCEPT ![Me(b)] = {s \in @ : ~Ignored(act[Me(b)], s)}]
    /\ where' = [where EXCEPT ![b] = User]
    /\ UNCHANGED <<procVars, group, mask, act, saved, frames, own>>
    /\ Noted({b})

Takes(b, s) ==
    /\ In(b, {"leaving"}) /\ Interrupted(b)
    /\ s = Min(Live(Me(b)))

FetchHandler(b, s) ==
    /\ Takes(b, s) /\ act[Me(b)][s] \in {"run", "once"}
    /\ Len(frames[b]) < MaxFrames
    /\ pending' = [pending EXCEPT ![Me(b)] = {t \in @ \ {s} : ~Ignored(act[Me(b)], t)}]
    /\ act' = IF act[Me(b)][s] = "once" THEN [act EXCEPT ![Me(b)][s] = "DFL"] ELSE act
    /\ where' = [where EXCEPT ![b] = User]
    /\ frames' = [frames EXCEPT ![b] = Append(@, "handler")]
    /\ UNCHANGED <<procVars, group, mask, saved, own, late>>

(* A fatal one ends the instance, with every task in it. *)
FetchFatal(b, s) ==
    /\ Takes(b, s) /\ act[Me(b)][s] = "DFL"
    /\ Dies(b, IF s = KILL THEN "SIGKILL" ELSE "SIGTERM")

(* A handler returns to the fetch loop that called it. *)
HandlerReturns(b) ==
    /\ In(b, {"user"}) /\ frames[b] # <<>> /\ Last(frames[b]) = "handler"
    /\ where' = [where EXCEPT ![b] = Leaving]
    /\ frames' = [frames EXCEPT ![b] = Front(@)]
    /\ UNCHANGED <<procVars, pending, group, mask, act, saved, own, late>>

Fetch(b) == FetchNothing(b) \/ \E s \in Signals : FetchHandler(b, s) \/ FetchFatal(b, s)

-----------------------------------------------------------------------------
Init ==
    /\ P!Init
    /\ pending = [q \in Pid |-> {}]
    /\ group = [q \in Pid |-> First]
    /\ mask = [q \in Pid |-> {}]
    /\ own = mask
    /\ act = [q \in Pid |-> [s \in Signals |-> "DFL"]]
    /\ saved = [b \in Pid |-> None]
    /\ where = [b \in Pid |-> User]
    /\ frames = [b \in Pid |-> <<>>]
    /\ late = {}

GuestCall(b) ==
    \/ OtherCall(b)
    \/ \E s \in Signals : \/ \E d \in Dispositions : Sigaction(b, s, d)
                          \/ \E name \in Name : Kill(b, name, s)
    \/ \E m \in Masks : Sigprocmask(b, m) \/ Sigsuspend(b, m)
    \/ \E name \in Name : Wait4(b, name)
    \/ \E q, g \in Pid : Setpgid(b, q, g)
    \/ Vfork(b) \/ ExitChild(b) \/ ExecChild(b) \/ Exits(b)
    \/ \E body \in Bodies : Exec(b, body)

Next ==
    \/ \E b \in Pid : GuestCall(b) \/ Retry(b) \/ Fetch(b) \/ HandlerReturns(b)
    \/ \E body \in Bodies : Start(body)
    \/ StartFails

Spec == Init /\ [][Next]_vars

(* A program calls the kernel now and then, the run loop retries every     *)
(* blocked call, and musl's fetch loop is the guest's own code.            *)
FairSpec ==
    /\ Spec
    /\ \A b \in Pid : WF_vars(OtherCall(b) \/ Retry(b) \/ Fetch(b))

-----------------------------------------------------------------------------
TypeOK ==
    /\ P!TypeOK
    /\ pending \in [Pid -> SUBSET Signals]
    /\ \A q \in Pid : ~P!Alive(q) => pending[q] = {}
    /\ group \in [Pid -> Pid]
    /\ mask \in [Pid -> SUBSET Signals] /\ own \in [Pid -> SUBSET (Signals \ {KILL})]
    /\ act \in [Pid -> [Signals -> Dispositions \cup {"DFL"}]]
    /\ \A q \in Pid : act[q][KILL] = "DFL"
    /\ saved \in [Pid -> (SUBSET Signals) \cup {None}]
    /\ where \in [Pid -> Where]
    /\ frames \in [Pid -> Seq({"handler", "vfork"})]
    /\ late \subseteq P!Instances

Suspended(b) == where[b].at = "blocked" /\ where[b].op = "suspend"

(* A task's mask is the one its program asked for with sigprocmask (or     *)
(* inherited) except while it is suspended, however often the call was     *)
(* retried, whichever signal ended it, and whoever shares the instance     *)
(* (mask_to_restore is kept per instance, the mask per task).              *)
MaskIsTheProgramsOwn ==
    \A q \in Pid : mask[q] # own[q] =>
        \E b \in P!Instances : Me(b) = q /\ Suspended(b) /\ saved[b] = own[q]

(* A program outside a handler runs with nothing deliverable, unless it    *)
(* was signalled since it last left the kernel: no call, and no change of  *)
(* the task that runs in the instance, leaves a signal behind unseen.      *)
NoSignalIsMissed ==
    \A b \in P!Instances :
        (where[b] = User /\ b \notin late /\ (frames[b] # <<>> => Last(frames[b]) # "handler"))
            => ~Interrupted(b)

(* A blocked call that returns although a signal is deliverable returns    *)
(* into the fetch loop.  (Not so for sigsuspend, see HandlerGetsToRun.)    *)
InterruptedCallsFetch ==
    [][\A b \in Pid :
          (where[b].at = "blocked" /\ ~Suspended(b) /\ Interrupted(b)
              /\ where'[b].at # "blocked")
          => where'[b] = Leaving]_vars

(* Whoever is blocked with a deliverable signal does not stay blocked. *)
SignalsEndWaits ==
    \A b \in Pid :
        (where[b].at = "blocked" /\ Interrupted(b)) ~> (where[b].at # "blocked" \/ P!Over)

(* SIGKILL ends the guest that runs as its target, blocked or not, masked  *)
(* or not.  A parent that waits in vfork is not running.                   *)
KilledGuestsDie ==
    \A b \in Pid :
        (b \in P!Instances /\ where[b].at # "host" /\ KILL \in pending[Me(b)])
            ~> (b \notin P!Instances \/ where[b].at = "host" \/ Len(stack[b]) > 1 \/ P!Over)

(* syscall.rs says of a blocked call that a signal ends with EINTR: "the   *)
(* handler gets to run".                                                   *)
HandlerGetsToRun ==
    [][\A b \in Pid :
          (where[b].at = "blocked" /\ Interrupted(b) /\ where'[b].at # "blocked")
          => where'[b] = Leaving]_vars
=============================================================================
