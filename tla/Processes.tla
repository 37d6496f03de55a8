----------------------------- MODULE Processes -----------------------------
(***************************************************************************)
(* The process table and the life of processes: Shared::table, the spawn   *)
(* queue and the instances of Kernel (kernel/mod.rs), and the system calls *)
(* that create, replace, end and wait for processes (kernel/syscall.rs).   *)
(*                                                                         *)
(* vfork runs the child inside its parent's wasm instance: the parent's    *)
(* task is pushed on the instance's vfork_stack and the child becomes its  *)
(* current task, until the child's exit or execve pops it.  An instance is *)
(* named by the pid of the task at the bottom of its stack, which never    *)
(* changes, and stack[b] is vfork_stack with the current task last.        *)
(*                                                                         *)
(* Every instance may take any step at any time: what the run loop makes   *)
(* of this is module Scheduler, which is shown to take only these steps.   *)
(* Signals, process groups and sessions are left out: wait4 by group is    *)
(* wait4 for any child, and SIGCHLD is not raised.                         *)
(***************************************************************************)
EXTENDS Integers, FiniteSets, SequencesExt

CONSTANTS MaxPid,       \* bound: pids handed out, i32::MAX in the code
          Limit,        \* limits.processes: live records at once
          Codes,        \* statuses programs exit with
          None          \* the absence of a value

First == 1
Pid == 1 .. MaxPid
NoPid == 0                                  \* the parent of the first process
Status == Codes \cup {"0", "126", "SIGKILL", "SIGSEGV"}
ProcRecord == [ppid : Pid \cup {NoPid}, exit : Status \cup {None}]

ASSUME ProcessesAssumption ==
    /\ MaxPid \in Nat /\ MaxPid >= First
    /\ Limit \in Nat
    /\ None \notin Status \cup ProcRecord

VARIABLES table,        \* Shared::table: the record of each pid, or None
          nextPid,      \* Shared::next_pid
          stack,        \* the tasks in each instance, by the bottom pid; <<>> if none
          spawn,        \* Shared::spawn: children waiting for an instance, in order
          finished      \* Session::finished: the status of an ended session, or None

vars == <<table, nextPid, stack, spawn, finished>>

-----------------------------------------------------------------------------
CurrentBottom(b) == stack[b][1]             \* mutant: the instance's first task
Current(b) == stack[b][Len(stack[b])]
Instances == {b \in Pid : stack[b] # <<>>}
Over == finished # None

(* ProcRecord::is_alive. *)
AliveIn(t, p) == p \in Pid /\ t[p] # None /\ t[p].exit = None
Alive(p) == AliveIn(table, p)
Zombie(p) == table[p] # None /\ table[p].exit # None

Record(parent) == [ppid |-> parent, exit |-> None]

(* What set_exit does to the records: the first status given is the one    *)
(* that stays, and the children go to the first process.                   *)
Mark(t, p, status) ==
    IF t[p] # None /\ t[p].exit = None THEN [t EXCEPT ![p].exit = status] ELSE t

IsChild(t, q, p) == t[q] # None /\ t[q].ppid = p
AdoptLiving(t, p) ==                        \* mutant: zombies are not handed over
    [q \in Pid |-> IF IsChild(t, q, p) /\ AliveIn(t, q) THEN [t[q] EXCEPT !.ppid = First]
                   ELSE t[q]]
Adopt(t, p) ==
    [q \in Pid |-> IF IsChild(t, q, p) THEN [t[q] EXCEPT !.ppid = First] ELSE t[q]]

SetExitForgotten(t, p, status) == t         \* mutant: the end is not recorded

(* Shared::set_exit: a record whose parent is not alive goes at once. *)
SetExit(t, p, status) ==
    LET marked == Adopt(Mark(t, p, status), p)
        parent == IF t[p] = None THEN NoPid ELSE t[p].ppid
    IN IF AliveIn(marked, parent) THEN marked ELSE [marked EXCEPT ![p] = None]

(* finish_process on a whole instance: the tasks above the bottom one die  *)
(* first, top down, as if by SIGKILL; the bottom one gets the status.      *)
TearDown(t, tasks, status) ==
    LET after[n \in 0 .. Len(tasks)] ==
            IF n = 0 THEN t
            ELSE SetExit(after[n - 1], tasks[Len(tasks) + 1 - n],
                         IF n = Len(tasks) THEN status ELSE "SIGKILL")
    IN after[Len(tasks)]

(* kill_all: every instance in the order of the list, by SIGKILL. *)
KillAllOf(t, order) ==
    LET after[n \in 0 .. Len(order)] ==
            IF n = 0 THEN t ELSE TearDown(after[n - 1], stack[order[n]], "SIGKILL")
    IN after[Len(order)]

(* Mutants: anybody's child; a child that is still alive. *)
CandidatesOfAnyone(p, which) == {c \in Pid : table[c] # None /\ which \in {0, c}}
ReapableAlive(p, which) == {c \in Pid : IsChild(table, c, p) /\ which \in {0, c}}

(* The children a wait4 for `which` looks at; 0 stands for any child. *)
Candidates(p, which) == {c \in Pid : IsChild(table, c, p) /\ which \in {0, c}}
Reapable(p, which) == {c \in Candidates(p, which) : table[c].exit # None}

-----------------------------------------------------------------------------
(* spawn_first, once the program has started. *)
Init ==
    /\ table = [p \in Pid |-> IF p = First THEN Record(NoPid) ELSE None]
    /\ nextPid = First + 1
    /\ stack = [b \in Pid |-> IF b = First THEN <<First>> ELSE <<>>]
    /\ spawn = <<>>
    /\ finished = None

(* Mutant: the parent is not pushed on the vfork stack. *)
VforkUnpushed(b) ==
    /\ ~Over /\ b \in Instances
    /\ Cardinality({p \in Pid : Alive(p)}) < Limit /\ nextPid <= MaxPid
    /\ table' = [table EXCEPT ![nextPid] = Record(Current(b))]
    /\ stack' = [stack EXCEPT ![b] = <<nextPid>>]
    /\ nextPid' = nextPid + 1
    /\ UNCHANGED <<spawn, finished>>

(* clone(CLONE_VFORK): a record for the child, which takes the instance    *)
(* over.  At the limit the call returns AGAIN and changes nothing.         *)
Vfork(b) ==
    /\ ~Over /\ b \in Instances
    /\ Cardinality({p \in Pid : Alive(p)}) < Limit
    /\ nextPid <= MaxPid
    /\ table' = [table EXCEPT ![nextPid] = Record(Current(b))]
    /\ stack' = [stack EXCEPT ![b] = Append(@, nextPid)]
    /\ nextPid' = nextPid + 1
    /\ UNCHANGED <<spawn, finished>>

InChild(b) == ~Over /\ Len(stack[b]) > 1

(* exit in a vfork child: the parent gets its instance back, and vfork     *)
(* returns there.                                                          *)
ExitChild(b, status) ==
    /\ InChild(b)
    /\ table' = SetExit(table, Current(b), status)
    /\ stack' = [stack EXCEPT ![b] = Front(@)]
    /\ UNCHANGED <<nextPid, spawn, finished>>

(* execve in a vfork child: the same, but the child lives on in the queue  *)
(* until the run loop gives it an instance of its own.                     *)
ExecChild(b) ==
    /\ InChild(b)
    /\ spawn' = Append(spawn, Current(b))
    /\ stack' = [stack EXCEPT ![b] = Front(@)]
    /\ UNCHANGED <<table, nextPid, finished>>

(* Kernel::start for the next child of the queue. *)
Start ==
    /\ ~Over /\ spawn # <<>>
    /\ stack' = [stack EXCEPT ![Head(spawn)] = <<Head(spawn)>>]
    /\ spawn' = Tail(spawn)
    /\ UNCHANGED <<table, nextPid, finished>>

(* The same when its program cannot be instantiated or charged for. *)
StartFails ==
    /\ ~Over /\ spawn # <<>>
    /\ table' = SetExit(table, Head(spawn), "126")
    /\ spawn' = Tail(spawn)
    /\ UNCHANGED <<nextPid, stack, finished>>

(* replace_instance when the new program cannot be started.  Its success   *)
(* changes nothing here.  The session's own status is not recorded.        *)
ExecFails(b) ==
    /\ ~Over /\ Len(stack[b]) = 1
    /\ table' = SetExit(table, b, "126")
    /\ stack' = [stack EXCEPT ![b] = <<>>]
    /\ UNCHANGED <<nextPid, spawn, finished>>

(* finish_process: exit outside vfork, a fatal signal, a trap, the end of  *)
(* main.  The session is over with the first process or the last instance. *)
Finish(b, status) ==
    /\ ~Over /\ b \in Instances
    /\ table' = TearDown(table, stack[b], status)
    /\ stack' = [stack EXCEPT ![b] = <<>>]
    /\ finished' = IF b = First \/ Instances = {b} THEN status ELSE None
    /\ UNCHANGED <<nextPid, spawn>>

(* Kernel::run past the wall-clock limit. *)
KillAll(order) ==
    /\ ~Over
    /\ table' = KillAllOf(table, order)
    /\ stack' = [b \in Pid |-> <<>>]
    /\ finished' = "SIGKILL"
    /\ UNCHANGED <<nextPid, spawn>>

(* Kernel::run when a pass leaves no instance without having recorded a    *)
(* status: exit_status.unwrap_or(0).                                       *)
NoneLeft ==
    /\ ~Over /\ Instances = {}
    /\ finished' = "0"
    /\ UNCHANGED <<table, nextPid, stack, spawn>>

(* wait4 that finds a dead child: the first in the table, which is the one *)
(* with the lowest pid, because records are pushed in the order of pids.   *)
Reap(b, which) ==
    /\ ~Over /\ b \in Instances
    /\ \E c \in Reapable(Current(b), which) :
          /\ \A d \in Reapable(Current(b), which) : c <= d
          /\ table' = [table EXCEPT ![c] = None]
    /\ UNCHANGED <<nextPid, stack, spawn, finished>>

Next ==
    \/ \E b \in Pid :
          \/ Vfork(b)
          \/ ExecChild(b)
          \/ ExecFails(b)
          \/ \E status \in Codes : ExitChild(b, status)
          \/ \E status \in Status : Finish(b, status)
          \/ \E which \in Pid \cup {0} : Reap(b, which)
    \/ Start
    \/ StartFails
    \/ \E order \in SetToSeqs(Instances) : KillAll(order)
    \/ NoneLeft

Spec == Init /\ [][Next]_vars

-----------------------------------------------------------------------------
TypeOK ==
    /\ table \in [Pid -> ProcRecord \cup {None}]
    /\ nextPid \in Pid \cup {MaxPid + 1}
    /\ stack \in [Pid -> Seq(Pid)]
    /\ \A b \in Instances : stack[b][1] = b
    /\ spawn \in Seq(Pid)
    /\ finished \in Status \cup {None}

(* Where a task is: a place in an instance's stack or in the spawn queue.  *)
Places(p) ==
    {place \in Pid \X Pid :
        place[2] <= Len(stack[place[1]]) /\ stack[place[1]][place[2]] = p}
    \cup {<<NoPid, n>> : n \in {m \in 1 .. Len(spawn) : spawn[m] = p}}

(* A record is alive exactly while its task is somewhere, and a task is in *)
(* one place only: no live record that nothing will ever end (its parent   *)
(* would wait for ever), and no task whose record has been reaped or whose *)
(* pid names somebody else.                                                *)
RecordsMatchTasks ==
    \A p \in Pid : Cardinality(Places(p)) = IF Alive(p) THEN 1 ELSE 0

(* A task that waits in a vfork stack is the parent of the task above it,  *)
(* so the pid that vfork returns to it is one it can wait for.             *)
VforkParentIsParent ==
    \A b \in Pid : \A n \in 2 .. Len(stack[b]) : table[stack[b][n]].ppid = stack[b][n - 1]

(* While the first process lives, every dead child has a live parent that  *)
(* can still collect its status: orphans are handed over, dead or alive    *)
(* (set_exit), whichever of parent and child goes first.                   *)
ZombiesHaveParents ==
    Alive(First) => \A p \in Pid : Zombie(p) => Alive(table[p].ppid)

(* While the session lasts, a process that ends is dropped from the table  *)
(* without a trace only if it has no live parent: no status is lost that   *)
(* somebody could wait for.                                                *)
StatusIsKept ==
    [][~Over' => \A p \in Pid : Alive(p) /\ table'[p] = None => ~Alive(table[p].ppid)]_vars

(* What wait4 will report of a dead child never changes, and only the      *)
(* child's parent takes it away, by waiting.                               *)
StatusIsFinal ==
    [][\A p \in Pid : Zombie(p) =>
          \/ table'[p] # None /\ table'[p].exit = table[p].exit
          \/ \E b \in Pid : Reap(b, p) /\ Current(b) = table[p].ppid]_vars
=============================================================================
