-------------------------------- MODULE Calls --------------------------------
(***************************************************************************)
(* What a guest program is promised of its own control: a call that waits  *)
(* comes back to the frames that made it, with the kernel's answer; setjmp *)
(* comes back with zero, and again, to the same frames, with the value of  *)
(* each longjmp; vfork comes back with zero in the child and, when the     *)
(* child exits or executes a program, with the child's pid in the frames   *)
(* that called vfork, however deep the child went and however many         *)
(* children it had in the meantime.  docs/ABI.md promises this of the      *)
(* imports.  Module Guest is the implementation, which has no stack it can *)
(* keep: it unwinds the guest and rewinds it again.                        *)
(*                                                                         *)
(* A frame is the last result it has seen from a call.  A pending call's   *)
(* frame shows Pending.                                                    *)
(***************************************************************************)
EXTENDS Integers, SequencesExt

CONSTANTS Env,          \* the program's jmp_bufs
          Value,        \* what calls answer and what longjmp passes
          Child,        \* pids of vfork children
          Failed,       \* a vfork that failed
          Pending,      \* the result a frame waits for
          None          \* the absence of a value

VARIABLES stack,        \* the frames, innermost last
          at,           \* what the innermost frame is doing
          saved,        \* the frames each jmp_buf stands for, or None
          lent          \* callers of vfork, innermost last, with their children

callVars == <<stack, at, saved, lent>>

Running == [is |-> "running"]
Ended == [is |-> "ended"]
Owed(v) == [is |-> "owed", value |-> v]
Calling(c) == [is |-> "calls", call |-> c]

(* The calls that do not answer at once. *)
Op(name) == [op |-> name, env |-> None, value |-> None]
Setjmp(e) == [op |-> "setjmp", env |-> e, value |-> None]
Longjmp(e, v) == [op |-> "longjmp", env |-> e, value |-> v]
Call == {Op("wait"), Op("exec"), Op("vfork")}
            \cup {Setjmp(e) : e \in Env}
            \cup {Longjmp(e, v) : e \in Env, v \in Value}

WithTop(s, v) == [s EXCEPT ![Len(s)] = v]

Init ==
    /\ stack = <<0>>
    /\ at = Running
    /\ saved = [e \in Env |-> None]
    /\ lent = <<>>

Enter ==
    /\ at = Running
    /\ stack' = Append(stack, 0)
    /\ UNCHANGED <<at, saved, lent>>

Leave ==
    /\ at = Running /\ Len(stack) > 1
    /\ stack' = Front(stack)
    /\ UNCHANGED <<at, saved, lent>>

Ask(v) ==
    /\ at = Running
    /\ stack' = WithTop(stack, v)
    /\ UNCHANGED <<at, saved, lent>>

Begin(c) ==
    /\ at = Running
    /\ at' = Calling(c)
    /\ stack' = WithTop(stack, Pending)
    /\ UNCHANGED <<saved, lent>>

Answer(v) ==
    /\ at \in {Calling(Op("wait")), Calling(Op("exec"))}
    /\ at' = Owed(v)
    /\ UNCHANGED <<stack, saved, lent>>

Receive ==
    /\ at.is = "owed"
    /\ stack' = WithTop(stack, at.value)
    /\ at' = Running
    /\ UNCHANGED <<saved, lent>>

Save(e) ==
    /\ at = Calling(Setjmp(e))
    /\ saved' = [saved EXCEPT ![e] = stack]
    /\ at' = Owed(0)
    /\ UNCHANGED <<stack, lent>>

Jump(e, v) ==
    /\ at = Calling(Longjmp(e, v)) /\ saved[e] # None
    /\ stack' = saved[e]
    /\ at' = Owed(v)
    /\ UNCHANGED <<saved, lent>>

Lend(child) ==
    /\ at = Calling(Op("vfork"))
    /\ \A i \in DOMAIN lent : lent[i].child # child
    /\ lent' = Append(lent, [stack |-> stack, child |-> child])
    /\ stack' = WithTop(stack, 0)
    /\ at' = Running
    /\ UNCHANGED saved

VforkFails ==
    /\ at = Calling(Op("vfork"))
    /\ stack' = WithTop(stack, Failed)
    /\ at' = Running
    /\ UNCHANGED <<saved, lent>>

ChildEnds ==
    /\ at \in {Running, Calling(Op("exec"))} /\ lent # <<>>
    /\ stack' = Last(lent).stack
    /\ at' = Owed(Last(lent).child)
    /\ lent' = Front(lent)
    /\ UNCHANGED saved

(* execve outside vfork: a new program in the place of the old one. *)
Replaced ==
    /\ at = Calling(Op("exec")) /\ lent = <<>>
    /\ stack' = <<0>> /\ at' = Running
    /\ saved' = [e \in Env |-> None] /\ lent' = <<>>

Ends ==
    /\ at # Ended
    /\ stack' = <<>> /\ at' = Ended
    /\ saved' = [e \in Env |-> None] /\ lent' = <<>>

Next ==
    \/ Enter \/ Leave \/ Receive \/ VforkFails \/ ChildEnds \/ Replaced \/ Ends
    \/ \E v \in Value : Ask(v) \/ Answer(v)
    \/ \E c \in Call : Begin(c)
    \/ \E e \in Env : Save(e) \/ \E v \in Value : Jump(e, v)
    \/ \E child \in Child : Lend(child)

Spec == Init /\ [][Next]_callVars
=============================================================================
