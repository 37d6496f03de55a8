-------------------------------- MODULE Guest --------------------------------
(***************************************************************************)
(* How one instance leaves and re-enters its guest: the import shims, the  *)
(* Asyncify bookkeeping of ExecState and the part of the scheduler that    *)
(* drives it (kernel/mod.rs: imports, step_process, after_return), with    *)
(* vfork as the C library builds it from setjmp, longjmp and clone         *)
(* (toolchain/musl/src/process/wasm32).                                    *)
(*                                                                         *)
(* An import that cannot answer unwinds the guest: Asyncify copies the     *)
(* frames to an area of guest memory and _start returns.  To go on, the    *)
(* kernel has Asyncify put the frames back, which calls the import again,  *)
(* and that second call hands over the result.  Asyncify saves frames and  *)
(* locals but no globals, so __stack_pointer stays where the unwind left   *)
(* it and the kernel restores it.                                          *)
(*                                                                         *)
(* A frame is the last result it has seen, and each takes one unit of the  *)
(* shadow stack.  Signals are module Signals; which task runs and what the *)
(* kernel answers is left open here.                                       *)
(***************************************************************************)
EXTENDS Integers, FiniteSets, SequencesExt

CONSTANTS Env,          \* addresses of the program's jmp_bufs
          Value,        \* what calls answer and what longjmp passes
          Child,        \* pids of vfork children
          Failed,       \* what vfork returns when clone fails
          Pending,      \* the result a frame waits for
          None,         \* the absence of a value
          MaxDepth,     \* bound: frames at once
          VforkDepth    \* VFORK_DEPTH: the jmp_bufs vfork has

(* jbs[n], the jmp_buf of the n-th vfork in progress, has address n. *)
Jbs == 0 .. VforkDepth - 1
Bufs == Env \cup Jbs
StackTop == MaxDepth + 1

ASSUME GuestAssumption ==
    /\ MaxDepth \in Nat \ {0} /\ VforkDepth \in Nat
    /\ Env \subseteq Nat \ Jbs
    /\ Value \subseteq Int /\ Child \subseteq Nat \ {0}
    /\ Child \cap Value = {}
    /\ None \notin Seq(Value \cup Child \cup {0, Failed, Pending})

VARIABLES where,        \* "inside" the guest, "left" it, "waits" for the scheduler, "gone"
          frames,       \* the frames on the machine, innermost last; <<>> outside
          then,         \* what the C library does with the last result: "code",
                        \* "vfork" after its setjmp, "back" to vfork's caller
          sp,           \* __stack_pointer
          area,         \* Asyncify's area: frames and the import they are in, or None
          resume,       \* Proc::resume
          exec,         \* ExecState: rewinding, resume_value, resume_sp, suspension
          jmp_bufs,     \* ExecState::jmp_bufs: area and stack pointer, by address
          children,     \* the child above each parent of vfork_stack
          depth         \* the C library's count of vforks in progress

vars == <<where, frames, then, sp, area, resume, exec, jmp_bufs, children, depth>>
program == <<jmp_bufs, children, depth>>

-----------------------------------------------------------------------------
WithTop(s, v) == [s EXCEPT ![Len(s)] = v]
Op(name) == [op |-> name, env |-> None, value |-> None]
SetjmpTo(e) == [op |-> "setjmp", env |-> e, value |-> None]
LongjmpTo(e, v) == [op |-> "longjmp", env |-> e, value |-> v]

Fresh == [to |-> "fresh", call |-> None]
Rewind == [to |-> "rewind", call |-> None]
Blocked(c) == [to |-> "blocked", call |-> c]

Idle == [rewinding |-> FALSE, resume_value |-> 0, resume_sp |-> 0, suspension |-> None]

(* A fresh instance, on its way into _start. *)
Init ==
    /\ where = "inside" /\ frames = <<0>> /\ then = "code"
    /\ sp = StackTop - 1
    /\ area = None
    /\ resume = Fresh
    /\ exec = Idle
    /\ jmp_bufs = <<>>
    /\ children = <<>>
    /\ depth = 0

(* Guest code is executing, and the C library has nothing of its own to do *)
(* with the last result.                                                   *)
Inside == where = "inside" /\ ~exec.rewinding
InCode == Inside /\ then = "code"

Enter ==
    /\ InCode /\ Len(frames) < MaxDepth
    /\ frames' = Append(frames, 0)
    /\ sp' = sp - 1
    /\ UNCHANGED <<where, then, area, resume, exec, program>>

Leave ==
    /\ InCode /\ Len(frames) > 1
    /\ frames' = Front(frames)
    /\ sp' = sp + 1
    /\ UNCHANGED <<where, then, area, resume, exec, program>>

(* imports::unwind, and what Asyncify then does: every frame is saved and  *)
(* returned from, without the epilogue that would move __stack_pointer.    *)
Unwind(import, resume_sp) ==
    /\ area' = [frames |-> WithTop(frames, Pending), import |-> import]
    /\ exec' = [exec EXCEPT !.suspension = import, !.resume_sp = resume_sp]
    /\ frames' = <<>>
    /\ where' = "left"

(* syscall_entry with Outcome::Value, Outcome::Blocked and Outcome::Exec. *)
SyscallAnswers(v) ==
    /\ InCode
    /\ frames' = WithTop(frames, v)
    /\ UNCHANGED <<where, then, sp, area, resume, exec, program>>

SyscallBlocks(name) ==
    /\ InCode
    /\ Unwind([op |-> "blocked", env |-> name, value |-> None], sp)
    /\ UNCHANGED <<then, sp, resume, program>>

SyscallExecs ==
    /\ InCode /\ children = <<>>
    /\ Unwind(Op("exec"), exec.resume_sp)
    /\ UNCHANGED <<then, sp, resume, program>>

(* exit outside vfork: syscall_entry with Outcome::Exit. *)
SyscallExits ==
    /\ InCode /\ children = <<>>
    /\ Unwind(Op("exit"), exec.resume_sp)
    /\ UNCHANGED <<then, sp, resume, program>>

(* setjmp_entry and longjmp_entry.  The pointer that goes with a snapshot  *)
(* is the one at the call.                                                 *)
Setjmp(e) ==
    /\ InCode
    /\ Unwind(SetjmpTo(e), exec.resume_sp)
    /\ UNCHANGED <<then, sp, resume, program>>

Longjmp(e, v) ==
    /\ InCode
    /\ Unwind(LongjmpTo(e, v), exec.resume_sp)
    /\ UNCHANGED <<then, sp, resume, program>>

-----------------------------------------------------------------------------
(* vfork (vfork.c): a setjmp in the caller's frame on the next jmp_buf.    *)
(* Bound: no more than VforkDepth vforks in progress.                      *)
VforkStarts ==
    /\ InCode /\ depth < VforkDepth
    /\ Unwind(SetjmpTo(depth), exec.resume_sp)
    /\ UNCHANGED <<then, sp, resume, program>>

(* __wasmux_vfork_ret: the setjmp came back with zero, and clone gives the *)
(* instance to a child or is refused; or it came back with a pid.          *)
VforkClones(child) ==
    /\ Inside /\ then = "vfork" /\ Last(frames) = 0
    /\ child \notin Range(children)
    /\ children' = Append(children, child)
    /\ depth' = depth + 1
    /\ then' = "code"
    /\ UNCHANGED <<where, frames, sp, area, resume, exec, jmp_bufs>>

VforkRefusedTwice ==                        \* mutant: a refused vfork is counted down twice
    /\ Inside /\ then = "vfork" /\ Last(frames) = 0
    /\ frames' = WithTop(frames, Failed)
    /\ depth' = depth - 1
    /\ then' = "code"
    /\ UNCHANGED <<where, sp, area, resume, exec, jmp_bufs, children>>

VforkRefused ==
    /\ Inside /\ then = "vfork" /\ Last(frames) = 0
    /\ frames' = WithTop(frames, Failed)
    /\ then' = "code"
    /\ UNCHANGED <<where, sp, area, resume, exec, program>>

VforkReturns ==
    /\ Inside /\ then = "vfork" /\ Last(frames) # 0
    /\ depth' = depth - 1
    /\ then' = "code"
    /\ UNCHANGED <<where, frames, sp, area, resume, exec, jmp_bufs, children>>

(* exit, or execve that answers at once, in a vfork child: the kernel pops *)
(* vfork_stack and answers the child's pid (_Exit.c, execve.c).            *)
ChildEnds ==
    /\ InCode /\ children # <<>>
    /\ frames' = WithTop(frames, Last(children))
    /\ children' = Front(children)
    /\ then' = "back"
    /\ UNCHANGED <<where, sp, area, resume, exec, jmp_bufs, depth>>

(* Mutant: back to the first vfork's caller. *)
VforkReturnToFirst ==
    /\ Inside /\ then = "back"
    /\ Unwind(LongjmpTo(0, Last(frames)), exec.resume_sp)
    /\ then' = "code"
    /\ UNCHANGED <<sp, resume, program>>

(* __wasmux_vfork_return. *)
VforkReturn ==
    /\ Inside /\ then = "back"
    /\ Unwind(LongjmpTo(depth - 1, Last(frames)), exec.resume_sp)
    /\ then' = "code"
    /\ UNCHANGED <<sp, resume, program>>

-----------------------------------------------------------------------------
(* after_return, which takes the suspension; and the end of the instance.  *)
Left(op) == where = "left" /\ exec.suspension.op = op

AfterSetjmp ==
    /\ Left("setjmp")
    /\ jmp_bufs' = [e \in DOMAIN jmp_bufs \cup {exec.suspension.env} |->
                       IF e = exec.suspension.env THEN [area |-> area, sp |-> sp]
                       ELSE jmp_bufs[e]]
    /\ exec' = [exec EXCEPT !.suspension = None, !.resume_value = 0, !.resume_sp = sp]
    /\ resume' = Rewind /\ where' = "waits"
    /\ UNCHANGED <<frames, then, sp, area, children, depth>>

(* Mutant: the stack pointer is not restored with the frames. *)
AfterLongjmpDeep ==
    /\ Left("longjmp") /\ exec.suspension.env \in DOMAIN jmp_bufs
    /\ area' = jmp_bufs[exec.suspension.env].area
    /\ exec' = [exec EXCEPT !.suspension = None, !.resume_sp = sp,
                            !.resume_value = exec.suspension.value]
    /\ resume' = Rewind /\ where' = "waits"
    /\ UNCHANGED <<frames, then, sp, program>>

AfterLongjmp ==
    /\ Left("longjmp") /\ exec.suspension.env \in DOMAIN jmp_bufs
    /\ area' = jmp_bufs[exec.suspension.env].area
    /\ exec' = [exec EXCEPT !.suspension = None,
                            !.resume_sp = jmp_bufs[exec.suspension.env].sp,
                            !.resume_value = exec.suspension.value]
    /\ resume' = Rewind /\ where' = "waits"
    /\ UNCHANGED <<frames, then, sp, program>>

AfterBlocked ==
    /\ Left("blocked")
    /\ exec' = [exec EXCEPT !.suspension = None]
    /\ resume' = Blocked(exec.suspension.env) /\ where' = "waits"
    /\ UNCHANGED <<frames, then, sp, area, program>>

(* finish_process: the instance goes with everything it had. *)
Goes ==
    /\ where' = "gone" /\ frames' = <<>> /\ then' = "code"
    /\ sp' = StackTop /\ area' = None /\ resume' = Fresh /\ exec' = Idle
    /\ jmp_bufs' = <<>> /\ children' = <<>> /\ depth' = 0

(* longjmp to a jmp_buf that was never set ends the process. *)
AfterBadLongjmp ==
    /\ Left("longjmp") /\ exec.suspension.env \notin DOMAIN jmp_bufs
    /\ Goes

AfterExit == Left("exit") /\ Goes

(* A trap, or the end of main. *)
TrapsOrEnds == InCode /\ Goes

(* replace_instance: a fresh instance, or none when it cannot be started.  *)
Anew ==
    /\ where' = "inside" /\ frames' = <<0>> /\ then' = "code"
    /\ sp' = StackTop - 1 /\ area' = None /\ resume' = Fresh /\ exec' = Idle
    /\ jmp_bufs' = <<>> /\ children' = <<>> /\ depth' = 0

ReplaceInstance == Anew \/ Goes

AfterExec == Left("exec") /\ ReplaceInstance

-----------------------------------------------------------------------------
(* step_process.  A retry that still blocks changes nothing. *)
Waits(to) == where = "waits" /\ resume.to = to

(* asy_start_rewind and run_start: the guest is called again, and the next *)
(* import it reaches is the one that unwound it.                           *)
Reenter(v) ==
    /\ exec' = [exec EXCEPT !.rewinding = TRUE, !.resume_value = v]
    /\ resume' = Fresh
    /\ where' = "inside"

StepRewinds ==
    /\ Waits("rewind")
    /\ Reenter(exec.resume_value)
    /\ UNCHANGED <<frames, then, sp, area, program>>

(* The call is dispatched again, outside the guest. *)
RetryAnswers(v) ==
    /\ Waits("blocked")
    /\ Reenter(v)
    /\ UNCHANGED <<frames, then, sp, area, program>>

(* An execve that waited for its program to be read: in a vfork child it   *)
(* answers the child's pid, otherwise the instance is replaced.            *)
RetryExecs ==
    /\ Waits("blocked") /\ resume.call = "exec"
    /\ \/ /\ children # <<>>
          /\ children' = Front(children)
          /\ Reenter(Last(children))
          /\ UNCHANGED <<frames, then, sp, area, jmp_bufs, depth>>
       \/ children = <<>> /\ ReplaceInstance

(* What the C library around an import goes on with: vfork's own setjmp,   *)
(* an execve that answered a pid, or plain code.                           *)
Continues(import, v) ==
    IF import.op = "setjmp" /\ import.env \in Jbs THEN "vfork"
    ELSE IF import.op = "blocked" /\ import.env = "exec" /\ v \in Child THEN "back"
    ELSE "code"

(* finish_rewind: Asyncify has put the frames back and calls the import.   *)
FinishRewind ==
    /\ where = "inside" /\ exec.rewinding
    /\ frames' = WithTop(area.frames, exec.resume_value)
    /\ then' = Continues(area.import, exec.resume_value)
    /\ sp' = IF exec.resume_sp # 0 THEN exec.resume_sp ELSE sp
    /\ exec' = [exec EXCEPT !.rewinding = FALSE]
    /\ area' = None
    /\ UNCHANGED <<where, resume, program>>

Next ==
    \/ Enter \/ Leave \/ SyscallExecs \/ SyscallExits
    \/ \E v \in Value : SyscallAnswers(v) \/ RetryAnswers(v)
    \/ \E name \in {"wait", "exec"} : SyscallBlocks(name)
    \/ \E e \in Env : Setjmp(e) \/ \E v \in Value : Longjmp(e, v)
    \/ VforkStarts \/ VforkRefused \/ VforkReturns \/ VforkReturn
    \/ \E child \in Child : VforkClones(child)
    \/ ChildEnds
    \/ AfterSetjmp \/ AfterLongjmp \/ AfterBlocked \/ AfterBadLongjmp
    \/ AfterExit \/ AfterExec \/ TrapsOrEnds
    \/ StepRewinds \/ RetryExecs \/ FinishRewind

Spec == Init /\ [][Next]_vars

-----------------------------------------------------------------------------
(* Each variable holds what its comment says, and the frames are on the    *)
(* machine or in the area, never in both.                                  *)
Result == Value \cup Child \cup {0, Failed, Pending}
Op_OK(c) == c.op \in {"setjmp", "longjmp", "blocked", "exec", "exit"}
TypeOK ==
    /\ where \in {"inside", "left", "waits", "gone"}
    /\ frames \in Seq(Result) /\ Len(frames) <= MaxDepth
    /\ then \in {"code", "vfork", "back"}
    /\ sp \in 0 .. StackTop
    /\ resume.to \in {"fresh", "rewind", "blocked"}
    /\ exec.rewinding \in BOOLEAN
    /\ exec.suspension # None => Op_OK(exec.suspension)
    /\ Inside = (frames # <<>>)
    /\ Inside \/ where = "gone" => area = None
    /\ children \in Seq(Child) /\ Len(children) <= depth
    /\ depth \in 0 .. VforkDepth

(* Whenever guest code runs, __stack_pointer is where its frames left it:  *)
(* after a retry, after a longjmp out of deeper frames, and in the parent  *)
(* after a vfork child.  Off by one frame, two frames share their memory.  *)
StackPointerKept == Inside => sp = StackTop - Len(frames)

-----------------------------------------------------------------------------
(* The child has ended and its pid is on the way to vfork's caller: the    *)
(* kernel has popped its task and the C library has not counted down.      *)
Returning == Len(children) < depth
VforkFrames(n) == jmp_bufs[n - 1].area.frames
Over == where = "gone" \/ (where = "left" /\ exec.suspension.op = "exit")

Due ==
    IF where = "left" THEN exec.suspension.value
    ELSE IF Inside THEN Last(frames)
    ELSE exec.resume_value

CallOf(import) ==
    CASE import.op = "blocked" -> Op(import.env)
      [] import.op = "setjmp" /\ import.env \in Jbs -> Op("vfork")
      [] OTHER -> import

AbstractAt ==
    IF Over THEN [is |-> "ended"]
    ELSE IF Returning THEN [is |-> "owed", value |-> Due]
    ELSE IF InCode THEN [is |-> "running"]
    ELSE IF Inside THEN [is |-> "calls", call |-> Op("vfork")]
    ELSE IF where = "left" \/ Waits("blocked") \/ CallOf(area.import) = Op("vfork")
    THEN [is |-> "calls", call |-> CallOf(area.import)]
    ELSE [is |-> "owed", value |-> exec.resume_value]

AbstractStack ==
    IF Over THEN <<>>
    ELSE IF Returning THEN VforkFrames(depth)
    ELSE IF InCode THEN frames
    ELSE IF Inside THEN WithTop(frames, Pending)
    ELSE area.frames

AbstractSaved ==
    [e \in Env |-> IF Over \/ e \notin DOMAIN jmp_bufs THEN None ELSE jmp_bufs[e].area.frames]

AbstractLent ==
    IF Over THEN <<>>
    ELSE [n \in 1 .. Len(children) |-> [stack |-> VforkFrames(n), child |-> children[n]]]

(* The instance keeps the guest's control as module Calls promises: every  *)
(* result reaches the frame that asked for it, through any interleaving of *)
(* blocked calls, jumps and nested vforks.                                 *)
Promise == INSTANCE Calls
              WITH stack <- AbstractStack, at <- AbstractAt,
                   saved <- AbstractSaved, lent <- AbstractLent

ImplementsCalls == Promise!Spec
=============================================================================
