----------------------------- MODULE GuestProofs -----------------------------
(***************************************************************************)
(* For any depth of frames and of vforks, any values and any pids: guest   *)
(* code always runs with the stack pointer its frames left, and the C      *)
(* library never counts a vfork down that is not on its way back.          *)
(*                                                                         *)
(* Both come from one invariant, which says at each place the control of   *)
(* an instance can be (in the guest, out of it, waiting for the scheduler, *)
(* on its way back in) what the area, the suspension and the pointer to    *)
(* resume with have to do with each other.                                 *)
(*                                                                         *)
(* With it the instance implements module Calls.  Sections 6 to 8 say what *)
(* a state of Guest is for Calls at each such place, and compare for each  *)
(* action what it was before with what it is after.                        *)
(***************************************************************************)
EXTENDS Guest, SequenceTheorems, TLAPS

Stacks == {s \in Seq(Result) : Len(s) \in 1 .. MaxDepth}
IsArea(a) == a.frames \in Stacks /\ Last(a.frames) = Pending /\ Op_OK(a.import)
SpOf(s) == StackTop - Len(s)

(* What the import the area is in may come back with. *)
MayAnswer(v) ==
    /\ area.import.op = "setjmp" =>
          IF area.import.env \in Jbs
          THEN \/ /\ v = 0 /\ ~Returning
                  /\ area.import.env = depth /\ depth \in DOMAIN jmp_bufs
                  /\ area.frames = VforkFrames(depth + 1)
               \/ /\ v \in Child /\ Returning
                  /\ area.import.env = depth - 1 /\ area.frames = VforkFrames(depth)
          ELSE ~Returning
    /\ area.import.op = "blocked" =>
          IF v \in Child THEN Returning /\ area.import.env = "exec" ELSE ~Returning

Typed ==
    /\ where \in {"inside", "left", "waits", "gone"}
    /\ then \in {"code", "vfork", "back"}
    /\ sp \in 0 .. StackTop
    /\ resume.to \in {"fresh", "rewind", "blocked"}
    /\ exec = [rewinding |-> exec.rewinding, resume_value |-> exec.resume_value,
               resume_sp |-> exec.resume_sp, suspension |-> exec.suspension]
    /\ exec.rewinding \in BOOLEAN /\ exec.resume_value \in Result
    /\ exec.resume_sp \in 0 .. StackTop
    /\ exec.suspension # None => Op_OK(exec.suspension)
    /\ children \in Seq(Child) /\ Len(children) <= depth /\ depth <= Len(children) + 1
    /\ depth \in 0 .. VforkDepth

InGuest ==
    /\ frames \in Stacks /\ sp = SpOf(frames) /\ area = None
    /\ then = "code" => ~Returning
    /\ then = "vfork" =>
          IF Last(frames) = 0
          THEN /\ depth < VforkDepth /\ ~Returning /\ depth \in DOMAIN jmp_bufs
               /\ VforkFrames(depth + 1) = WithTop(frames, Pending)
          ELSE Returning /\ VforkFrames(depth) = WithTop(frames, Pending)
    /\ then = "back" => Last(frames) \in Child /\ Returning

(* The imports guest code unwinds in. *)
Leaves(import) ==
    /\ Op_OK(import)
    /\ import.op = "setjmp" =>
          /\ import.env \in Bufs /\ import = SetjmpTo(import.env)
          /\ import.env \in Jbs => import.env = depth
    /\ import.op = "longjmp" =>
          /\ import.env \in Bufs /\ import = LongjmpTo(import.env, import.value)
          /\ IF import.env \in Jbs
             THEN import.value \in Child /\ import.env = depth - 1 /\ Returning
             ELSE import.value \in Value
    /\ ~(import.op = "longjmp" /\ import.env \in Jbs) => ~Returning
    /\ import.op = "blocked" => import.env \in {"wait", "exec"}
    /\ import.op \in {"exec", "exit"} => children = <<>> /\ import = Op(import.op)

HasLeft ==
    /\ IsArea(area) /\ sp = SpOf(area.frames)
    /\ Leaves(area.import) /\ exec.suspension = area.import /\ ~exec.rewinding
    /\ area.import.op = "blocked" => exec.resume_sp = sp

IsWaiting ==
    /\ IsArea(area) /\ exec.resume_sp = SpOf(area.frames) /\ ~exec.rewinding
    /\ resume.to \in {"rewind", "blocked"}
    /\ resume.to = "rewind" => area.import.op = "setjmp" /\ MayAnswer(exec.resume_value)
    /\ resume.to = "blocked" =>
          /\ area.import.op = "blocked" /\ area.import.env \in {"wait", "exec"}
          /\ resume.call = area.import.env /\ ~Returning

IsRewinding ==
    /\ IsArea(area) /\ exec.resume_sp = SpOf(area.frames)
    /\ area.import.op \in {"setjmp", "blocked"} /\ MayAnswer(exec.resume_value)
    /\ area.import.op = "blocked" => area.import.env \in {"wait", "exec"}

(* What setjmp has kept is the frames of that setjmp, with their pointer. *)
SavedAreas ==
    /\ DOMAIN jmp_bufs \subseteq Bufs
    /\ \A e \in DOMAIN jmp_bufs :
          /\ IsArea(jmp_bufs[e].area)
          /\ jmp_bufs[e].area.import = SetjmpTo(e)
          /\ jmp_bufs[e].sp = SpOf(jmp_bufs[e].area.frames)

(* Every vfork in progress has its snapshot. *)
VforksSaved == \A n \in 1 .. depth : n - 1 \in DOMAIN jmp_bufs

IInv ==
    /\ Typed
    /\ SavedAreas
    /\ VforksSaved
    /\ Inside => InGuest
    /\ ~Inside => frames = <<>>
    /\ where = "left" => HasLeft
    /\ where = "waits" => IsWaiting
    /\ where = "inside" /\ exec.rewinding => IsRewinding
    /\ where = "gone" => area = None

-----------------------------------------------------------------------------
(* 1. Frames.                                                              *)

LEMMA TopChanges ==
    ASSUME NEW s \in Stacks, NEW v \in Result
    PROVE  /\ WithTop(s, v) \in Stacks
           /\ Len(WithTop(s, v)) = Len(s)
           /\ Last(WithTop(s, v)) = v
<1>1. s \in Seq(Result) /\ Len(s) \in 1 .. MaxDepth
  BY DEF Stacks
<1>2. /\ WithTop(s, v) \in Seq(Result)
      /\ Len(WithTop(s, v)) = Len(s)
      /\ WithTop(s, v)[Len(s)] = v
  BY <1>1, GuestAssumption, ExceptSeq DEF WithTop
<1> QED
  BY <1>1, <1>2 DEF Stacks, Last

(* What the innermost frame saw before does not matter to its next result. *)
LEMMA TopTwice ==
    ASSUME NEW s \in Stacks, NEW v \in Result, NEW w \in Result
    PROVE  /\ WithTop(WithTop(s, v), w) = WithTop(s, w)
           /\ WithTop(s, Last(s)) = s
<1>1. s \in Seq(Result) /\ Len(s) \in 1 .. MaxDepth
  BY DEF Stacks
<1>2. Last(s) \in Result
  BY <1>1, GuestAssumption, ElementOfSeq DEF Last
<1>3. /\ WithTop(s, v) \in Seq(Result) /\ Len(WithTop(s, v)) = Len(s)
      /\ WithTop(s, w) \in Seq(Result) /\ Len(WithTop(s, w)) = Len(s)
      /\ WithTop(s, Last(s)) \in Seq(Result) /\ Len(WithTop(s, Last(s))) = Len(s)
      /\ WithTop(WithTop(s, v), w) \in Seq(Result)
      /\ Len(WithTop(WithTop(s, v), w)) = Len(s)
  BY <1>1, <1>2, TopChanges DEF Stacks
<1>4. \A i \in 1 .. Len(s) : /\ WithTop(WithTop(s, v), w)[i] = WithTop(s, w)[i]
                             /\ WithTop(s, Last(s))[i] = s[i]
  BY <1>1, <1>3, LenProperties DEF WithTop, Last
<1> QED
  BY <1>1, <1>3, <1>4, SeqEqual

LEMMA FrameAdded ==
    ASSUME NEW s \in Stacks, Len(s) < MaxDepth
    PROVE  /\ Append(s, 0) \in Stacks
           /\ Len(Append(s, 0)) = Len(s) + 1
<1>1. s \in Seq(Result) /\ Len(s) \in 1 .. MaxDepth /\ 0 \in Result
  BY DEF Stacks, Result
<1> QED
  BY <1>1, GuestAssumption, AppendProperties DEF Stacks

LEMMA FrontProperties ==
    ASSUME NEW S, NEW s \in Seq(S), Len(s) \in Nat \ {0}
    PROVE  /\ Front(s) \in Seq(S)
           /\ Len(Front(s)) = Len(s) - 1
           /\ \A n \in 1 .. Len(s) - 1 : Front(s)[n] = s[n]
<1>1. PICK m \in Nat : m = Len(s) - 1
  OBVIOUS
<1>2. \A n \in 1 .. m : s[n] \in S
  BY <1>1, ElementOfSeq
<1>3. /\ SubSeq(s, 1, m) \in Seq(S)
      /\ Len(SubSeq(s, 1, m)) = IF 1 <= m THEN m - 1 + 1 ELSE 0
      /\ \A i \in 1 .. m - 1 + 1 : SubSeq(s, 1, m)[i] = s[1 + i - 1]
  BY <1>2, SubSeqProperties
<1>4. \A i \in 1 .. m : i \in 1 .. m - 1 + 1 /\ 1 + i - 1 = i
  OBVIOUS
<1> QED
  BY <1>1, <1>3, <1>4 DEF Front

LEMMA LastOfChildren ==
    ASSUME NEW s \in Seq(Child), s # <<>>
    PROVE  /\ Last(s) \in Child
           /\ Front(s) \in Seq(Child)
           /\ Len(Front(s)) = Len(s) - 1
<1>1. Len(s) \in Nat \ {0} /\ \A i \in 1 .. Len(s) : s[i] \in Child
  BY EmptySeq, SeqEqual, LenProperties, ElementOfSeq
<1>2. s[Len(s)] \in Child
  BY <1>1
<1> QED
  BY <1>1, <1>2, FrontProperties DEF Last

LEMMA FrameTaken ==
    ASSUME NEW s \in Stacks, Len(s) > 1
    PROVE  /\ Front(s) \in Stacks
           /\ Len(Front(s)) = Len(s) - 1
  BY GuestAssumption DEF Stacks, Front

LEMMA SpBounds ==
    ASSUME NEW s \in Stacks
    PROVE  /\ Len(s) \in 1 .. MaxDepth
           /\ SpOf(s) \in 1 .. StackTop - 1
           /\ s # <<>>
  BY GuestAssumption DEF Stacks, SpOf, StackTop

LEMMA OneFrame == <<0>> \in Stacks /\ Len(<<0>>) = 1
  BY GuestAssumption DEF Stacks, Result

-----------------------------------------------------------------------------
(* 2. The invariant holds in a fresh instance and implies what it is for.  *)

LEMMA InitInvariant == Init => IInv
<1> SUFFICES ASSUME Init PROVE IInv
  OBVIOUS
<1>1. Typed
  BY GuestAssumption, OneFrame DEF Init, Idle, Fresh, Typed, StackTop, Result
<1>2. SavedAreas
  BY DEF Init, SavedAreas
<1>3. InGuest
  BY OneFrame, GuestAssumption DEF Init, InGuest, SpOf, StackTop, Returning
<1> QED
  BY <1>1, <1>2, <1>3 DEF IInv, VforksSaved, Init, Inside, Idle

LEMMA InvariantSuffices == IInv => TypeOK /\ StackPointerKept
<1> SUFFICES ASSUME IInv PROVE TypeOK /\ StackPointerKept
  OBVIOUS
<1>1. CASE Inside
  <2>1. frames \in Seq(Result) /\ Len(frames) <= MaxDepth /\ frames # <<>>
    BY <1>1, SpBounds, GuestAssumption DEF IInv, InGuest, Stacks
  <2> QED
    BY <1>1, <2>1 DEF IInv, Typed, InGuest, TypeOK, StackPointerKept, SpOf, Inside
<1>2. CASE ~Inside
  <2>1. frames \in Seq(Result) /\ Len(frames) = 0
    BY <1>2 DEF IInv
  <2> QED
    BY <1>2, <2>1, GuestAssumption DEF IInv, Typed, TypeOK, StackPointerKept, Inside
<1> QED
  BY <1>1, <1>2

-----------------------------------------------------------------------------
(* 3. What several actions have in common.                                 *)

LEMMA SavedAreasStay ==
    ASSUME SavedAreas, UNCHANGED jmp_bufs
    PROVE  SavedAreas'
  BY DEF SavedAreas, IsArea, Op_OK

(* Guest code goes on: in the same instance, with other frames. *)
LEMMA StaysInGuest ==
    ASSUME IInv, Inside,
           UNCHANGED <<where, area, resume, exec, jmp_bufs>>,
           then' \in {"code", "vfork", "back"},
           children' \in Seq(Child), Len(children') <= depth', depth' <= Len(children') + 1,
           depth' \in 0 .. VforkDepth,
           VforksSaved', InGuest'
    PROVE  IInv'
<1>1. Typed'
  <2>1. sp' \in 0 .. StackTop
    BY SpBounds, GuestAssumption DEF InGuest, StackTop
  <2> QED
    BY <2>1 DEF IInv, Typed, Op_OK
<1>2. SavedAreas'
  BY SavedAreasStay DEF IInv
<1> QED
  BY <1>1, <1>2 DEF IInv, Inside

(* The guest unwinds. *)
LEMMA LeavesGuest ==
    ASSUME IInv, Inside, NEW import, NEW r \in 0 .. StackTop,
           Unwind(import, r), UNCHANGED <<sp, resume, jmp_bufs, children, depth>>,
           then' \in {"code", "vfork", "back"},
           Leaves(import),
           import.op = "blocked" => r = sp
    PROVE  IInv'
<1>1. /\ where' = "left" /\ frames' = <<>>
      /\ area' = [frames |-> WithTop(frames, Pending), import |-> import]
      /\ exec' = [exec EXCEPT !.suspension = import, !.resume_sp = r]
  BY DEF Unwind
<1>2. /\ ~exec.rewinding /\ InGuest
      /\ exec' = [rewinding |-> FALSE, resume_value |-> exec.resume_value,
                  resume_sp |-> r, suspension |-> import]
  BY <1>1 DEF IInv, Typed, Inside
<1>3. Typed'
  BY <1>1, <1>2 DEF IInv, Typed, Leaves
<1>4. SavedAreas'
  BY SavedAreasStay DEF IInv
<1>5. /\ area'.frames \in Stacks /\ sp' = SpOf(area'.frames)
      /\ Last(area'.frames) = Pending
      /\ area'.import = import /\ exec'.suspension = import
  BY <1>1, <1>2, TopChanges DEF InGuest, SpOf, Result
<1>6. HasLeft'
  BY <1>2, <1>5 DEF HasLeft, IsArea, Leaves, Op_OK, Op, SetjmpTo, LongjmpTo, Returning
<1> QED
  BY <1>1, <1>3, <1>4, <1>6 DEF IInv, VforksSaved, Inside

(* The guest is called again, to have its frames put back. *)
LEMMA Reenters ==
    ASSUME IInv, where = "waits", NEW v \in Result, Reenter(v),
           UNCHANGED <<frames, then, sp, area, jmp_bufs, depth>>,
           children' \in Seq(Child), Len(children') <= depth, depth <= Len(children') + 1,
           MayAnswer(v)'
    PROVE  IInv'
<1>1. /\ where' = "inside"
      /\ exec' = [rewinding |-> TRUE, resume_value |-> v, resume_sp |-> exec.resume_sp,
                  suspension |-> exec.suspension]
  BY DEF Reenter, IInv, Typed
<1>2. Typed'
  BY <1>1 DEF IInv, Typed, Op_OK, Reenter, Fresh
<1>3. SavedAreas'
  BY SavedAreasStay DEF IInv
<1>4. IsRewinding'
  BY <1>1 DEF IInv, IsWaiting, IsRewinding, IsArea, Op_OK
<1> QED
  BY <1>1, <1>2, <1>3, <1>4 DEF IInv, VforksSaved, Inside

LEMMA StartsAnew ==
    ASSUME IInv, Anew
    PROVE  IInv'
<1>1. Typed'
  BY GuestAssumption DEF Anew, Idle, Fresh, Typed, StackTop, Result
<1>2. SavedAreas'
  BY DEF Anew, SavedAreas
<1>3. InGuest'
  BY OneFrame, GuestAssumption DEF Anew, InGuest, SpOf, StackTop, Returning
<1> QED
  BY <1>1, <1>2, <1>3 DEF IInv, VforksSaved, Anew, Inside, Idle

LEMMA IsGone ==
    ASSUME IInv, Goes
    PROVE  IInv'
<1>1. Typed'
  BY GuestAssumption DEF Goes, Idle, Fresh, Typed, StackTop, Result
<1>2. SavedAreas'
  BY DEF Goes, SavedAreas
<1> QED
  BY <1>1, <1>2 DEF IInv, VforksSaved, Goes, Inside, Idle

-----------------------------------------------------------------------------
(* 4. Every action keeps the invariant.                                    *)

LEMMA GuestSteps ==
    ASSUME IInv,
           \/ Enter \/ Leave \/ (\E v \in Value : SyscallAnswers(v))
           \/ (\E child \in Child : VforkClones(child))
           \/ VforkRefused \/ VforkReturns \/ ChildEnds
    PROVE  IInv'
<1>1. /\ children \in Seq(Child) /\ Len(children) \in Nat /\ Len(children) <= depth
      /\ depth <= Len(children) + 1
      /\ depth \in 0 .. VforkDepth /\ VforkDepth \in Nat /\ then \in {"code", "vfork", "back"}
      /\ 0 \in Result /\ Value \subseteq Result /\ Child \subseteq Result /\ Failed \in Result
  BY GuestAssumption, LenProperties DEF IInv, Typed, Result
<1>2. Inside /\ InGuest
  BY DEF IInv, Enter, Leave, SyscallAnswers, VforkClones, VforkRefused, VforkReturns,
         ChildEnds, InCode
<1>3. CASE Enter
  <2>1. InGuest'
    BY <1>2, <1>3, FrameAdded, SpBounds, GuestAssumption
       DEF Enter, InCode, InGuest, SpOf, StackTop, program, Returning
  <2> QED
    BY <1>1, <1>2, <1>3, <2>1, StaysInGuest DEF Enter, program, IInv, VforksSaved
<1>4. CASE Leave
  <2>1. InGuest'
    <3>1. /\ frames' \in Stacks /\ Len(frames') = Len(frames) - 1
          /\ then' = "code" /\ ~Returning' /\ sp' = sp + 1
      BY <1>2, <1>4, FrameTaken DEF Leave, InCode, InGuest, program, Returning
    <3> QED
      BY <1>2, <1>4, <3>1, SpBounds, GuestAssumption DEF Leave, InGuest, SpOf, StackTop
  <2> QED
    BY <1>1, <1>2, <1>4, <2>1, StaysInGuest DEF Leave, program, IInv, VforksSaved
<1>5. ASSUME NEW v \in Value, SyscallAnswers(v)
      PROVE  IInv'
  <2>1. InGuest'
    BY <1>1, <1>2, <1>5, TopChanges DEF SyscallAnswers, InCode, InGuest, SpOf, program, Returning
  <2> QED
    BY <1>1, <1>2, <1>5, <2>1, StaysInGuest DEF SyscallAnswers, program, IInv, VforksSaved
<1>6. ASSUME NEW child \in Child, VforkClones(child)
      PROVE  IInv'
  <2>1. depth < VforkDepth /\ ~Returning /\ depth \in DOMAIN jmp_bufs
    BY <1>2, <1>6 DEF VforkClones, InGuest
  <2>2. /\ children' \in Seq(Child) /\ Len(children') = Len(children) + 1
        /\ depth' = depth + 1
    BY <1>1, <1>6, AppendProperties DEF VforkClones
  <2>3. InGuest'
    BY <1>1, <1>2, <1>6, <2>1, <2>2 DEF VforkClones, InGuest, Returning
  <2>4. VforksSaved'
    BY <1>1, <1>6, <2>1, <2>2 DEF VforkClones, IInv, VforksSaved
  <2> QED
    BY <1>1, <1>2, <1>6, <2>1, <2>2, <2>3, <2>4, StaysInGuest DEF VforkClones, Returning
<1>7. CASE VforkRefused
  <2>1. InGuest'
    BY <1>1, <1>2, <1>7, TopChanges DEF VforkRefused, InGuest, SpOf, program, Returning
  <2> QED
    BY <1>1, <1>2, <1>7, <2>1, StaysInGuest DEF VforkRefused, program, IInv, VforksSaved
<1>8. CASE VforkReturns
  <2>1. Returning
    BY <1>2, <1>8 DEF VforkReturns, InGuest
  <2>2. InGuest'
    BY <1>1, <1>2, <1>8, <2>1 DEF VforkReturns, InGuest, Returning
  <2>3. VforksSaved'
    BY <1>1, <1>8 DEF VforkReturns, IInv, VforksSaved
  <2> QED
    BY <1>1, <1>2, <1>8, <2>1, <2>2, <2>3, StaysInGuest DEF VforkReturns, Returning
<1>9. CASE ChildEnds
  <2>1. /\ Last(children) \in Child /\ children' \in Seq(Child)
        /\ Len(children') = Len(children) - 1
    BY <1>1, <1>9, LastOfChildren DEF ChildEnds
  <2>2. Len(children) = depth
    BY <1>1, <1>2, <1>9 DEF ChildEnds, InCode, InGuest, Returning
  <2>3. InGuest'
    BY <1>1, <1>2, <1>9, <2>1, <2>2, TopChanges DEF ChildEnds, InGuest, SpOf, Returning
  <2> QED
    BY <1>1, <1>2, <1>9, <2>1, <2>2, <2>3, StaysInGuest DEF ChildEnds, IInv, VforksSaved
<1> QED
  BY <1>3, <1>4, <1>5, <1>6, <1>7, <1>8, <1>9

LEMMA UnwindSteps ==
    ASSUME IInv,
           \/ (\E name \in {"wait", "exec"} : SyscallBlocks(name))
           \/ SyscallExecs \/ SyscallExits
           \/ (\E e \in Env : Setjmp(e) \/ \E v \in Value : Longjmp(e, v))
           \/ VforkStarts \/ VforkReturn
    PROVE  IInv'
<1>1. /\ Inside /\ InGuest
      /\ then \in {"code", "vfork", "back"}
      /\ sp \in 0 .. StackTop /\ exec.resume_sp \in 0 .. StackTop
      /\ then = "code" => ~Returning
      /\ Value \subseteq Result /\ Child \subseteq Result
  BY DEF IInv, InGuest, Typed, SyscallBlocks, SyscallExecs, SyscallExits, Setjmp, Longjmp,
         VforkStarts, VforkReturn, InCode, Result
<1>2. ASSUME NEW name \in {"wait", "exec"}, SyscallBlocks(name)
      PROVE  IInv'
  BY <1>1, <1>2, LeavesGuest DEF SyscallBlocks, InCode, program, Leaves, Op_OK
<1>3. CASE SyscallExecs
  BY <1>1, <1>3, LeavesGuest DEF SyscallExecs, InCode, program, Leaves, Op, Op_OK
<1>4. CASE SyscallExits
  BY <1>1, <1>4, LeavesGuest DEF SyscallExits, InCode, program, Leaves, Op, Op_OK
<1>5. ASSUME NEW e \in Env, Setjmp(e)
      PROVE  IInv'
  <2>1. e \in Bufs /\ e \notin Jbs
    BY GuestAssumption DEF Bufs
  <2> QED
    BY <1>1, <1>5, <2>1, LeavesGuest DEF Setjmp, InCode, program, Leaves, SetjmpTo, Op_OK
<1>6. ASSUME NEW e \in Env, NEW v \in Value, Longjmp(e, v)
      PROVE  IInv'
  <2>1. e \in Bufs /\ e \notin Jbs
    BY GuestAssumption DEF Bufs
  <2> QED
    BY <1>1, <1>6, <2>1, LeavesGuest DEF Longjmp, InCode, program, Leaves, LongjmpTo, Op_OK
<1>7. CASE VforkStarts
  <2>1. depth \in Bufs
    BY <1>7, GuestAssumption DEF VforkStarts, IInv, Typed, Bufs, Jbs
  <2> QED
    BY <1>1, <1>7, <2>1, LeavesGuest DEF VforkStarts, InCode, program, Leaves, SetjmpTo, Op_OK
<1>8. CASE VforkReturn
  <2>1. Last(frames) \in Child /\ Returning
    BY <1>1, <1>8 DEF VforkReturn, InGuest
  <2>2. depth - 1 \in Bufs /\ depth - 1 \in Jbs
    BY <2>1, LenProperties, GuestAssumption DEF IInv, Typed, Returning, Bufs, Jbs
  <2> QED
    BY <1>1, <1>8, <2>1, <2>2, LeavesGuest DEF VforkReturn, program, Leaves, LongjmpTo, Op_OK
<1> QED
  BY <1>2, <1>3, <1>4, <1>5, <1>6, <1>7, <1>8

(* A jump back to a snapshot, whose frames and pointer belong together; a  *)
(* vfork child's jump carries a pid that is on its way.                    *)
LEMMA LongjmpSteps ==
    ASSUME IInv, AfterLongjmp
    PROVE  IInv'
<1> DEFINE e == exec.suspension.env
<1>1. /\ where = "left" /\ HasLeft /\ Typed /\ SavedAreas
      /\ frames = <<>> /\ exec.suspension.op = "longjmp" /\ e \in DOMAIN jmp_bufs
  BY DEF AfterLongjmp, Left, IInv, Inside
<1>2. /\ e \in Bufs /\ exec.suspension.value \in Result
      /\ IF e \in Jbs
         THEN exec.suspension.value \in Child /\ e = depth - 1 /\ Returning
         ELSE ~Returning
  BY <1>1 DEF HasLeft, Leaves, Result
<1>3. /\ IsArea(jmp_bufs[e].area)
      /\ jmp_bufs[e].area.import = SetjmpTo(e)
      /\ jmp_bufs[e].sp = SpOf(jmp_bufs[e].area.frames)
      /\ jmp_bufs[e].sp \in 0 .. StackTop
  BY <1>1, <1>2, SpBounds, GuestAssumption DEF SavedAreas, IsArea, StackTop
<1>4. /\ exec' = [rewinding |-> FALSE, resume_value |-> exec.suspension.value,
                  resume_sp |-> jmp_bufs[e].sp, suspension |-> None]
      /\ area' = jmp_bufs[e].area /\ where' = "waits"
      /\ resume'.to = "rewind"
      /\ UNCHANGED <<frames, then, sp, jmp_bufs, children, depth>>
  BY <1>1 DEF AfterLongjmp, Typed, HasLeft, program, Rewind
<1>5. Typed'
  BY <1>1, <1>2, <1>3, <1>4 DEF Typed
<1>6. SavedAreas'
  BY <1>1, <1>4, SavedAreasStay
<1>7. IsWaiting'
  BY <1>2, <1>3, <1>4 DEF IsWaiting, MayAnswer, SetjmpTo, Returning, VforkFrames, IsArea, Op_OK
<1> QED
  BY <1>1, <1>4, <1>5, <1>6, <1>7 DEF IInv, VforksSaved, Inside

LEMMA SetjmpSteps ==
    ASSUME IInv, AfterSetjmp
    PROVE  IInv'
<1> DEFINE e == exec.suspension.env
<1>1. /\ where = "left" /\ HasLeft /\ Typed /\ SavedAreas
      /\ frames = <<>> /\ exec.suspension.op = "setjmp"
  BY DEF AfterSetjmp, Left, IInv, Inside
<1>2. /\ e \in Bufs /\ IsArea(area) /\ area.import = SetjmpTo(e)
      /\ sp = SpOf(area.frames)
      /\ e \in Jbs => e = depth
      /\ ~Returning
  BY <1>1 DEF HasLeft, Leaves
<1>3. /\ exec' = [rewinding |-> FALSE, resume_value |-> 0,
                  resume_sp |-> sp, suspension |-> None]
      /\ jmp_bufs' = [b \in DOMAIN jmp_bufs \cup {e} |->
                         IF b = e THEN [area |-> area, sp |-> sp] ELSE jmp_bufs[b]]
      /\ where' = "waits" /\ resume'.to = "rewind"
      /\ UNCHANGED <<frames, then, sp, area, children, depth>>
  BY <1>1 DEF AfterSetjmp, Typed, HasLeft, Rewind
<1>4. Typed'
  BY <1>1, <1>3 DEF Typed, Result
<1>5. SavedAreas'
  BY <1>1, <1>2, <1>3 DEF SavedAreas, IsArea, Op_OK, SpOf, SetjmpTo
<1>6. IsWaiting'
  <2>1. e \in Jbs => area.frames = VforkFrames(depth + 1)' /\ depth \in DOMAIN jmp_bufs'
    BY <1>1, <1>2, <1>3 DEF VforkFrames, SavedAreas, Typed
  <2> QED
    BY <1>2, <1>3, <2>1 DEF IsWaiting, MayAnswer, SetjmpTo, Returning, IsArea, Op_OK
<1> QED
  BY <1>1, <1>3, <1>4, <1>5, <1>6 DEF IInv, VforksSaved, Inside

LEMMA BlockedSteps ==
    ASSUME IInv, AfterBlocked
    PROVE  IInv'
<1>1. /\ where = "left" /\ HasLeft /\ Typed /\ SavedAreas
      /\ frames = <<>> /\ area.import.op = "blocked"
  BY DEF AfterBlocked, Left, IInv, Inside, HasLeft
<1>2. /\ exec' = [rewinding |-> FALSE, resume_value |-> exec.resume_value,
                  resume_sp |-> exec.resume_sp, suspension |-> None]
      /\ where' = "waits" /\ resume'.to = "blocked" /\ resume'.call = area.import.env
      /\ UNCHANGED <<frames, then, sp, area, jmp_bufs, children, depth>>
  BY <1>1 DEF AfterBlocked, Typed, HasLeft, program, Blocked
<1>3. Typed'
  BY <1>1, <1>2 DEF Typed
<1>4. SavedAreas'
  BY <1>1, <1>2, SavedAreasStay
<1>5. IsWaiting'
  BY <1>1, <1>2 DEF HasLeft, Leaves, IsWaiting, Returning, IsArea, Op_OK
<1> QED
  BY <1>1, <1>2, <1>3, <1>4, <1>5 DEF IInv, VforksSaved, Inside

LEMMA SchedulerSteps ==
    ASSUME IInv,
           StepRewinds \/ (\E v \in Value : RetryAnswers(v)) \/ RetryExecs
    PROVE  IInv'
<1>1. /\ where = "waits" /\ IsWaiting /\ exec.resume_value \in Result
      /\ children \in Seq(Child) /\ Len(children) \in Nat /\ Len(children) <= depth
      /\ depth <= Len(children) + 1 /\ depth \in Nat
  BY LenProperties, GuestAssumption
     DEF StepRewinds, RetryAnswers, RetryExecs, Waits, IInv, Typed
<1>2. CASE StepRewinds
  <2>1. PICK v \in Result : v = exec.resume_value
    BY <1>1
  <2>2. MayAnswer(v)'
    BY <1>1, <1>2, <2>1 DEF StepRewinds, Waits, IsWaiting, MayAnswer, program, Returning,
                               VforkFrames
  <2> QED
    BY <1>1, <1>2, <2>1, <2>2, Reenters DEF StepRewinds, program
<1>3. ASSUME NEW v \in Value, RetryAnswers(v)
      PROVE  IInv'
  <2>1. v \in Result /\ v \notin Child /\ area.import.op = "blocked" /\ ~Returning
    BY <1>1, <1>3, GuestAssumption DEF RetryAnswers, Waits, IsWaiting, Result
  <2>2. MayAnswer(v)'
    BY <1>3, <2>1 DEF RetryAnswers, MayAnswer, program, Returning
  <2> QED
    BY <1>1, <1>3, <2>1, <2>2, Reenters DEF RetryAnswers, program
<1>4. CASE RetryExecs
  <2>1. CASE children = <<>>
    BY <1>4, <2>1, StartsAnew, IsGone DEF RetryExecs, ReplaceInstance
  <2>2. CASE children # <<>>
    <3>1. /\ Last(children) \in Result /\ children' \in Seq(Child)
          /\ Len(children') = Len(children) - 1
          /\ Last(children) \in Child /\ Len(children) = depth /\ area.import.env = "exec"
          /\ area.import.op = "blocked"
      BY <1>1, <1>4, <2>2, LastOfChildren
         DEF RetryExecs, Result, Waits, IsWaiting, Returning
    <3>2. PICK v \in Result : v = Last(children)
      BY <3>1
    <3>3. MayAnswer(v)'
      BY <1>1, <1>4, <2>2, <3>1, <3>2 DEF RetryExecs, MayAnswer, Returning
    <3> QED
      BY <1>1, <1>4, <2>2, <3>1, <3>2, <3>3, Reenters DEF RetryExecs
  <2> QED
    BY <2>1, <2>2
<1> QED
  BY <1>2, <1>3, <1>4

LEMMA RewindSteps ==
    ASSUME IInv, FinishRewind
    PROVE  IInv'
<1>1. /\ where = "inside" /\ exec.rewinding /\ IsRewinding /\ Typed /\ SavedAreas
  BY DEF FinishRewind, IInv
<1>2. area.frames \in Stacks /\ exec.resume_value \in Result
  BY <1>1 DEF IsRewinding, IsArea, Typed
<1>3. /\ frames' \in Stacks /\ Len(frames') = Len(area.frames)
      /\ Last(frames') = exec.resume_value
  BY <1>2, TopChanges DEF FinishRewind
<1>4. sp' = SpOf(frames') /\ sp' \in 0 .. StackTop
  BY <1>1, <1>2, <1>3, SpBounds, GuestAssumption DEF FinishRewind, IsRewinding, SpOf, StackTop
<1>5. /\ exec' = [rewinding |-> FALSE, resume_value |-> exec.resume_value,
                  resume_sp |-> exec.resume_sp, suspension |-> exec.suspension]
      /\ area' = None /\ UNCHANGED <<where, resume, jmp_bufs, children, depth>>
      /\ then' = Continues(area.import, exec.resume_value)
  BY <1>1 DEF FinishRewind, Typed, program
<1>6. then' = "vfork" =>
          IF exec.resume_value = 0
          THEN /\ depth < VforkDepth /\ ~Returning /\ depth \in DOMAIN jmp_bufs
               /\ VforkFrames(depth + 1) = area.frames
          ELSE Returning /\ VforkFrames(depth) = area.frames
  BY <1>1, <1>5, GuestAssumption DEF IsRewinding, MayAnswer, Continues, Typed, Jbs
<1>7. /\ then' = "back" => exec.resume_value \in Child /\ Returning
      /\ then' = "code" => ~Returning
  BY <1>1, <1>5 DEF IsRewinding, IsArea, Op_OK, MayAnswer, Continues
<1>8. WithTop(frames', Pending) = area.frames
  BY <1>1, <1>2, TopTwice DEF FinishRewind, IsRewinding, IsArea, Result
<1>9. InGuest'
  BY <1>3, <1>4, <1>5, <1>6, <1>7, <1>8 DEF InGuest, Returning, VforkFrames
<1>10. Typed'
  BY <1>1, <1>4, <1>5 DEF Typed, Continues, Op_OK
<1>11. SavedAreas'
  BY <1>1, <1>5, SavedAreasStay
<1> QED
  BY <1>1, <1>5, <1>9, <1>10, <1>11 DEF IInv, VforksSaved, Inside

LEMMA InvariantKept == IInv /\ [Next]_vars => IInv'
<1> SUFFICES ASSUME IInv, [Next]_vars PROVE IInv'
  OBVIOUS
<1>1. CASE UNCHANGED vars
  BY <1>1 DEF vars, IInv, Typed, SavedAreas, VforksSaved, InGuest, HasLeft, IsWaiting, IsRewinding,
              MayAnswer, Leaves, Returning, VforkFrames, Inside, IsArea, Op_OK
<1>2. CASE AfterBadLongjmp \/ AfterExit \/ TrapsOrEnds
  BY <1>2, IsGone DEF AfterBadLongjmp, AfterExit, TrapsOrEnds
<1>3. CASE AfterExec
  BY <1>3, IsGone, StartsAnew DEF AfterExec, ReplaceInstance
<1> QED
  BY <1>1, <1>2, <1>3, GuestSteps, UnwindSteps, LongjmpSteps, SetjmpSteps, BlockedSteps,
     SchedulerSteps, RewindSteps DEF Next

-----------------------------------------------------------------------------
(* 5. Theorems.                                                            *)

(* IInv, of every reachable state. *)
THEOREM GuestInvariant == Spec => []IInv
  BY InitInvariant, InvariantKept, PTL DEF Spec

(* kernel/mod.rs, finish_rewind and after_return: the stack pointer, which *)
(* Asyncify does not save, is right whenever guest code runs, for every    *)
(* depth of frames and of vforks.                                          *)
THEOREM StackPointerTheorem == Spec => []StackPointerKept
  BY GuestInvariant, InvariantSuffices, PTL

(* The types, which include that the C library's count of vforks never     *)
(* falls below the children the kernel has, nor leaves the jmp_bufs.       *)
THEOREM GuestTypeCorrect == Spec => []TypeOK
  BY GuestInvariant, InvariantSuffices, PTL

-----------------------------------------------------------------------------
(* 6. Views.                                                               *)

View(at, stack) == AbstractAt = at /\ AbstractStack = stack

NothingKept == AbstractLent = <<>> /\ AbstractSaved = [e \in Env |-> None]

LEMMA ViewOver ==
    Over => View(Promise!Ended, <<>>) /\ NothingKept
  BY DEF NothingKept, View, AbstractAt, AbstractStack, AbstractLent, AbstractSaved, Promise!Ended

LEMMA ViewReturning ==
    ~Over /\ Returning => View(Promise!Owed(Due), VforkFrames(depth))
  BY DEF View, AbstractAt, AbstractStack, Promise!Owed

(* The places, named for what they are for Calls. *)
IsVforking == Inside /\ then = "vfork" /\ ~Returning
IsLeft == where = "left" /\ ~Over /\ ~Returning
IsBlocked == Waits("blocked") /\ ~Returning
Answered == (Waits("rewind") \/ (where = "inside" /\ exec.rewinding)) /\ ~Returning
ForVfork == CallOf(area.import) = Op("vfork")

LEMMA ViewRunning ==
    IInv /\ InCode => ~Over /\ ~Returning /\ View(Promise!Running, frames)
  BY DEF IInv, InGuest, InCode, Inside, Over, View, AbstractAt, AbstractStack, Promise!Running

LEMMA ViewVforking ==
    IsVforking =>
        ~Over /\ View(Promise!Calling(Promise!Op("vfork")), WithTop(frames, Pending))
  BY DEF IsVforking, InCode, Inside, Over, View, AbstractAt, AbstractStack,
         Promise!Calling, Promise!Op, Op

LEMMA ViewLeft ==
    IsLeft => ~Over /\ View(Promise!Calling(CallOf(area.import)), area.frames)
  BY DEF IsLeft, InCode, Inside, View, AbstractAt, AbstractStack, Promise!Calling

LEMMA ViewBlocked ==
    IsBlocked => ~Over /\ View(Promise!Calling(CallOf(area.import)), area.frames)
  BY DEF IsBlocked, Waits, InCode, Inside, Over, View, AbstractAt, AbstractStack, Promise!Calling

LEMMA ViewVforkAnswered ==
    Answered /\ ForVfork => ~Over /\ View(Promise!Calling(Promise!Op("vfork")), area.frames)
  BY DEF Answered, ForVfork, Waits, InCode, Inside, Over, View, AbstractAt, AbstractStack,
         Promise!Calling, Promise!Op, Op

LEMMA ViewAnswered ==
    Answered /\ ~ForVfork => ~Over /\ View(Promise!Owed(exec.resume_value), area.frames)
  BY DEF Answered, ForVfork, Waits, InCode, Inside, Over, View, AbstractAt, AbstractStack,
         Promise!Owed

LEMMA SameSaved ==
    ASSUME ~Over, ~Over', UNCHANGED jmp_bufs
    PROVE  UNCHANGED AbstractSaved
  BY DEF AbstractSaved

LEMMA SameLent ==
    ASSUME ~Over, ~Over', UNCHANGED <<jmp_bufs, children>>
    PROVE  UNCHANGED AbstractLent
  BY DEF AbstractLent, VforkFrames

-----------------------------------------------------------------------------
(* 7. Sequences of lent callers.                                           *)

LEMMA FunctionIsSeq ==
    ASSUME NEW S, NEW m \in Nat, NEW g \in [1 .. m -> S]
    PROVE  g \in Seq(S) /\ Len(g) = m
  OBVIOUS

LEMMA LentAppended ==
    ASSUME NEW k \in Nat, NEW f, f = [n \in 1 .. k |-> f[n]], NEW x,
           NEW g, g = [n \in 1 .. k + 1 |-> IF n <= k THEN f[n] ELSE x]
    PROVE  g = Append(f, x)
<1> DEFINE S == {f[n] : n \in 1 .. k} \cup {x}
<1>1. f \in Seq(S) /\ Len(f) = k
  <2>1. f \in [1 .. k -> S]
    OBVIOUS
  <2> HIDE DEF S
  <2> QED
    BY <2>1, FunctionIsSeq
<1>2. g \in Seq(S) /\ Len(g) = k + 1
  <2>1. \A n \in 1 .. k + 1 : g[n] = (IF n <= k THEN f[n] ELSE x) /\ (n <= k => n \in 1 .. k)
    OBVIOUS
  <2>2. g \in [1 .. k + 1 -> S]
    BY <2>1
  <2> QED
    BY <2>2
<1>3. x \in S
  OBVIOUS
<1> HIDE DEF S
<1>4. /\ Append(f, x) \in Seq(S) /\ Len(Append(f, x)) = k + 1
      /\ \A i \in 1 .. k + 1 : Append(f, x)[i] = g[i]
  BY <1>1, <1>2, <1>3, AppendProperties
<1> QED
  BY <1>2, <1>4, SeqEqual

LEMMA LentTaken ==
    ASSUME NEW k \in Nat \ {0}, NEW f, f = [n \in 1 .. k |-> f[n]],
           NEW g, g = [n \in 1 .. k - 1 |-> f[n]]
    PROVE  f # <<>> /\ g = Front(f) /\ Last(f) = f[k]
<1> DEFINE S == {f[n] : n \in 1 .. k}
<1>1. f \in Seq(S) /\ Len(f) = k
  <2>1. f \in [1 .. k -> S]
    OBVIOUS
  <2> HIDE DEF S
  <2> QED
    BY <2>1, FunctionIsSeq
<1>2. g \in Seq(S) /\ Len(g) = k - 1
  <2>1. \A n \in 1 .. k - 1 : n \in 1 .. k
    OBVIOUS
  <2>2. PICK m \in Nat : m = k - 1
    OBVIOUS
  <2>3. g \in [1 .. m -> S]
    BY <2>1, <2>2
  <2> HIDE DEF S
  <2>4. g \in Seq(S) /\ Len(g) = m
    BY <2>3, FunctionIsSeq
  <2> QED
    BY <2>2, <2>4
<1>3. \A n \in 1 .. k : f[n] \in S
  OBVIOUS
<1> HIDE DEF S
<1>4. /\ Front(f) \in Seq(S) /\ Len(Front(f)) = k - 1
      /\ \A i \in 1 .. k - 1 : Front(f)[i] = g[i]
  BY <1>1, FrontProperties
<1>5. g = Front(f)
  BY <1>2, <1>4, SeqEqual
<1>6. f # <<>>
  BY <1>1, EmptySeq
<1> QED
  BY <1>1, <1>5, <1>6 DEF Last

-----------------------------------------------------------------------------
(* 8. Steps.                                                               *)

LEMMA InitRefines == Init => Promise!Init
<1> SUFFICES ASSUME Init PROVE Promise!Init
  OBVIOUS
<1>1. IInv /\ InCode
  BY InitInvariant DEF Init, InCode, Inside, Idle
<1>2. ~Over /\ View(Promise!Running, <<0>>)
  BY <1>1, ViewRunning DEF Init
<1>3. AbstractSaved = [e \in Env |-> None]
  BY <1>2 DEF AbstractSaved, Init, Bufs
<1>4. AbstractLent = <<>>
  BY <1>2 DEF AbstractLent, Init
<1> QED
  BY <1>2, <1>3, <1>4 DEF Promise!Init, View

(* The instance ends, or is replaced. *)
LEMMA EndRefines ==
    ASSUME AbstractAt # Promise!Ended, Over'
    PROVE  Promise!Next
<1>1. View(Promise!Ended, <<>>)' /\ NothingKept'
  BY ViewOver, PTL
<1> QED
  BY <1>1 DEF Promise!Next, Promise!Ends, Promise!Ended, View, NothingKept

LEMMA AnewRefines ==
    ASSUME IInv, IInv', Anew, children = <<>>, ~Over,
           AbstractAt = Promise!Calling(Promise!Op("exec"))
    PROVE  Promise!Next
<1>1. AbstractLent = <<>>
  BY DEF AbstractLent
<1>2. InCode' /\ frames' = <<0>>
  BY DEF Anew, InCode, Inside, Idle
<1>3. ~Over' /\ View(Promise!Running, frames)'
  BY <1>2, ViewRunning, PTL
<1>4. AbstractSaved' = [e \in Env |-> None]
  BY <1>3 DEF AbstractSaved, Anew, Bufs
<1>5. AbstractLent' = <<>>
  BY <1>3 DEF AbstractLent, Anew
<1> QED
  BY <1>1, <1>2, <1>3, <1>4, <1>5
     DEF Promise!Next, Promise!Replaced, Promise!Running, View

(* A step that Calls does not see. *)
LEMMA Stutters ==
    ASSUME ~Over, ~Over', UNCHANGED <<jmp_bufs, children, AbstractAt, AbstractStack>>
    PROVE  UNCHANGED Promise!callVars
  BY SameSaved, SameLent DEF Promise!callVars

(* Guest code runs on. *)
LEMMA CodeRefines ==
    ASSUME IInv, IInv', Enter \/ Leave \/ \E v \in Value : SyscallAnswers(v)
    PROVE  Promise!Next
<1>1. InCode /\ InCode' /\ UNCHANGED <<jmp_bufs, children>>
  BY DEF Enter, Leave, SyscallAnswers, InCode, Inside, program
<1>2. /\ ~Over /\ View(Promise!Running, frames)
      /\ ~Over' /\ View(Promise!Running, frames)'
  BY <1>1, ViewRunning, PTL
<1>3. UNCHANGED <<AbstractSaved, AbstractLent>>
  BY <1>1, <1>2, SameSaved, SameLent
<1>4. CASE Enter
  BY <1>2, <1>3, <1>4 DEF Enter, View, Promise!Next, Promise!Enter, Promise!Running
<1>5. CASE Leave
  BY <1>2, <1>3, <1>5 DEF Leave, View, Promise!Next, Promise!Leave, Promise!Running,
                          Front, Promise!Front
<1>6. ASSUME NEW v \in Value, SyscallAnswers(v)
      PROVE  Promise!Next
  BY <1>2, <1>3, <1>6
     DEF SyscallAnswers, View, Promise!Next, Promise!Ask, Promise!Running, Promise!WithTop, WithTop
<1> QED
  BY <1>4, <1>5, <1>6

(* A call that does not answer at once begins. *)
LEMMA BeginRefines ==
    ASSUME IInv, IInv', InCode, NEW import, NEW r,
           Unwind(import, r), UNCHANGED <<sp, resume, jmp_bufs, children, depth, then>>,
           import.op # "exit",
           CallOf(import) \in Promise!Call
    PROVE  Promise!Next
<1>1. ~Over /\ ~Returning /\ View(Promise!Running, frames)
  BY ViewRunning
<1>2. /\ where' = "left" /\ area'.import = import /\ exec'.suspension = import
      /\ area'.frames = WithTop(frames, Pending)
  BY DEF Unwind, IInv, Typed
<1>3. IsLeft'
  BY <1>1, <1>2 DEF IsLeft, Over, Returning
<1>4. ~Over' /\ View(Promise!Calling(CallOf(area.import)), area.frames)'
  BY <1>3, ViewLeft, PTL
<1>5. UNCHANGED <<AbstractSaved, AbstractLent>>
  BY <1>1, <1>4, SameSaved, SameLent
<1>6. AbstractAt' = Promise!Calling(CallOf(import))
  BY <1>2, <1>4 DEF View, Promise!Calling, CallOf, Op
<1>7. Promise!Begin(CallOf(import))
  BY <1>1, <1>2, <1>4, <1>5, <1>6
     DEF View, Promise!Begin, Promise!Running, Promise!WithTop, WithTop
<1> QED
  BY <1>7 DEF Promise!Next

LEMMA BeginSteps ==
    ASSUME IInv, IInv',
           \/ (\E name \in {"wait", "exec"} : SyscallBlocks(name)) \/ SyscallExecs
           \/ (\E e \in Env : Setjmp(e) \/ \E v \in Value : Longjmp(e, v)) \/ VforkStarts
    PROVE  Promise!Next
<1>1. ASSUME NEW name \in {"wait", "exec"}, SyscallBlocks(name)
      PROVE  Promise!Next
  <2> DEFINE import == [op |-> "blocked", env |-> name, value |-> None]
  <2>1. CallOf(import) \in Promise!Call
    BY DEF CallOf, Op, Promise!Call, Promise!Op
  <2> QED
    BY <1>1, <2>1, BeginRefines DEF SyscallBlocks, program
<1>2. CASE SyscallExecs
  <2>1. CallOf(Op("exec")) \in Promise!Call
    BY DEF CallOf, Op, Promise!Call, Promise!Op
  <2>2. Op("exec").op # "exit"
    BY DEF Op
  <2> QED
    BY <1>2, <2>1, <2>2, BeginRefines DEF SyscallExecs, program
<1>3. ASSUME NEW e \in Env, Setjmp(e)
      PROVE  Promise!Next
  <2>1. CallOf(SetjmpTo(e)) \in Promise!Call
    BY GuestAssumption DEF CallOf, SetjmpTo, Promise!Call, Promise!Setjmp
  <2>2. SetjmpTo(e).op # "exit"
    BY DEF SetjmpTo
  <2> QED
    BY <1>3, <2>1, <2>2, BeginRefines DEF Setjmp, program
<1>4. ASSUME NEW e \in Env, NEW v \in Value, Longjmp(e, v)
      PROVE  Promise!Next
  <2>1. CallOf(LongjmpTo(e, v)) \in Promise!Call
    BY DEF CallOf, LongjmpTo, Promise!Call, Promise!Longjmp
  <2>2. LongjmpTo(e, v).op # "exit"
    BY DEF LongjmpTo
  <2> QED
    BY <1>4, <2>1, <2>2, BeginRefines DEF Longjmp, program
<1>5. CASE VforkStarts
  <2>1. depth \in Jbs
    BY <1>5, GuestAssumption DEF VforkStarts, IInv, Typed, Jbs
  <2>2. CallOf(SetjmpTo(depth)) \in Promise!Call
    BY <2>1 DEF CallOf, SetjmpTo, Op, Promise!Call, Promise!Op
  <2>3. SetjmpTo(depth).op # "exit"
    BY DEF SetjmpTo
  <2> QED
    BY <1>5, <2>2, <2>3, BeginRefines DEF VforkStarts, program
<1> QED
  BY <1>1, <1>2, <1>3, <1>4, <1>5

(* The instance ends. *)
LEMMA EndSteps ==
    ASSUME IInv, IInv', SyscallExits \/ TrapsOrEnds \/ AfterBadLongjmp
    PROVE  Promise!Next
<1>1. CASE SyscallExits
  <2>1. View(Promise!Running, frames)
    BY <1>1, ViewRunning DEF SyscallExits
  <2>2. Over'
    BY <1>1 DEF SyscallExits, Unwind, Over, IInv, Typed, Op
  <2> QED
    BY <2>1, <2>2, EndRefines DEF View, Promise!Running, Promise!Ended
<1>2. CASE TrapsOrEnds
  <2>1. View(Promise!Running, frames)
    BY <1>2, ViewRunning DEF TrapsOrEnds
  <2>2. Over'
    BY <1>2 DEF TrapsOrEnds, Goes, Over
  <2> QED
    BY <2>1, <2>2, EndRefines DEF View, Promise!Running, Promise!Ended
<1>3. CASE AfterBadLongjmp
  <2>1. ~Over
    BY <1>3 DEF AfterBadLongjmp, Left, Over
  <2>2. AbstractAt # Promise!Ended
    <3>1. CASE Returning
      BY <2>1, <3>1, ViewReturning DEF View, Promise!Owed, Promise!Ended
    <3>2. CASE ~Returning
      <4>1. IsLeft
        BY <1>3, <2>1, <3>2 DEF AfterBadLongjmp, Left, IsLeft
      <4> QED
        BY <4>1, ViewLeft DEF View, Promise!Calling, Promise!Ended
    <3> QED
      BY <3>1, <3>2
  <2>3. Over'
    BY <1>3 DEF AfterBadLongjmp, Goes, Over
  <2> QED
    BY <2>2, <2>3, EndRefines
<1> QED
  BY <1>1, <1>2, <1>3

(* execve that had to wait outside the guest before its instance was made. *)
LEMMA ExecSteps ==
    ASSUME IInv, IInv', AfterExec
    PROVE  Promise!Next
<1>1. /\ where = "left" /\ area.import = Op("exec") /\ children = <<>> /\ ~Returning
      /\ exec.suspension = area.import
  BY DEF AfterExec, Left, IInv, HasLeft, Leaves
<1>2. ~Over /\ IsLeft
  BY <1>1 DEF Over, IsLeft, Op
<1>3. AbstractAt = Promise!Calling(Promise!Op("exec"))
  BY <1>1, <1>2, ViewLeft DEF View, CallOf, Op, Promise!Op, Promise!Calling
<1>4. CASE Anew
  BY <1>1, <1>2, <1>3, <1>4, AnewRefines
<1>5. CASE Goes
  <2>1. Over'
    BY <1>5 DEF Goes, Over
  <2> QED
    BY <1>3, <2>1, EndRefines DEF Promise!Calling, Promise!Ended
<1> QED
  BY <1>4, <1>5 DEF AfterExec, ReplaceInstance

LEMMA ExitStutters ==
    ASSUME AfterExit
    PROVE  UNCHANGED Promise!callVars
<1>1. Over /\ Over'
  BY DEF AfterExit, Left, Goes, Over
<1>2. /\ View(Promise!Ended, <<>>) /\ NothingKept
      /\ View(Promise!Ended, <<>>)' /\ NothingKept'
  BY <1>1, ViewOver, PTL
<1> QED
  BY <1>2 DEF View, NothingKept, Promise!callVars, Promise!Ended

(* vfork. *)
LEMMA LendRefines ==
    ASSUME IInv, IInv', NEW child \in Child, VforkClones(child)
    PROVE  Promise!Next
<1>1. /\ Inside /\ then = "vfork" /\ InGuest /\ Last(frames) = 0
      /\ ~Returning /\ VforkFrames(depth + 1) = WithTop(frames, Pending)
      /\ children \in Seq(Child) /\ Len(children) \in Nat /\ depth = Len(children)
      /\ frames \in Stacks
  BY LenProperties, GuestAssumption DEF VforkClones, IInv, InGuest, Typed, Returning
<1>2. IsVforking /\ InCode'
  BY <1>1 DEF IsVforking, VforkClones, InCode, Inside
<1>3. /\ ~Over /\ View(Promise!Calling(Promise!Op("vfork")), WithTop(frames, Pending))
      /\ ~Over' /\ View(Promise!Running, frames)'
  BY <1>2, ViewVforking, ViewRunning, PTL
<1>4. AbstractStack' = WithTop(AbstractStack, 0)
  BY <1>1, <1>3, TopTwice DEF VforkClones, View, Result
<1>5. UNCHANGED AbstractSaved
  BY <1>3, SameSaved DEF VforkClones
<1> DEFINE x == [stack |-> AbstractStack, child |-> child]
<1>6. /\ children' = Append(children, child) /\ Len(children') = Len(children) + 1
      /\ \A n \in 1 .. Len(children') :
            children'[n] = IF n <= Len(children) THEN children[n] ELSE child
  BY <1>1, AppendProperties DEF VforkClones
<1>7. AbstractLent = [n \in 1 .. Len(children) |-> [stack |-> VforkFrames(n), child |-> children[n]]]
  BY <1>3 DEF AbstractLent
<1>8. AbstractLent' = [n \in 1 .. Len(children) + 1 |->
                          IF n <= Len(children) THEN AbstractLent[n] ELSE x]
  <2>1. AbstractLent' = [n \in 1 .. Len(children) + 1 |->
                            [stack |-> VforkFrames(n), child |-> children'[n]]]
    BY <1>3, <1>6 DEF AbstractLent, VforkClones, VforkFrames
  <2>2. \A n \in 1 .. Len(children) + 1 :
            [stack |-> VforkFrames(n), child |-> children'[n]]
                = IF n <= Len(children) THEN AbstractLent[n] ELSE x
    BY <1>1, <1>3, <1>6, <1>7 DEF View
  <2> QED
    BY <2>1, <2>2
<1>9. AbstractLent' = Append(AbstractLent, x)
  BY <1>1, <1>7, <1>8, LentAppended
<1>10. \A i \in DOMAIN AbstractLent : AbstractLent[i].child # child
  BY <1>1, <1>7 DEF VforkClones, Range
<1>11. Promise!Lend(child)
  BY <1>3, <1>4, <1>5, <1>9, <1>10
     DEF Promise!Lend, View, Promise!Running, Promise!WithTop, WithTop
<1> QED
  BY <1>11 DEF Promise!Next

LEMMA VforkRefusedRefines ==
    ASSUME IInv, IInv', VforkRefused
    PROVE  Promise!Next
<1>1. Inside /\ then = "vfork" /\ InGuest /\ Last(frames) = 0 /\ ~Returning /\ frames \in Stacks
  BY DEF VforkRefused, IInv, InGuest
<1>2. IsVforking /\ InCode'
  BY <1>1 DEF IsVforking, VforkRefused, InCode, Inside
<1>3. /\ ~Over /\ View(Promise!Calling(Promise!Op("vfork")), WithTop(frames, Pending))
      /\ ~Over' /\ View(Promise!Running, frames)'
  BY <1>2, ViewVforking, ViewRunning, PTL
<1>4. AbstractStack' = WithTop(AbstractStack, Failed)
  BY <1>1, <1>3, TopTwice DEF VforkRefused, View, Result
<1>5. UNCHANGED <<AbstractSaved, AbstractLent>>
  BY <1>3, SameSaved, SameLent DEF VforkRefused, program
<1>6. Promise!VforkFails
  BY <1>3, <1>4, <1>5
     DEF Promise!VforkFails, View, Promise!Running, Promise!WithTop, WithTop
<1> QED
  BY <1>6 DEF Promise!Next

(* The pid arrives at vfork's caller. *)
LEMMA VforkReturnsRefines ==
    ASSUME IInv, IInv', VforkReturns
    PROVE  Promise!Next
<1>1. /\ Inside /\ then = "vfork" /\ Returning /\ frames \in Stacks
      /\ VforkFrames(depth) = WithTop(frames, Pending) /\ Last(frames) \in Result
  BY ElementOfSeq, GuestAssumption DEF VforkReturns, IInv, InGuest, Stacks, Last
<1>2. ~Over /\ Due = Last(frames)
  BY <1>1 DEF Over, Inside, Due
<1>3. InCode'
  BY <1>1 DEF VforkReturns, InCode, Inside
<1>4. /\ View(Promise!Owed(Due), VforkFrames(depth))
      /\ ~Over' /\ View(Promise!Running, frames)'
  BY <1>1, <1>2, <1>3, ViewReturning, ViewRunning, PTL
<1>5. AbstractStack' = WithTop(AbstractStack, AbstractAt.value) /\ AbstractAt.is = "owed"
  BY <1>1, <1>2, <1>4, TopTwice DEF VforkReturns, View, Result, Promise!Owed
<1>6. UNCHANGED <<AbstractSaved, AbstractLent>>
  BY <1>2, <1>4, SameSaved, SameLent DEF VforkReturns
<1>7. Promise!Receive
  BY <1>4, <1>5, <1>6 DEF Promise!Receive, View, Promise!Running, Promise!WithTop, WithTop
<1> QED
  BY <1>7 DEF Promise!Next

(* A vfork child is gone: what its caller is to be told is on its way. *)
LEMMA ChildGone ==
    ASSUME ~Over, ~Over', ~Returning, Returning', Typed, children # <<>>,
           children' = Front(children), UNCHANGED <<jmp_bufs, depth>>,
           Due' = Last(children),
           AbstractAt \in {Promise!Running, Promise!Calling(Promise!Op("exec"))}
    PROVE  Promise!Next
<1>1. /\ children \in Seq(Child) /\ Len(children) \in Nat \ {0} /\ depth = Len(children)
      /\ Len(children') = Len(children) - 1
      /\ \A n \in 1 .. Len(children) - 1 : children'[n] = children[n]
  <2>1. children \in Seq(Child) /\ Len(children) \in Nat \ {0}
    BY EmptySeq, SeqEqual, LenProperties DEF Typed
  <2>2. /\ Len(Front(children)) = Len(children) - 1
        /\ \A n \in 1 .. Len(children) - 1 : Front(children)[n] = children[n]
    BY <2>1, FrontProperties
  <2>3. depth = Len(children)
    BY <2>1, GuestAssumption DEF Returning, Typed
  <2> QED
    BY <2>1, <2>2, <2>3
<1>2. View(Promise!Owed(Due), VforkFrames(depth))'
  BY ViewReturning, PTL
<1>3. AbstractLent = [n \in 1 .. Len(children) |-> [stack |-> VforkFrames(n), child |-> children[n]]]
  BY DEF AbstractLent
<1>4. AbstractLent' = [n \in 1 .. Len(children) - 1 |-> AbstractLent[n]]
  <2>1. AbstractLent' = [n \in 1 .. Len(children) - 1 |->
                            [stack |-> VforkFrames(n), child |-> children'[n]]]
    BY <1>1 DEF AbstractLent, VforkFrames
  <2>2. \A n \in 1 .. Len(children) - 1 :
            AbstractLent[n] = [stack |-> VforkFrames(n), child |-> children'[n]]
    <3> TAKE n \in 1 .. Len(children) - 1
    <3>1. n \in 1 .. Len(children) /\ children'[n] = children[n]
      BY <1>1
    <3> QED
      BY <1>3, <3>1
  <2> QED
    BY <2>1, <2>2
<1>5. /\ AbstractLent # <<>> /\ AbstractLent' = Front(AbstractLent)
      /\ Last(AbstractLent) = [stack |-> VforkFrames(depth), child |-> Last(children)]
  <2>1. /\ AbstractLent = [n \in 1 .. Len(children) |-> AbstractLent[n]]
        /\ AbstractLent[Len(children)]
               = [stack |-> VforkFrames(depth), child |-> children[Len(children)]]
    BY <1>1, <1>3
  <2>2. PICK k \in Nat \ {0} : k = Len(children)
    BY <1>1
  <2>3. /\ AbstractLent # <<>> /\ AbstractLent' = Front(AbstractLent)
        /\ Last(AbstractLent) = AbstractLent[k]
    BY <1>4, <2>1, <2>2, LentTaken
  <2> QED
    BY <2>1, <2>2, <2>3 DEF Last
<1>6. UNCHANGED AbstractSaved
  BY SameSaved
<1>7. Promise!ChildEnds
  BY <1>1, <1>2, <1>5, <1>6
     DEF Promise!ChildEnds, View, Promise!Owed, VforkFrames, Last, Promise!Last, Front, Promise!Front
<1> QED
  BY <1>7 DEF Promise!Next

LEMMA ChildEndsRefines ==
    ASSUME IInv, IInv', ChildEnds
    PROVE  Promise!Next
<1>1. InCode /\ Typed /\ InGuest /\ children # <<>> /\ children' = Front(children)
  BY DEF ChildEnds, InCode, IInv
<1>2. ~Over /\ ~Returning /\ View(Promise!Running, frames)
  BY <1>1, ViewRunning
<1>3. /\ where' = "inside" /\ ~exec'.rewinding /\ then' = "back"
      /\ UNCHANGED <<jmp_bufs, depth>>
  BY <1>1 DEF ChildEnds, InCode, Inside
<1>4. ~Over' /\ Returning' /\ Inside'
  BY <1>3 DEF Over, IInv, Inside, InGuest
<1>5. Due' = Last(children)
  <2>1. Last(children) \in Result
    BY <1>1, LastOfChildren DEF Typed, Result
  <2>2. Last(frames') = Last(children)
    BY <1>1, <2>1, TopChanges DEF ChildEnds, InGuest
  <2> QED
    BY <1>3, <1>4, <2>2 DEF Due, Inside
<1> QED
  BY <1>1, <1>2, <1>3, <1>4, <1>5, ChildGone DEF View

(* A pid goes back by way of a longjmp: Calls does not see its stages. *)
LEMMA StaysOwed ==
    ASSUME ~Over, ~Over', Returning, Returning', Due' = Due,
           UNCHANGED <<jmp_bufs, children, depth>>
    PROVE  UNCHANGED Promise!callVars
<1>1. /\ View(Promise!Owed(Due), VforkFrames(depth))
      /\ View(Promise!Owed(Due), VforkFrames(depth))'
  BY ViewReturning, PTL
<1> QED
  BY <1>1, Stutters DEF View, Promise!Owed, VforkFrames

LEMMA VforkReturnStutters ==
    ASSUME IInv, IInv', VforkReturn
    PROVE  UNCHANGED Promise!callVars
<1>1. Returning /\ ~Over /\ Due = Last(frames)
  BY DEF VforkReturn, IInv, InGuest, Over, Inside, Due
<1>2. /\ where' = "left" /\ exec'.suspension = LongjmpTo(depth - 1, Last(frames))
      /\ UNCHANGED <<jmp_bufs, children, depth>>
  BY DEF VforkReturn, Unwind, program, IInv, Typed
<1>3. Returning' /\ ~Over' /\ Due' = Due
  BY <1>1, <1>2 DEF Returning, Over, Due, LongjmpTo
<1> QED
  BY <1>1, <1>2, <1>3, StaysOwed

LEMMA SetjmpRefines ==
    ASSUME IInv, IInv', AfterSetjmp
    PROVE  Promise!Next \/ UNCHANGED Promise!callVars
<1> DEFINE e == exec.suspension.env
<1>1. /\ where = "left" /\ exec.suspension.op = "setjmp"
      /\ e \in Bufs /\ exec.suspension = SetjmpTo(e) /\ area.import = SetjmpTo(e)
      /\ e \in Jbs => e = depth
      /\ ~Returning /\ IsLeft /\ ~Over
      /\ Len(children) \in Nat /\ depth = Len(children)
  BY LenProperties, GuestAssumption
     DEF AfterSetjmp, Left, IInv, HasLeft, Leaves, SavedAreas, IsLeft, Over, Typed, Returning
<1>2. /\ jmp_bufs' = [b \in DOMAIN jmp_bufs \cup {e} |->
                         IF b = e THEN [area |-> area, sp |-> sp] ELSE jmp_bufs[b]]
      /\ exec'.resume_value = 0 /\ where' = "waits" /\ resume'.to = "rewind"
      /\ UNCHANGED <<area, children, depth>>
  BY DEF AfterSetjmp, IInv, Typed, Rewind
<1>3. /\ ~Over' /\ Answered' /\ CallOf(area.import)' = CallOf(area.import)
      /\ ForVfork' <=> ForVfork
  BY <1>1, <1>2 DEF Over, Answered, Waits, Returning, CallOf, ForVfork, Op
<1>4. View(Promise!Calling(CallOf(area.import)), area.frames)
  BY <1>1, ViewLeft
<1>5. UNCHANGED AbstractLent
  <2>1. \A n \in 1 .. Len(children) : VforkFrames(n)' = VforkFrames(n)
    <3> TAKE n \in 1 .. Len(children)
    <3>0. depth \in 0 .. VforkDepth /\ n \in 1 .. depth
      BY <1>1 DEF IInv, Typed
    <3>1. n - 1 # e /\ n - 1 \in DOMAIN jmp_bufs
      BY <1>1, <3>0, GuestAssumption DEF IInv, VforksSaved, Bufs, Jbs
    <3> QED
      BY <1>1, <1>2, <3>1 DEF VforkFrames
  <2> QED
    BY <1>1, <1>2, <1>3, <2>1 DEF AbstractLent
<1>6. CASE e \in Jbs
  <2>1. ForVfork
    BY <1>1, <1>6 DEF ForVfork, CallOf, SetjmpTo
  <2>2. View(Promise!Calling(Promise!Op("vfork")), area.frames)'
    BY <1>3, <2>1, ViewVforkAnswered, PTL
  <2>3. UNCHANGED AbstractSaved
    BY <1>1, <1>2, <1>3, <1>6, GuestAssumption DEF AbstractSaved, Bufs
  <2> QED
    BY <1>2, <1>4, <1>5, <2>1, <2>2, <2>3
       DEF View, ForVfork, Promise!Calling, Promise!Op, Op, Promise!callVars
<1>7. CASE e \notin Jbs
  <2>1. e \in Env /\ CallOf(area.import) = Promise!Setjmp(e) /\ ~ForVfork
    BY <1>1, <1>7 DEF Bufs, CallOf, SetjmpTo, Promise!Setjmp, ForVfork, Op
  <2>2. View(Promise!Owed(exec.resume_value), area.frames)'
    BY <1>3, <2>1, ViewAnswered, PTL
  <2>3. AbstractSaved' = [AbstractSaved EXCEPT ![e] = AbstractStack]
    BY <1>1, <1>2, <1>3, <1>4, <2>1 DEF AbstractSaved, View
  <2>4. Promise!Save(e)
    BY <1>2, <1>4, <1>5, <2>1, <2>2, <2>3
       DEF View, Promise!Save, Promise!Owed
  <2> QED
    BY <2>1, <2>4 DEF Promise!Next
<1> QED
  BY <1>6, <1>7

LEMMA LongjmpRefines ==
    ASSUME IInv, IInv', AfterLongjmp
    PROVE  Promise!Next \/ UNCHANGED Promise!callVars
<1> DEFINE e == exec.suspension.env
           v == exec.suspension.value
<1>1. /\ where = "left" /\ HasLeft /\ exec.suspension.op = "longjmp" /\ e \in DOMAIN jmp_bufs
      /\ exec.suspension = LongjmpTo(e, v) /\ area.import = LongjmpTo(e, v)
      /\ e \in Bufs /\ ~Over
      /\ IF e \in Jbs THEN Returning ELSE ~Returning /\ v \in Value
  BY DEF AfterLongjmp, Left, IInv, HasLeft, Leaves, Over
<1>2. /\ exec'.resume_value = v /\ where' = "waits" /\ resume'.to = "rewind"
      /\ area' = jmp_bufs[e].area
      /\ UNCHANGED <<jmp_bufs, children, depth>>
  BY DEF AfterLongjmp, IInv, Typed, Rewind, program
<1>3. ~Over' /\ Returning' = Returning
  BY <1>2 DEF Over, Returning
<1>4. CASE e \in Jbs
  <2>1. Due' = Due
    BY <1>1, <1>2 DEF Due, Inside
  <2> QED
    BY <1>1, <1>2, <1>3, <1>4, <2>1, StaysOwed
<1>5. CASE e \notin Jbs
  <2>1. IsLeft /\ e \in Env /\ CallOf(area.import) = Promise!Longjmp(e, v)
    BY <1>1, <1>5 DEF IsLeft, Bufs, CallOf, LongjmpTo, Promise!Longjmp
  <2>2. /\ IsArea(jmp_bufs[e].area) /\ jmp_bufs[e].area.import = SetjmpTo(e)
    BY <1>1 DEF IInv, SavedAreas
  <2>3. Answered' /\ ~ForVfork'
    BY <1>1, <1>2, <1>3, <1>5, <2>2
       DEF Answered, Waits, ForVfork, CallOf, SetjmpTo, Op
  <2>4. /\ View(Promise!Calling(CallOf(area.import)), area.frames)
        /\ View(Promise!Owed(exec.resume_value), area.frames)'
    BY <2>1, <2>3, ViewLeft, ViewAnswered, PTL
  <2>5. AbstractSaved[e] = jmp_bufs[e].area.frames /\ AbstractSaved[e] # None
    BY <1>1, <2>1, <2>2, GuestAssumption DEF AbstractSaved, IsArea, Stacks, Result
  <2>6. UNCHANGED <<AbstractSaved, AbstractLent>>
    BY <1>1, <1>2, <1>3, SameSaved, SameLent
  <2>7. Promise!Jump(e, v)
    BY <1>2, <2>1, <2>4, <2>5, <2>6 DEF View, Promise!Jump, Promise!Owed
  <2> QED
    BY <1>1, <1>5, <2>1, <2>7 DEF Promise!Next
<1> QED
  BY <1>4, <1>5

LEMMA BlockedStutters ==
    ASSUME IInv, IInv', AfterBlocked
    PROVE  UNCHANGED Promise!callVars
<1>1. /\ IsLeft /\ ~Over
      /\ where' = "waits" /\ resume'.to = "blocked"
      /\ UNCHANGED <<area, jmp_bufs, children, depth>>
  BY DEF AfterBlocked, Left, IInv, HasLeft, Leaves, IsLeft, Over, Blocked, program
<1>2. IsBlocked' /\ ~Over'
  BY <1>1 DEF IsLeft, IsBlocked, Waits, Returning, Over
<1>3. /\ View(Promise!Calling(CallOf(area.import)), area.frames)
      /\ View(Promise!Calling(CallOf(area.import)), area.frames)'
  BY <1>1, <1>2, ViewLeft, ViewBlocked, PTL
<1> QED
  BY <1>1, <1>2, <1>3, Stutters DEF View, Promise!Calling, CallOf, Op

LEMMA RewindStutters ==
    ASSUME IInv, IInv', StepRewinds
    PROVE  UNCHANGED Promise!callVars
<1>1. /\ where = "waits" /\ resume.to = "rewind" /\ ~Over
      /\ where' = "inside" /\ exec'.rewinding /\ exec'.resume_value = exec.resume_value
      /\ UNCHANGED <<area, jmp_bufs, children, depth>>
  BY DEF StepRewinds, Waits, Reenter, IInv, Typed, Over, program
<1>2. ~Over' /\ Returning' = Returning /\ CallOf(area.import)' = CallOf(area.import)
  BY <1>1 DEF Over, Returning, CallOf, Op
<1>3. CASE Returning
  BY <1>1, <1>2, <1>3, StaysOwed DEF Due, Inside
<1>4. CASE ~Returning
  <2>1. Answered /\ Answered' /\ ForVfork' = ForVfork
    BY <1>1, <1>2, <1>4 DEF Answered, Waits, ForVfork, Op
  <2>2. CASE ForVfork
    <3>0. Answered' /\ ForVfork'
      BY <2>1, <2>2
    <3>1. /\ View(Promise!Calling(Promise!Op("vfork")), area.frames)
          /\ View(Promise!Calling(Promise!Op("vfork")), area.frames)'
      BY <2>1, <2>2, <3>0, ViewVforkAnswered, PTL
    <3> QED
      BY <1>1, <1>2, <3>1, Stutters DEF View, Promise!Calling, Promise!Op
  <2>3. CASE ~ForVfork
    <3>0. Answered' /\ ~ForVfork'
      BY <2>1, <2>3
    <3>1. /\ View(Promise!Owed(exec.resume_value), area.frames)
          /\ View(Promise!Owed(exec.resume_value), area.frames)'
      BY <2>1, <2>3, <3>0, ViewAnswered, PTL
    <3> QED
      BY <1>1, <1>2, <3>1, Stutters DEF View, Promise!Owed
  <2> QED
    BY <2>2, <2>3
<1> QED
  BY <1>3, <1>4

LEMMA RetryRefines ==
    ASSUME IInv, IInv', RetryExecs \/ \E v \in Value : RetryAnswers(v)
    PROVE  Promise!Next
<1>1. /\ where = "waits" /\ IsBlocked /\ ~Over /\ ~Returning /\ Typed
      /\ area.import.op = "blocked" /\ area.import.env \in {"wait", "exec"}
      /\ resume.call = area.import.env
  BY DEF RetryExecs, RetryAnswers, Waits, IInv, IsWaiting, IsBlocked, Over
<1>2. View(Promise!Calling(Promise!Op(area.import.env)), area.frames)
  BY <1>1, ViewBlocked DEF View, Promise!Calling, Promise!Op, Op, CallOf
<1>3. ASSUME NEW v \in Value, RetryAnswers(v)
      PROVE  Promise!Next
  <2>1. /\ where' = "inside" /\ exec'.rewinding /\ exec'.resume_value = v
        /\ UNCHANGED <<area, jmp_bufs, children, depth>>
    BY <1>3 DEF RetryAnswers, Reenter, IInv, Typed, program
  <2>2. ~Over' /\ Answered' /\ ~ForVfork'
    BY <1>1, <2>1 DEF Over, Answered, Waits, Returning, ForVfork, CallOf, Op
  <2>3. View(Promise!Owed(exec.resume_value), area.frames)'
    BY <2>2, ViewAnswered, PTL
  <2>4. UNCHANGED <<AbstractSaved, AbstractLent>>
    BY <1>1, <2>1, <2>2, SameSaved, SameLent
  <2>5. Promise!Answer(v)
    BY <1>1, <1>2, <2>1, <2>3, <2>4 DEF View, Promise!Answer, Promise!Owed
  <2> QED
    BY <1>3, <2>5 DEF Promise!Next
<1>4. CASE RetryExecs
  <2>1. AbstractAt = Promise!Calling(Promise!Op("exec"))
    BY <1>1, <1>2, <1>4 DEF View, RetryExecs
  <2>2. CASE children # <<>>
    <3>1. /\ where' = "inside" /\ exec'.rewinding /\ exec'.resume_value = Last(children)
          /\ children' = Front(children) /\ UNCHANGED <<jmp_bufs, depth>>
      BY <1>4, <2>2 DEF RetryExecs, Reenter, IInv, Typed
    <3>2. Len(children) \in Nat /\ Len(children) = depth /\ Len(children') = Len(children) - 1
      BY <1>1, <2>2, <3>1, LenProperties, LastOfChildren, GuestAssumption DEF Typed, Returning
    <3>3. ~Over' /\ Returning' /\ Due' = Last(children)
      BY <3>1, <3>2 DEF Over, Returning, Due, Inside
    <3> QED
      BY <1>1, <2>1, <2>2, <3>1, <3>3, ChildGone
  <2>3. CASE children = <<>> /\ Anew
    BY <1>1, <2>1, <2>3, AnewRefines
  <2>4. CASE children = <<>> /\ Goes
    <3>1. Over'
      BY <2>4 DEF Goes, Over
    <3> QED
      BY <2>1, <3>1, EndRefines DEF Promise!Calling, Promise!Ended
  <2> QED
    BY <1>4, <2>2, <2>3, <2>4 DEF RetryExecs, ReplaceInstance
<1> QED
  BY <1>3, <1>4

LEMMA FinishRefines ==
    ASSUME IInv, IInv', FinishRewind
    PROVE  Promise!Next \/ UNCHANGED Promise!callVars
<1>1. /\ where = "inside" /\ exec.rewinding /\ ~Over /\ ~Inside
      /\ IsArea(area) /\ area.frames \in Stacks /\ exec.resume_value \in Result
      /\ area.import.op \in {"setjmp", "blocked"} /\ MayAnswer(exec.resume_value)
      /\ area.import.op = "blocked" => area.import.env \in {"wait", "exec"}
  BY DEF FinishRewind, IInv, IsRewinding, IsArea, Typed, Over, Inside
<1>2. /\ where' = "inside" /\ ~exec'.rewinding
      /\ frames' = WithTop(area.frames, exec.resume_value)
      /\ then' = Continues(area.import, exec.resume_value)
      /\ UNCHANGED <<jmp_bufs, children, depth>>
  BY DEF FinishRewind, IInv, Typed, program
<1>3. /\ Inside' /\ ~Over' /\ Returning' = Returning
      /\ Last(frames') = exec.resume_value
  BY <1>1, <1>2, TopChanges DEF Inside, Over, Returning
<1>4. CASE Returning
  <2>1. Due' = Due
    BY <1>1, <1>2, <1>3 DEF Due, Inside
  <2> QED
    BY <1>1, <1>2, <1>3, <1>4, <2>1, StaysOwed
<1>5. CASE ~Returning /\ ForVfork
  <2>1. area.import.op = "setjmp" /\ area.import.env \in Jbs
    BY <1>1, <1>5 DEF ForVfork, CallOf, Op
  <2>2. Answered /\ IsVforking'
    BY <1>1, <1>2, <1>3, <1>5, <2>1 DEF Answered, IsVforking, Continues, Returning
  <2>3. /\ View(Promise!Calling(Promise!Op("vfork")), area.frames)
        /\ View(Promise!Calling(Promise!Op("vfork")), WithTop(frames, Pending))'
    BY <1>5, <2>2, ViewVforkAnswered, ViewVforking, PTL
  <2>4. WithTop(frames', Pending) = area.frames
    BY <1>1, <1>2, TopTwice DEF IsArea, Result
  <2> QED
    BY <1>1, <1>2, <1>3, <2>3, <2>4, Stutters DEF View, Promise!Calling, Promise!Op
<1>6. CASE ~Returning /\ ~ForVfork
  <2>1. Answered /\ then' = "code"
    BY <1>1, <1>2, <1>6 DEF Answered, Continues, ForVfork, CallOf, MayAnswer
  <2>2. InCode'
    BY <1>3, <2>1 DEF InCode
  <2>3. /\ View(Promise!Owed(exec.resume_value), area.frames)
        /\ View(Promise!Running, frames)'
    BY <1>6, <2>1, <2>2, ViewAnswered, ViewRunning, PTL
  <2>4. UNCHANGED <<AbstractSaved, AbstractLent>>
    BY <1>1, <1>2, <1>3, SameSaved, SameLent
  <2>5. Promise!Receive
    BY <1>2, <2>3, <2>4
       DEF View, Promise!Receive, Promise!Owed, Promise!Running, Promise!WithTop, WithTop
  <2> QED
    BY <2>5 DEF Promise!Next
<1> QED
  BY <1>4, <1>5, <1>6

LEMMA StepRefines ==
    IInv /\ IInv' /\ [Next]_vars => [Promise!Next]_(Promise!callVars)
<1> SUFFICES ASSUME IInv, IInv', [Next]_vars
             PROVE  Promise!Next \/ UNCHANGED Promise!callVars
  OBVIOUS
<1>1. CASE UNCHANGED vars
  BY <1>1 DEF vars, Promise!callVars, AbstractAt, AbstractStack, AbstractSaved, AbstractLent,
              Over, Returning, Due, CallOf, InCode, Inside, Waits, VforkFrames
<1>2. CASE \/ Enter \/ Leave \/ (\E v \in Value : SyscallAnswers(v))
           \/ AfterExit \/ AfterExec \/ SyscallExits \/ TrapsOrEnds \/ AfterBadLongjmp
  BY <1>2, CodeRefines, ExitStutters, ExecSteps, EndSteps
<1>3. CASE \/ (\E name \in {"wait", "exec"} : SyscallBlocks(name)) \/ SyscallExecs
           \/ (\E e \in Env : Setjmp(e) \/ \E v \in Value : Longjmp(e, v)) \/ VforkStarts
  BY <1>3, BeginSteps
<1>4. CASE \/ (\E child \in Child : VforkClones(child)) \/ VforkRefused \/ VforkReturns
           \/ ChildEnds \/ VforkReturn
  BY <1>4, LendRefines, VforkRefusedRefines, VforkReturnsRefines, ChildEndsRefines,
     VforkReturnStutters
<1>5. CASE \/ AfterSetjmp \/ AfterLongjmp \/ AfterBlocked \/ StepRewinds \/ FinishRewind
           \/ RetryExecs \/ (\E v \in Value : RetryAnswers(v))
  BY <1>5, SetjmpRefines, LongjmpRefines, BlockedStutters, RewindStutters, RetryRefines,
     FinishRefines
<1> QED
  BY <1>1, <1>2, <1>3, <1>4, <1>5 DEF Next

-----------------------------------------------------------------------------
(* 9. The refinement.                                                      *)

(* kernel/mod.rs, the imports and after_return, with vfork.c: however deep *)
(* the frames and however many vforks, what the guest sees of its own      *)
(* control is what module Calls promises.                                  *)
THEOREM GuestImplementsCalls == Spec => ImplementsCalls
<1>1. Spec => []IInv
  BY GuestInvariant
<1>2. Spec => Promise!Spec
  BY <1>1, InitRefines, StepRefines, PTL DEF Spec, Promise!Spec
<1> QED
  BY <1>2 DEF ImplementsCalls
=============================================================================
