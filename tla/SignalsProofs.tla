--------------------------- MODULE SignalsProofs ----------------------------
(***************************************************************************)
(* For any number of pids, any programs, masks, dispositions and depth of  *)
(* handlers and vforks: a task's mask is the one its program asked for     *)
(* except while it is suspended, no call leaves a signal behind unseen,    *)
(* and a call that a signal may end returns into the fetch loop.           *)
(*                                                                         *)
(* What ProcessesProofs shows of the process table is used through the     *)
(* instance PP.  Its definitions are those of P; section 1 says so.        *)
(***************************************************************************)
EXTENDS Signals, FiniteSetTheorems, SequenceTheorems, TLAPS

PP == INSTANCE ProcessesProofs

-----------------------------------------------------------------------------
(* 1. P and PP are the same. *)

(* The assumption of Processes is among those of Signals. *)
LEMMA AssumedOfProcesses == PP!ProcessesAssumption
BY SignalsAssumption
   DEF PP!ProcessesAssumption, First, PP!First, P!First, PP!Status, P!Status,
       PP!ProcRecord, P!ProcRecord, PP!Pid, P!Pid, PP!NoPid, P!NoPid

LEMMA FirstIsPid == First \in Pid /\ First \in Nat /\ Pid \subseteq Nat
<1>1. MaxPid \in Nat /\ MaxPid >= P!First
  BY SignalsAssumption DEF First
<1> QED
  BY <1>1 DEF First, Pid, P!Pid, P!First

LEMMA SameSetExit ==
    ASSUME NEW t, NEW p, NEW status
    PROVE  P!SetExit(t, p, status) = PP!SetExit(t, p, status)
BY Zenon DEF P!SetExit, PP!SetExit, P!Mark, PP!Mark, P!Adopt, PP!Adopt, P!AliveIn, PP!AliveIn,
   P!IsChild, PP!IsChild, P!Pid, PP!Pid, P!NoPid, PP!NoPid, P!First, PP!First

LEMMA SameTearDown ==
    ASSUME NEW t, NEW tasks, NEW status
    PROVE  P!TearDown(t, tasks, status) = PP!TearDown(t, tasks, status)
BY Zenon DEF P!TearDown, PP!TearDown,
   P!SetExit, PP!SetExit, P!Mark, PP!Mark, P!Adopt, PP!Adopt, P!AliveIn, PP!AliveIn,
   P!IsChild, PP!IsChild, P!Pid, PP!Pid, P!NoPid, PP!NoPid, P!First, PP!First

LEMMA SameKillAll ==
    ASSUME NEW t, NEW list
    PROVE  P!KillAllOf(t, list) = PP!KillAllOf(t, list)
BY Zenon DEF P!KillAllOf, PP!KillAllOf, P!TearDown, PP!TearDown,
   P!SetExit, PP!SetExit, P!Mark, PP!Mark, P!Adopt, PP!Adopt, P!AliveIn, PP!AliveIn,
   P!IsChild, PP!IsChild, P!Pid, PP!Pid, P!NoPid, PP!NoPid, P!First, PP!First

LEMMA SameState ==
    /\ P!Pid = PP!Pid /\ P!Instances = PP!Instances /\ P!Over = PP!Over
    /\ P!Status = PP!Status /\ P!ProcRecord = PP!ProcRecord
    /\ \A b : P!Current(b) = PP!Current(b)
    /\ \A p : P!Alive(p) <=> PP!Alive(p)
    /\ \A p, which : P!Reapable(p, which) = PP!Reapable(p, which)
<1>1. P!Pid = PP!Pid /\ P!Instances = PP!Instances /\ P!Over = PP!Over
  BY DEF P!Pid, PP!Pid, P!Instances, PP!Instances, P!Over, PP!Over
<1>2. P!Status = PP!Status /\ P!ProcRecord = PP!ProcRecord
  BY <1>1 DEF P!Status, PP!Status, P!ProcRecord, PP!ProcRecord, P!NoPid, PP!NoPid
<1>3. \A b : P!Current(b) = PP!Current(b)
  BY DEF P!Current, PP!Current
<1>4. \A p : P!Alive(p) <=> PP!Alive(p)
  BY <1>1 DEF P!Alive, PP!Alive, P!AliveIn, PP!AliveIn
<1>5. \A p, which : P!Reapable(p, which) = PP!Reapable(p, which)
  BY <1>1 DEF P!Reapable, PP!Reapable, P!Candidates, PP!Candidates, P!IsChild, PP!IsChild
<1> QED
  BY <1>1, <1>2, <1>3, <1>4, <1>5

LEMMA SameType == P!TypeOK <=> PP!TypeOK
BY SameState DEF P!TypeOK, PP!TypeOK

LEMMA SameInit == P!Init => PP!Init
BY DEF P!Init, PP!Init, P!Pid, PP!Pid, P!First, PP!First, P!NoPid, PP!NoPid, P!Record, PP!Record

LEMMA SameNext == [P!Next]_(P!vars) => [PP!Next]_(PP!vars)
<1>1. ASSUME NEW b \in P!Pid, P!Vfork(b) PROVE PP!Vfork(b)
  BY <1>1, SameState, Zenon
     DEF P!Vfork, PP!Vfork, P!Over, PP!Over, P!Instances, PP!Instances, P!Pid, PP!Pid,
         P!Alive, PP!Alive, P!AliveIn, PP!AliveIn, P!Record, PP!Record, P!Current, PP!Current,
         P!Cardinality, PP!Cardinality
<1>2. ASSUME NEW b \in P!Pid, P!ExecChild(b) PROVE PP!ExecChild(b)
  BY <1>2, Zenon
     DEF P!ExecChild, PP!ExecChild, P!InChild, PP!InChild, P!Over, PP!Over,
         P!Current, PP!Current, P!Front, PP!Front
<1>3. ASSUME NEW b \in P!Pid, P!ExecFails(b) PROVE PP!ExecFails(b)
  BY <1>3, SameSetExit, Zenon DEF P!ExecFails, PP!ExecFails, P!Over, PP!Over
<1>4. ASSUME NEW b \in P!Pid, NEW status, P!ExitChild(b, status) PROVE PP!ExitChild(b, status)
  BY <1>4, SameSetExit, Zenon
     DEF P!ExitChild, PP!ExitChild, P!InChild, PP!InChild, P!Over, PP!Over,
         P!Current, PP!Current, P!Front, PP!Front
<1>5. ASSUME NEW b \in P!Pid, NEW status, P!Finish(b, status) PROVE PP!Finish(b, status)
  BY <1>5, SameTearDown, Zenon
     DEF P!Finish, PP!Finish, P!Over, PP!Over, P!Instances, PP!Instances, P!Pid, PP!Pid,
         P!First, PP!First
<1>6. ASSUME NEW b \in P!Pid, NEW which, P!Reap(b, which) PROVE PP!Reap(b, which)
  BY <1>6, Zenon
     DEF P!Reap, PP!Reap, P!Over, PP!Over, P!Instances, PP!Instances, P!Pid, PP!Pid,
         P!Current, PP!Current, P!Reapable, PP!Reapable, P!Candidates, PP!Candidates,
         P!IsChild, PP!IsChild
<1>7. P!Start => PP!Start
  BY DEF P!Start, PP!Start, P!Over, PP!Over
<1>8. P!StartFails => PP!StartFails
  BY SameSetExit, Zenon DEF P!StartFails, PP!StartFails, P!Over, PP!Over
<1>9. ASSUME NEW list, P!KillAll(list) PROVE PP!KillAll(list)
  BY <1>9, SameKillAll, Zenon DEF P!KillAll, PP!KillAll, P!Over, PP!Over, P!Pid, PP!Pid
<1>10. P!NoneLeft => PP!NoneLeft
  BY SameState DEF P!NoneLeft, PP!NoneLeft, P!Over, PP!Over
<1>11. P!SetToSeqs(P!Instances) = PP!SetToSeqs(PP!Instances)
  BY Zenon DEF P!SetToSeqs, PP!SetToSeqs, P!Instances, PP!Instances, P!Pid, PP!Pid,
               P!Cardinality, PP!Cardinality
<1>12. P!Next => PP!Next
  BY <1>1, <1>2, <1>3, <1>4, <1>5, <1>6, <1>7, <1>8, <1>9, <1>10, <1>11, SameState
     DEF P!Next, PP!Next
<1> QED
  BY <1>12 DEF P!vars, PP!vars

-----------------------------------------------------------------------------
(* 2. What is used of the processes. *)

ProcessFacts ==
    /\ table \in [Pid -> P!ProcRecord \cup {None}]
    /\ stack \in [Pid -> Seq(Pid)] /\ spawn \in Seq(Pid) /\ nextPid \in Pid \cup {MaxPid + 1}
    /\ \A b \in Pid : stack[b] # <<>> => Me(b) \in Pid /\ Me(b) \in ToSet(stack[b])
    /\ \A b \in Pid : stack[b] # <<>> => stack[b][1] = b
    /\ \A b \in Pid : \A p \in ToSet(stack[b]) : P!Alive(p)
    /\ \A b, c \in Pid : b # c => ToSet(stack[b]) \cap ToSet(stack[c]) = {}
    /\ spawn # <<>> => /\ Head(spawn) \in Pid /\ stack[Head(spawn)] = <<>>
                       /\ \A b \in Pid : Head(spawn) \notin ToSet(stack[b])
    /\ nextPid \in Pid => table[nextPid] = None

LEMMA FactsOfProcesses == PP!IInv => ProcessFacts
<1> SUFFICES ASSUME PP!IInv PROVE ProcessFacts
  OBVIOUS
<1>1. Pid = PP!Pid /\ P!Pid = PP!Pid
  BY SameState DEF Pid
<1>2. PP!TypeOK
  BY DEF PP!IInv
<1>3. /\ table \in [Pid -> P!ProcRecord \cup {None}]
      /\ stack \in [Pid -> Seq(Pid)] /\ spawn \in Seq(Pid) /\ nextPid \in Pid \cup {MaxPid + 1}
  <2>1. /\ table \in [PP!Pid -> PP!ProcRecord \cup {None}] /\ stack \in [PP!Pid -> Seq(PP!Pid)]
        /\ spawn \in Seq(PP!Pid) /\ nextPid \in PP!Pid \cup {MaxPid + 1}
    BY <1>2 DEF PP!TypeOK
  <2>2. P!ProcRecord = PP!ProcRecord
    BY SameState
  <2> QED
    BY <1>1, <2>1, <2>2, Zenon
<1>4. \A b \in Pid : ToSet(stack[b]) = PP!TasksOf(stack[b])
  BY <1>3 DEF ToSet, PP!TasksOf
<1>5. \A b \in Pid : \A p \in ToSet(stack[b]) : P!Alive(p)
  BY <1>1, <1>4, SameState DEF PP!IInv, PP!TasksLive
<1>6. ASSUME NEW b \in Pid, stack[b] # <<>>
      PROVE  Me(b) \in Pid /\ Me(b) \in ToSet(stack[b])
  <2>1. PP!Current(b) \in PP!Pid /\ PP!Current(b) \in PP!TasksOf(stack[b])
    BY <1>1, <1>6, AssumedOfProcesses, PP!CurrentIsTask
  <2> QED
    BY <1>1, <1>4, <2>1, SameState DEF Me
<1>7. \A b, c \in Pid : b # c => ToSet(stack[b]) \cap ToSet(stack[c]) = {}
  BY <1>1, <1>4, AssumedOfProcesses, PP!Distinct
<1>8. ASSUME spawn # <<>>
      PROVE  /\ Head(spawn) \in Pid /\ stack[Head(spawn)] = <<>>
             /\ \A b \in Pid : Head(spawn) \notin ToSet(stack[b])
  <2>1. spawn \in Seq(PP!Pid)
    BY AssumedOfProcesses, PP!QueueIsLive
  <2>2. Head(spawn) \in PP!Pid /\ Head(spawn) \in PP!TasksOf(spawn)
    BY <1>8, <2>1, AssumedOfProcesses, PP!TailOfSeq
  <2>3. \A b \in PP!Pid : Head(spawn) \notin PP!TasksOf(stack[b])
    BY <2>2, AssumedOfProcesses, PP!Distinct
  <2>4. stack[Head(spawn)] = <<>>
    BY <1>1, <1>2, <2>2, <2>3, AssumedOfProcesses, PP!Bottoms
  <2> QED
    BY <1>1, <1>4, <2>2, <2>3, <2>4
<1>9. nextPid \in Pid => table[nextPid] = None
  BY <1>1 DEF PP!IInv, PP!Unborn, PP!Pid
<1>10. \A b \in Pid : stack[b] # <<>> => stack[b][1] = b
  BY <1>1, <1>2, AssumedOfProcesses, PP!Bottoms
<1> QED
  BY <1>3, <1>5, <1>6, <1>7, <1>8, <1>9, <1>10 DEF ProcessFacts

LEMMA FactsOfStart == P!Init => PP!IInv
BY SameInit, AssumedOfProcesses, PP!InitInvariant

LEMMA FactsKept == PP!IInv /\ [P!Next]_(P!vars) => PP!IInv'
BY SameNext, AssumedOfProcesses, PP!NextInvariant

(* A stack that has a task above another is not empty without it. *)
LEMMA FrontOfStack ==
    ASSUME NEW s \in Seq(Pid), Len(s) > 1
    PROVE  P!Front(s) \in Seq(Pid) /\ P!Front(s) # <<>> /\ s # <<>>
<1> DEFINE f == P!Front(s)
<1>1. f = SubSeq(s, 1, Len(s) - 1)
  BY DEF P!Front
<1>2. Len(s) \in Nat
  OBVIOUS
<1> HIDE DEF f
<1>3. f \in Seq(Pid) /\ Len(f) = Len(s) - 1
  BY <1>1, <1>2, SubSeqProperties
<1> QED
  BY <1>2, <1>3 DEF f

-----------------------------------------------------------------------------
(* 3. The invariant. *)

Actions == {a \in [Signals -> Dispositions \cup {"DFL"}] : a[KILL] = "DFL"}

(* TypeOK, without what it says of the processes. *)
Values ==
    /\ pending \in [Pid -> SUBSET Signals] /\ group \in [Pid -> Pid]
    /\ mask \in [Pid -> SUBSET Signals] /\ own \in [Pid -> SUBSET (Signals \ {KILL})]
    /\ act \in [Pid -> Actions]
    /\ saved \in [Pid -> (SUBSET Signals) \cup {None}]
    /\ where \in [Pid -> Where]
    /\ frames \in [Pid -> Seq({"handler", "vfork"})]
    /\ \A q \in Pid : ~P!Alive(q) => pending[q] = {}
    /\ late \subseteq P!Instances

Runs(b) == stack[b] # <<>>
SuspendedAt(w) == w.at = "blocked" /\ w.op = "suspend"

(* mask_to_restore is the mask of the task that is suspended, and of nobody *)
(* else; nobody is in a call, or away from its program, without an instance. *)
SavedOK ==
    \A b \in Pid : /\ IF Suspended(b) THEN Runs(b) /\ saved[b] = own[Me(b)] ELSE saved[b] = None
                   /\ ~Runs(b) => where[b] = User

(* MaskIsTheProgramsOwn, without what is put aside. *)
MaskOK ==
    \A q \in Pid : mask[q] # own[q] => \E b \in Pid : Runs(b) /\ Me(b) = q /\ Suspended(b)

Unseen(b) ==
    /\ where[b] = User /\ b \notin late /\ (frames[b] # <<>> => Last(frames[b]) # "handler")
    /\ Interrupted(b)
NothingUnseen == \A b \in Pid : Runs(b) => ~Unseen(b)

SInv == PP!IInv /\ Values /\ SavedOK /\ MaskOK /\ NothingUnseen

LEMMA PlacesDiffer ==
    /\ User.at = "user" /\ Leaving.at = "leaving" /\ Command.at = "host"
    /\ \A op, arg : /\ Blocked(op, arg).at = "blocked"
                    /\ Blocked(op, arg).op = op /\ Blocked(op, arg).arg = arg
    /\ User \in Where /\ Leaving \in Where /\ Command \in Where
    /\ \A n \in Waits : Blocked("wait", n) \in Where
    /\ \A m \in Masks : Blocked("suspend", m) \in Where
    /\ \A w \in Where : w.at = "blocked" =>
          (w.op = "wait" /\ w.arg \in Waits) \/ (w.op = "suspend" /\ w.arg \in Masks)
<1>1. /\ User.at = "user" /\ Leaving.at = "leaving" /\ Command.at = "host"
      /\ \A op, arg : /\ Blocked(op, arg).at = "blocked"
                      /\ Blocked(op, arg).op = op /\ Blocked(op, arg).arg = arg
  BY DEF User, Leaving, Command, Blocked
<1>2. /\ User \in Where /\ Leaving \in Where /\ Command \in Where
      /\ \A n \in Waits : Blocked("wait", n) \in Where
      /\ \A m \in Masks : Blocked("suspend", m) \in Where
  BY DEF Where
<1>3. ASSUME NEW w \in Where, w.at = "blocked"
      PROVE  (w.op = "wait" /\ w.arg \in Waits) \/ (w.op = "suspend" /\ w.arg \in Masks)
  BY <1>1, <1>3 DEF Where
<1> QED
  BY <1>1, <1>2, <1>3

LEMMA InvariantImplies ==
    SInv => TypeOK /\ MaskIsTheProgramsOwn /\ NoSignalIsMissed
<1> SUFFICES ASSUME SInv PROVE TypeOK /\ MaskIsTheProgramsOwn /\ NoSignalIsMissed
  OBVIOUS
<1>1. P!TypeOK
  BY SameType DEF SInv, PP!IInv
<1>2. TypeOK
  BY <1>1 DEF SInv, Values, Actions, TypeOK
<1>3. MaskIsTheProgramsOwn
  BY DEF SInv, SavedOK, MaskOK, MaskIsTheProgramsOwn, Runs, P!Instances, Pid
<1>4. NoSignalIsMissed
  BY DEF SInv, NothingUnseen, Unseen, NoSignalIsMissed, Runs, P!Instances, Pid
<1> QED
  BY <1>2, <1>3, <1>4

-----------------------------------------------------------------------------
(* 4. What a step does to the instance that takes it, and to the others. *)

(* Nothing of the others changes, except that they may be signalled. *)
Elsewhere(b) ==
    \A c \in Pid : c # b =>
        /\ saved'[c] = saved[c] /\ where'[c] = where[c] /\ frames'[c] = frames[c]
        /\ stack'[c] = stack[c]
        /\ Runs(c) => /\ mask'[Me(c)] = mask[Me(c)] /\ own'[Me(c)] = own[Me(c)]
                      /\ act'[Me(c)] = act[Me(c)]
                      /\ c \notin late' => c \notin late /\ pending'[Me(c)] \subseteq pending[Me(c)]

(* The masks that change are those of the instance's own tasks. *)
Remasks(b) ==
    \A q \in Pid :
        \/ mask'[q] = own'[q]
        \/ mask'[q] = mask[q] /\ own'[q] = own[q] /\ ~(Runs(b) /\ q = Me(b))
        \/ stack'[b] # <<>> /\ q = Me(b)' /\ SuspendedAt(where'[b])

Here(b) ==
    /\ IF SuspendedAt(where'[b]) THEN stack'[b] # <<>> /\ saved'[b] = own'[Me(b)']
       ELSE saved'[b] = None
    /\ stack'[b] = <<>> => where'[b] = User
    /\ stack'[b] # <<>> => ~Unseen(b)'

LEMMA StepKeeps ==
    ASSUME SInv, NEW b \in Pid, Elsewhere(b), Remasks(b), Here(b)
    PROVE  SavedOK' /\ MaskOK' /\ NothingUnseen'
<1>1. ASSUME NEW c \in Pid, c # b
      PROVE  /\ Suspended(c)' = Suspended(c) /\ Runs(c)' = Runs(c) /\ Me(c)' = Me(c)
             /\ saved'[c] = saved[c] /\ where'[c] = where[c] /\ frames'[c] = frames[c]
  BY <1>1 DEF Elsewhere, Suspended, Runs, Me, P!Current
<1>2. SavedOK'
  <2> SUFFICES ASSUME NEW c \in Pid
               PROVE  /\ IF Suspended(c)' THEN Runs(c)' /\ saved'[c] = own'[Me(c)'] ELSE saved'[c] = None
                      /\ ~Runs(c)' => where'[c] = User
    BY DEF SavedOK
  <2>1. CASE c = b
    BY <2>1 DEF Here, Suspended, SuspendedAt, Runs
  <2>2. CASE c # b
    BY <1>1, <2>2 DEF SInv, SavedOK, Elsewhere
  <2> QED
    BY <2>1, <2>2
<1>3. MaskOK'
  <2> SUFFICES ASSUME NEW q \in Pid, mask'[q] # own'[q]
               PROVE  \E c \in Pid : Runs(c)' /\ Me(c)' = q /\ Suspended(c)'
    BY DEF MaskOK
  <2>1. CASE stack'[b] # <<>> /\ q = Me(b)' /\ SuspendedAt(where'[b])
    BY <2>1 DEF Runs, Suspended, SuspendedAt
  <2>2. CASE mask'[q] = mask[q] /\ own'[q] = own[q] /\ ~(Runs(b) /\ q = Me(b))
    <3>1. PICK c \in Pid : Runs(c) /\ Me(c) = q /\ Suspended(c)
      BY <2>2 DEF SInv, MaskOK
    <3>2. c # b
      BY <2>2, <3>1
    <3> QED
      BY <1>1, <3>1, <3>2
  <2> QED
    BY <2>1, <2>2 DEF Remasks
<1>4. NothingUnseen'
  <2> SUFFICES ASSUME NEW c \in Pid, Runs(c)', Unseen(c)' PROVE FALSE
    BY DEF NothingUnseen
  <2>1. CASE c = b
    BY <2>1 DEF Here, Runs
  <2>2. CASE c # b
    <3>1. /\ Runs(c) /\ Me(c)' = Me(c) /\ c \notin late'
          /\ where[c] = User /\ (frames[c] # <<>> => Last(frames[c]) # "handler")
      BY <1>1, <2>2 DEF Unseen
    <3>2. /\ mask'[Me(c)] = mask[Me(c)] /\ act'[Me(c)] = act[Me(c)]
          /\ c \notin late /\ pending'[Me(c)] \subseteq pending[Me(c)]
      BY <2>2, <3>1 DEF Elsewhere
    <3>3. Live(Me(c)) = {}
      BY <3>1, <3>2 DEF SInv, NothingUnseen, Unseen, Interrupted
    <3>4. LiveOf(pending'[Me(c)], mask'[Me(c)], act'[Me(c)]) # {}
      BY <3>1 DEF Unseen, Interrupted, Live
    <3> QED
      BY <3>2, <3>3, <3>4 DEF Live, LiveOf
  <2> QED
    BY <2>1, <2>2
<1> QED
  BY <1>2, <1>3, <1>4

Own == Values /\ SavedOK /\ MaskOK /\ NothingUnseen

(* Values, without what Finish sets. *)
RestOK ==
    /\ pending \in [Pid -> SUBSET Signals] /\ group \in [Pid -> Pid]
    /\ own \in [Pid -> SUBSET (Signals \ {KILL})] /\ act \in [Pid -> Actions]
    /\ frames \in [Pid -> Seq({"handler", "vfork"})]
    /\ \A q \in Pid : ~P!Alive(q) => pending[q] = {}

LEMMA FactsOfRunning ==
    ASSUME SInv, NEW b \in Pid, Runs(b)
    PROVE  /\ Me(b) \in Pid /\ Me(b) \in ToSet(stack[b]) /\ P!Alive(Me(b)) /\ table[Me(b)] # None
           /\ \A c \in Pid : c # b => Me(b) \notin ToSet(stack[c]) /\ (Runs(c) => Me(c) # Me(b))
           /\ ~Suspended(b) => saved[b] = None /\ mask[Me(b)] = own[Me(b)]
           /\ Suspended(b) => saved[b] = own[Me(b)] /\ saved[b] # None
<1>1. ProcessFacts
  BY FactsOfProcesses DEF SInv
<1>2. /\ Me(b) \in Pid /\ Me(b) \in ToSet(stack[b]) /\ P!Alive(Me(b))
      /\ \A c \in Pid : c # b => Me(b) \notin ToSet(stack[c]) /\ (Runs(c) => Me(c) # Me(b))
  BY <1>1 DEF ProcessFacts, Runs
<1>3. table[Me(b)] # None
  BY <1>2 DEF P!Alive, P!AliveIn
<1>4. ~Suspended(b) => saved[b] = None /\ mask[Me(b)] = own[Me(b)]
  BY <1>2 DEF SInv, SavedOK, MaskOK
<1>5. Suspended(b) => saved[b] = own[Me(b)] /\ saved[b] # None
  <2>1. own[Me(b)] \in SUBSET Signals
    BY <1>2 DEF SInv, Values
  <2> QED
    BY <2>1, SignalsAssumption DEF SInv, SavedOK
<1> QED
  BY <1>2, <1>3, <1>4, <1>5

LEMMA NotedOthers ==
    ASSUME NEW S, Noted(S)
    PROVE  /\ late' \subseteq P!Instances'
           /\ \A c \in Pid : c \notin S /\ Runs(c) /\ stack'[c] = stack[c] /\ c \notin late' =>
                 c \notin late /\ pending'[Me(c)] \subseteq pending[Me(c)]
<1>1. late' = {c \in P!Instances' : c \notin S /\ (c \in late \/ Signalled(c))}
  BY DEF Noted
<1>2. ASSUME NEW c \in Pid, c \notin S, Runs(c), stack'[c] = stack[c], c \notin late'
      PROVE  c \notin late /\ pending'[Me(c)] \subseteq pending[Me(c)]
  <2>1. c \in P!Instances'
    BY <1>2 DEF P!Instances, Pid, Runs
  <2>2. c \notin late /\ ~Signalled(c)
    BY <1>1, <1>2, <2>1
  <2>3. Me(c)' = Me(c)
    BY <1>2 DEF Me, P!Current
  <2> QED
    BY <1>2, <2>2, <2>3 DEF Signalled, Runs
<1> QED
  BY <1>1, <1>2

(* What a call may do to the tasks, its caller's and the others, before it *)
(* finishes with the masks `before`.                                       *)
LeavesOthers(b, before) ==
    /\ \A c \in Pid : c # b =>
          /\ frames'[c] = frames[c] /\ stack'[c] = stack[c]
          /\ Runs(c) => /\ before[Me(c)] = mask[Me(c)] /\ own'[Me(c)] = own[Me(c)]
                        /\ act'[Me(c)] = act[Me(c)]
    /\ \A q \in Pid : q # Me(b) =>
          before[q] = own'[q] \/ (before[q] = mask[q] /\ own'[q] = own[q])
    /\ IF Suspended(b) THEN own'[Me(b)] = own[Me(b)] ELSE before[Me(b)] = own'[Me(b)]

(* A call that returns. *)
LEMMA FinishKeeps ==
    ASSUME SInv, NEW b \in Pid, NEW before \in [Pid -> SUBSET Signals], Finish(b, before),
           Runs(b), stack'[b] # <<>>, RestOK',
           LeavesOthers(b, before)
    PROVE  Own'
<1>1. /\ \A c \in Pid : c # b =>
            /\ frames'[c] = frames[c] /\ stack'[c] = stack[c]
            /\ Runs(c) => /\ before[Me(c)] = mask[Me(c)] /\ own'[Me(c)] = own[Me(c)]
                          /\ act'[Me(c)] = act[Me(c)]
      /\ \A q \in Pid : q # Me(b) =>
            before[q] = own'[q] \/ (before[q] = mask[q] /\ own'[q] = own[q])
      /\ IF Suspended(b) THEN own'[Me(b)] = own[Me(b)] ELSE before[Me(b)] = own'[Me(b)]
  BY DEF LeavesOthers
<1>2. /\ Me(b) \in Pid
      /\ \A c \in Pid : c # b /\ Runs(c) => Me(c) # Me(b) /\ Me(c) \in Pid
      /\ ~Suspended(b) => saved[b] = None
      /\ Suspended(b) => saved[b] = own[Me(b)] /\ saved[b] # None
  BY FactsOfRunning
<1>3. /\ mask' = IF saved[b] = None THEN before ELSE [before EXCEPT ![Me(b)] = saved[b]]
      /\ saved' = [saved EXCEPT ![b] = None]
      /\ where' = [where EXCEPT ![b] =
                      IF LiveOf(pending'[Me(b)'], mask'[Me(b)'], act'[Me(b)']) = {}
                      THEN User ELSE Leaving]
      /\ Noted({b})
  BY DEF Finish
<1>4. /\ saved \in [Pid -> (SUBSET Signals) \cup {None}] /\ where \in [Pid -> Where]
  BY DEF SInv, Values
<1>5. \A q \in Pid : q # Me(b) => mask'[q] = before[q]
  BY <1>2, <1>3
<1>6. mask'[Me(b)] = own'[Me(b)]
  BY <1>1, <1>2, <1>3
<1>7. /\ saved'[b] = None /\ where'[b] \in {User, Leaving}
      /\ where'[b] = User => LiveOf(pending'[Me(b)'], mask'[Me(b)'], act'[Me(b)']) = {}
  BY <1>3, <1>4, PlacesDiffer
<1>8. Values'
  <2>1. mask' \in [Pid -> SUBSET Signals]
    <3>1. CASE saved[b] = None
      BY <1>3, <3>1
    <3>2. CASE saved[b] # None
      <4>1. saved[b] \in SUBSET Signals
        BY <1>4, <3>2
      <4>2. mask' = [before EXCEPT ![Me(b)] = saved[b]]
        BY <1>3, <3>2
      <4> QED
        BY <4>1, <4>2
    <3> QED
      BY <3>1, <3>2
  <2>2. saved' \in [Pid -> (SUBSET Signals) \cup {None}]
    <3>1. saved' = [saved EXCEPT ![b] = None]
      BY <1>3
    <3> QED
      BY <1>4, <3>1
  <2>3. where' \in [Pid -> Where]
    <3>1. \E w \in {User, Leaving} : where' = [where EXCEPT ![b] = w]
      BY <1>3, Zenon
    <3> QED
      BY <1>4, <3>1, PlacesDiffer
  <2> QED
    BY <1>3, <2>1, <2>2, <2>3, NotedOthers DEF RestOK, Values
<1>9. Elsewhere(b)
  BY <1>1, <1>2, <1>3, <1>4, <1>5, NotedOthers DEF Elsewhere
<1>10. Remasks(b)
  BY <1>1, <1>5, <1>6 DEF Remasks
<1>11. Here(b)
  <2>1. ~SuspendedAt(where'[b])
    BY <1>7, PlacesDiffer DEF SuspendedAt
  <2>2. ~Unseen(b)'
    BY <1>7 DEF Unseen, Interrupted, Live
  <2> QED
    BY <1>7, <2>1, <2>2 DEF Here
<1> QED
  BY <1>8, <1>9, <1>10, <1>11, StepKeeps DEF Own

-----------------------------------------------------------------------------
(* 5. Calls that change no process. *)

LEMMA InFacts ==
    ASSUME NEW b \in Pid, NEW places, In(b, places)
    PROVE  /\ Runs(b) /\ where[b].at \in places
           /\ "blocked" \notin places => ~Suspended(b)
BY DEF In, Runs, P!Instances, Suspended

LEMMA SameProcesses ==
    ASSUME UNCHANGED procVars
    PROVE  /\ stack' = stack /\ table' = table /\ [P!Next]_(P!vars)
           /\ \A q : P!Alive(q)' = P!Alive(q)
BY DEF procVars, P!vars, P!Alive, P!AliveIn

(* A call that changes its own task's mask and actions at most. *)
LEMMA CallKeeps ==
    ASSUME SInv, NEW b \in Pid, NEW before \in [Pid -> SUBSET Signals], Finish(b, before),
           Runs(b), UNCHANGED <<procVars, frames>>,
           pending' \in [Pid -> SUBSET Signals], \A q \in Pid : ~P!Alive(q) => pending'[q] = {},
           group' \in [Pid -> Pid], own' \in [Pid -> SUBSET (Signals \ {KILL})],
           act' \in [Pid -> Actions],
           \A q \in Pid : q # Me(b) =>
              before[q] = mask[q] /\ own'[q] = own[q] /\ act'[q] = act[q],
           IF Suspended(b) THEN own'[Me(b)] = own[Me(b)] ELSE before[Me(b)] = own'[Me(b)]
    PROVE  Own'
<1>1. stack' = stack /\ table' = table /\ \A q : P!Alive(q)' = P!Alive(q)
  BY SameProcesses
<1>2. \A c \in Pid : c # b =>
         /\ frames'[c] = frames[c] /\ stack'[c] = stack[c]
         /\ Runs(c) => /\ before[Me(c)] = mask[Me(c)] /\ own'[Me(c)] = own[Me(c)]
                       /\ act'[Me(c)] = act[Me(c)]
  <2>1. \A c \in Pid : c # b /\ Runs(c) => Me(c) # Me(b) /\ Me(c) \in Pid
    BY FactsOfRunning
  <2> QED
    BY <1>1, <2>1
<1>3. RestOK'
  BY <1>1 DEF RestOK, SInv, Values
<1>4. stack'[b] # <<>>
  BY <1>1 DEF Runs
<1>5. LeavesOthers(b, before)
  BY <1>2 DEF LeavesOthers
<1> QED
  BY <1>3, <1>4, <1>5, FinishKeeps

LEMMA ReturnsKeeps == ASSUME SInv, NEW b \in Pid, Runs(b), Returns(b) PROVE Own'
<1>1. mask \in [Pid -> SUBSET Signals] /\ Finish(b, mask)
  BY DEF Returns, SInv, Values
<1>2. IF Suspended(b) THEN own'[Me(b)] = own[Me(b)] ELSE mask[Me(b)] = own'[Me(b)]
  BY FactsOfRunning DEF Returns
<1> QED
  BY <1>1, <1>2, CallKeeps DEF Returns, SInv, Values

LEMMA ActionChanges ==
    ASSUME NEW a \in Actions, NEW s \in Signals, s # KILL, NEW d \in Dispositions \cup {"DFL"}
    PROVE  [a EXCEPT ![s] = d] \in Actions
<1>1. KILL \in Signals
  BY SignalsAssumption
<1>2. a \in [Signals -> Dispositions \cup {"DFL"}] /\ a[KILL] = "DFL"
  BY DEF Actions
<1> QED
  BY <1>1, <1>2 DEF Actions

LEMMA SigactionKeeps ==
    ASSUME SInv, NEW b \in Pid, NEW s \in Signals, NEW d \in Dispositions, Sigaction(b, s, d)
    PROVE  Own'
<1>1. Runs(b) /\ ~Suspended(b) /\ s # KILL
  BY InFacts DEF Sigaction
<1>2. Me(b) \in Pid /\ mask[Me(b)] = own[Me(b)]
  BY <1>1, FactsOfRunning
<1>3. act \in [Pid -> Actions] /\ act' = [act EXCEPT ![Me(b)][s] = d]
  BY DEF Sigaction, SInv, Values
<1>4. act' \in [Pid -> Actions]
  <2>1. act[Me(b)] \in Actions
    BY <1>2, <1>3
  <2>2. [act[Me(b)] EXCEPT ![s] = d] \in Actions
    BY <1>1, <2>1, ActionChanges
  <2> QED
    BY <1>2, <1>3, <2>2
<1>5. \A q \in Pid : q # Me(b) => act'[q] = act[q]
  BY <1>3
<1> QED
  BY <1>1, <1>2, <1>4, <1>5, CallKeeps DEF Sigaction, SInv, Values

LEMMA SigprocmaskKeeps ==
    ASSUME SInv, NEW b \in Pid, NEW set \in Masks, Sigprocmask(b, set)
    PROVE  Own'
<1>1. Runs(b) /\ ~Suspended(b)
  BY InFacts DEF Sigprocmask
<1>2. Me(b) \in Pid /\ mask[Me(b)] = own[Me(b)]
  BY <1>1, FactsOfRunning
<1>3. PICK m \in {mask[Me(b)] \cup (set \ {KILL}), mask[Me(b)] \ set, set \ {KILL}} :
         /\ own' = [own EXCEPT ![Me(b)] = m]
         /\ UNCHANGED <<procVars, pending, group, act, frames>>
         /\ Finish(b, [mask EXCEPT ![Me(b)] = m])
  BY DEF Sigprocmask
<1>4. /\ mask \in [Pid -> SUBSET Signals] /\ own \in [Pid -> SUBSET (Signals \ {KILL})]
      /\ set \subseteq Signals
  BY SignalsAssumption DEF SInv, Values
<1>5. m \in SUBSET (Signals \ {KILL})
  <2>1. mask[Me(b)] \subseteq Signals \ {KILL}
    BY <1>2, <1>4
  <2> QED
    BY <1>3, <1>4, <2>1
<1> DEFINE before == [mask EXCEPT ![Me(b)] = m]
<1>6. /\ before \in [Pid -> SUBSET Signals] /\ own' \in [Pid -> SUBSET (Signals \ {KILL})]
      /\ before[Me(b)] = own'[Me(b)]
      /\ \A q \in Pid : q # Me(b) => before[q] = mask[q] /\ own'[q] = own[q]
  BY <1>2, <1>3, <1>4, <1>5
<1>7. Finish(b, before)
  BY <1>3
<1> HIDE DEF before
<1> QED
  BY <1>1, <1>3, <1>6, <1>7, CallKeeps DEF SInv, Values

LEMMA KillKeeps ==
    ASSUME SInv, NEW b \in Pid, NEW name \in Name, NEW s \in Signals, Kill(b, name, s)
    PROVE  Own'
<1>1. Runs(b) /\ ~Suspended(b)
  BY InFacts DEF Kill
<1>2. mask[Me(b)] = own[Me(b)]
  BY <1>1, FactsOfRunning
<1> DEFINE D == {q \in Targets(Me(b), name) : P!Alive(q)}
<1>3. pending' = RaisedIn(pending, D, {s}) /\ \A q \in D : P!Alive(q)
  BY DEF Kill
<1> HIDE DEF D
<1>4. /\ pending' \in [Pid -> SUBSET Signals]
      /\ \A q \in Pid : ~P!Alive(q) => pending'[q] = {}
  BY <1>3 DEF RaisedIn, SInv, Values
<1> QED
  BY <1>1, <1>2, <1>4, CallKeeps DEF Kill, SInv, Values

LEMMA SetpgidKeeps ==
    ASSUME SInv, NEW b \in Pid, NEW q \in Pid, NEW g \in Pid, Setpgid(b, q, g)
    PROVE  Own'
<1>1. Runs(b) /\ ~Suspended(b)
  BY InFacts DEF Setpgid
<1>2. mask[Me(b)] = own[Me(b)]
  BY <1>1, FactsOfRunning
<1>3. group' \in [Pid -> Pid]
  BY DEF Setpgid, SInv, Values
<1> QED
  BY <1>1, <1>2, <1>3, CallKeeps DEF Setpgid, SInv, Values

(* A call that blocks, or goes on waiting. *)
LEMMA SuspendsKeeps ==
    ASSUME SInv, NEW b \in Pid, NEW m \in Masks, Runs(b), Suspends(b, m)
    PROVE  Own'
<1> DEFINE old == IF saved[b] = None THEN mask[Me(b)] ELSE saved[b]
<1>1. Me(b) \in Pid /\ old = own[Me(b)] /\ (~Suspended(b) => old = mask[Me(b)])
  BY FactsOfRunning
<1>2. /\ mask \in [Pid -> SUBSET Signals] /\ own \in [Pid -> SUBSET (Signals \ {KILL})]
      /\ saved \in [Pid -> (SUBSET Signals) \cup {None}] /\ where \in [Pid -> Where]
      /\ m \in SUBSET Signals
  BY SignalsAssumption DEF SInv, Values
<1>3. old \in SUBSET Signals
  BY <1>1, <1>2
<1>4. CASE LiveOf(pending[Me(b)], m, act[Me(b)]) # {}
  <2> DEFINE before == [mask EXCEPT ![Me(b)] = old]
  <2>1. UNCHANGED <<procVars, pending, group, act, frames, own>> /\ Finish(b, before)
    BY <1>4 DEF Suspends
  <2>2. /\ before \in [Pid -> SUBSET Signals] /\ before[Me(b)] = own[Me(b)]
        /\ \A q \in Pid : q # Me(b) => before[q] = mask[q]
    BY <1>1, <1>2, <1>3
  <2> HIDE DEF before
  <2> QED
    BY <2>1, <2>2, CallKeeps DEF SInv, Values
<1>5. CASE LiveOf(pending[Me(b)], m, act[Me(b)]) = {}
  <2>1. /\ saved' = [saved EXCEPT ![b] = old] /\ mask' = [mask EXCEPT ![Me(b)] = m]
        /\ where' = [where EXCEPT ![b] = Blocked("suspend", m)]
        /\ UNCHANGED <<procVars, pending, group, act, frames, own, late>>
    BY <1>5 DEF Suspends
  <2> HIDE DEF old
  <2>2. stack' = stack /\ table' = table /\ \A q : P!Alive(q)' = P!Alive(q)
    BY <2>1, SameProcesses
  <2>3. Me(b)' = Me(b) /\ where'[b] = Blocked("suspend", m) /\ saved'[b] = own'[Me(b)]
    BY <1>1, <1>2, <2>1, <2>2 DEF Me, P!Current
  <2>4. Elsewhere(b)
    <3>1. \A c \in Pid : c # b /\ Runs(c) => Me(c) # Me(b) /\ Me(c) \in Pid
      BY FactsOfRunning
    <3> QED
      BY <1>2, <2>1, <2>2, <3>1 DEF Elsewhere
  <2>5. SuspendedAt(where'[b]) /\ stack'[b] # <<>>
    BY <2>2, <2>3, PlacesDiffer DEF SuspendedAt, Runs
  <2>6. Remasks(b)
    BY <1>2, <2>1, <2>3, <2>5 DEF Remasks
  <2>7. Here(b)
    <3>1. where'[b] # User
      BY <2>3, PlacesDiffer
    <3> QED
      BY <2>3, <2>5, <3>1 DEF Here, Unseen
  <2>8. Values'
    <3>1. mask' \in [Pid -> SUBSET Signals] /\ saved' \in [Pid -> (SUBSET Signals) \cup {None}]
      BY <1>2, <1>3, <2>1
    <3>2. where' \in [Pid -> Where]
      BY <1>2, <2>1, PlacesDiffer
    <3> QED
      BY <2>1, <2>2, <3>1, <3>2 DEF SInv, Values, P!Instances
  <2> QED
    BY <2>4, <2>6, <2>7, <2>8, StepKeeps DEF Own
<1> QED
  BY <1>4, <1>5

LEMMA WouldWaitKeeps ==
    ASSUME SInv, NEW b \in Pid, NEW name \in Waits, In(b, {"user"}), WouldWait(b, name)
    PROVE  Own'
<1>1. Runs(b) /\ ~Suspended(b)
  BY InFacts
<1>2. /\ Me(b) \in Pid /\ saved[b] = None /\ mask[Me(b)] = own[Me(b)]
  BY <1>1, FactsOfRunning
<1>3. /\ where' = [where EXCEPT ![b] = Blocked("wait", name)]
      /\ UNCHANGED <<procVars, pending, group, mask, act, saved, frames, own, late>>
  BY DEF WouldWait
<1>4. stack' = stack /\ table' = table /\ \A q : P!Alive(q)' = P!Alive(q)
  BY <1>3, SameProcesses
<1>5. where \in [Pid -> Where]
  BY DEF SInv, Values
<1>6. where'[b] # User /\ ~SuspendedAt(where'[b])
  BY <1>3, <1>5, PlacesDiffer DEF SuspendedAt
<1>7. Elsewhere(b) /\ Remasks(b) /\ Here(b)
  BY <1>1, <1>2, <1>3, <1>4, <1>5, <1>6 DEF Elsewhere, Remasks, Here, Unseen, Runs
<1>8. Values'
  <2>1. where' \in [Pid -> Where]
    BY <1>3, <1>5, PlacesDiffer
  <2> QED
    BY <1>3, <1>4, <2>1 DEF SInv, Values, P!Instances
<1> QED
  BY <1>7, <1>8, StepKeeps DEF Own

-----------------------------------------------------------------------------
(* 6. Calls that change the processes. *)

(* wait4 collects the dead, and nobody else. *)
LEMMA OnlyTheDeadGo ==
    ASSUME SInv, NEW b \in Pid, NEW name, WaitAnswered(b, name)
    PROVE  /\ stack' = stack
           /\ \A q \in Pid : table'[q] = table[q] \/ (table'[q] = None /\ ~P!Alive(q))
<1>1. CASE UNCHANGED procVars
  BY <1>1 DEF procVars
<1>2. CASE P!Reap(b, Min(Dead(Me(b), name)))
  <2>1. PICK r \in P!Pid : /\ table[r].exit # None
                           /\ table' = [table EXCEPT ![r] = None] /\ stack' = stack
    BY <1>2 DEF P!Reap, P!Reapable, P!Candidates
  <2>2. table \in [Pid -> P!ProcRecord \cup {None}]
    BY FactsOfProcesses DEF SInv, ProcessFacts
  <2> QED
    BY <2>1, <2>2 DEF P!Alive, P!AliveIn, Pid
<1> QED
  BY <1>1, <1>2 DEF WaitAnswered

(* wait4 that has an answer. *)
LEMMA WaitAnsweredKeeps ==
    ASSUME SInv, NEW b \in Pid, NEW name, Runs(b), WaitAnswered(b, name)
    PROVE  Own'
<1> DEFINE before == [q \in Pid |-> IF table'[q] = None THEN {} ELSE mask[q]]
<1>1. /\ UNCHANGED <<pending, act, frames>> /\ Finish(b, before)
      /\ own' = [q \in Pid |-> IF table'[q] = None THEN {} ELSE own[q]]
      /\ group' = [q \in Pid |-> IF table'[q] = None THEN First ELSE group[q]]
  BY DEF WaitAnswered
<1>2. stack' = stack /\ \A q \in Pid : table'[q] = table[q] \/ (table'[q] = None /\ ~P!Alive(q))
  BY OnlyTheDeadGo
<1>3. /\ mask \in [Pid -> SUBSET Signals] /\ own \in [Pid -> SUBSET (Signals \ {KILL})]
      /\ group \in [Pid -> Pid] /\ First \in Pid
  BY FirstIsPid DEF SInv, Values
<1>4. before \in [Pid -> SUBSET Signals] /\ \A q \in Pid :
         before[q] = IF table'[q] = None THEN {} ELSE mask[q]
  BY <1>3
<1> HIDE DEF before
<1>5. \A q \in Pid : own'[q] = IF table'[q] = None THEN {} ELSE own[q]
  BY <1>1
<1>6. \A c \in Pid : Runs(c) => /\ before[Me(c)] = mask[Me(c)] /\ own'[Me(c)] = own[Me(c)]
                                /\ table'[Me(c)] # None
  <2> SUFFICES ASSUME NEW c \in Pid, Runs(c)
               PROVE  /\ before[Me(c)] = mask[Me(c)] /\ own'[Me(c)] = own[Me(c)]
                      /\ table'[Me(c)] # None
    OBVIOUS
  <2>1. Me(c) \in Pid /\ P!Alive(Me(c)) /\ table[Me(c)] # None
    BY FactsOfRunning
  <2> QED
    BY <1>2, <1>4, <1>5, <2>1
<1>7. RestOK'
  <2>1. \A q \in Pid : ~P!Alive(q)' => ~P!Alive(q)
    BY <1>2 DEF P!Alive, P!AliveIn
  <2>2. own' \in [Pid -> SUBSET (Signals \ {KILL})] /\ group' \in [Pid -> Pid]
    BY <1>1, <1>3
  <2> QED
    BY <1>1, <2>1, <2>2 DEF RestOK, SInv, Values
<1>8. ~Suspended(b) => mask[Me(b)] = own[Me(b)]
  BY FactsOfRunning
<1>9. IF Suspended(b) THEN own'[Me(b)] = own[Me(b)] ELSE before[Me(b)] = own'[Me(b)]
  BY <1>6, <1>8
<1>10. \A c \in Pid : c # b =>
         /\ frames'[c] = frames[c] /\ stack'[c] = stack[c]
         /\ Runs(c) => /\ before[Me(c)] = mask[Me(c)] /\ own'[Me(c)] = own[Me(c)]
                       /\ act'[Me(c)] = act[Me(c)]
  BY <1>1, <1>2, <1>6
<1>11. \A q \in Pid : q # Me(b) =>
          before[q] = own'[q] \/ (before[q] = mask[q] /\ own'[q] = own[q])
  BY <1>4, <1>5
<1>12. stack'[b] # <<>>
  BY <1>2 DEF Runs
<1>13. LeavesOthers(b, before)
  BY <1>9, <1>10, <1>11 DEF LeavesOthers
<1> QED
  BY <1>1, <1>4, <1>7, <1>12, <1>13, FinishKeeps

LEMMA VforkKeeps ==
    ASSUME SInv, NEW b \in Pid, Vfork(b)
    PROVE  Own'
<1> DEFINE before == [mask EXCEPT ![nextPid] = mask[Me(b)]]
<1>1. Runs(b) /\ ~Suspended(b)
  BY InFacts DEF Vfork
<1>2. Me(b) \in Pid /\ mask[Me(b)] = own[Me(b)] /\ table[Me(b)] # None
  BY <1>1, FactsOfRunning
<1>3. ProcessFacts
  BY FactsOfProcesses DEF SInv
<1>4. /\ nextPid \in Pid /\ table[nextPid] = None
      /\ table' = [table EXCEPT ![nextPid] = P!Record(P!Current(b))]
      /\ stack' = [stack EXCEPT ![b] = Append(@, nextPid)]
  <2>1. P!Vfork(b)
    BY DEF Vfork
  <2>2. nextPid \in Pid
    <3>1. nextPid \in Pid \cup {MaxPid + 1} /\ nextPid <= MaxPid /\ MaxPid \in Nat
      BY <1>3, <2>1, SignalsAssumption DEF P!Vfork, ProcessFacts
    <3> QED
      BY <3>1
  <2> QED
    BY <1>3, <2>1, <2>2 DEF P!Vfork, ProcessFacts
<1>5. /\ pending' = [pending EXCEPT ![nextPid] = {}]
      /\ group' = [group EXCEPT ![nextPid] = group[Me(b)]]
      /\ act' = [act EXCEPT ![nextPid] = act[Me(b)]]
      /\ own' = [own EXCEPT ![nextPid] = own[Me(b)]]
      /\ frames' = [frames EXCEPT ![b] = Append(@, "vfork")]
      /\ Finish(b, before)
  BY DEF Vfork
<1>6. /\ mask \in [Pid -> SUBSET Signals] /\ own \in [Pid -> SUBSET (Signals \ {KILL})]
      /\ act \in [Pid -> Actions] /\ frames \in [Pid -> Seq({"handler", "vfork"})]
      /\ group \in [Pid -> Pid] /\ pending \in [Pid -> SUBSET Signals]
  BY DEF SInv, Values
<1>7. /\ before \in [Pid -> SUBSET Signals] /\ before[nextPid] = mask[Me(b)]
      /\ \A q \in Pid : q # nextPid => before[q] = mask[q]
  BY <1>2, <1>4, <1>6
<1> HIDE DEF before
<1>8. \A c \in Pid : Runs(c) => Me(c) \in Pid /\ Me(c) # nextPid
  BY <1>4, FactsOfRunning
<1>9. /\ stack'[b] # <<>> /\ \A c \in Pid : c # b => stack'[c] = stack[c]
  <2>1. stack \in [Pid -> Seq(Pid)] /\ stack[b] \in Seq(Pid)
    BY <1>3 DEF ProcessFacts
  <2>2. Append(stack[b], nextPid) # <<>>
    BY <1>4, <2>1, AppendProperties
  <2> QED
    BY <1>4, <2>1, <2>2
<1>10. RestOK'
  <2>1. \A q \in Pid : ~P!Alive(q)' => q = nextPid \/ ~P!Alive(q)
    BY <1>3, <1>4 DEF P!Alive, P!AliveIn, ProcessFacts
  <2>2. \A q \in Pid : ~P!Alive(q)' => pending'[q] = {}
    BY <1>4, <1>5, <1>6, <2>1 DEF SInv, Values
  <2>3. frames' \in [Pid -> Seq({"handler", "vfork"})]
    BY <1>5, <1>6
  <2>4. /\ pending' \in [Pid -> SUBSET Signals] /\ group' \in [Pid -> Pid]
        /\ act' \in [Pid -> Actions] /\ own' \in [Pid -> SUBSET (Signals \ {KILL})]
    BY <1>2, <1>4, <1>5, <1>6
  <2> QED
    BY <2>2, <2>3, <2>4 DEF RestOK
<1>11. \A c \in Pid : c # b =>
          /\ frames'[c] = frames[c] /\ stack'[c] = stack[c]
          /\ Runs(c) => /\ before[Me(c)] = mask[Me(c)] /\ own'[Me(c)] = own[Me(c)]
                        /\ act'[Me(c)] = act[Me(c)]
  BY <1>5, <1>6, <1>7, <1>8, <1>9
<1>12. \A q \in Pid : q # Me(b) =>
          before[q] = own'[q] \/ (before[q] = mask[q] /\ own'[q] = own[q])
  BY <1>2, <1>4, <1>5, <1>6, <1>7
<1>13. before[Me(b)] = own'[Me(b)]
  BY <1>1, <1>2, <1>5, <1>7, <1>8
<1>14. LeavesOthers(b, before)
  BY <1>1, <1>11, <1>12, <1>13 DEF LeavesOthers
<1> QED
  BY <1>1, <1>5, <1>7, <1>9, <1>10, <1>14, FinishKeeps

(* What is left of a guest's stack when vfork returns. *)
LEMMA VforkReturnsTo ==
    ASSUME NEW b \in Pid, VforkReturns(b), frames \in [Pid -> Seq({"handler", "vfork"})]
    PROVE  /\ frames' \in [Pid -> Seq({"handler", "vfork"})]
           /\ \A c \in Pid : c # b => frames'[c] = frames[c]
<1> DEFINE s == frames[b]
           I == {i \in 1 .. Len(s) : s[i] = "vfork"}
           here == IF I # {} THEN Max(I) ELSE 0
<1>1. frames' = [frames EXCEPT ![b] = SubSeq(s, 1, here - 1)]
  BY DEF VforkReturns, SelectLastInSeq
<1>2. s \in Seq({"handler", "vfork"}) /\ Len(s) \in Nat
  OBVIOUS
<1>3. here \in 0 .. Len(s)
  <2>1. ASSUME I # {} PROVE Max(I) \in I
    <3> DEFINE T == {Len(s) - i : i \in I}
    <3>1. T \subseteq Nat /\ T # {}
      BY <1>2, <2>1
    <3>2. PICK x \in T : \A y \in T : ~(y < x)
      BY <3>1, AssumedOfProcesses, PP!LeastNumber
    <3>3. PICK i \in I : x = Len(s) - i
      BY <3>2
    <3>4. \A j \in I : i >= j
      <4> SUFFICES ASSUME NEW j \in I PROVE i >= j
        OBVIOUS
      <4>1. ~(Len(s) - j < Len(s) - i)
        BY <3>2, <3>3
      <4> DEFINE k == Len(s)
      <4>2. i \in Nat /\ j \in Nat /\ k \in Nat /\ ~(k - j < k - i)
        BY <1>2, <4>1
      <4> HIDE DEF k
      <4> QED
        BY <4>2
    <3> QED
      BY <3>4 DEF Max
  <2> QED
    BY <1>2, <2>1
<1> HIDE DEF here
<1>4. SubSeq(s, 1, here - 1) \in Seq({"handler", "vfork"})
  BY <1>2, <1>3, SubSeqProperties
<1> QED
  BY <1>1, <1>4

(* SIGCHLD, and nothing else, is raised by a death; the dead have nothing. *)
LEMMA DeathsRaise ==
    ASSUME SInv, NEW D, RaiseForDeaths(D)
    PROVE  /\ pending' \in [Pid -> SUBSET Signals]
           /\ \A q \in Pid : ~P!Alive(q)' => pending'[q] = {}
<1>1. pending \in [Pid -> SUBSET Signals] /\ {CHLD} \subseteq Signals
  BY SignalsAssumption DEF SInv, Values
<1> DEFINE raised == RaisedIn(pending, ParentsTold(D), {CHLD})
<1>2. raised \in [Pid -> SUBSET Signals]
  BY <1>1 DEF RaisedIn
<1>3. pending' = [q \in Pid |-> IF P!AliveIn(table', q) THEN raised[q] ELSE {}]
  BY DEF RaiseForDeaths
<1> HIDE DEF raised
<1>4. \A q \in Pid : P!Alive(q)' = P!AliveIn(table', q)
  BY DEF P!Alive, P!AliveIn
<1> QED
  BY <1>2, <1>3, <1>4

LEMMA DefaultActions == [s \in Signals |-> "DFL"] \in Actions
BY SignalsAssumption DEF Actions

LEMMA ExitChildKeeps ==
    ASSUME SInv, NEW b \in Pid, ExitChild(b)
    PROVE  Own'
<1> DEFINE before == [mask EXCEPT ![Me(b)] = {}]
<1>1. Runs(b) /\ ~Suspended(b)
  BY InFacts DEF ExitChild
<1>2. Me(b) \in Pid /\ \A c \in Pid : c # b /\ Runs(c) => Me(c) # Me(b) /\ Me(c) \in Pid
  BY <1>1, FactsOfRunning
<1>3. ProcessFacts
  BY FactsOfProcesses DEF SInv
<1>4. /\ RaiseForDeaths({Me(b)}) /\ VforkReturns(b) /\ Finish(b, before)
      /\ group' = [q \in Pid |-> IF table'[q] = None THEN First ELSE group[q]]
      /\ act' = [act EXCEPT ![Me(b)] = [s \in Signals |-> "DFL"]]
      /\ own' = [own EXCEPT ![Me(b)] = {}]
  BY DEF ExitChild
<1>5. stack' = [stack EXCEPT ![b] = P!Front(@)] /\ Len(stack[b]) > 1
  BY DEF ExitChild, P!ExitChild, P!InChild
<1>6. stack'[b] # <<>> /\ \A c \in Pid : c # b => stack'[c] = stack[c]
  BY <1>3, <1>5, FrontOfStack DEF ProcessFacts
<1>7. /\ mask \in [Pid -> SUBSET Signals] /\ own \in [Pid -> SUBSET (Signals \ {KILL})]
      /\ act \in [Pid -> Actions] /\ frames \in [Pid -> Seq({"handler", "vfork"})]
      /\ group \in [Pid -> Pid]
  BY DEF SInv, Values
<1>8. /\ before \in [Pid -> SUBSET Signals] /\ before[Me(b)] = {}
      /\ \A q \in Pid : q # Me(b) => before[q] = mask[q]
  BY <1>2, <1>7
<1> HIDE DEF before
<1>9. /\ own' \in [Pid -> SUBSET (Signals \ {KILL})] /\ own'[Me(b)] = {}
      /\ \A q \in Pid : q # Me(b) => own'[q] = own[q] /\ act'[q] = act[q]
  BY <1>2, <1>4, <1>7
<1>10. RestOK'
  <2>1. act' \in [Pid -> Actions]
    BY <1>4, <1>7, DefaultActions
  <2>2. group' \in [Pid -> Pid]
    BY <1>4, <1>7, FirstIsPid
  <2> QED
    BY <1>4, <1>7, <1>9, <2>1, <2>2, DeathsRaise, VforkReturnsTo DEF RestOK
<1>11. \A c \in Pid : c # b =>
          /\ frames'[c] = frames[c] /\ stack'[c] = stack[c]
          /\ Runs(c) => /\ before[Me(c)] = mask[Me(c)] /\ own'[Me(c)] = own[Me(c)]
                        /\ act'[Me(c)] = act[Me(c)]
  <2>1. \A c \in Pid : c # b => frames'[c] = frames[c] /\ stack'[c] = stack[c]
    BY <1>4, <1>6, <1>7, VforkReturnsTo
  <2>2. \A c \in Pid : c # b /\ Runs(c) =>
           before[Me(c)] = mask[Me(c)] /\ own'[Me(c)] = own[Me(c)] /\ act'[Me(c)] = act[Me(c)]
    BY <1>2, <1>8, <1>9
  <2> QED
    BY <2>1, <2>2
<1>12. \A q \in Pid : q # Me(b) =>
          before[q] = own'[q] \/ (before[q] = mask[q] /\ own'[q] = own[q])
  BY <1>8, <1>9
<1>13. IF Suspended(b) THEN own'[Me(b)] = own[Me(b)] ELSE before[Me(b)] = own'[Me(b)]
  BY <1>1, <1>8, <1>9
<1>14. Finish(b, before)
  BY <1>4
<1>15. LeavesOthers(b, before)
  BY <1>11, <1>12, <1>13 DEF LeavesOthers
<1> QED
  BY <1>1, <1>6, <1>8, <1>10, <1>14, <1>15, FinishKeeps

LEMMA ExecChildKeeps ==
    ASSUME SInv, NEW b \in Pid, ExecChild(b)
    PROVE  Own'
<1>1. Runs(b) /\ ~Suspended(b)
  BY InFacts DEF ExecChild
<1>2. mask[Me(b)] = own[Me(b)]
  BY <1>1, FactsOfRunning
<1>3. ProcessFacts
  BY FactsOfProcesses DEF SInv
<1>4. /\ VforkReturns(b) /\ Finish(b, mask)
      /\ UNCHANGED <<pending, group, act, own>>
  BY DEF ExecChild
<1>5. stack' = [stack EXCEPT ![b] = P!Front(@)] /\ Len(stack[b]) > 1 /\ table' = table
  BY DEF ExecChild, P!ExecChild, P!InChild
<1>6. stack'[b] # <<>> /\ \A c \in Pid : c # b => stack'[c] = stack[c]
  BY <1>3, <1>5, FrontOfStack DEF ProcessFacts
<1>7. mask \in [Pid -> SUBSET Signals] /\ frames \in [Pid -> Seq({"handler", "vfork"})]
  BY DEF SInv, Values
<1>8. RestOK'
  <2>1. \A q \in Pid : P!Alive(q)' = P!Alive(q)
    BY <1>5 DEF P!Alive, P!AliveIn
  <2> QED
    BY <1>4, <1>7, <2>1, VforkReturnsTo DEF RestOK, SInv, Values
<1>9. \A c \in Pid : c # b => frames'[c] = frames[c]
  BY <1>4, <1>7, VforkReturnsTo
<1>10. LeavesOthers(b, mask)
  BY <1>1, <1>2, <1>4, <1>6, <1>9 DEF LeavesOthers
<1> QED
  BY <1>1, <1>4, <1>6, <1>7, <1>8, <1>10, FinishKeeps

(* The end of a whole instance. *)
LEMMA DiesKeeps ==
    ASSUME SInv, NEW b \in Pid, Runs(b), NEW status, Dies(b, status)
    PROVE  Own'
<1> DEFINE D == ToSet(stack[b])
<1>1. /\ RaiseForDeaths(D) /\ Noted({b})
      /\ group' = [q \in Pid |-> IF table'[q] = None THEN First ELSE group[q]]
      /\ mask' = [q \in Pid |-> IF q \in D THEN {} ELSE mask[q]]
      /\ own' = [q \in Pid |-> IF q \in D THEN {} ELSE own[q]]
      /\ act' = [q \in Pid |-> IF q \in D THEN [s \in Signals |-> "DFL"] ELSE act[q]]
      /\ saved' = [saved EXCEPT ![b] = None] /\ where' = [where EXCEPT ![b] = User]
      /\ frames' = [frames EXCEPT ![b] = <<>>]
      /\ stack' = [stack EXCEPT ![b] = <<>>]
  BY DEF Dies, Forget, Gone, P!Finish
<1>2. Me(b) \in D /\ \A c \in Pid : c # b /\ Runs(c) => Me(c) \in Pid /\ Me(c) \notin D
  <2>1. \A c \in Pid : c # b /\ Runs(c) => Me(c) \in Pid /\ Me(c) \notin D
    BY FactsOfRunning
  <2> QED
    BY <2>1, FactsOfRunning
<1> HIDE DEF D
<1>3. stack \in [Pid -> Seq(Pid)]
  BY FactsOfProcesses DEF SInv, ProcessFacts
<1>4. /\ mask \in [Pid -> SUBSET Signals] /\ own \in [Pid -> SUBSET (Signals \ {KILL})]
      /\ act \in [Pid -> Actions] /\ frames \in [Pid -> Seq({"handler", "vfork"})]
      /\ group \in [Pid -> Pid] /\ saved \in [Pid -> (SUBSET Signals) \cup {None}]
      /\ where \in [Pid -> Where]
  BY DEF SInv, Values
<1>5. /\ stack'[b] = <<>> /\ where'[b] = User /\ saved'[b] = None
      /\ \A c \in Pid : c # b => /\ stack'[c] = stack[c] /\ where'[c] = where[c]
                                 /\ saved'[c] = saved[c] /\ frames'[c] = frames[c]
  BY <1>1, <1>3, <1>4
<1>6. \A q \in Pid : IF q \in D THEN mask'[q] = {} /\ own'[q] = {}
                     ELSE mask'[q] = mask[q] /\ own'[q] = own[q] /\ act'[q] = act[q]
  BY <1>1
<1>7. Elsewhere(b)
  <2>1. \A c \in Pid : c # b /\ Runs(c) /\ c \notin late' =>
           c \notin late /\ pending'[Me(c)] \subseteq pending[Me(c)]
    BY <1>1, <1>5, NotedOthers
  <2> QED
    BY <1>2, <1>5, <1>6, <2>1 DEF Elsewhere
<1>8. Remasks(b)
  BY <1>2, <1>6 DEF Remasks
<1>9. Here(b)
  BY <1>5, PlacesDiffer DEF Here, SuspendedAt
<1>10. Values'
  <2>1. /\ mask' \in [Pid -> SUBSET Signals] /\ own' \in [Pid -> SUBSET (Signals \ {KILL})]
        /\ act' \in [Pid -> Actions]
    BY <1>1, <1>4, DefaultActions
  <2>2. group' \in [Pid -> Pid]
    BY <1>1, <1>4, FirstIsPid
  <2>3. saved' \in [Pid -> (SUBSET Signals) \cup {None}] /\ where' \in [Pid -> Where]
    BY <1>1, <1>4, PlacesDiffer
  <2>4. frames' \in [Pid -> Seq({"handler", "vfork"})]
    BY <1>1, <1>4
  <2>5. late' \subseteq P!Instances'
    BY <1>1, NotedOthers
  <2> QED
    BY <1>1, <2>1, <2>2, <2>3, <2>4, <2>5, DeathsRaise DEF Values
<1> QED
  BY <1>7, <1>8, <1>9, <1>10, StepKeeps DEF Own

(* A child that could not be started. *)
LEMMA StartFailsKeeps == ASSUME SInv, StartFails PROVE Own'
<1> DEFINE b == Head(spawn)
<1>1. /\ RaiseForDeaths({b}) /\ Noted({})
      /\ group' = [q \in Pid |-> IF table'[q] = None THEN First ELSE group[q]]
      /\ mask' = [q \in Pid |-> IF q \in {b} THEN {} ELSE mask[q]]
      /\ own' = [q \in Pid |-> IF q \in {b} THEN {} ELSE own[q]]
      /\ act' = [q \in Pid |-> IF q \in {b} THEN [s \in Signals |-> "DFL"] ELSE act[q]]
      /\ UNCHANGED <<saved, where, frames, stack>> /\ spawn # <<>>
  BY DEF StartFails, Forget, P!StartFails
<1>2. ProcessFacts
  BY FactsOfProcesses DEF SInv
<1>3. b \in Pid /\ stack[b] = <<>> /\ \A c \in Pid : b \notin ToSet(stack[c])
  BY <1>1, <1>2 DEF ProcessFacts
<1> HIDE DEF b
<1>4. \A c \in Pid : Runs(c) => Me(c) \in Pid /\ Me(c) # b
  <2>1. \A c \in Pid : Runs(c) => Me(c) \in Pid /\ Me(c) \in ToSet(stack[c])
    BY FactsOfRunning
  <2> QED
    BY <1>3, <2>1
<1>5. where[b] = User /\ saved[b] = None
  BY <1>3, PlacesDiffer DEF SInv, SavedOK, Runs, Suspended
<1>6. \A q \in Pid : IF q = b THEN mask'[q] = own'[q]
                     ELSE mask'[q] = mask[q] /\ own'[q] = own[q] /\ act'[q] = act[q]
  BY <1>1
<1>7. Elsewhere(b)
  <2>1. \A c \in Pid : Runs(c) /\ c \notin late' =>
           c \notin late /\ pending'[Me(c)] \subseteq pending[Me(c)]
    BY <1>1, NotedOthers
  <2> QED
    BY <1>1, <1>4, <1>6, <2>1 DEF Elsewhere
<1>8. Remasks(b)
  BY <1>3, <1>6 DEF Remasks, Runs
<1>9. Here(b)
  BY <1>1, <1>3, <1>5, PlacesDiffer DEF Here, SuspendedAt
<1>10. Values'
  <2>1. /\ mask' \in [Pid -> SUBSET Signals] /\ own' \in [Pid -> SUBSET (Signals \ {KILL})]
        /\ act' \in [Pid -> Actions]
    BY <1>1, DefaultActions DEF SInv, Values
  <2>2. group' \in [Pid -> Pid]
    BY <1>1, FirstIsPid DEF SInv, Values
  <2>3. late' \subseteq P!Instances'
    BY <1>1, NotedOthers
  <2> QED
    BY <1>1, <2>1, <2>2, <2>3, DeathsRaise DEF SInv, Values
<1> QED
  BY <1>3, <1>7, <1>8, <1>9, <1>10, StepKeeps DEF Own

LEMMA ResetIsActions == ASSUME NEW a \in Actions PROVE ResetForExec(a) \in Actions
BY SignalsAssumption DEF Actions, ResetForExec

(* A new program. *)
LEMMA BeginsKeeps ==
    ASSUME SInv, NEW b \in Pid, NEW body, Begins(b, body), ~Suspended(b),
           stack'[b] # <<>>, \A c \in Pid : c # b => stack'[c] = stack[c], table' = table,
           saved' = saved, frames' \in [Pid -> Seq({"handler", "vfork"})],
           \A c \in Pid : c # b => frames'[c] = frames[c] /\ (Runs(c) => Me(c) # b)
    PROVE  Own'
<1>1. /\ \E w \in {Command, User} : where' = [where EXCEPT ![b] = w]
      /\ act' = [act EXCEPT ![b] = ResetForExec(@)] /\ late' = late \cup {b}
      /\ UNCHANGED <<pending, group, mask, own>>
  BY Zenon DEF Begins
<1>2. /\ act \in [Pid -> Actions] /\ where \in [Pid -> Where] /\ late \subseteq P!Instances
  BY DEF SInv, Values
<1>3. PICK w \in {Command, User} : where' = [where EXCEPT ![b] = w]
  BY <1>1
<1>4. w \in Where /\ ~SuspendedAt(w)
  BY PlacesDiffer DEF SuspendedAt
<1>5. where'[b] = w /\ \A c \in Pid : c # b => where'[c] = where[c]
  BY <1>2, <1>3
<1>6. saved[b] = None
  BY DEF SInv, SavedOK
<1>7. Runs(b) => mask[Me(b)] = own[Me(b)]
  BY FactsOfRunning
<1>8. \A c \in Pid : c # b /\ Runs(c) => act'[Me(c)] = act[Me(c)]
  <2>1. \A c \in Pid : Runs(c) => Me(c) \in Pid
    BY FactsOfRunning
  <2> QED
    BY <1>1, <1>2, <2>1
<1>9. Elsewhere(b)
  BY <1>1, <1>5, <1>8 DEF Elsewhere
<1>10. Remasks(b)
  BY <1>1, <1>7 DEF Remasks
<1>11. Here(b)
  BY <1>1, <1>4, <1>5, <1>6 DEF Here, Unseen
<1>12. Values'
  <2>1. act' \in [Pid -> Actions]
    <3>1. ResetForExec(act[b]) \in Actions
      BY <1>2, ResetIsActions
    <3> QED
      BY <1>1, <1>2, <3>1
  <2>2. where' \in [Pid -> Where]
    BY <1>2, <1>3, <1>4
  <2>3. late' \subseteq P!Instances'
    BY <1>1, <1>2 DEF P!Instances, Pid
  <2>4. \A q \in Pid : P!Alive(q)' = P!Alive(q)
    BY DEF P!Alive, P!AliveIn
  <2> QED
    BY <1>1, <2>1, <2>2, <2>3, <2>4 DEF SInv, Values
<1> QED
  BY <1>9, <1>10, <1>11, <1>12, StepKeeps DEF Own

LEMMA StartKeeps == ASSUME SInv, NEW body, Start(body) PROVE Own'
<1> DEFINE b == Head(spawn)
<1>1. /\ Begins(b, body) /\ saved' = saved /\ frames' = frames /\ table' = table
      /\ stack' = [stack EXCEPT ![b] = <<b>>] /\ spawn # <<>>
  BY DEF Start, P!Start
<1>2. ProcessFacts
  BY FactsOfProcesses DEF SInv
<1>3. b \in Pid /\ stack[b] = <<>> /\ \A c \in Pid : b \notin ToSet(stack[c])
  BY <1>1, <1>2 DEF ProcessFacts
<1> HIDE DEF b
<1>4. \A c \in Pid : Runs(c) => Me(c) # b
  <2>1. \A c \in Pid : Runs(c) => Me(c) \in ToSet(stack[c])
    BY FactsOfRunning
  <2> QED
    BY <1>3, <2>1
<1>5. ~Suspended(b)
  BY <1>3, PlacesDiffer DEF SInv, SavedOK, Runs, Suspended
<1>6. stack'[b] # <<>> /\ \A c \in Pid : c # b => stack'[c] = stack[c]
  <2>1. <<b>> # <<>>
    OBVIOUS
  <2>2. stack \in [Pid -> Seq(Pid)]
    BY <1>2 DEF ProcessFacts
  <2> QED
    BY <1>1, <1>3, <2>1, <2>2
<1>7. frames' \in [Pid -> Seq({"handler", "vfork"})]
  BY <1>1 DEF SInv, Values
<1> QED
  BY <1>1, <1>3, <1>4, <1>5, <1>6, <1>7, BeginsKeeps

LEMMA ExecKeeps ==
    ASSUME SInv, NEW b \in Pid, NEW body, Exec(b, body)
    PROVE  Own'
<1>1. Runs(b) /\ ~Suspended(b)
  BY InFacts DEF Exec
<1>2. /\ Begins(b, body) /\ saved' = saved /\ table' = table /\ stack' = stack
      /\ frames' = [frames EXCEPT ![b] = <<>>] /\ Len(stack[b]) = 1
  BY DEF Exec, procVars
<1>3. Me(b) = b
  <2>1. stack[b][1] = b
    BY <1>1, FactsOfProcesses DEF SInv, ProcessFacts, Runs
  <2> QED
    BY <1>2, <2>1 DEF Me, P!Current
<1>4. \A c \in Pid : c # b /\ Runs(c) => Me(c) # b
  BY <1>1, <1>3, FactsOfRunning
<1>5. /\ frames' \in [Pid -> Seq({"handler", "vfork"})]
      /\ \A c \in Pid : c # b => frames'[c] = frames[c]
  BY <1>2 DEF SInv, Values
<1> QED
  BY <1>1, <1>2, <1>4, <1>5, BeginsKeeps DEF Runs

-----------------------------------------------------------------------------
(* 7. The fetch loop, and calls that are tried again. *)

(* The loop: where the instance is and what its own task has pending. *)
LEMMA LoopKeeps ==
    ASSUME SInv, NEW b \in Pid, Runs(b), ~Suspended(b), NEW w \in {User, Leaving},
           where' = [where EXCEPT ![b] = w],
           UNCHANGED <<procVars, group, mask, saved, own>>,
           NEW pend \in SUBSET pending[Me(b)], pending' = [pending EXCEPT ![Me(b)] = pend],
           NEW a \in Actions, act' = [act EXCEPT ![Me(b)] = a],
           frames' \in [Pid -> Seq({"handler", "vfork"})],
           \A c \in Pid : c # b => frames'[c] = frames[c],
           late' \subseteq P!Instances,
           \A c \in Pid : c # b /\ c \in P!Instances /\ c \notin late' => c \notin late,
           ~Unseen(b)'
    PROVE  Own'
<1>1. stack' = stack /\ table' = table /\ \A q : P!Alive(q)' = P!Alive(q)
  BY SameProcesses
<1>2. /\ Me(b) \in Pid /\ saved[b] = None /\ mask[Me(b)] = own[Me(b)]
      /\ \A c \in Pid : c # b /\ Runs(c) => Me(c) \in Pid /\ Me(c) # Me(b)
  BY FactsOfRunning
<1>3. /\ pending \in [Pid -> SUBSET Signals] /\ act \in [Pid -> Actions] /\ where \in [Pid -> Where]
      /\ \A q \in Pid : ~P!Alive(q) => pending[q] = {}
  BY DEF SInv, Values
<1>4. where'[b] = w /\ \A c \in Pid : c # b => where'[c] = where[c]
  BY <1>3
<1>5. w \in Where /\ ~SuspendedAt(w)
  BY PlacesDiffer DEF SuspendedAt
<1>6. Elsewhere(b)
  <2>1. \A c \in Pid : c # b /\ Runs(c) =>
           act'[Me(c)] = act[Me(c)] /\ pending'[Me(c)] = pending[Me(c)]
    BY <1>2
  <2>2. \A c \in Pid : c # b /\ Runs(c) /\ c \notin late' => c \notin late
    BY DEF Runs, P!Instances, Pid
  <2> QED
    BY <1>1, <1>4, <2>1, <2>2 DEF Elsewhere
<1>7. Remasks(b)
  BY <1>2 DEF Remasks
<1>8. Here(b)
  BY <1>1, <1>2, <1>4, <1>5 DEF Here, Runs
<1>9. Values'
  <2>1. pending' \in [Pid -> SUBSET Signals] /\ \A q \in Pid : ~P!Alive(q) => pending'[q] = {}
    <3>1. pending[Me(b)] \in SUBSET Signals
      BY <1>2, <1>3
    <3>2. pend \in SUBSET Signals
      BY <3>1
    <3> QED
      BY <1>2, <1>3, <3>2
  <2>2. act' \in [Pid -> Actions]
    BY <1>3
  <2>3. where' \in [Pid -> Where]
    BY <1>3, <1>5
  <2> QED
    BY <1>1, <2>1, <2>2, <2>3 DEF SInv, Values, P!Instances
<1> QED
  BY <1>6, <1>7, <1>8, <1>9, StepKeeps DEF Own

LEMMA NotedSame ==
    ASSUME NEW S, Noted(S), stack' = stack
    PROVE  /\ late' \subseteq P!Instances
           /\ \A c \in P!Instances : c \notin S /\ c \notin late' => c \notin late
BY DEF Noted, P!Instances

LEMMA FetchNothingKeeps == ASSUME SInv, NEW b \in Pid, FetchNothing(b) PROVE Own'
<1> DEFINE pend == {s \in pending[Me(b)] : ~Ignored(act[Me(b)], s)}
<1>1. Runs(b) /\ ~Suspended(b)
  BY InFacts DEF FetchNothing
<1>2. /\ pending' = [pending EXCEPT ![Me(b)] = pend] /\ where' = [where EXCEPT ![b] = User]
      /\ UNCHANGED <<procVars, group, mask, act, saved, frames, own>>
      /\ Noted({b}) /\ ~Interrupted(b) /\ stack' = stack
  BY DEF FetchNothing, procVars
<1>3. pend \in SUBSET pending[Me(b)]
  OBVIOUS
<1> HIDE DEF pend
<1>4. /\ Me(b) \in Pid /\ pending \in [Pid -> SUBSET Signals] /\ act \in [Pid -> Actions]
      /\ frames \in [Pid -> Seq({"handler", "vfork"})]
  BY <1>1, FactsOfRunning DEF SInv, Values
<1>5. ~Unseen(b)'
  <2>1. pending'[Me(b)] \subseteq pending[Me(b)] /\ Me(b)' = Me(b)
    BY <1>2, <1>3, <1>4 DEF Me, P!Current
  <2>2. LiveOf(pending[Me(b)], mask[Me(b)], act[Me(b)]) = {}
    BY <1>2 DEF Interrupted, Live
  <2>3. LiveOf(pending'[Me(b)], mask'[Me(b)], act'[Me(b)]) = {}
    BY <1>2, <2>1, <2>2 DEF LiveOf
  <2> QED
    BY <2>1, <2>3 DEF Unseen, Interrupted, Live
<1>6. act[Me(b)] \in Actions /\ act' = [act EXCEPT ![Me(b)] = act[Me(b)]]
  BY <1>2, <1>4
<1>7. /\ late' \subseteq P!Instances
      /\ \A c \in Pid : c # b /\ c \in P!Instances /\ c \notin late' => c \notin late
  BY <1>2, NotedSame
<1> QED
  BY <1>1, <1>2, <1>3, <1>4, <1>5, <1>6, <1>7, LoopKeeps

(* SIGKILL is never handled. *)
LEMMA FetchHandlerKeeps ==
    ASSUME SInv, NEW b \in Pid, NEW s \in Signals, FetchHandler(b, s)
    PROVE  Own'
<1> DEFINE pend == {t \in pending[Me(b)] \ {s} : ~Ignored(act[Me(b)], t)}
           a == IF act[Me(b)][s] = "once" THEN [act[Me(b)] EXCEPT ![s] = "DFL"] ELSE act[Me(b)]
<1>1. Runs(b) /\ ~Suspended(b)
  BY InFacts DEF FetchHandler, Takes
<1>2. /\ pending' = [pending EXCEPT ![Me(b)] = pend] /\ where' = [where EXCEPT ![b] = User]
      /\ act' = IF act[Me(b)][s] = "once" THEN [act EXCEPT ![Me(b)][s] = "DFL"] ELSE act
      /\ frames' = [frames EXCEPT ![b] = Append(@, "handler")]
      /\ UNCHANGED <<procVars, group, mask, saved, own, late>>
      /\ act[Me(b)][s] \in {"run", "once"}
  BY DEF FetchHandler
<1>3. pend \in SUBSET pending[Me(b)]
  OBVIOUS
<1> HIDE DEF pend
<1>4. /\ Me(b) \in Pid /\ act \in [Pid -> Actions] /\ late \subseteq P!Instances
      /\ frames \in [Pid -> Seq({"handler", "vfork"})]
  BY <1>1, FactsOfRunning DEF SInv, Values
<1>5. a \in Actions /\ act' = [act EXCEPT ![Me(b)] = a]
  <2>1. act[Me(b)] \in Actions
    BY <1>4
  <2>2. s # KILL
    BY <1>2, <2>1 DEF Actions
  <2>3. [act[Me(b)] EXCEPT ![s] = "DFL"] \in Actions
    BY <2>1, <2>2, ActionChanges
  <2> QED
    BY <1>2, <1>4, <2>1, <2>3
<1> HIDE DEF a
<1>6. frames' \in [Pid -> Seq({"handler", "vfork"})] /\ \A c \in Pid : c # b => frames'[c] = frames[c]
  BY <1>2, <1>4
<1>7. ~Unseen(b)'
  <2>1. frames'[b] = Append(frames[b], "handler") /\ frames[b] \in Seq({"handler", "vfork"})
    BY <1>2, <1>4
  <2>2. frames'[b] # <<>> /\ Last(frames'[b]) = "handler"
    <3>1. /\ Len(frames'[b]) = Len(frames[b]) + 1 /\ frames'[b] # <<>>
          /\ frames'[b][Len(frames[b]) + 1] = "handler"
      BY <2>1, AppendProperties
    <3> QED
      BY <3>1 DEF Last
  <2> QED
    BY <2>2 DEF Unseen
<1> QED
  BY <1>1, <1>2, <1>3, <1>4, <1>5, <1>6, <1>7, LoopKeeps

LEMMA HandlerReturnsKeeps == ASSUME SInv, NEW b \in Pid, HandlerReturns(b) PROVE Own'
<1>1. Runs(b) /\ ~Suspended(b)
  BY InFacts DEF HandlerReturns
<1>2. /\ where' = [where EXCEPT ![b] = Leaving]
      /\ frames' = [frames EXCEPT ![b] = Front(@)] /\ frames[b] # <<>>
      /\ UNCHANGED <<procVars, pending, group, mask, act, saved, own, late>>
  BY DEF HandlerReturns
<1>3. /\ Me(b) \in Pid /\ act \in [Pid -> Actions] /\ late \subseteq P!Instances
      /\ frames \in [Pid -> Seq({"handler", "vfork"})] /\ where \in [Pid -> Where]
      /\ pending \in [Pid -> SUBSET Signals]
  BY <1>1, FactsOfRunning DEF SInv, Values
<1>4. frames' \in [Pid -> Seq({"handler", "vfork"})] /\ \A c \in Pid : c # b => frames'[c] = frames[c]
  <2>1. frames[b] \in Seq({"handler", "vfork"}) /\ frames[b] # <<>>
    BY <1>2, <1>3
  <2>2. Front(frames[b]) = SubSeq(frames[b], 1, Len(frames[b]) - 1)
    BY DEF Front
  <2>3. Front(frames[b]) \in Seq({"handler", "vfork"})
    BY <2>1, <2>2, SubSeqProperties
  <2> QED
    BY <1>2, <1>3, <2>3
<1>5. ~Unseen(b)'
  BY <1>2, <1>3, PlacesDiffer DEF Unseen
<1>6. /\ act[Me(b)] \in Actions /\ act' = [act EXCEPT ![Me(b)] = act[Me(b)]]
      /\ pending' = [pending EXCEPT ![Me(b)] = pending[Me(b)]]
  BY <1>2, <1>3
<1> QED
  BY <1>1, <1>2, <1>3, <1>4, <1>5, <1>6, LoopKeeps

LEMMA RetryKeeps == ASSUME SInv, NEW b \in Pid, Retry(b) PROVE Own'
<1>1. Runs(b) /\ where[b].at = "blocked"
  BY InFacts DEF Retry
<1>2. where[b] \in Where
  BY DEF SInv, Values
<1>3. CASE where[b].op = "suspend"
  <2>1. where[b].arg \in Masks
    BY <1>1, <1>2, <1>3, PlacesDiffer
  <2>2. Suspends(b, where[b].arg)
    BY <1>3 DEF Retry
  <2> QED
    BY <1>1, <2>1, <2>2, SuspendsKeeps
<1>4. CASE where[b].op # "suspend"
  <2>1. WaitAnswered(b, where[b].arg) \/ Returns(b)
    BY <1>4 DEF Retry
  <2> QED
    BY <1>1, <2>1, WaitAnsweredKeeps, ReturnsKeeps
<1> QED
  BY <1>3, <1>4

-----------------------------------------------------------------------------
(* 8. Every step is one of the processes, and keeps the invariant. *)

LEMMA LeastOfDead ==
    ASSUME NEW p, NEW name, Dead(p, name) # {}
    PROVE  Min(Dead(p, name)) \in P!Pid
<1> DEFINE T == Dead(p, name)
<1>1. T \subseteq P!Pid /\ T # {}
  BY DEF Dead, Children, P!Candidates
<1> HIDE DEF T
<1>2. T \subseteq Nat
  BY <1>1, FirstIsPid DEF Pid
<1>3. PICK x \in T : \A y \in T : ~(y < x)
  BY <1>1, <1>2, AssumedOfProcesses, PP!LeastNumber
<1>4. \A y \in T : x =< y
  <2> SUFFICES ASSUME NEW y \in T PROVE x =< y
    OBVIOUS
  <2> QED
    BY <1>2, <1>3
<1>5. Min(T) \in T
  BY <1>3, <1>4 DEF Min
<1> QED
  BY <1>1, <1>5 DEF T

(* What a call does to the processes is what module Processes says. *)
LEMMA CallIsOfProcesses ==
    ASSUME NEW b \in Pid, GuestCall(b) PROVE [P!Next]_(P!vars)
<1>1. ASSUME UNCHANGED procVars PROVE UNCHANGED P!vars
  BY <1>1 DEF procVars, P!vars
<1>2. ASSUME NEW name, WaitAnswered(b, name) PROVE [P!Next]_(P!vars)
  <2>1. CASE UNCHANGED procVars
    BY <1>1, <2>1
  <2>2. CASE Dead(Me(b), name) # {} /\ P!Reap(b, Min(Dead(Me(b), name)))
    <3>1. Min(Dead(Me(b), name)) \in P!Pid
      BY <2>2, LeastOfDead
    <3> QED
      BY <2>2, <3>1 DEF P!Next, Pid
  <2> QED
    BY <1>2, <2>1, <2>2 DEF WaitAnswered
<1>3. CASE OtherCall(b)
  BY <1>1, <1>3 DEF OtherCall, Returns
<1>4. ASSUME NEW s, NEW d, Sigaction(b, s, d) PROVE UNCHANGED procVars
  BY <1>4 DEF Sigaction
<1>5. ASSUME NEW name, NEW s, Kill(b, name, s) PROVE UNCHANGED procVars
  BY <1>5 DEF Kill
<1>6. ASSUME NEW m, Sigprocmask(b, m) PROVE UNCHANGED procVars
  BY <1>6 DEF Sigprocmask
<1>7. ASSUME NEW m, Sigsuspend(b, m) PROVE UNCHANGED procVars
  BY <1>7 DEF Sigsuspend, Suspends
<1>8. ASSUME NEW name, Wait4(b, name) PROVE [P!Next]_(P!vars)
  BY <1>1, <1>2, <1>8 DEF Wait4, WouldWait
<1>9. ASSUME NEW q, NEW g, Setpgid(b, q, g) PROVE UNCHANGED procVars
  BY <1>9 DEF Setpgid
<1>10. CASE Vfork(b)
  BY <1>10 DEF Vfork, P!Next, Pid
<1>11. CASE ExitChild(b)
  <2>1. "0" \in Codes
    BY SignalsAssumption
  <2> QED
    BY <1>11, <2>1 DEF ExitChild, P!Next, Pid
<1>12. CASE ExecChild(b)
  BY <1>12 DEF ExecChild, P!Next, Pid
<1>13. CASE Exits(b)
  BY <1>13 DEF Exits, Dies, P!Next, P!Status, Pid
<1>14. ASSUME NEW body, Exec(b, body) PROVE UNCHANGED procVars
  BY <1>14 DEF Exec
<1> QED
  BY <1>1, <1>3, <1>4, <1>5, <1>6, <1>7, <1>8, <1>9, <1>10, <1>11, <1>12, <1>13, <1>14
     DEF GuestCall

LEMMA StepOfProcesses == [Next]_vars => [P!Next]_(P!vars)
<1> SUFFICES ASSUME [Next]_vars PROVE [P!Next]_(P!vars)
  OBVIOUS
<1>1. ASSUME UNCHANGED procVars PROVE UNCHANGED P!vars
  BY <1>1 DEF procVars, P!vars
<1>2. CASE UNCHANGED vars
  BY <1>1, <1>2 DEF vars
<1>3. ASSUME NEW b \in Pid, GuestCall(b) PROVE [P!Next]_(P!vars)
  BY <1>3, CallIsOfProcesses
<1>4. ASSUME NEW b \in Pid, Retry(b) PROVE [P!Next]_(P!vars)
  <2>1. CASE UNCHANGED procVars
    BY <1>1, <2>1
  <2>2. CASE /\ Dead(Me(b), where[b].arg) # {}
             /\ P!Reap(b, Min(Dead(Me(b), where[b].arg)))
    <3>1. Min(Dead(Me(b), where[b].arg)) \in P!Pid
      BY <2>2, LeastOfDead
    <3> QED
      BY <2>2, <3>1 DEF P!Next, Pid
  <2> QED
    BY <1>4, <2>1, <2>2 DEF Retry, WaitAnswered, Suspends, Returns
<1>5. ASSUME NEW b \in Pid, NEW s \in Signals, FetchFatal(b, s) PROVE [P!Next]_(P!vars)
  <2>1. {"SIGKILL", "SIGTERM"} \subseteq P!Status
    BY SignalsAssumption DEF P!Status
  <2>2. \E status \in P!Status : P!Finish(b, status)
    BY <1>5, <2>1 DEF FetchFatal, Dies
  <2> QED
    BY <2>2 DEF P!Next, Pid
<1>6. ASSUME NEW b \in Pid, Fetch(b) PROVE [P!Next]_(P!vars)
  BY <1>1, <1>5, <1>6 DEF Fetch, FetchNothing, FetchHandler
<1>7. ASSUME NEW b \in Pid, HandlerReturns(b) PROVE [P!Next]_(P!vars)
  BY <1>1, <1>7 DEF HandlerReturns
<1>8. ASSUME NEW body, Start(body) PROVE [P!Next]_(P!vars)
  BY <1>8 DEF Start, P!Next
<1>9. CASE StartFails
  BY <1>9 DEF StartFails, P!Next
<1> QED
  BY <1>2, <1>3, <1>4, <1>6, <1>7, <1>8, <1>9 DEF Next

LEMMA GuestCallKeeps ==
    ASSUME SInv, NEW b \in Pid, GuestCall(b) PROVE Own'
<1>1. CASE OtherCall(b)
  <2>1. Runs(b)
    BY <1>1, InFacts DEF OtherCall
  <2> QED
    BY <1>1, <2>1, ReturnsKeeps DEF OtherCall
<1>2. ASSUME NEW m \in Masks, Sigsuspend(b, m) PROVE Own'
  <2>1. Runs(b)
    BY <1>2, InFacts DEF Sigsuspend
  <2> QED
    BY <1>2, <2>1, SuspendsKeeps DEF Sigsuspend
<1>3. ASSUME NEW name \in Name, Wait4(b, name) PROVE Own'
  <2>1. Runs(b) /\ In(b, {"user"}) /\ name \in Waits
    BY <1>3, InFacts DEF Wait4
  <2> QED
    BY <1>3, <2>1, WaitAnsweredKeeps, WouldWaitKeeps DEF Wait4
<1>4. CASE Exits(b)
  <2>1. Runs(b)
    BY <1>4, InFacts DEF Exits
  <2> QED
    BY <1>4, <2>1, DiesKeeps DEF Exits
<1> QED
  BY <1>1, <1>2, <1>3, <1>4, SigactionKeeps, KillKeeps, SigprocmaskKeeps, SetpgidKeeps,
     VforkKeeps, ExitChildKeeps, ExecChildKeeps, ExecKeeps
     DEF GuestCall

LEMMA FetchKeeps == ASSUME SInv, NEW b \in Pid, Fetch(b) PROVE Own'
<1>1. ASSUME NEW s \in Signals, FetchFatal(b, s) PROVE Own'
  <2>1. Runs(b)
    BY <1>1, InFacts DEF FetchFatal, Takes
  <2> QED
    BY <1>1, <2>1, DiesKeeps DEF FetchFatal
<1> QED
  BY <1>1, FetchNothingKeeps, FetchHandlerKeeps DEF Fetch

LEMMA InvariantKept == SInv /\ [Next]_vars => SInv'
<1> SUFFICES ASSUME SInv, [Next]_vars PROVE SInv'
  OBVIOUS
<1>1. PP!IInv'
  BY StepOfProcesses, FactsKept DEF SInv
<1>2. Own'
  <2>1. CASE UNCHANGED vars
    <3>1. UNCHANGED <<table, stack, pending, group, mask, act, saved, where, frames, own, late>>
      BY <2>1 DEF vars, procVars
    <3>2. Values'
      BY <3>1 DEF SInv, Values, P!Instances, P!Alive, P!AliveIn
    <3>3. SavedOK' /\ MaskOK'
      BY <3>1 DEF SInv, SavedOK, MaskOK, Runs, Suspended, Me, P!Current
    <3>4. NothingUnseen'
      BY <3>1 DEF SInv, NothingUnseen, Unseen, Runs, Interrupted, Live, Me, P!Current
    <3> QED
      BY <3>2, <3>3, <3>4 DEF Own
  <2>2. CASE Next
    BY <2>2, GuestCallKeeps, RetryKeeps, FetchKeeps, HandlerReturnsKeeps, StartKeeps,
       StartFailsKeeps DEF Next
  <2> QED
    BY <2>1, <2>2
<1> QED
  BY <1>1, <1>2 DEF Own, SInv

LEMMA InvariantOfStart == Init => SInv
<1> SUFFICES ASSUME Init PROVE SInv
  OBVIOUS
<1>1. PP!IInv
  BY FactsOfStart DEF Init
<1>2. /\ pending = [q \in Pid |-> {}] /\ group = [q \in Pid |-> First]
      /\ mask = [q \in Pid |-> {}] /\ own = mask
      /\ act = [q \in Pid |-> [s \in Signals |-> "DFL"]]
      /\ saved = [b \in Pid |-> None] /\ where = [b \in Pid |-> User]
      /\ frames = [b \in Pid |-> <<>>] /\ late = {}
  BY DEF Init
<1>3. Values
  BY <1>2, FirstIsPid, DefaultActions, PlacesDiffer DEF Values
<1>4. SavedOK /\ MaskOK
  BY <1>2, PlacesDiffer DEF SavedOK, MaskOK, Suspended
<1>5. NothingUnseen
  <2>1. \A b \in Pid : Runs(b) => pending[Me(b)] = {}
    <3>1. \A b \in Pid : Runs(b) => Me(b) \in Pid
      BY <1>1, FactsOfProcesses DEF ProcessFacts, Runs
    <3> QED
      BY <1>2, <3>1
  <2> QED
    BY <2>1 DEF NothingUnseen, Unseen, Interrupted, Live, LiveOf
<1> QED
  BY <1>1, <1>3, <1>4, <1>5 DEF SInv

(* The invariant, for every value of the constants: whatever is put aside  *)
(* (the mask of a suspended task) is put aside once and by its own task.   *)
THEOREM SignalsInvariant == Spec => []SInv
BY InvariantOfStart, InvariantKept, PTL DEF Spec

(* With signals, processes do only what module Processes lets them do: a   *)
(* call that is interrupted or retried, and a fatal signal, are no new     *)
(* ways of beginning, ending or collecting a process.                      *)
THEOREM SignalsImplementProcesses == Spec => P!Spec
<1>1. Init => P!Init
  BY DEF Init
<1> QED
  BY <1>1, StepOfProcesses, PTL DEF Spec, P!Spec

(* Every signal mask, disposition and group is of its type, SIGKILL is     *)
(* never caught or ignored, and the dead have nothing pending.             *)
THEOREM SignalsTypeCorrect == Spec => []TypeOK
BY SignalsInvariant, InvariantImplies, PTL

(* Outside sigsuspend a task has the mask its program asked for, whatever  *)
(* ended the call, however often it was tried, and whoever shares the      *)
(* instance and its mask_to_restore.                                       *)
THEOREM MasksAreThePrograms == Spec => []MaskIsTheProgramsOwn
BY SignalsInvariant, InvariantImplies, PTL

(* No call, no end of a vfork child and no execve leaves a deliverable     *)
(* signal behind that the program is not made to look for.                 *)
THEOREM NoSignalGoesUnseen == Spec => []NoSignalIsMissed
BY SignalsInvariant, InvariantImplies, PTL

-----------------------------------------------------------------------------
(* 9. A call that a signal ends. *)

(* A blocked call stays where it is until it is tried again. *)
LEMMA BlockedStays ==
    ASSUME SInv, [Next]_vars, NEW b \in Pid, where[b].at = "blocked", ~Retry(b)
    PROVE  where'[b] = where[b]
<1>1. where \in [Pid -> Where]
  BY DEF SInv, Values
<1>2. CASE UNCHANGED vars
  BY <1>2 DEF vars
<1>3. ASSUME NEW c \in Pid, c # b, NEW w, where' = [where EXCEPT ![c] = w]
      PROVE  where'[b] = where[b]
  BY <1>1, <1>3
<1>4. ASSUME NEW c \in Pid, c # b, NEW before, Finish(c, before)
      PROVE  where'[b] = where[b]
  BY <1>1, <1>4 DEF Finish
<1>5. ASSUME NEW c \in Pid, c # b, GuestCall(c) PROVE where'[b] = where[b]
  <2>1. ASSUME NEW s, NEW d, Sigaction(c, s, d) PROVE where'[b] = where[b]
    BY <1>4, <1>5, <2>1 DEF Sigaction
  <2>2. ASSUME NEW name, NEW s, Kill(c, name, s) PROVE where'[b] = where[b]
    BY <1>4, <1>5, <2>2 DEF Kill
  <2>3. ASSUME NEW m, Sigprocmask(c, m) PROVE where'[b] = where[b]
    BY <1>4, <1>5, <2>3 DEF Sigprocmask
  <2>4. ASSUME NEW m, Sigsuspend(c, m) PROVE where'[b] = where[b]
    BY <1>3, <1>4, <1>5, <2>4 DEF Sigsuspend, Suspends
  <2>5. ASSUME NEW name, Wait4(c, name) PROVE where'[b] = where[b]
    BY <1>3, <1>4, <1>5, <2>5 DEF Wait4, WaitAnswered, WouldWait
  <2>6. ASSUME NEW q, NEW g, Setpgid(c, q, g) PROVE where'[b] = where[b]
    BY <1>4, <1>5, <2>6 DEF Setpgid
  <2>7. CASE OtherCall(c) \/ Vfork(c) \/ ExitChild(c) \/ ExecChild(c)
    BY <1>4, <1>5, <2>7 DEF OtherCall, Returns, Vfork, ExitChild, ExecChild
  <2>8. CASE Exits(c)
    BY <1>3, <1>5, <2>8 DEF Exits, Dies, Gone
  <2>9. ASSUME NEW body, Exec(c, body) PROVE where'[b] = where[b]
    BY <1>1, <1>5, <2>9 DEF Exec, Begins
  <2> QED
    BY <1>5, <2>1, <2>2, <2>3, <2>4, <2>5, <2>6, <2>7, <2>8, <2>9 DEF GuestCall
<1>6. ASSUME NEW c \in Pid, c # b, Retry(c) PROVE where'[b] = where[b]
  BY <1>3, <1>4, <1>6 DEF Retry, Suspends, WaitAnswered, Returns
<1>7. ASSUME NEW c \in Pid, c # b, Fetch(c) \/ HandlerReturns(c) PROVE where'[b] = where[b]
  BY <1>3, <1>7 DEF Fetch, FetchNothing, FetchHandler, FetchFatal, Dies, Gone, HandlerReturns
<1>8. ~GuestCall(b)
  <2>1. ~In(b, {"user"}) /\ ~In(b, {"user", "host"})
    BY DEF In
  <2> QED
    BY <2>1 DEF GuestCall, OtherCall, Sigaction, Kill, Sigprocmask, Sigsuspend, Wait4, Setpgid,
                Vfork, ExitChild, ExecChild, Exits, Exec
<1>9. ~Fetch(b) /\ ~HandlerReturns(b)
  <2>1. ~In(b, {"user"}) /\ ~In(b, {"leaving"})
    BY DEF In
  <2> QED
    BY <2>1 DEF Fetch, FetchNothing, FetchHandler, FetchFatal, Takes, HandlerReturns
<1>10. ASSUME NEW body, Start(body) PROVE where'[b] = where[b]
  <2>1. Head(spawn) \in Pid /\ stack[Head(spawn)] = <<>>
    BY <1>10, FactsOfProcesses DEF SInv, ProcessFacts, Start, P!Start
  <2>2. Head(spawn) # b
    BY <2>1, PlacesDiffer DEF SInv, SavedOK, Runs
  <2> QED
    BY <1>1, <1>10, <2>2 DEF Start, Begins
<1>11. CASE StartFails
  BY <1>11 DEF StartFails
<1> QED
  BY <1>2, <1>5, <1>6, <1>7, <1>8, <1>9, <1>10, <1>11 DEF Next

(* A call other than sigsuspend changes no mask, so the signal is still    *)
(* deliverable when the flag is computed.                                  *)
LEMMA FetchAfterRetry ==
    ASSUME SInv, NEW b \in Pid, ~Suspended(b), Interrupted(b), Retry(b)
    PROVE  where'[b] = Leaving
<1>1. Runs(b) /\ where[b].at = "blocked"
  BY InFacts DEF Retry
<1>2. Me(b) \in Pid /\ saved[b] = None /\ P!Alive(Me(b)) /\ table[Me(b)] # None
  BY <1>1, FactsOfRunning
<1>3. where \in [Pid -> Where] /\ mask \in [Pid -> SUBSET Signals]
  BY DEF SInv, Values
<1>4. ASSUME NEW before, Finish(b, before), stack' = stack, pending' = pending, act' = act,
             before[Me(b)] = mask[Me(b)]
      PROVE  where'[b] = Leaving
  <2>1. mask'[Me(b)] = mask[Me(b)]
    BY <1>2, <1>4 DEF Finish
  <2>2. Me(b)' = Me(b)
    BY <1>4 DEF Me, P!Current
  <2>3. LiveOf(pending'[Me(b)'], mask'[Me(b)'], act'[Me(b)']) # {}
    BY <1>4, <2>1, <2>2 DEF Interrupted, Live, LiveOf
  <2> QED
    BY <1>3, <1>4, <2>3 DEF Finish
<1>5. ASSUME NEW name, WaitAnswered(b, name) PROVE where'[b] = Leaving
  <2> DEFINE before == [q \in Pid |-> IF table'[q] = None THEN {} ELSE mask[q]]
  <2>1. stack' = stack /\ table'[Me(b)] # None
    BY <1>2, <1>5, OnlyTheDeadGo
  <2>2. before[Me(b)] = mask[Me(b)]
    BY <1>2, <2>1
  <2>3. Finish(b, before) /\ pending' = pending /\ act' = act
    BY <1>5 DEF WaitAnswered
  <2> HIDE DEF before
  <2> QED
    BY <1>4, <2>1, <2>2, <2>3
<1>6. ASSUME Returns(b) PROVE where'[b] = Leaving
  BY <1>4, <1>6 DEF Returns, procVars
<1>7. where[b].op # "suspend"
  BY <1>1 DEF Suspended
<1> QED
  BY <1>5, <1>6, <1>7 DEF Retry

(* A wait that ends while a signal is deliverable, by EINTR or with its    *)
(* answer, returns into the fetch loop: the handler is not put off until   *)
(* the program's next call.  Not so for sigsuspend.                        *)
THEOREM SignalledWaitsFetch == Spec => InterruptedCallsFetch
<1> DEFINE Step == \A b \in Pid :
              (where[b].at = "blocked" /\ ~Suspended(b) /\ Interrupted(b)
                  /\ where'[b].at # "blocked")
              => where'[b] = Leaving
<1>1. SInv /\ [Next]_vars => [Step]_vars
  BY BlockedStays, FetchAfterRetry
<1> HIDE DEF Step
<1>2. Spec => [][Step]_vars
  BY <1>1, SignalsInvariant, PTL DEF Spec
<1> QED
  BY <1>2 DEF InterruptedCallsFetch, Step
=============================================================================
