-------------------------- MODULE SchedulerProofs ---------------------------
(***************************************************************************)
(* For any number of pids, any programs and host commands, any pipe and    *)
(* any bounds of the clock: the run loop takes only the steps of module    *)
(* Processes, its list holds the instances there are, each once, and who   *)
(* sleeps has its deadline where why_idle looks for it.  For the programs  *)
(* that each theorem of section 12 names: what step reports when nothing   *)
(* runs is true.                                                           *)
(*                                                                         *)
(* What ProcessesProofs shows of the process table is used through the     *)
(* instance PP.  Its definitions are those of P; section 1 says so.        *)
(***************************************************************************)
EXTENDS Scheduler, FiniteSetTheorems, SequenceTheorems, TLAPS

PP == INSTANCE ProcessesProofs

-----------------------------------------------------------------------------
(* 1. P and PP are the same. *)

(* The assumption of Processes is among those of Scheduler. *)
LEMMA AssumedOfProcesses == PP!ProcessesAssumption
BY SchedulerAssumption
   DEF PP!ProcessesAssumption, First, PP!First, P!First, PP!Status, P!Status,
       PP!ProcRecord, P!ProcRecord, PP!Pid, P!Pid, PP!NoPid, P!NoPid

LEMMA SameSetExit ==
    ASSUME NEW t, NEW p, NEW status
    PROVE  P!SetExit(t, p, status) = PP!SetExit(t, p, status)
BY Zenon DEF P!SetExit, PP!SetExit, P!Mark, PP!Mark, P!Adopt, PP!Adopt, P!AliveIn, PP!AliveIn,
   P!IsChild, PP!IsChild, P!Pid, PP!Pid, P!NoPid, PP!NoPid, P!First, PP!First

LEMMA SameTearDown ==
    ASSUME NEW t, NEW tasks, NEW status
    PROVE  P!TearDown(t, tasks, status) = PP!TearDown(t, tasks, status)
BY Zenon DEF P!TearDown, PP!TearDown,
   P!SetExit, PP!SetExit, P!Mark, PP!Mark, P!Adopt, PP!Adopt, P!AliveIn, PP!AliveIn,
   P!IsChild, PP!IsChild, P!Pid, PP!Pid, P!NoPid, PP!NoPid, P!First, PP!First

LEMMA SameKillAll ==
    ASSUME NEW t, NEW list
    PROVE  P!KillAllOf(t, list) = PP!KillAllOf(t, list)
BY Zenon DEF P!KillAllOf, PP!KillAllOf, P!TearDown, PP!TearDown,
   P!SetExit, PP!SetExit, P!Mark, PP!Mark, P!Adopt, PP!Adopt, P!AliveIn, PP!AliveIn,
   P!IsChild, PP!IsChild, P!Pid, PP!Pid, P!NoPid, PP!NoPid, P!First, PP!First

LEMMA SameState ==
    /\ P!Pid = PP!Pid /\ P!Instances = PP!Instances /\ P!Over = PP!Over
    /\ P!Status = PP!Status /\ P!ProcRecord = PP!ProcRecord
    /\ \A b : P!Current(b) = PP!Current(b)
    /\ \A p : P!Alive(p) <=> PP!Alive(p)
    /\ \A p, which : P!Reapable(p, which) = PP!Reapable(p, which)
<1>1. P!Pid = PP!Pid /\ P!Instances = PP!Instances /\ P!Over = PP!Over
  BY DEF P!Pid, PP!Pid, P!Instances, PP!Instances, P!Over, PP!Over
<1>2. P!Status = PP!Status /\ P!ProcRecord = PP!ProcRecord
  BY <1>1 DEF P!Status, PP!Status, P!ProcRecord, PP!ProcRecord, P!NoPid, PP!NoPid
<1>3. \A b : P!Current(b) = PP!Current(b)
  BY DEF P!Current, PP!Current
<1>4. \A p : P!Alive(p) <=> PP!Alive(p)
  BY <1>1 DEF P!Alive, PP!Alive, P!AliveIn, PP!AliveIn
<1>5. \A p, which : P!Reapable(p, which) = PP!Reapable(p, which)
  BY <1>1 DEF P!Reapable, PP!Reapable, P!Candidates, PP!Candidates, P!IsChild, PP!IsChild
<1> QED
  BY <1>1, <1>2, <1>3, <1>4, <1>5

LEMMA SameType == P!TypeOK <=> PP!TypeOK
BY SameState DEF P!TypeOK, PP!TypeOK

LEMMA SameInit == P!Init => PP!Init
BY DEF P!Init, PP!Init, P!Pid, PP!Pid, P!First, PP!First, P!NoPid, PP!NoPid, P!Record, PP!Record

LEMMA SameNext == [P!Next]_(P!vars) => [PP!Next]_(PP!vars)
<1>1. ASSUME NEW b \in P!Pid, P!Vfork(b) PROVE PP!Vfork(b)
  BY <1>1, SameState, Zenon
     DEF P!Vfork, PP!Vfork, P!Over, PP!Over, P!Instances, PP!Instances, P!Pid, PP!Pid,
         P!Alive, PP!Alive, P!AliveIn, PP!AliveIn, P!Record, PP!Record, P!Current, PP!Current,
         P!Cardinality, PP!Cardinality
<1>2. ASSUME NEW b \in P!Pid, P!ExecChild(b) PROVE PP!ExecChild(b)
  BY <1>2, Zenon
     DEF P!ExecChild, PP!ExecChild, P!InChild, PP!InChild, P!Over, PP!Over,
         P!Current, PP!Current, P!Front, PP!Front
<1>3. ASSUME NEW b \in P!Pid, P!ExecFails(b) PROVE PP!ExecFails(b)
  BY <1>3, SameSetExit, Zenon DEF P!ExecFails, PP!ExecFails, P!Over, PP!Over
<1>4. ASSUME NEW b \in P!Pid, NEW status, P!ExitChild(b, status) PROVE PP!ExitChild(b, status)
  BY <1>4, SameSetExit, Zenon
     DEF P!ExitChild, PP!ExitChild, P!InChild, PP!InChild, P!Over, PP!Over,
         P!Current, PP!Current, P!Front, PP!Front
<1>5. ASSUME NEW b \in P!Pid, NEW status, P!Finish(b, status) PROVE PP!Finish(b, status)
  BY <1>5, SameTearDown, Zenon
     DEF P!Finish, PP!Finish, P!Over, PP!Over, P!Instances, PP!Instances, P!Pid, PP!Pid,
         P!First, PP!First
<1>6. ASSUME NEW b \in P!Pid, NEW which, P!Reap(b, which) PROVE PP!Reap(b, which)
  BY <1>6, Zenon
     DEF P!Reap, PP!Reap, P!Over, PP!Over, P!Instances, PP!Instances, P!Pid, PP!Pid,
         P!Current, PP!Current, P!Reapable, PP!Reapable, P!Candidates, PP!Candidates,
         P!IsChild, PP!IsChild
<1>7. P!Start => PP!Start
  BY DEF P!Start, PP!Start, P!Over, PP!Over
<1>8. P!StartFails => PP!StartFails
  BY SameSetExit, Zenon DEF P!StartFails, PP!StartFails, P!Over, PP!Over
<1>9. ASSUME NEW list, P!KillAll(list) PROVE PP!KillAll(list)
  BY <1>9, SameKillAll, Zenon DEF P!KillAll, PP!KillAll, P!Over, PP!Over, P!Pid, PP!Pid
<1>10. P!NoneLeft => PP!NoneLeft
  BY SameState DEF P!NoneLeft, PP!NoneLeft, P!Over, PP!Over
<1>11. P!SetToSeqs(P!Instances) = PP!SetToSeqs(PP!Instances)
  BY Zenon DEF P!SetToSeqs, PP!SetToSeqs, P!Instances, PP!Instances, P!Pid, PP!Pid,
               P!Cardinality, PP!Cardinality
<1>12. P!Next => PP!Next
  BY <1>1, <1>2, <1>3, <1>4, <1>5, <1>6, <1>7, <1>8, <1>9, <1>10, <1>11, SameState
     DEF P!Next, PP!Next
<1> QED
  BY <1>12 DEF P!vars, PP!vars

-----------------------------------------------------------------------------
(* 2. What is used of the processes. *)

ProcessFacts ==
    /\ table \in [Pid -> P!ProcRecord \cup {None}]
    /\ stack \in [Pid -> Seq(Pid)] /\ spawn \in Seq(Pid) /\ nextPid \in Pid \cup {MaxPid + 1}
    /\ \A b \in Pid : stack[b] # <<>> => P!Current(b) \in Pid /\ P!Alive(P!Current(b))
    /\ \A b, c \in Pid : b # c /\ stack[b] # <<>> /\ stack[c] # <<>> => P!Current(b) # P!Current(c)
    /\ spawn # <<>> => Head(spawn) \in Pid /\ stack[Head(spawn)] = <<>>
    /\ \A b \in Pid : Len(stack[b]) > 1 => P!Current(b) # b
    /\ nextPid \in Pid => table[nextPid] = None

LEMMA FactsOfProcesses == PP!IInv => ProcessFacts
<1> SUFFICES ASSUME PP!IInv PROVE ProcessFacts
  OBVIOUS
<1>1. Pid = PP!Pid /\ P!Pid = PP!Pid
  BY SameState DEF Pid
<1>2. PP!TypeOK
  BY DEF PP!IInv
<1>3. ASSUME NEW b \in Pid, stack[b] # <<>>
      PROVE  /\ P!Current(b) \in Pid /\ P!Alive(P!Current(b))
             /\ P!Current(b) \in PP!TasksOf(stack[b])
  <2>1. /\ PP!Current(b) \in PP!Pid /\ PP!Alive(PP!Current(b))
        /\ PP!Current(b) \in PP!TasksOf(stack[b])
    BY <1>1, <1>3, AssumedOfProcesses, PP!CurrentIsTask
  <2> QED
    BY <1>1, <2>1, SameState
<1>4. ASSUME NEW b \in Pid, NEW c \in Pid, b # c, stack[b] # <<>>, stack[c] # <<>>
      PROVE  P!Current(b) # P!Current(c)
  <2>1. PP!TasksOf(stack[b]) \cap PP!TasksOf(stack[c]) = {}
    BY <1>1, <1>4, AssumedOfProcesses, PP!Distinct
  <2> QED
    BY <1>3, <1>4, <2>1
<1>5. ASSUME spawn # <<>> PROVE Head(spawn) \in Pid /\ stack[Head(spawn)] = <<>>
  <2>1. spawn \in Seq(PP!Pid)
    BY AssumedOfProcesses, PP!QueueIsLive
  <2>2. Head(spawn) \in PP!Pid /\ Head(spawn) \in PP!TasksOf(spawn)
    BY <1>5, <2>1, AssumedOfProcesses, PP!TailOfSeq
  <2>3. Head(spawn) \notin PP!TasksOf(stack[Head(spawn)])
    BY <2>2, AssumedOfProcesses, PP!Distinct
  <2> QED
    BY <1>1, <1>2, <2>2, <2>3, AssumedOfProcesses, PP!Bottoms
<1>6. nextPid \in Pid => table[nextPid] = None
  BY <1>1 DEF PP!IInv, PP!Unborn, PP!Pid
<1>7. ASSUME NEW b \in Pid, Len(stack[b]) > 1 PROVE P!Current(b) # b
  <2>1. b \in PP!Pid /\ stack[b] \in Seq(PP!Pid)
    BY <1>1, <1>2 DEF PP!TypeOK
  <2>2. stack[b] # <<>> /\ Len(stack[b]) \in Nat
    BY <1>7, <2>1
  <2>3. stack[b][1] = b
    BY <1>2, <2>1, <2>2, AssumedOfProcesses, PP!Bottoms
  <2>4. 1 \in 1 .. Len(stack[b]) /\ Len(stack[b]) \in 1 .. Len(stack[b]) /\ Len(stack[b]) # 1
    <3> DEFINE k == Len(stack[b])
    <3>1. k \in Nat /\ k > 1
      BY <1>7, <2>2
    <3> HIDE DEF k
    <3>2. 1 \in 1 .. k /\ k \in 1 .. k /\ k # 1
      BY <3>1
    <3> QED
      BY <3>2 DEF k
  <2>5. stack[b][1] # stack[b][Len(stack[b])]
    BY <2>1, <2>4, AssumedOfProcesses, PP!Distinct
  <2> QED
    BY <2>3, <2>5 DEF P!Current
<1>8. /\ table \in [Pid -> P!ProcRecord \cup {None}]
      /\ stack \in [Pid -> Seq(Pid)] /\ spawn \in Seq(Pid) /\ nextPid \in Pid \cup {MaxPid + 1}
  <2>1. /\ table \in [PP!Pid -> PP!ProcRecord \cup {None}] /\ stack \in [PP!Pid -> Seq(PP!Pid)]
        /\ spawn \in Seq(PP!Pid) /\ nextPid \in PP!Pid \cup {MaxPid + 1}
    BY <1>2 DEF PP!TypeOK
  <2>2. P!ProcRecord = PP!ProcRecord
    BY SameState
  <2> QED
    BY <1>1, <2>1, <2>2, Zenon
<1> QED
  BY <1>3, <1>4, <1>5, <1>6, <1>8, <1>7 DEF ProcessFacts

LEMMA FactsOfStart == P!Init => PP!IInv
BY SameInit, AssumedOfProcesses, PP!InitInvariant

LEMMA FactsKept == PP!IInv /\ [P!Next]_(P!vars) => PP!IInv' /\ ProcessFacts'
<1>1. PP!IInv /\ [P!Next]_(P!vars) => PP!IInv'
  BY SameNext, AssumedOfProcesses, PP!NextInvariant
<1>2. PP!IInv => ProcessFacts
  BY FactsOfProcesses
<1> QED
  BY <1>1, <1>2, PTL

(* The steps after which there are the same instances. *)
LEMMA SameInstances ==
    ASSUME ProcessFacts, NEW b \in Pid,
           \/ P!Vfork(b) \/ P!ExecChild(b) \/ \E status \in Codes : P!ExitChild(b, status)
    PROVE  /\ stack[b] # <<>> /\ stack'[b] # <<>>
           /\ \A q \in Pid : q # b => stack'[q] = stack[q]
<1>1. stack[b] \in Seq(Pid) /\ stack \in [Pid -> Seq(Pid)]
  BY DEF ProcessFacts
<1>2. CASE P!Vfork(b)
  <2>1. nextPid \in Pid
    BY <1>2, SchedulerAssumption DEF P!Vfork, ProcessFacts, Pid, P!Pid
  <2>2. Append(stack[b], nextPid) # <<>>
    BY <1>1, <2>1, AppendProperties
  <2>3. stack[b] # <<>> /\ stack' = [stack EXCEPT ![b] = Append(@, nextPid)]
    BY <1>2 DEF P!Vfork, P!Instances
  <2> QED
    BY <1>1, <2>2, <2>3
<1>3. CASE P!ExecChild(b) \/ \E status \in Codes : P!ExitChild(b, status)
  <2>1. Len(stack[b]) > 1 /\ stack' = [stack EXCEPT ![b] = P!Front(@)]
    BY <1>3 DEF P!ExecChild, P!ExitChild, P!InChild
  <2>2. stack[b] # <<>> /\ P!Front(stack[b]) # <<>>
    <3> DEFINE s == stack[b]
               f == P!Front(stack[b])
    <3>1. f = SubSeq(s, 1, Len(s) - 1)
      BY DEF P!Front
    <3>2. s \in Seq(Pid) /\ Len(s) \in Nat /\ Len(s) > 1
      BY <1>1, <2>1
    <3> HIDE DEF s, f
    <3>3. Len(f) = Len(s) - 1
      BY <3>1, <3>2, SubSeqProperties
    <3>4. s # <<>> /\ f # <<>>
      BY <3>2, <3>3
    <3> QED
      BY <3>4 DEF s, f
  <2> QED
    BY <1>1, <2>1, <2>2
<1> QED
  BY <1>2, <1>3

-----------------------------------------------------------------------------
(* 3. The list of instances. *)

ListOK ==
    /\ order \in Seq(Pid)
    /\ \A m, n \in 1 .. Len(order) : order[m] = order[n] => m = n
    /\ \A q \in Pid : (\E n \in 1 .. Len(order) : order[n] = q) <=> stack[q] # <<>>

LEMMA SameCardinality == ASSUME NEW S PROVE P!Cardinality(S) = Cardinality(S)
BY Zenon DEF P!Cardinality, Cardinality

LEMMA ListsInstances ==
    ASSUME ListOK
    PROVE  /\ order \in P!SetToSeqs(P!Instances)
           /\ Listed = P!Instances /\ Len(order) = Cardinality(Listed)
           /\ Len(order) \in Nat /\ Len(order) <= MaxPid
           /\ \A n \in 1 .. Len(order) : order[n] \in Pid /\ stack[order[n]] # <<>>
<1> DEFINE k == Len(order)
<1>1. k \in Nat /\ order \in [1 .. k -> Pid]
  BY DEF ListOK
<1>2. \A n \in 1 .. k : order[n] \in Pid /\ stack[order[n]] # <<>>
  BY <1>1 DEF ListOK
<1>3. Listed = P!Instances /\ Listed = {order[n] : n \in 1 .. k}
  BY <1>2 DEF Listed, ToSet, ListOK, P!Instances, Pid
<1>4. order \in Bijection(1 .. k, Listed)
  <2>1. order \in [1 .. k -> Listed]
    BY <1>1, <1>3
  <2>2. \A m, n \in 1 .. k : order[m] = order[n] => m = n
    BY DEF ListOK
  <2>3. \A q \in Listed : \E n \in 1 .. k : order[n] = q
    BY <1>3
  <2> HIDE DEF k
  <2> QED
    BY <2>1, <2>2, <2>3 DEF Bijection, Injection, Surjection, IsInjective
<1> HIDE DEF k
<1>5. IsFiniteSet(1 .. k) /\ Cardinality(1 .. k) = k
  BY <1>1, FS_Interval
<1>6. Cardinality(Listed) = k
  <2>1. ExistsBijection(1 .. k, Listed)
    BY <1>4 DEF ExistsBijection
  <2> QED
    BY <1>5, <2>1, FS_Bijection
<1>7. k <= MaxPid
  <2>1. IsFiniteSet(Pid) /\ Cardinality(Pid) = MaxPid
    BY FS_Interval, SchedulerAssumption DEF Pid, P!Pid
  <2>2. Listed \subseteq Pid
    BY <1>2, <1>3
  <2> QED
    BY <1>6, <2>1, <2>2, FS_Subset
<1>8. order \in P!SetToSeqs(P!Instances)
  <2>1. P!Cardinality(P!Instances) = k
    BY <1>3, <1>6, SameCardinality
  <2>2. order \in [1 .. k -> P!Instances] /\ \A m, n \in 1 .. k : m # n => order[m] # order[n]
    BY <1>1, <1>3 DEF ListOK, k
  <2> QED
    BY <2>1, <2>2 DEF P!SetToSeqs
<1> QED
  BY <1>1, <1>2, <1>3, <1>6, <1>7, <1>8 DEF k

LEMMA RemoveAtSeq ==
    ASSUME NEW s \in Seq(Pid), NEW i \in 1 .. Len(s)
    PROVE  /\ RemoveAt(s, i) \in Seq(Pid) /\ Len(RemoveAt(s, i)) = Len(s) - 1
           /\ \A n \in 1 .. Len(s) - 1 : RemoveAt(s, i)[n] = IF n < i THEN s[n] ELSE s[n + 1]
<1> DEFINE k == Len(s)
           a == SubSeq(s, 1, i - 1)
           c == SubSeq(s, i + 1, k)
<1>1. k \in Nat /\ i \in Nat /\ 1 <= i /\ i <= k
  OBVIOUS
<1>2. a \in Seq(Pid) /\ Len(a) = i - 1 /\ \A n \in 1 .. i - 1 : a[n] = s[n]
  BY <1>1, SubSeqProperties
<1>3. c \in Seq(Pid) /\ Len(c) = k - i /\ \A n \in 1 .. k - i : c[n] = s[i + n]
  <2>1. \A n \in i + 1 .. k : s[n] \in Pid
    BY <1>1
  <2>2. \A n \in 1 .. k - i : (i + 1) + n - 1 = i + n
    BY <1>1
  <2> HIDE DEF k
  <2> QED
    BY <1>1, <2>1, <2>2, SubSeqProperties DEF k
<1>4. RemoveAt(s, i) = a \o c
  BY DEF RemoveAt
<1> HIDE DEF a, c, k
<1>5. a \o c \in Seq(Pid) /\ Len(a \o c) = k - 1
  <2>1. a \in Seq(Pid) /\ c \in Seq(Pid) /\ Len(a) = i - 1 /\ Len(c) = k - i
    BY <1>2, <1>3
  <2>2. a \o c \in Seq(Pid) /\ Len(a \o c) = Len(a) + Len(c)
    BY <2>1, ConcatProperties
  <2>3. (i - 1) + (k - i) = k - 1
    BY <1>1
  <2> QED
    BY <2>1, <2>2, <2>3
<1>6. ASSUME NEW n \in 1 .. k - 1 PROVE (a \o c)[n] = IF n < i THEN s[n] ELSE s[n + 1]
  <2>1. (a \o c)[n] = IF n <= Len(a) THEN a[n] ELSE c[n - Len(a)]
    BY <1>1, <1>2, <1>3, ConcatProperties
  <2>2. CASE n < i
    BY <1>1, <1>2, <2>1, <2>2
  <2>3. CASE ~(n < i)
    <3>1. n - (i - 1) \in 1 .. k - i /\ i + (n - (i - 1)) = n + 1 /\ ~(n <= Len(a))
      BY <1>1, <1>2, <2>3
    <3> QED
      BY <1>2, <1>3, <2>1, <2>3, <3>1
  <2> QED
    BY <2>2, <2>3
<1> QED
  BY <1>4, <1>5, <1>6 DEF k

(* The list closes up when an instance ends ... *)
LEMMA ListRemoved ==
    ASSUME ListOK, stack \in [Pid -> Seq(Pid)], NEW i \in 1 .. Len(order),
           order' = RemoveAt(order, i), stack' = [stack EXCEPT ![order[i]] = <<>>]
    PROVE  ListOK'
<1> DEFINE k == Len(order)
           s == RemoveAt(order, i)
<1>1. /\ order \in Seq(Pid) /\ k \in Nat /\ order[i] \in Pid
      /\ \A n \in 1 .. k : order[n] \in Pid
  BY DEF ListOK
<1>2. s \in Seq(Pid) /\ Len(s) = k - 1 /\ order' = s
  BY <1>1, RemoveAtSeq
<1>3. \A n \in 1 .. k - 1 : s[n] = IF n < i THEN order[n] ELSE order[n + 1]
  BY <1>1, RemoveAtSeq
<1>4. \A m, n \in 1 .. k : order[m] = order[n] => m = n
  BY DEF ListOK
<1>5. \A q \in Pid : (\E n \in 1 .. k : order[n] = q) <=> stack[q] # <<>>
  BY DEF ListOK
<1> HIDE DEF k, s
<1>6. i \in 1 .. k
  BY DEF k
<1>7. \A m, n \in 1 .. k - 1 : s[m] = s[n] => m = n
  <2>1. \A n \in 1 .. k - 1 : n \in 1 .. k /\ n + 1 \in 1 .. k
    BY <1>1
  <2> QED
    BY <1>1, <1>3, <1>4, <1>6, <2>1
<1>8. \A q \in Pid : (\E n \in 1 .. k - 1 : s[n] = q) <=> (stack[q] # <<>> /\ q # order[i])
  <2> SUFFICES ASSUME NEW q \in Pid
               PROVE  (\E n \in 1 .. k - 1 : s[n] = q) <=> (stack[q] # <<>> /\ q # order[i])
    OBVIOUS
  <2>1. ASSUME NEW n \in 1 .. k - 1, s[n] = q PROVE stack[q] # <<>> /\ q # order[i]
    <3>1. CASE n < i
      <4>1. n \in 1 .. k /\ n # i /\ s[n] = order[n]
        BY <1>1, <1>3, <1>6, <3>1
      <4>2. order[n] = q /\ order[n] # order[i]
        BY <1>4, <1>6, <2>1, <4>1
      <4> QED
        BY <1>5, <4>1, <4>2
    <3>2. CASE ~(n < i)
      <4>1. n + 1 \in 1 .. k /\ n + 1 # i /\ s[n] = order[n + 1]
        BY <1>1, <1>3, <1>6, <3>2
      <4>2. order[n + 1] = q /\ order[n + 1] # order[i]
        BY <1>4, <1>6, <2>1, <4>1
      <4> QED
        BY <1>5, <4>1, <4>2
    <3> QED
      BY <3>1, <3>2
  <2>2. ASSUME stack[q] # <<>>, q # order[i] PROVE \E n \in 1 .. k - 1 : s[n] = q
    <3>1. PICK m \in 1 .. k : order[m] = q
      BY <1>5, <2>2
    <3>2. CASE m < i
      <4>1. m \in 1 .. k - 1 /\ s[m] = order[m]
        BY <1>1, <1>3, <1>6, <3>2
      <4> QED
        BY <3>1, <4>1
    <3>3. CASE ~(m < i)
      <4>1. m # i
        BY <2>2, <3>1
      <4>2. m - 1 \in 1 .. k - 1 /\ ~(m - 1 < i) /\ (m - 1) + 1 = m
        BY <1>1, <1>6, <3>3, <4>1
      <4>3. s[m - 1] = order[m]
        BY <1>3, <4>2
      <4> QED
        BY <3>1, <4>2, <4>3
    <3> QED
      BY <3>2, <3>3
  <2> QED
    BY <2>1, <2>2
<1>9. \A q \in Pid : stack'[q] # <<>> <=> (stack[q] # <<>> /\ q # order[i])
  BY <1>1
<1> QED
  BY <1>2, <1>7, <1>8, <1>9 DEF ListOK

(* ... and grows at its end when a child of the queue is started. *)
LEMMA ListAppended ==
    ASSUME ListOK, stack \in [Pid -> Seq(Pid)], NEW h \in Pid, stack[h] = <<>>,
           order' = Append(order, h), stack' = [stack EXCEPT ![h] = <<h>>]
    PROVE  ListOK'
<1> DEFINE k == Len(order)
           s == Append(order, h)
<1>1. /\ order \in Seq(Pid) /\ k \in Nat
      /\ \A n \in 1 .. k : order[n] \in Pid
  BY DEF ListOK
<1>2. /\ s \in Seq(Pid) /\ Len(s) = k + 1 /\ order' = s
      /\ s[k + 1] = h
  BY <1>1, AppendProperties
<1>3. \A n \in 1 .. k : s[n] = order[n]
  BY <1>1, AppendProperties
<1>4. \A m, n \in 1 .. k : order[m] = order[n] => m = n
  BY DEF ListOK
<1>5. \A q \in Pid : (\E n \in 1 .. k : order[n] = q) <=> stack[q] # <<>>
  BY DEF ListOK
<1>6. \A q \in Pid : stack'[q] # <<>> <=> (stack[q] # <<>> \/ q = h)
  BY DEF ListOK
<1> HIDE DEF k, s
<1>7. 1 .. k + 1 = (1 .. k) \cup {k + 1} /\ k + 1 \notin 1 .. k
  <2>1. k \in Nat
    BY <1>1
  <2> QED
    BY <2>1
<1>8. \A n \in 1 .. k : s[n] # h
  BY <1>3, <1>5
<1>9. \A m, n \in 1 .. k + 1 : s[m] = s[n] => m = n
  BY <1>2, <1>3, <1>4, <1>7, <1>8
<1>10. \A q \in Pid : (\E n \in 1 .. k + 1 : s[n] = q) <=> (stack[q] # <<>> \/ q = h)
  <2>1. \A q : (\E n \in 1 .. k + 1 : s[n] = q) <=> (\E n \in 1 .. k : s[n] = q) \/ s[k + 1] = q
    BY <1>7, Zenon
  <2>2. \A q \in Pid : (\E n \in 1 .. k : s[n] = q) <=> stack[q] # <<>>
    BY <1>3, <1>5
  <2> QED
    BY <1>2, <2>1, <2>2
<1> QED
  BY <1>2, <1>6, <1>9, <1>10 DEF ListOK

LEMMA ListKept ==
    ASSUME ListOK, order' = order, \A q \in Pid : stack'[q] # <<>> <=> stack[q] # <<>>
    PROVE  ListOK'
BY DEF ListOK

-----------------------------------------------------------------------------
(* 4. The invariant. *)

RunType == [at : {"caller", "top", "pass", "run", "over"}, index : 1 .. MaxPid + 1,
            progressed : BOOLEAN, waited : [vfs : BOOLEAN, host : BOOLEAN]]

(* TypeOK, without what it says of the processes and of the list. *)
Values ==
    /\ proc \in [Pid -> Proc]
    /\ holds \in [Pid -> SUBSET {"in", "r", "w"}]
    /\ fill \in 0 .. PipeCapacity
    /\ stdin \in [data : 0 .. 1, closed : BOOLEAN, wanted : BOOLEAN]
    /\ wake \in [Pid -> Time \cup {None}]
    /\ now \in Time
    /\ pending \in [vfs : BOOLEAN, host : BOOLEAN]
    /\ run \in RunType
    /\ report \in Reports
    /\ asked \subseteq Pid

(* While a guest runs, it is an instance of the list, and in no call. *)
TurnOK ==
    run.at = "run" =>
        run.index <= Len(order) /\ proc[inst].call = None /\ proc[inst].body = "guest"

(* Only a guest that has an instance is in a call that blocked. *)
CallersOK ==
    \A q \in Pid : proc[q].call # None =>
        (P!Over \/ stack[q] # <<>>) /\ proc[q].body = "guest" /\ proc[q].call.op \in Uses

(* SleepersHaveDeadlines, by instance. *)
SleepOK ==
    /\ \A q \in Pid : wake[q] # None => P!Alive(q)
    /\ \A q \in Pid :
          stack[q] # <<>> /\ proc[q].call # None /\ Timed(proc[q].call)
              => wake[P!Current(q)] = proc[q].call.arg

SInv == PP!IInv /\ Values /\ ListOK /\ TurnOK /\ CallersOK /\ SleepOK

LEMMA InvariantImplies == SInv => TypeOK /\ SleepersHaveDeadlines
<1> SUFFICES ASSUME SInv PROVE TypeOK /\ SleepersHaveDeadlines
  OBVIOUS
<1>1. P!TypeOK
  BY SameType DEF SInv, PP!IInv
<1>2. Listed = P!Instances /\ Len(order) = Cardinality(Listed)
  BY ListsInstances DEF SInv
<1>3. TypeOK
  BY <1>1, <1>2 DEF SInv, Values, RunType, TypeOK
<1>4. SleepersHaveDeadlines
  BY <1>2 DEF SInv, SleepOK, SleepersHaveDeadlines, Sleepers, P!Instances, Pid
<1> QED
  BY <1>3, <1>4

LEMMA TheInstance ==
    ASSUME SInv, InGuest \/ Turn
    PROVE  /\ Len(order) \in Nat /\ Len(order) <= MaxPid
           /\ run.index \in 1 .. Len(order) /\ run.index <= MaxPid
           /\ inst \in Pid /\ stack[inst] # <<>>
           /\ task \in Pid /\ P!Alive(task)
           /\ proc[inst] \in Proc
<1>1. Len(order) \in Nat /\ Len(order) <= MaxPid
  BY ListsInstances DEF SInv
<1>2. run.index \in 1 .. Len(order)
  BY <1>1, SchedulerAssumption DEF SInv, TurnOK, Values, RunType, InGuest, Turn
<1>3. inst \in Pid /\ stack[inst] # <<>>
  BY <1>2, ListsInstances DEF SInv, inst
<1>4. run.index <= MaxPid
  <2> DEFINE k == Len(order)
             i == run.index
  <2>1. k \in Nat /\ k <= MaxPid /\ i \in 1 .. k /\ MaxPid \in Nat
    BY <1>1, <1>2, SchedulerAssumption
  <2> HIDE DEF k, i
  <2>2. i <= MaxPid
    BY <2>1
  <2> QED
    BY <2>2 DEF i
<1>5. task \in Pid /\ P!Alive(task)
  BY <1>3, FactsOfProcesses DEF SInv, ProcessFacts, task
<1> QED
  BY <1>1, <1>2, <1>3, <1>5, <1>4 DEF SInv, Values

-----------------------------------------------------------------------------
(* 5. Every step is one of the processes, or none of them moves. *)

LEMMA AnswerOfProcesses ==
    ASSUME NEW c \in Call, inst \in Pid, Answer(c)
    PROVE  [P!Next]_(P!vars)
<1>1. CASE c.op = "wait" /\ P!Reap(inst, c.arg)
  <2>1. c.arg \in Pid \cup {0}
    BY <1>1 DEF Call
  <2> QED
    BY <1>1, <2>1 DEF P!Next, Pid
<1>2. CASE UNCHANGED procVars
  BY <1>2 DEF procVars, P!vars
<1> QED
  BY <1>1, <1>2 DEF Answer

LEMMA GuestOfProcesses ==
    ASSUME SInv, Guest
    PROVE  [P!Next]_(P!vars)
<1>1. InGuest
  BY DEF Guest, GuestCalls, GuestBlocks, GuestExits, GuestMakesPipe, GuestCloses, GuestVforks,
         ChildExits, ChildExecs, GuestExecs, GuestExecFails
<1>2. inst \in P!Pid /\ inst \in Pid
  BY <1>1, TheInstance DEF Pid
<1>3. ASSUME NEW c \in Call, GuestCalls(c) PROVE [P!Next]_(P!vars)
  BY <1>2, <1>3, AnswerOfProcesses DEF GuestCalls
<1>4. ASSUME NEW status \in Codes \cup {"SIGSEGV"}, GuestExits(status) PROVE [P!Next]_(P!vars)
  <2>1. P!Finish(inst, status)
    BY <1>4 DEF GuestExits, EndInstance
  <2> QED
    BY <1>2, <2>1 DEF P!Next, P!Status
<1>5. CASE GuestVforks
  BY <1>2, <1>5 DEF GuestVforks, P!Next
<1>6. ASSUME NEW status \in Codes, ChildExits(status) PROVE [P!Next]_(P!vars)
  BY <1>2, <1>6 DEF ChildExits, P!Next
<1>7. ASSUME NEW body \in Bodies, ChildExecs(body) PROVE [P!Next]_(P!vars)
  BY <1>2, <1>7 DEF ChildExecs, P!Next
<1>8. CASE GuestExecFails
  BY <1>2, <1>8 DEF GuestExecFails, P!Next
<1>9. CASE \/ \E c \in Call : GuestBlocks(c)
           \/ GuestMakesPipe
           \/ \E end \in {"in", "r", "w"} : GuestCloses(end)
           \/ \E body \in Bodies : GuestExecs(body)
  BY <1>9 DEF GuestBlocks, Block, GuestMakesPipe, GuestCloses, GuestExecs, procVars, P!vars
<1> QED
  BY <1>3, <1>4, <1>5, <1>6, <1>7, <1>8, <1>9 DEF Guest

LEMMA HostOfProcesses ==
    ASSUME SInv, Host
    PROVE  [P!Next]_(P!vars)
<1>1. ASSUME NEW n, NEW status \in Codes \cup {"126"}, HostEnds(n, status)
      PROVE  [P!Next]_(P!vars)
  <2>1. Turn /\ P!Finish(inst, status)
    BY <1>1 DEF HostEnds, InputComplete, InHost, Awake
  <2>2. inst \in P!Pid
    BY <2>1, TheInstance DEF Pid
  <2> QED
    BY <2>1, <2>2 DEF P!Next, P!Status
<1>2. CASE HostWaitsForInput \/ HostSaysAgain \/ \E n \in 0 .. MaxOutput : HostFills(n)
  BY <1>2 DEF HostWaitsForInput, HostSaysAgain, HostFills, procVars, P!vars
<1> QED
  BY <1>1, <1>2 DEF Host

LEMMA LoopOfProcesses ==
    ASSUME SInv, Loop
    PROVE  [P!Next]_(P!vars)
<1>1. CASE RetryAnswered
  <2>1. Turn /\ Answer(proc[inst].call) /\ proc[inst].call # None
    BY <1>1 DEF RetryAnswered, Awake
  <2>2. inst \in Pid /\ proc[inst].call \in Call
    BY <2>1, TheInstance DEF Proc
  <2> QED
    BY <2>1, <2>2, AnswerOfProcesses
<1>2. CASE StartChild \/ StartChildFails \/ NothingLeft
  BY <1>2 DEF StartChild, StartChildFails, NothingLeft, P!Next
<1>3. CASE WallClock
  <2>1. order \in P!SetToSeqs(P!Instances)
    BY ListsInstances DEF SInv
  <2> QED
    BY <1>3, <2>1 DEF WallClock, P!Next
<1>4. CASE SkipParked \/ EnterGuest \/ RetryBlocked \/ BeginPass \/ GoIdle \/ OutOfBudget \/ GoRound
  BY <1>4 DEF SkipParked, EnterGuest, RetryBlocked, Block, BeginPass, GoIdle, OutOfBudget, GoRound,
              procVars, P!vars
<1> QED
  BY <1>1, <1>2, <1>3, <1>4 DEF Loop

LEMMA StepOfProcesses ==
    ASSUME SInv, [Next]_vars
    PROVE  [P!Next]_(P!vars)
<1>1. CASE Step \/ WriteStdin \/ CloseStdin \/ Tick \/ UNCHANGED vars
  BY <1>1 DEF Step, WriteStdin, CloseStdin, Tick, vars, procVars, P!vars
<1> QED
  BY <1>1, GuestOfProcesses, HostOfProcesses, LoopOfProcesses DEF Next

LEMMA OverStays == ASSUME [P!Next]_(P!vars), P!Over PROVE finished' = finished /\ stack' = stack
BY DEF P!Next, P!vars, P!Over, P!Vfork, P!ExecChild, P!InChild, P!ExecFails, P!ExitChild,
       P!Finish, P!Reap, P!Start, P!StartFails, P!KillAll, P!NoneLeft

(* A step that starts no call, and moves nobody who is in one.             *)
Quiet ==
    /\ \A q \in Pid : proc'[q].call # None =>
          /\ proc'[q].call = proc[q].call /\ proc'[q].body = proc[q].body
          /\ stack'[q] = stack[q] \/ (stack'[q] = <<>> /\ finished' # None)
    /\ \/ wake' = wake /\ \A p \in Pid : P!Alive(p) => P!AliveIn(table', p)
       \/ WakeOfTheLiving

LEMMA QuietKeeps ==
    ASSUME SInv, [P!Next]_(P!vars), Quiet
    PROVE  CallersOK' /\ SleepOK'
<1>1. ProcessFacts'
  BY FactsKept DEF SInv
<1>2. CallersOK'
  BY OverStays DEF SInv, CallersOK, Quiet, P!Over
<1>3. ASSUME NEW q \in Pid, wake'[q] # None
      PROVE  P!AliveIn(table', q)
  BY <1>3 DEF Quiet, WakeOfTheLiving, SInv, SleepOK
<1>4. ASSUME NEW q \in Pid, stack'[q] # <<>>, proc'[q].call # None, Timed(proc'[q].call)
      PROVE  wake'[stack'[q][Len(stack'[q])]] = proc'[q].call.arg
  <2>1. /\ proc'[q].call = proc[q].call /\ stack'[q] = stack[q]
    BY <1>4 DEF Quiet
  <2>2. wake[P!Current(q)] = proc[q].call.arg
    BY <1>4, <2>1 DEF SInv, SleepOK
  <2>3. P!Current(q) = stack'[q][Len(stack'[q])]
    BY <2>1 DEF P!Current
  <2>4. P!Current(q) \in Pid /\ P!AliveIn(table', P!Current(q))
    BY <1>1, <1>4, <2>3 DEF ProcessFacts, P!Current, P!Alive
  <2> QED
    BY <2>1, <2>2, <2>3, <2>4 DEF Quiet, WakeOfTheLiving, P!Current
<1> QED
  BY <1>2, <1>3, <1>4 DEF SleepOK, P!Alive, P!Current, Timed

-----------------------------------------------------------------------------
(* 6. What the parts of the actions leave.                                 *)

LEMMA AdvanceRun ==
    ASSUME run \in RunType, run.index <= MaxPid, NEW ran \in BOOLEAN, Advance(ran)
    PROVE  /\ run' \in RunType /\ run'.at = "pass" /\ run'.index = run.index + 1
           /\ run'.progressed <=> run.progressed \/ ran
<1>1. run.index + 1 \in 1 .. MaxPid + 1
  BY SchedulerAssumption DEF RunType
<1>2. (run.progressed \/ ran) \in BOOLEAN
  BY DEF RunType
<1> QED
  BY <1>1, <1>2 DEF RunType, Advance, NoFlags

LEMMA EndedRun ==
    ASSUME run \in RunType, Ended
    PROVE  /\ run' \in RunType /\ run'.index = run.index
           /\ (run'.at = "pass" /\ run'.progressed) \/ run'.at = "over"
BY DEF RunType, Ended, NoFlags

LEMMA CloseAllValues ==
    ASSUME Values, NEW D, CloseAll(D)
    PROVE  holds' \in [Pid -> SUBSET {"in", "r", "w"}] /\ fill' \in 0 .. PipeCapacity
BY SchedulerAssumption DEF Values, CloseAll, Pipe

LEMMA WakeValues ==
    ASSUME Values, WakeOfTheLiving PROVE wake' \in [Pid -> Time \cup {None}]
BY DEF Values, WakeOfTheLiving

LEMMA NewProcValues ==
    ASSUME NEW body \in Bodies \cup {"guest"}
    PROVE  /\ NewProc(body) \in Proc /\ NewProc(body).call = None
           /\ NewProc(body).body = body /\ ~NewProc(body).parked /\ NewProc(body).left = None
BY SchedulerAssumption DEF NewProc, Proc

LEMMA ParkValues ==
    ASSUME NEW pr \in Proc
    PROVE  /\ Park(pr) \in Proc /\ Park(pr).call = pr.call
           /\ Park(pr).body = pr.body /\ Park(pr).left = pr.left
           /\ Park(pr).parked <=> \E why \in {"vfs", "host"} : pending'[why] /\ ~Before[why]
<1>1. (\E why \in {"vfs", "host"} : pending'[why] /\ ~Before[why]) \in BOOLEAN
  OBVIOUS
<1> QED
  BY <1>1 DEF Park, Proc

(* A call that is answered. *)
LEMMA AnswerValues ==
    ASSUME SInv, inst \in Pid, NEW c \in Call, Answer(c)
    PROVE  /\ fill' \in 0 .. PipeCapacity
           /\ stdin' \in [data : 0 .. 1, closed : BOOLEAN, wanted : BOOLEAN]
           /\ wake' \in [Pid -> Time \cup {None}]
           /\ stack' = stack
           /\ \/ wake' = wake /\ \A p \in Pid : P!Alive(p) => P!AliveIn(table', p)
              \/ WakeOfTheLiving
<1>1. fill' \in 0 .. PipeCapacity
  <2>1. fill \in Nat /\ fill <= PipeCapacity /\ PipeCapacity \in Nat
    BY SchedulerAssumption DEF SInv, Values
  <2>2. fill' \in 0 .. fill - 1 \/ fill' \in fill + 1 .. PipeCapacity \/ fill' = fill
    BY DEF Answer
  <2> QED
    BY <2>1, <2>2
<1>2. stdin' \in [data : 0 .. 1, closed : BOOLEAN, wanted : BOOLEAN]
  <2>1. stdin \in [data : 0 .. 1, closed : BOOLEAN, wanted : BOOLEAN]
    BY DEF SInv, Values
  <2>2. \/ stdin' = stdin
        \/ stdin.data > 0 /\ stdin' = [stdin EXCEPT !.data = @ - 1, !.wanted = FALSE]
    BY Zenon DEF Answer
  <2>3. stdin.data > 0 => stdin.data - 1 \in 0 .. 1
    BY <2>1
  <2> QED
    BY <2>1, <2>2, <2>3
<1>3. CASE UNCHANGED <<procVars, wake>>
  BY <1>1, <1>2, <1>3 DEF SInv, Values, procVars, P!Alive
<1>4. CASE P!Reap(inst, c.arg) /\ WakeOfTheLiving
  BY <1>1, <1>2, <1>4, WakeValues DEF SInv, P!Reap
<1> QED
  BY <1>3, <1>4 DEF Answer

(* A call that blocks. *)
LEMMA BlockValues ==
    ASSUME Values, inst \in Pid, task \in Pid, NEW c \in Call, Block(c)
    PROVE  /\ stdin' \in [data : 0 .. 1, closed : BOOLEAN, wanted : BOOLEAN]
           /\ wake' \in [Pid -> Time \cup {None}]
           /\ pending' \in [vfs : BOOLEAN, host : BOOLEAN]
           /\ asked' \subseteq Pid
           /\ proc' \in [Pid -> Proc]
           /\ proc'[inst].call = c /\ proc'[inst].body = proc[inst].body
           /\ \A q \in Pid : q # inst => proc'[q] = proc[q]
           /\ UNCHANGED <<procVars, order, holds, fill, now, report>>
<1>1. stdin' \in [data : 0 .. 1, closed : BOOLEAN, wanted : BOOLEAN]
  <2>1. PICK asks \in Asks(c) : stdin' = [stdin EXCEPT !.wanted = @ \/ asks]
    BY DEF Block
  <2>2. asks \in BOOLEAN
    BY DEF Asks
  <2>3. (stdin.wanted \/ asks) \in BOOLEAN
    OBVIOUS
  <2> QED
    BY <2>1, <2>3 DEF Values
<1>2. wake' \in [Pid -> Time \cup {None}]
  <2>1. Timed(c) => c.arg \in Time
    BY DEF Timed, Polls, Call
  <2> QED
    BY <2>1 DEF Values, Block
<1>3. pending' \in [vfs : BOOLEAN, host : BOOLEAN]
  <2>1. (pending.vfs \/ c.op = "vfs") \in BOOLEAN
    OBVIOUS
  <2> QED
    BY <2>1 DEF Values, Block
<1>4. asked' \subseteq Pid
  BY DEF Values, Block
<1>5. /\ [proc[inst] EXCEPT !.call = c] \in Proc
      /\ [proc[inst] EXCEPT !.call = c].call = c
      /\ [proc[inst] EXCEPT !.call = c].body = proc[inst].body
  BY DEF Values, Proc
<1> DEFINE new == Park([proc[inst] EXCEPT !.call = c])
<1>6. new \in Proc /\ new.call = c /\ new.body = proc[inst].body
  BY <1>5, ParkValues
<1>7. proc' = [proc EXCEPT ![inst] = new]
  BY DEF Block
<1> HIDE DEF new
<1>8. /\ proc' \in [Pid -> Proc] /\ proc'[inst] = new
      /\ \A q \in Pid : q # inst => proc'[q] = proc[q]
  BY <1>6, <1>7 DEF Values
<1> QED
  BY <1>1, <1>2, <1>3, <1>4, <1>6, <1>8 DEF Block

LEMMA BlockKeeps ==
    ASSUME SInv, InGuest \/ Turn, NEW c \in Call, Block(c),
           proc[inst].body = "guest", c.op \in Uses
    PROVE  CallersOK' /\ SleepOK'
<1>1. inst \in Pid /\ stack[inst] # <<>> /\ task \in Pid /\ P!Alive(task)
  BY TheInstance
<1>2. /\ proc'[inst].call = c /\ proc'[inst].body = "guest"
      /\ \A q \in Pid : q # inst => proc'[q] = proc[q]
      /\ table' = table /\ stack' = stack /\ finished' = finished
  BY <1>1, BlockValues DEF SInv, procVars
<1>3. CallersOK'
  BY <1>1, <1>2 DEF SInv, CallersOK, P!Over
<1>4. wake' = IF Timed(c) THEN [wake EXCEPT ![task] = c.arg] ELSE wake
  BY DEF Block
<1>5. ASSUME NEW q \in Pid, wake'[q] # None PROVE P!AliveIn(table', q)
  BY <1>1, <1>2, <1>4, <1>5 DEF SInv, SleepOK, Values, P!Alive
<1>6. ASSUME NEW q \in Pid, stack[q] # <<>>, proc'[q].call # None, Timed(proc'[q].call)
      PROVE  wake'[P!Current(q)] = proc'[q].call.arg
  <2>1. CASE q = inst
    BY <1>1, <1>2, <1>4, <1>6, <2>1 DEF SInv, Values, task
  <2>2. CASE q # inst
    <3>1. P!Current(q) \in Pid /\ P!Current(q) # task
      BY <1>1, <1>6, <2>2, FactsOfProcesses DEF SInv, ProcessFacts, task
    <3>2. wake[P!Current(q)] = proc[q].call.arg /\ proc'[q] = proc[q]
      BY <1>2, <1>6, <2>2 DEF SInv, SleepOK
    <3> QED
      BY <1>4, <3>1, <3>2 DEF SInv, Values
  <2> QED
    BY <2>1, <2>2
<1>7. SleepOK'
  BY <1>2, <1>5, <1>6 DEF SleepOK, P!Alive, P!Current, Timed
<1> QED
  BY <1>3, <1>7

(* The end of an instance, whatever ended it. *)
LEMMA EndKeeps ==
    ASSUME SInv, InGuest \/ Turn, [P!Next]_(P!vars),
           stack' = [stack EXCEPT ![inst] = <<>>], order' = RemoveAt(order, run.index),
           proc' = [proc EXCEPT ![inst] = NewProc("guest")], WakeOfTheLiving
    PROVE  /\ ListOK' /\ CallersOK' /\ SleepOK'
           /\ proc' \in [Pid -> Proc] /\ wake' \in [Pid -> Time \cup {None}]
<1>1. run.index \in 1 .. Len(order) /\ inst \in Pid /\ stack \in [Pid -> Seq(Pid)]
  BY TheInstance, FactsOfProcesses DEF SInv, ProcessFacts
<1>2. ListOK'
  BY <1>1, ListRemoved DEF SInv, inst
<1>3. NewProc("guest") \in Proc /\ NewProc("guest").call = None
  BY NewProcValues
<1>4. /\ proc' \in [Pid -> Proc] /\ proc'[inst].call = None
      /\ \A q \in Pid : q # inst => proc'[q] = proc[q] /\ stack'[q] = stack[q]
  BY <1>1, <1>3 DEF SInv, Values
<1>5. Quiet
  BY <1>4 DEF Quiet
<1> QED
  BY <1>2, <1>4, <1>5, QuietKeeps, WakeValues DEF SInv

LEMMA TurnStays ==
    ASSUME TurnOK, run' = run, order' = order,
           run.at = "run" => proc'[inst].call = None /\ proc'[inst].body = "guest"
    PROVE  TurnOK'
BY DEF TurnOK, inst

LEMMA TurnEnds == ASSUME run'.at # "run" PROVE TurnOK'
BY DEF TurnOK

(* The parts of the invariant that are not about the processes. *)
Own == Values /\ ListOK /\ TurnOK /\ CallersOK /\ SleepOK

-----------------------------------------------------------------------------
(* 7. The steps of a guest. *)

LEMMA CallsKeep == ASSUME SInv, NEW c \in Call, GuestCalls(c) PROVE Own'
<1>1. inst \in Pid /\ Answer(c) /\ UNCHANGED <<proc, run>>
  BY TheInstance DEF GuestCalls
<1>2. [P!Next]_(P!vars)
  BY <1>1, AnswerOfProcesses
<1>3. /\ fill' \in 0 .. PipeCapacity
      /\ stdin' \in [data : 0 .. 1, closed : BOOLEAN, wanted : BOOLEAN]
      /\ wake' \in [Pid -> Time \cup {None}] /\ stack' = stack
  BY <1>1, AnswerValues
<1>4. UNCHANGED <<order, holds, now, pending, report, asked>>
  BY <1>1 DEF Answer
<1>5. Values'
  BY <1>1, <1>3, <1>4 DEF SInv, Values
<1>6. ListOK' /\ TurnOK'
  BY <1>1, <1>3, <1>4, ListKept, TurnStays DEF SInv, TurnOK
<1>7. Quiet
  BY <1>1, <1>3, AnswerValues DEF Quiet
<1> QED
  BY <1>2, <1>5, <1>6, <1>7, QuietKeeps DEF Own

LEMMA BlocksKeep == ASSUME SInv, NEW c \in Call, GuestBlocks(c) PROVE Own'
<1>1. /\ inst \in Pid /\ task \in Pid /\ run.index <= MaxPid
      /\ Block(c) /\ Advance(TRUE) /\ c.op \in Uses /\ proc[inst].body = "guest"
  <2>1. InGuest /\ Block(c) /\ Advance(TRUE) /\ c.op \in Uses
    BY DEF GuestBlocks, Requests
  <2> QED
    BY <2>1, TheInstance DEF SInv, TurnOK, InGuest
<1>2. run' \in RunType /\ run'.at = "pass"
  BY <1>1, AdvanceRun DEF SInv, Values
<1>3. /\ stdin' \in [data : 0 .. 1, closed : BOOLEAN, wanted : BOOLEAN]
      /\ wake' \in [Pid -> Time \cup {None}] /\ pending' \in [vfs : BOOLEAN, host : BOOLEAN]
      /\ asked' \subseteq Pid /\ proc' \in [Pid -> Proc]
      /\ UNCHANGED <<procVars, order, holds, fill, now, report>>
  BY <1>1, BlockValues DEF SInv
<1>4. Values'
  BY <1>2, <1>3 DEF SInv, Values
<1>5. ListOK' /\ TurnOK'
  BY <1>2, <1>3, ListKept, TurnEnds DEF SInv, procVars
<1>6. CallersOK' /\ SleepOK'
  BY <1>1, BlockKeeps DEF GuestBlocks
<1> QED
  BY <1>4, <1>5, <1>6 DEF Own

LEMMA ExitsKeep == ASSUME SInv, NEW status \in Codes \cup {"SIGSEGV"}, GuestExits(status) PROVE Own'
<1>1. /\ InGuest /\ inst \in Pid /\ stack' = [stack EXCEPT ![inst] = <<>>]
      /\ order' = RemoveAt(order, run.index) /\ proc' = [proc EXCEPT ![inst] = NewProc("guest")]
      /\ CloseAll(ToSet(stack[inst])) /\ WakeOfTheLiving /\ Ended
      /\ UNCHANGED <<stdin, now, pending, report, asked>>
  BY TheInstance DEF GuestExits, EndInstance, P!Finish
<1>2. [P!Next]_(P!vars)
  BY GuestOfProcesses DEF Guest
<1>3. /\ ListOK' /\ CallersOK' /\ SleepOK'
      /\ proc' \in [Pid -> Proc] /\ wake' \in [Pid -> Time \cup {None}]
  BY <1>1, <1>2, EndKeeps
<1>4. run' \in RunType /\ run'.at # "run"
  BY <1>1, EndedRun DEF SInv, Values
<1>5. Values'
  BY <1>1, <1>3, <1>4, CloseAllValues DEF SInv, Values
<1> QED
  BY <1>3, <1>4, <1>5, TurnEnds DEF Own

LEMMA FailedExecKeeps == ASSUME SInv, GuestExecFails PROVE Own'
<1>1. /\ InGuest /\ inst \in Pid /\ stack' = [stack EXCEPT ![inst] = <<>>] /\ run.index <= MaxPid
      /\ order' = RemoveAt(order, run.index) /\ proc' = [proc EXCEPT ![inst] = NewProc("guest")]
      /\ CloseAll({inst}) /\ WakeOfTheLiving /\ Advance(FALSE)
      /\ UNCHANGED <<stdin, now, pending, report, asked>>
  BY TheInstance DEF GuestExecFails, P!ExecFails
<1>2. [P!Next]_(P!vars)
  BY GuestOfProcesses DEF Guest
<1>3. /\ ListOK' /\ CallersOK' /\ SleepOK'
      /\ proc' \in [Pid -> Proc] /\ wake' \in [Pid -> Time \cup {None}]
  BY <1>1, <1>2, EndKeeps
<1>4. run' \in RunType /\ run'.at = "pass"
  BY <1>1, AdvanceRun DEF SInv, Values
<1>5. Values'
  BY <1>1, <1>3, <1>4, CloseAllValues DEF SInv, Values
<1> QED
  BY <1>3, <1>4, <1>5, TurnEnds DEF Own

LEMMA PipesKeep ==
    ASSUME SInv, GuestMakesPipe \/ \E end \in {"in", "r", "w"} : GuestCloses(end)
    PROVE  Own'
<1>1. /\ holds' \in [Pid -> SUBSET {"in", "r", "w"}] /\ fill' \in 0 .. PipeCapacity
      /\ UNCHANGED <<procVars, order, proc, stdin, wake, now, pending, run, report, asked>>
  <2>1. CASE GuestMakesPipe
    BY <2>1 DEF SInv, Values, GuestMakesPipe
  <2>2. ASSUME NEW end \in {"in", "r", "w"}, GuestCloses(end)
        PROVE  /\ holds' \in [Pid -> SUBSET {"in", "r", "w"}] /\ fill' \in 0 .. PipeCapacity
               /\ UNCHANGED <<procVars, order, proc, stdin, wake, now, pending, run, report, asked>>
    <3>1. holds' = [holds EXCEPT ![task] = @ \ {end}] /\ (fill' = fill \/ fill' = 0)
      BY <2>2 DEF GuestCloses, Pipe
    <3>2. fill' \in 0 .. PipeCapacity
      BY <3>1, SchedulerAssumption DEF SInv, Values
    <3>3. holds' \in [Pid -> SUBSET {"in", "r", "w"}]
      BY <3>1 DEF SInv, Values
    <3> QED
      BY <2>2, <3>2, <3>3 DEF GuestCloses
  <2> QED
    BY <2>1, <2>2
<1>2. Values'
  BY <1>1 DEF SInv, Values
<1>3. ListOK' /\ TurnOK'
  BY <1>1, ListKept, TurnStays DEF SInv, TurnOK, procVars
<1>4. [P!Next]_(P!vars)
  BY <1>1 DEF procVars, P!vars
<1>5. Quiet
  BY <1>1 DEF Quiet, procVars, P!Alive
<1> QED
  BY <1>2, <1>3, <1>4, <1>5, QuietKeeps DEF Own

LEMMA VforksKeep == ASSUME SInv, GuestVforks PROVE Own'
<1>1. /\ inst \in Pid /\ task \in Pid /\ InGuest /\ P!Vfork(inst)
      /\ holds' = [holds EXCEPT ![nextPid] = holds[task]]
      /\ UNCHANGED <<order, proc, fill, stdin, wake, now, pending, run, report, asked>>
  BY TheInstance DEF GuestVforks
<1>2. [P!Next]_(P!vars)
  BY GuestOfProcesses DEF Guest
<1>3. ProcessFacts
  BY FactsOfProcesses DEF SInv
<1>4. /\ stack[inst] # <<>> /\ stack'[inst] # <<>>
      /\ \A q \in Pid : q # inst => stack'[q] = stack[q]
  BY <1>1, <1>3, SameInstances
<1>5. Values'
  BY <1>1 DEF SInv, Values
<1>6. ListOK' /\ TurnOK' /\ proc'[inst].call = None
  BY <1>1, <1>4, ListKept, TurnStays DEF SInv, TurnOK, InGuest
<1>7. ASSUME NEW p \in Pid, P!Alive(p) PROVE P!AliveIn(table', p)
  <2>1. nextPid \in Pid /\ table' = [table EXCEPT ![nextPid] = P!Record(P!Current(inst))]
    BY <1>1, <1>3, SchedulerAssumption DEF P!Vfork, ProcessFacts, Pid, P!Pid
  <2>2. table[p] # None /\ table[nextPid] = None
    BY <1>3, <1>7, <2>1 DEF ProcessFacts, P!Alive, P!AliveIn
  <2> QED
    BY <1>3, <1>7, <2>1, <2>2 DEF ProcessFacts, P!Alive, P!AliveIn
<1>8. Quiet
  BY <1>1, <1>4, <1>6, <1>7 DEF Quiet
<1> QED
  BY <1>2, <1>5, <1>6, <1>8, QuietKeeps DEF Own

LEMMA ChildrenKeep ==
    ASSUME SInv, \/ \E status \in Codes : ChildExits(status)
                 \/ \E body \in Bodies : ChildExecs(body)
    PROVE  Own'
<1>1. /\ InGuest /\ inst \in Pid /\ task \in Pid /\ ProcessFacts
      /\ P!ExecChild(inst) \/ \E status \in Codes : P!ExitChild(inst, status)
  BY TheInstance, FactsOfProcesses DEF SInv, ChildExits, ChildExecs
<1>2. [P!Next]_(P!vars)
  BY GuestOfProcesses DEF Guest
<1>3. /\ stack[inst] # <<>> /\ stack'[inst] # <<>>
      /\ \A q \in Pid : q # inst => stack'[q] = stack[q]
  BY <1>1, SameInstances
<1>4. task # inst
  BY <1>1 DEF ProcessFacts, P!ExecChild, P!ExitChild, P!InChild, task
<1>5. proc[inst].call = None /\ proc[inst].body = "guest"
  BY <1>1 DEF SInv, TurnOK, InGuest
<1>6. ASSUME NEW status \in Codes, ChildExits(status) PROVE Own'
  <2>1. /\ CloseAll({task}) /\ WakeOfTheLiving
        /\ UNCHANGED <<order, proc, stdin, now, pending, run, report, asked>>
    BY <1>6 DEF ChildExits
  <2>2. Values'
    BY <2>1, CloseAllValues, WakeValues DEF SInv, Values
  <2>3. ListOK' /\ TurnOK'
    BY <1>3, <1>5, <2>1, ListKept, TurnStays DEF SInv
  <2>4. Quiet
    BY <1>3, <1>5, <2>1 DEF Quiet
  <2> QED
    BY <1>2, <2>2, <2>3, <2>4, QuietKeeps DEF Own
<1>7. ASSUME NEW body \in Bodies, ChildExecs(body) PROVE Own'
  <2>1. /\ proc' = [proc EXCEPT ![task] = NewProc(body)] /\ table' = table
        /\ UNCHANGED <<order, ioVars, wake, now, pending, run, report, asked>>
    BY <1>7 DEF ChildExecs, P!ExecChild
  <2>2. NewProc(body) \in Proc /\ NewProc(body).call = None
    BY NewProcValues
  <2>3. /\ proc' \in [Pid -> Proc] /\ proc'[task].call = None
        /\ \A q \in Pid : q # task => proc'[q] = proc[q]
    BY <1>1, <2>1, <2>2 DEF SInv, Values
  <2>4. Values'
    BY <2>1, <2>3 DEF SInv, Values, ioVars
  <2>5. ListOK' /\ TurnOK'
    BY <1>1, <1>3, <1>4, <1>5, <2>1, <2>3, ListKept, TurnStays DEF SInv
  <2>6. Quiet
    BY <1>1, <1>3, <1>4, <1>5, <2>1, <2>3 DEF Quiet, P!Alive
  <2> QED
    BY <1>2, <2>4, <2>5, <2>6, QuietKeeps DEF Own
<1> QED
  BY <1>6, <1>7

LEMMA ExecsKeep == ASSUME SInv, NEW body \in Bodies, GuestExecs(body) PROVE Own'
<1>1. /\ inst \in Pid /\ run.index <= MaxPid /\ Advance(TRUE)
      /\ proc' = [proc EXCEPT ![inst] = NewProc(body)]
      /\ UNCHANGED <<procVars, order, ioVars, wake, now, pending, report, asked>>
  BY TheInstance DEF GuestExecs
<1>2. run' \in RunType /\ run'.at = "pass"
  BY <1>1, AdvanceRun DEF SInv, Values
<1>3. NewProc(body) \in Proc /\ NewProc(body).call = None
  BY NewProcValues
<1>4. /\ proc' \in [Pid -> Proc] /\ proc'[inst].call = None
      /\ \A q \in Pid : q # inst => proc'[q] = proc[q]
  BY <1>1, <1>3 DEF SInv, Values
<1>5. Values'
  BY <1>1, <1>2, <1>4 DEF SInv, Values, ioVars
<1>6. ListOK' /\ TurnOK'
  BY <1>1, <1>2, ListKept, TurnEnds DEF SInv, procVars
<1>7. [P!Next]_(P!vars)
  BY <1>1 DEF procVars, P!vars
<1>8. Quiet
  BY <1>1, <1>4 DEF Quiet, procVars, P!Alive
<1> QED
  BY <1>5, <1>6, <1>7, <1>8, QuietKeeps DEF Own

LEMMA GuestKeeps == ASSUME SInv, Guest PROVE Own'
BY CallsKeep, BlocksKeep, ExitsKeep, FailedExecKeeps, PipesKeep, VforksKeep, ChildrenKeep, ExecsKeep
   DEF Guest

-----------------------------------------------------------------------------
(* 8. The steps of a host command, of the loop and of the caller. *)

LEMMA HostValues ==
    ASSUME SInv
    PROVE  /\ Drained \in 0 .. PipeCapacity
           /\ \A wanted \in BOOLEAN :
                 Emptied(wanted) \in [data : 0 .. 1, closed : BOOLEAN, wanted : BOOLEAN]
           /\ (stdin.wanted /\ stdin.data = 0) \in BOOLEAN
<1>1. Drained \in 0 .. PipeCapacity
  BY SchedulerAssumption DEF SInv, Values, Drained
<1>2. stdin \in [data : 0 .. 1, closed : BOOLEAN, wanted : BOOLEAN]
  BY DEF SInv, Values
<1>3. ASSUME NEW wanted \in BOOLEAN
      PROVE  Emptied(wanted) \in [data : 0 .. 1, closed : BOOLEAN, wanted : BOOLEAN]
  <2>1. [stdin EXCEPT !.data = 0, !.wanted = wanted]
           \in [data : 0 .. 1, closed : BOOLEAN, wanted : BOOLEAN]
    <3>1. 0 \in 0 .. 1
      OBVIOUS
    <3> QED
      BY <1>2, <3>1
  <2> QED
    BY <1>2, <2>1, Zenon DEF Emptied
<1> QED
  BY <1>1, <1>3

LEMMA HostsKeep == ASSUME SInv, HostWaitsForInput \/ HostSaysAgain PROVE Own'
<1>1. /\ inst \in Pid /\ run.index <= MaxPid /\ proc[inst] \in Proc /\ Advance(FALSE)
      /\ UNCHANGED <<procVars, order, holds, wake, now, report>>
  BY TheInstance DEF HostWaitsForInput, HostSaysAgain, InputComplete, InHost, Awake
<1>2. run' \in RunType /\ run'.at = "pass"
  BY <1>1, AdvanceRun DEF SInv, Values
<1>3. fill' = Drained /\ \E wanted \in BOOLEAN : stdin' = Emptied(wanted)
  BY HostValues DEF HostWaitsForInput, HostSaysAgain, InputComplete
<1>4. /\ fill' \in 0 .. PipeCapacity
      /\ stdin' \in [data : 0 .. 1, closed : BOOLEAN, wanted : BOOLEAN]
  BY <1>3, HostValues
<1>5. /\ pending' \in [vfs : BOOLEAN, host : BOOLEAN] /\ asked' \subseteq Pid
      /\ proc' \in [Pid -> Proc]
      /\ \A q \in Pid : proc'[q].call = proc[q].call /\ proc'[q].body = proc[q].body
  <2>1. CASE HostWaitsForInput
    BY <2>1 DEF HostWaitsForInput, SInv, Values
  <2>2. CASE HostSaysAgain
    <3>1. /\ Park(proc[inst]) \in Proc /\ Park(proc[inst]).call = proc[inst].call
          /\ Park(proc[inst]).body = proc[inst].body
      BY <1>1, ParkValues
    <3>2. /\ proc' = [proc EXCEPT ![inst] = Park(proc[inst])] /\ asked' = asked \cup {inst}
          /\ pending' = [pending EXCEPT !.host = TRUE]
      BY <2>2 DEF HostSaysAgain
    <3>3. proc \in [Pid -> Proc] /\ pending \in [vfs : BOOLEAN, host : BOOLEAN] /\ asked \subseteq Pid
      BY DEF SInv, Values
    <3> HIDE DEF Park
    <3> QED
      BY <1>1, <3>1, <3>2, <3>3
  <2> QED
    BY <2>1, <2>2
<1>6. Values'
  BY <1>1, <1>2, <1>4, <1>5 DEF SInv, Values
<1>7. ListOK' /\ TurnOK'
  BY <1>1, <1>2, ListKept, TurnEnds DEF SInv, procVars
<1>8. [P!Next]_(P!vars) /\ Quiet
  BY <1>1, <1>5 DEF procVars, P!vars, Quiet, P!Alive
<1> QED
  BY <1>6, <1>7, <1>8, QuietKeeps DEF Own

LEMMA FillsKeep == ASSUME SInv, NEW n \in 0 .. MaxOutput, HostFills(n) PROVE Own'
<1>1. /\ inst \in Pid /\ run.index <= MaxPid /\ proc[inst] \in Proc /\ Advance(FALSE)
      /\ fill' = PipeCapacity /\ n > PipeCapacity - Drained
      /\ proc' = [proc EXCEPT ![inst].left = n - (PipeCapacity - Drained)]
      /\ UNCHANGED <<procVars, order, holds, wake, now, pending, report, asked>>
  BY TheInstance DEF HostFills, InputComplete, InHost, Awake
<1>2. run' \in RunType /\ run'.at = "pass"
  BY <1>1, AdvanceRun DEF SInv, Values
<1>3. stdin' \in [data : 0 .. 1, closed : BOOLEAN, wanted : BOOLEAN]
  BY HostValues DEF HostFills, InputComplete
<1>4. n - (PipeCapacity - Drained) \in 0 .. MaxOutput
  <2> DEFINE d == Drained
  <2>1. d \in 0 .. PipeCapacity /\ n > PipeCapacity - d
    BY <1>1, HostValues
  <2> HIDE DEF d
  <2>2. n - (PipeCapacity - d) \in 0 .. MaxOutput
    BY <2>1, SchedulerAssumption
  <2> QED
    BY <2>2 DEF d
<1> DEFINE left == n - (PipeCapacity - Drained)
<1> HIDE DEF left
<1>5. /\ proc' \in [Pid -> Proc]
      /\ \A q \in Pid : proc'[q].call = proc[q].call /\ proc'[q].body = proc[q].body
  <2>1. [proc[inst] EXCEPT !.left = left] \in Proc
    BY <1>1, <1>4 DEF Proc, left
  <2>2. proc' = [proc EXCEPT ![inst] = [@ EXCEPT !.left = left]]
    BY <1>1 DEF left
  <2> QED
    BY <1>1, <2>1, <2>2 DEF SInv, Values, Proc
<1>6. Values'
  BY <1>1, <1>2, <1>3, <1>5, SchedulerAssumption DEF SInv, Values
<1>7. ListOK' /\ TurnOK'
  BY <1>1, <1>2, ListKept, TurnEnds DEF SInv, procVars
<1>8. [P!Next]_(P!vars) /\ Quiet
  BY <1>1, <1>5 DEF procVars, P!vars, Quiet, P!Alive
<1> QED
  BY <1>6, <1>7, <1>8, QuietKeeps DEF Own

LEMMA EndsKeep ==
    ASSUME SInv, NEW n \in 0 .. MaxOutput, NEW status \in Codes \cup {"126"}, HostEnds(n, status)
    PROVE  Own'
<1>1. /\ Turn /\ inst \in Pid /\ stack' = [stack EXCEPT ![inst] = <<>>]
      /\ order' = RemoveAt(order, run.index) /\ proc' = [proc EXCEPT ![inst] = NewProc("guest")]
      /\ WakeOfTheLiving /\ Ended /\ UNCHANGED <<now, pending, report, asked>>
      /\ holds' = [holds EXCEPT ![inst] = {}]
      /\ fill' = Pipe(holds', IF ToPipe(n) THEN Drained + n ELSE Drained)
      /\ ToPipe(n) => n <= PipeCapacity - Drained
  BY TheInstance DEF HostEnds, InputComplete, InHost, Awake, P!Finish
<1>2. [P!Next]_(P!vars)
  BY HostOfProcesses DEF Host
<1>3. /\ ListOK' /\ CallersOK' /\ SleepOK'
      /\ proc' \in [Pid -> Proc] /\ wake' \in [Pid -> Time \cup {None}]
  BY <1>1, <1>2, EndKeeps
<1>4. run' \in RunType /\ run'.at # "run"
  BY <1>1, EndedRun DEF SInv, Values
<1>5. fill' \in 0 .. PipeCapacity
  <2> DEFINE d == Drained
             m == IF ToPipe(n) THEN d + n ELSE d
  <2>1. d \in 0 .. PipeCapacity /\ (ToPipe(n) => n <= PipeCapacity - d)
    BY <1>1, HostValues
  <2>2. fill' = m \/ fill' = 0
    BY <1>1 DEF Pipe
  <2> HIDE DEF d
  <2>3. m \in 0 .. PipeCapacity
    BY <2>1, SchedulerAssumption
  <2> HIDE DEF m
  <2> QED
    BY <2>2, <2>3, SchedulerAssumption
<1>6. stdin' \in [data : 0 .. 1, closed : BOOLEAN, wanted : BOOLEAN]
  BY HostValues DEF HostEnds, InputComplete
<1>7. holds' \in [Pid -> SUBSET {"in", "r", "w"}]
  BY <1>1 DEF SInv, Values
<1>8. Values'
  BY <1>1, <1>3, <1>4, <1>5, <1>6, <1>7 DEF SInv, Values
<1> QED
  BY <1>3, <1>4, <1>8, TurnEnds DEF Own

LEMMA HostKeeps == ASSUME SInv, Host PROVE Own'
BY HostsKeep, FillsKeep, EndsKeep DEF Host

LEMMA TurnsKeep == ASSUME SInv, SkipParked \/ EnterGuest PROVE Own'
<1>1. /\ inst \in Pid /\ run.index <= MaxPid
      /\ UNCHANGED <<procVars, order, proc, ioVars, wake, now, pending, report, asked>>
  BY TheInstance DEF SkipParked, EnterGuest, Awake
<1>2. run' \in RunType
  <2>1. CASE SkipParked
    BY <1>1, <2>1, AdvanceRun DEF SInv, Values, SkipParked
  <2>2. CASE EnterGuest
    BY <2>2 DEF SInv, Values, EnterGuest, RunType
  <2> QED
    BY <2>1, <2>2
<1>3. Values'
  BY <1>1, <1>2 DEF SInv, Values, ioVars
<1>4. TurnOK'
  <2>1. CASE SkipParked
    BY <1>1, <2>1, AdvanceRun, TurnEnds DEF SInv, Values, SkipParked
  <2>2. CASE EnterGuest
    <3>1. /\ proc[inst].body = "guest" /\ proc[inst].call = None /\ run.index <= Len(order)
          /\ run'.index = run.index
      BY <2>2 DEF EnterGuest, Awake, Turn, SInv, Values, RunType
    <3> QED
      BY <1>1, <3>1 DEF TurnOK, inst
  <2> QED
    BY <2>1, <2>2
<1>5. ListOK'
  BY <1>1, ListKept DEF SInv, procVars
<1>6. [P!Next]_(P!vars) /\ Quiet
  BY <1>1 DEF procVars, P!vars, Quiet, P!Alive
<1> QED
  BY <1>3, <1>4, <1>5, <1>6, QuietKeeps DEF Own

LEMMA RetriesKeep == ASSUME SInv, RetryAnswered \/ RetryBlocked PROVE Own'
<1>1. /\ Turn /\ inst \in Pid /\ task \in Pid /\ run.index <= MaxPid /\ run.index <= Len(order)
      /\ proc[inst].call \in Call /\ proc[inst].call # None /\ stack[inst] # <<>>
      /\ proc[inst].body = "guest" /\ proc[inst].call.op \in Uses
  <2>1. Turn /\ proc[inst].call # None
    BY DEF RetryAnswered, RetryBlocked, Awake
  <2> QED
    BY <2>1, TheInstance DEF Turn, Proc, SInv, CallersOK
<1>2. CASE RetryAnswered
  <2>1. /\ Answer(proc[inst].call) /\ proc' = [proc EXCEPT ![inst].call = None]
        /\ run' = [run EXCEPT !.at = "run", !.waited = pending]
        /\ UNCHANGED <<order, holds, now, pending, report, asked>>
    BY <1>2 DEF RetryAnswered, Answer
  <2>2. [P!Next]_(P!vars)
    BY <1>1, <2>1, AnswerOfProcesses
  <2>3. /\ fill' \in 0 .. PipeCapacity
        /\ stdin' \in [data : 0 .. 1, closed : BOOLEAN, wanted : BOOLEAN]
        /\ wake' \in [Pid -> Time \cup {None}] /\ stack' = stack
    BY <1>1, <2>1, AnswerValues
  <2>4. /\ proc' \in [Pid -> Proc] /\ proc'[inst].call = None /\ proc'[inst].body = "guest"
        /\ \A q \in Pid : q # inst => proc'[q] = proc[q]
    <3>1. /\ [proc[inst] EXCEPT !.call = None] \in Proc
          /\ [proc[inst] EXCEPT !.call = None].call = None
          /\ [proc[inst] EXCEPT !.call = None].body = proc[inst].body
      BY <1>1 DEF SInv, Values, Proc
    <3> QED
      BY <1>1, <2>1, <3>1 DEF SInv, Values
  <2>5. run' \in RunType /\ run'.index = run.index
    BY <2>1 DEF SInv, Values, RunType
  <2>6. Values'
    BY <2>1, <2>3, <2>4, <2>5 DEF SInv, Values
  <2>7. ListOK'
    BY <2>1, <2>3, ListKept DEF SInv
  <2>8. TurnOK'
    BY <1>1, <2>1, <2>4, <2>5 DEF TurnOK, inst
  <2>9. Quiet
    BY <1>1, <2>1, <2>3, <2>4, AnswerValues DEF Quiet
  <2> QED
    BY <2>2, <2>6, <2>7, <2>8, <2>9, QuietKeeps DEF Own
<1>3. CASE RetryBlocked
  <2>1. Block(proc[inst].call) /\ Advance(FALSE)
    BY <1>3 DEF RetryBlocked
  <2>2. run' \in RunType /\ run'.at = "pass"
    BY <1>1, <2>1, AdvanceRun DEF SInv, Values
  <2>3. /\ stdin' \in [data : 0 .. 1, closed : BOOLEAN, wanted : BOOLEAN]
        /\ wake' \in [Pid -> Time \cup {None}] /\ pending' \in [vfs : BOOLEAN, host : BOOLEAN]
        /\ asked' \subseteq Pid /\ proc' \in [Pid -> Proc]
        /\ UNCHANGED <<procVars, order, holds, fill, now, report>>
    BY <1>1, <2>1, BlockValues DEF SInv
  <2>4. Values'
    BY <2>2, <2>3 DEF SInv, Values
  <2>5. ListOK' /\ TurnOK'
    BY <2>2, <2>3, ListKept, TurnEnds DEF SInv, procVars
  <2>6. CallersOK' /\ SleepOK'
    BY <1>1, <2>1, BlockKeeps
  <2> QED
    BY <2>4, <2>5, <2>6 DEF Own
<1> QED
  BY <1>2, <1>3

LEMMA StartsKeep == ASSUME SInv, StartChild PROVE Own'
<1>1. /\ run.at = "top" /\ ~P!Over /\ spawn # <<>>
      /\ stack' = [stack EXCEPT ![Head(spawn)] = <<Head(spawn)>>] /\ table' = table
      /\ order' = Append(order, Head(spawn))
      /\ UNCHANGED <<proc, ioVars, wake, now, pending, run, report, asked>>
  BY DEF StartChild, AtTop, P!Start
<1>2. Head(spawn) \in Pid /\ stack[Head(spawn)] = <<>> /\ stack \in [Pid -> Seq(Pid)]
  BY <1>1, FactsOfProcesses DEF SInv, ProcessFacts
<1>3. PICK h \in Pid : h = Head(spawn)
  BY <1>2
<1>4. Values'
  BY <1>1 DEF SInv, Values, ioVars
<1>5. ListOK'
  BY <1>1, <1>2, <1>3, ListAppended DEF SInv
<1>6. TurnOK'
  BY <1>1, TurnEnds
<1>7. [P!Next]_(P!vars)
  BY LoopOfProcesses DEF Loop
<1>8. proc[h].call = None
  BY <1>1, <1>2, <1>3 DEF SInv, CallersOK
<1>9. Quiet
  BY <1>1, <1>2, <1>3, <1>8 DEF Quiet, P!Alive
<1> QED
  BY <1>4, <1>5, <1>6, <1>7, <1>9, QuietKeeps DEF Own

LEMMA FailedStartsKeep == ASSUME SInv, StartChildFails PROVE Own'
<1>1. /\ run.at = "top" /\ spawn # <<>> /\ stack' = stack
      /\ CloseAll({Head(spawn)}) /\ WakeOfTheLiving
      /\ proc' = [proc EXCEPT ![Head(spawn)] = NewProc("guest")]
      /\ UNCHANGED <<order, stdin, now, pending, run, report, asked>>
  BY DEF StartChildFails, AtTop, P!StartFails
<1>2. Head(spawn) \in Pid
  BY <1>1, FactsOfProcesses DEF SInv, ProcessFacts
<1>3. PICK h \in Pid : h = Head(spawn)
  BY <1>2
<1>4. NewProc("guest") \in Proc /\ NewProc("guest").call = None
  BY NewProcValues
<1>5. /\ proc' \in [Pid -> Proc] /\ proc'[h].call = None
      /\ \A q \in Pid : q # h => proc'[q] = proc[q]
  BY <1>1, <1>3, <1>4 DEF SInv, Values
<1>6. Values'
  BY <1>1, <1>5, CloseAllValues, WakeValues DEF SInv, Values
<1>7. ListOK' /\ TurnOK'
  BY <1>1, ListKept, TurnEnds DEF SInv
<1>8. [P!Next]_(P!vars)
  BY LoopOfProcesses DEF Loop
<1>9. Quiet
  BY <1>1, <1>5 DEF Quiet
<1> QED
  BY <1>6, <1>7, <1>8, <1>9, QuietKeeps DEF Own

LEMMA WallClockKeeps == ASSUME SInv, WallClock PROVE Own'
<1>1. /\ stack' = [b \in Pid |-> <<>>] /\ finished' = "SIGKILL" /\ order' = <<>>
      /\ CloseAll(Pid) /\ WakeOfTheLiving /\ run' = [run EXCEPT !.at = "over"]
      /\ UNCHANGED <<proc, stdin, now, pending, report, asked>>
  BY DEF WallClock, P!KillAll, Pid
<1>2. finished' # None
  BY <1>1, SchedulerAssumption DEF P!Status
<1>3. run' \in RunType /\ run'.at = "over"
  BY <1>1 DEF SInv, Values, RunType
<1>4. Values'
  BY <1>1, <1>3, CloseAllValues, WakeValues DEF SInv, Values
<1>5. ListOK'
  BY <1>1 DEF ListOK
<1>6. [P!Next]_(P!vars)
  BY LoopOfProcesses DEF Loop
<1>7. Quiet
  BY <1>1, <1>2 DEF Quiet
<1> QED
  BY <1>3, <1>4, <1>5, <1>6, <1>7, TurnEnds, QuietKeeps DEF Own

LEMMA ReportOfWhyIdle == WhyIdle \in Reports
BY DEF WhyIdle, Reports

(* The steps that end a pass or begin one, and those of the caller.        *)
LEMMA RestKeeps ==
    ASSUME SInv, \/ BeginPass \/ NothingLeft \/ GoIdle \/ OutOfBudget \/ GoRound
                 \/ Step \/ WriteStdin \/ CloseStdin \/ Tick \/ UNCHANGED vars
    PROVE  Own'
<1>1. run' \in RunType /\ (run' = run \/ run'.at # "run")
  <2>1. run \in RunType /\ 1 \in 1 .. MaxPid + 1
    BY SchedulerAssumption DEF SInv, Values
  <2>2. CASE BeginPass \/ GoIdle \/ OutOfBudget \/ GoRound
    <3>1. \E at \in {"pass", "caller", "top"} :
             run' = [run EXCEPT !.at = at, !.index = 1, !.progressed = FALSE]
      BY <2>2 DEF BeginPass, GoIdle, OutOfBudget, GoRound, Returns
    <3> QED
      BY <2>1, <3>1 DEF RunType
  <2>3. CASE NothingLeft \/ Step
    <3>1. \E at \in {"over", "top"} : run' = [run EXCEPT !.at = at]
      BY <2>3 DEF NothingLeft, Step
    <3> QED
      BY <2>1, <3>1 DEF RunType
  <2>4. CASE WriteStdin \/ CloseStdin \/ Tick \/ UNCHANGED vars
    BY <2>1, <2>4 DEF WriteStdin, CloseStdin, Tick, vars
  <2> QED
    BY <2>2, <2>3, <2>4
<1>2. /\ proc' \in [Pid -> Proc]
      /\ \A q \in Pid : proc'[q].call = proc[q].call /\ proc'[q].body = proc[q].body
  <2>1. CASE Step
    <3>1. ASSUME NEW q \in Pid
          PROVE  LET new == [proc[q] EXCEPT !.parked = FALSE]
                 IN new \in Proc /\ new.call = proc[q].call /\ new.body = proc[q].body
      <4>1. proc[q] \in Proc /\ FALSE \in BOOLEAN
        BY DEF SInv, Values
      <4> QED
        BY <4>1 DEF Proc
    <3> QED
      BY <2>1, <3>1, Zenon DEF Step, Unparked
  <2>2. CASE ~Step
    BY <2>2 DEF SInv, Values, BeginPass, NothingLeft, GoIdle, OutOfBudget, GoRound, WriteStdin,
                CloseStdin, Tick, vars
  <2> QED
    BY <2>1, <2>2
<1>3. stdin' \in [data : 0 .. 1, closed : BOOLEAN, wanted : BOOLEAN]
  <2>1. stdin \in [data : 0 .. 1, closed : BOOLEAN, wanted : BOOLEAN] /\ 1 \in 0 .. 1
    BY DEF SInv, Values
  <2>2. CASE WriteStdin \/ CloseStdin
    BY <2>1, <2>2 DEF WriteStdin, CloseStdin
  <2>3. CASE ~(WriteStdin \/ CloseStdin)
    BY <2>1, <2>3 DEF BeginPass, NothingLeft, GoIdle, OutOfBudget, GoRound, Step, Tick, vars, ioVars
  <2> QED
    BY <2>2, <2>3
<1>4. pending' \in [vfs : BOOLEAN, host : BOOLEAN] /\ report' \in Reports /\ asked' \subseteq Pid
  <2>1. CASE GoIdle
    <3>1. (pending.host /\ pending.vfs) \in BOOLEAN
      OBVIOUS
    <3> QED
      BY <2>1, <3>1, ReportOfWhyIdle DEF SInv, Values, GoIdle, Returns
  <2>2. CASE ~GoIdle
    BY <2>2 DEF SInv, Values, Reports, BeginPass, NothingLeft, OutOfBudget, GoRound, Returns, Step,
                WriteStdin, CloseStdin, Tick, vars
  <2> QED
    BY <2>1, <2>2
<1>5. now' \in Time
  BY SchedulerAssumption DEF SInv, Values, Time, BeginPass, NothingLeft, GoIdle, OutOfBudget, GoRound,
     Step, WriteStdin, CloseStdin, Tick, vars
<1>6. UNCHANGED <<table, stack, order, holds, fill, wake>>
  BY DEF BeginPass, NothingLeft, P!NoneLeft, GoIdle, OutOfBudget, GoRound, Step, WriteStdin,
         CloseStdin, Tick, vars, procVars, ioVars
<1>7. Values'
  BY <1>1, <1>2, <1>3, <1>4, <1>5, <1>6 DEF SInv, Values
<1>8. ListOK'
  BY <1>6, ListKept DEF SInv
<1>9. TurnOK'
  <2>1. CASE run' = run
    <3>1. run.at = "run" => inst \in Pid
      BY TheInstance DEF InGuest
    <3> QED
      BY <1>2, <1>6, <2>1, <3>1, TurnStays DEF SInv, TurnOK
  <2>2. CASE run'.at # "run"
    BY <2>2, TurnEnds
  <2> QED
    BY <1>1, <2>1, <2>2
<1>10. [P!Next]_(P!vars)
  BY StepOfProcesses DEF Next, Loop
<1>11. Quiet
  BY <1>2, <1>6 DEF Quiet, P!Alive
<1> QED
  BY <1>7, <1>8, <1>9, <1>10, <1>11, QuietKeeps DEF Own

LEMMA InvariantKept == SInv /\ [Next]_vars => SInv'
<1> SUFFICES ASSUME SInv, [Next]_vars PROVE SInv'
  OBVIOUS
<1>1. PP!IInv'
  BY StepOfProcesses, FactsKept DEF SInv
<1>2. Own'
  BY GuestKeeps, HostKeeps, TurnsKeep, RetriesKeep, StartsKeep, FailedStartsKeep, WallClockKeeps,
     RestKeeps DEF Next, Loop
<1> QED
  BY <1>1, <1>2 DEF SInv, Own

LEMMA InvariantOfStart == Init => SInv
<1> SUFFICES ASSUME Init PROVE SInv
  OBVIOUS
<1>1. PP!IInv
  BY FactsOfStart DEF Init
<1>2. NewProc("guest") \in Proc /\ NewProc("guest").call = None
  BY NewProcValues
<1>3. First \in Pid /\ MaxPid \in Nat /\ 1 \in 1 .. MaxPid + 1 /\ First = P!First
  BY SchedulerAssumption DEF First, P!First, Pid, P!Pid
<1>4. Values
  <2>1. run \in RunType
    BY <1>3 DEF Init, RunType, NoFlags
  <2>2. 0 \in Time
    BY SchedulerAssumption DEF Time
  <2>3. stdin \in [data : 0 .. 1, closed : BOOLEAN, wanted : BOOLEAN]
    <3>1. stdin \in [data : {0}, closed : {"stdin" \notin Uses}, wanted : {FALSE}]
      BY DEF Init
    <3>2. 0 \in 0 .. 1 /\ ("stdin" \notin Uses) \in BOOLEAN
      OBVIOUS
    <3> QED
      BY <3>1, <3>2
  <2> QED
    BY <1>2, <2>1, <2>2, <2>3, SchedulerAssumption DEF Init, Values, NoFlags, Reports
<1>5. ListOK
  <2>1. stack = [b \in Pid |-> IF b = First THEN <<First>> ELSE <<>>] /\ order = <<First>>
    BY <1>3 DEF Init, P!Init, Pid
  <2>2. order \in Seq(Pid) /\ Len(order) = 1 /\ order[1] = First
    BY <1>3, <2>1
  <2>3. \A q \in Pid : stack[q] # <<>> <=> q = First
    BY <2>1
  <2> QED
    BY <2>2, <2>3 DEF ListOK
<1>6. \A q \in Pid : proc[q].call = None /\ wake[q] = None
  BY <1>2 DEF Init
<1>7. TurnOK /\ CallersOK /\ SleepOK
  BY <1>6 DEF TurnOK, CallersOK, SleepOK, Init
<1> QED
  BY <1>1, <1>4, <1>5, <1>7 DEF SInv

-----------------------------------------------------------------------------
(* 9. The theorems. *)

THEOREM SchedulerInvariant == Spec => []SInv
BY InvariantOfStart, InvariantKept, PTL DEF Spec

(* The run loop, Kernel::run with step_process and step_host, takes only   *)
(* the steps of module Processes, in some order: what is proved of the     *)
(* process table holds of every run of the loop.                           *)
THEOREM SchedulerImplementsProcesses == Spec => ImplementsProcesses
<1>1. SInv /\ [Next]_vars => [P!Next]_(P!vars)
  BY StepOfProcesses
<1>2. Init => P!Init
  BY DEF Init
<1> QED
  BY <1>1, <1>2, SchedulerInvariant, PTL DEF Spec, ImplementsProcesses, P!Spec

(* Every variable of the run loop keeps to its type, and its list of       *)
(* instances holds each of them once.                                      *)
THEOREM SchedulerTyped == Spec => []TypeOK
BY SchedulerInvariant, InvariantImplies, PTL

(* A record's deadline is a live process's, and whoever is asleep, or      *)
(* polls with a timeout, has its own where why_idle looks for it.          *)
THEOREM SchedulerSleepers == Spec => []SleepersHaveDeadlines
BY SchedulerInvariant, InvariantImplies, PTL

-----------------------------------------------------------------------------
(* 10. What an idle pass has seen.  A pass in which nothing ran goes over  *)
(* the whole list, unless an execve fails: then the list closes up under   *)
(* the index, and the next instance is passed over.                        *)

Flagged == pending.vfs \/ pending.host

(* A flag stays while somebody is parked for it or was told AGAIN. *)
FlagsOK ==
    /\ run.at = "run" => run.waited = pending
    /\ run.at # "caller" =>
          /\ asked # {} => Flagged
          /\ \A q \in Pid : proc[q].parked =>
                IF proc[q].body = "guest" THEN pending.vfs ELSE pending.host

(* The instances that an idle pass has come by. *)
Unmoved == run.at = "pass" /\ ~run.progressed
Passed == {order[n] : n \in {m \in 1 .. Len(order) : m < run.index}}

Waits(q, op) == proc[q].call # None /\ proc[q].call.op = op
VfsSeen == Unmoved => \A q \in Passed : Waits(q, "vfs") => pending.vfs

Calm ==
    /\ pending' = pending /\ asked' = asked
    /\ \A q \in Pid : proc'[q].parked => proc[q].parked /\ proc'[q].body = proc[q].body

(* Who may raise a flag, park or be asked. *)
LEMMA CalmSteps ==
    ASSUME SInv, [Next]_vars
    PROVE  \/ Calm
           \/ \E c \in Call : GuestBlocks(c)
           \/ RetryBlocked \/ HostSaysAgain \/ Step \/ GoIdle
<1>1. proc \in [Pid -> Proc]
  BY DEF SInv, Values
<1>2. ASSUME NEW r, NEW body \in Bodies \cup {"guest"}, proc' = [proc EXCEPT ![r] = NewProc(body)],
             pending' = pending, asked' = asked
      PROVE  Calm
  BY <1>1, <1>2, NewProcValues DEF Calm
<1>3. ASSUME proc' = proc, pending' = pending, asked' = asked PROVE Calm
  BY <1>3 DEF Calm
<1>4. CASE Guest /\ ~\E c \in Call : GuestBlocks(c)
  <2>1. ASSUME NEW c \in Call, GuestCalls(c) PROVE Calm
    BY <1>3, <2>1 DEF GuestCalls, Answer
  <2>2. ASSUME NEW status, GuestExits(status) PROVE Calm
    BY <1>2, <2>2 DEF GuestExits, EndInstance
  <2>3. ASSUME NEW body \in Bodies, ChildExecs(body) \/ GuestExecs(body) PROVE Calm
    BY <1>2, <2>3 DEF ChildExecs, GuestExecs
  <2>4. CASE GuestExecFails
    BY <1>2, <2>4 DEF GuestExecFails
  <2>5. CASE \/ GuestMakesPipe \/ GuestVforks
             \/ \E end \in {"in", "r", "w"} : GuestCloses(end)
             \/ \E status \in Codes : ChildExits(status)
    BY <1>3, <2>5 DEF GuestMakesPipe, GuestVforks, GuestCloses, ChildExits
  <2> QED
    BY <1>4, <2>1, <2>2, <2>3, <2>4, <2>5 DEF Guest
<1>5. CASE Host /\ ~HostSaysAgain
  <2>1. CASE HostWaitsForInput
    BY <1>3, <2>1 DEF HostWaitsForInput
  <2>2. ASSUME NEW n, HostFills(n) PROVE Calm
    <3>1. /\ inst \in Pid /\ proc[inst] \in Proc
          /\ proc' = [proc EXCEPT ![inst].left = n - (PipeCapacity - Drained)]
          /\ UNCHANGED <<pending, asked>>
      BY <2>2, TheInstance DEF HostFills, InputComplete, InHost, Awake
    <3>2. \A q \in Pid : proc'[q].parked = proc[q].parked /\ proc'[q].body = proc[q].body
      BY <1>1, <3>1 DEF Proc
    <3> QED
      BY <3>1, <3>2 DEF Calm
  <2>3. ASSUME NEW n, NEW status, HostEnds(n, status) PROVE Calm
    BY <1>2, <2>3 DEF HostEnds
  <2> QED
    BY <1>5, <2>1, <2>2, <2>3 DEF Host
<1>6. CASE Loop /\ ~RetryBlocked /\ ~GoIdle
  <2>1. CASE RetryAnswered
    <3>1. /\ inst \in Pid /\ proc[inst] \in Proc /\ proc' = [proc EXCEPT ![inst].call = None]
          /\ UNCHANGED <<pending, asked>>
      BY <2>1, TheInstance DEF RetryAnswered, Answer, Awake
    <3>2. \A q \in Pid : proc'[q].parked = proc[q].parked /\ proc'[q].body = proc[q].body
      BY <1>1, <3>1 DEF Proc
    <3> QED
      BY <3>1, <3>2 DEF Calm
  <2>2. CASE StartChildFails
    BY <1>2, <2>2 DEF StartChildFails
  <2>3. CASE SkipParked \/ EnterGuest \/ StartChild \/ WallClock \/ BeginPass \/ NothingLeft
             \/ OutOfBudget \/ GoRound
    BY <1>3, <2>3 DEF SkipParked, EnterGuest, StartChild, WallClock, BeginPass, NothingLeft,
                      OutOfBudget, GoRound
  <2> QED
    BY <1>6, <2>1, <2>2, <2>3 DEF Loop
<1>7. CASE WriteStdin \/ CloseStdin \/ Tick \/ UNCHANGED vars
  BY <1>3, <1>7 DEF WriteStdin, CloseStdin, Tick, vars
<1> QED
  BY <1>4, <1>5, <1>6, <1>7 DEF Next

(* Who may let a guest run, and who leaves the caller. *)
LEMMA RunSteps ==
    ASSUME SInv, [Next]_vars
    PROVE  /\ run'.at = "run" =>
                 /\ pending' = pending
                 /\ (run.at = "run" /\ run'.waited = run.waited) \/ run'.waited = pending
           /\ run.at = "caller" /\ run'.at # "caller" => Step
<1>1. run \in RunType
  BY DEF SInv, Values
<1>2. CASE Guest
  <2>1. CASE run' = run
    <3>1. pending' = pending
      BY <1>1, <1>2, <2>1
         DEF Guest, GuestCalls, Answer, GuestBlocks, Advance, RunType, GuestExits, EndInstance,
             GuestMakesPipe, GuestCloses, GuestVforks, ChildExits, ChildExecs, GuestExecs,
             GuestExecFails, InGuest
    <3>2. InGuest
      BY <1>2 DEF Guest, GuestCalls, GuestBlocks, GuestExits, GuestMakesPipe, GuestCloses,
                  GuestVforks, ChildExits, ChildExecs, GuestExecs, GuestExecFails
    <3> QED
      BY <2>1, <3>1, <3>2 DEF InGuest
  <2>2. CASE run' # run
    <3>1. InGuest /\ (Advance(TRUE) \/ Advance(FALSE) \/ Ended)
      BY <1>2, <2>2
         DEF Guest, GuestCalls, GuestBlocks, GuestExits, EndInstance, GuestMakesPipe, GuestCloses,
             GuestVforks, ChildExits, ChildExecs, GuestExecs, GuestExecFails
    <3>2. run'.at # "run"
      BY <1>1, <3>1 DEF Advance, Ended, RunType
    <3> QED
      BY <3>1, <3>2 DEF InGuest
  <2> QED
    BY <2>1, <2>2
<1>3. CASE Host \/ SkipParked \/ RetryBlocked
  <2>1. Turn /\ (Advance(FALSE) \/ Ended)
    BY <1>3 DEF Host, HostWaitsForInput, HostSaysAgain, HostFills, HostEnds, InputComplete, InHost,
                Awake, SkipParked, RetryBlocked
  <2>2. run'.at # "run"
    BY <1>1, <2>1 DEF Advance, Ended, RunType
  <2> QED
    BY <2>1, <2>2 DEF Turn
<1>4. CASE EnterGuest \/ RetryAnswered
  BY <1>1, <1>4 DEF EnterGuest, RetryAnswered, Answer, RunType, Awake, Turn
<1>5. CASE \/ StartChild \/ StartChildFails \/ WallClock \/ BeginPass \/ NothingLeft \/ GoIdle
           \/ OutOfBudget \/ GoRound \/ Step
  <2>1. CASE StartChild \/ StartChildFails
    BY <2>1 DEF StartChild, StartChildFails, AtTop
  <2>2. CASE WallClock \/ NothingLeft \/ Step
    <3>1. \E at \in {"over", "top"} : run' = [run EXCEPT !.at = at]
      BY <2>2 DEF WallClock, NothingLeft, Step
    <3>2. run'.at # "run"
      BY <1>1, <3>1 DEF RunType
    <3>3. Step \/ run.at # "caller"
      BY <2>2 DEF WallClock, AtTop, NothingLeft, PassDone
    <3> QED
      BY <3>2, <3>3
  <2>3. CASE BeginPass \/ GoIdle \/ OutOfBudget \/ GoRound
    <3>1. \E at \in {"pass", "caller", "top"} :
             run' = [run EXCEPT !.at = at, !.index = 1, !.progressed = FALSE]
      BY <2>3 DEF BeginPass, GoIdle, OutOfBudget, GoRound, Returns
    <3>2. run'.at # "run"
      BY <1>1, <3>1 DEF RunType
    <3>3. run.at # "caller"
      BY <2>3 DEF BeginPass, AtTop, GoIdle, OutOfBudget, GoRound, PassDone
    <3> QED
      BY <3>2, <3>3
  <2> QED
    BY <1>5, <2>1, <2>2, <2>3
<1>6. CASE WriteStdin \/ CloseStdin \/ Tick \/ UNCHANGED vars
  BY <1>6 DEF WriteStdin, CloseStdin, Tick, vars
<1> QED
  BY <1>2, <1>3, <1>4, <1>5, <1>6 DEF Next, Loop

LEMMA FlagsKept == ASSUME SInv, FlagsOK, [Next]_vars PROVE FlagsOK'
<1>1. proc \in [Pid -> Proc] /\ pending \in [vfs : BOOLEAN, host : BOOLEAN] /\ run \in RunType
  BY DEF SInv, Values
<1>2. CASE Calm
  <2>1. run'.at = "run" => run'.waited = pending'
    BY <1>2, RunSteps DEF FlagsOK, Calm
  <2>2. run'.at # "caller" =>
           /\ asked' # {} => pending'.vfs \/ pending'.host
           /\ \A q \in Pid : proc'[q].parked =>
                 IF proc'[q].body = "guest" THEN pending'.vfs ELSE pending'.host
    <3>1. CASE run.at # "caller"
      BY <1>2, <3>1 DEF FlagsOK, Flagged, Calm
    <3>2. CASE run.at = "caller" /\ run'.at # "caller"
      <4>1. Step
        BY <3>2, RunSteps
      <4>2. asked' = {} /\ \A q \in Pid : ~proc'[q].parked
        BY <1>1, <4>1 DEF Step, Unparked, Proc
      <4> QED
        BY <4>2
    <3> QED
      BY <3>1, <3>2
  <2> QED
    BY <2>1, <2>2 DEF FlagsOK, Flagged
<1>3. CASE Step
  <2>1. /\ asked' = {} /\ \A q \in Pid : ~proc'[q].parked
        /\ run'.at # "run"
    BY <1>1, <1>3 DEF Step, Unparked, Proc, RunType
  <2> QED
    BY <2>1 DEF FlagsOK
<1>4. CASE GoIdle
  <2>1. run'.at = "caller"
    BY <1>1, <1>4 DEF GoIdle, Returns, RunType
  <2> QED
    BY <2>1 DEF FlagsOK
<1>5. ASSUME NEW c \in Call, Block(c), InGuest \/ Turn, proc[inst].body = "guest",
             run'.at = "pass"
      PROVE  FlagsOK'
  <2>1. inst \in Pid /\ task \in Pid /\ proc[inst] \in Proc
    BY <1>5, TheInstance
  <2>2. /\ pending' = [pending EXCEPT !.vfs = @ \/ c.op = "vfs"]
        /\ asked' = IF c.op = "vfs" THEN asked \cup {inst} ELSE asked
        /\ proc' = [proc EXCEPT ![inst] = Park([proc[inst] EXCEPT !.call = c])]
    BY <1>5 DEF Block
  <2>3. /\ pending'.vfs = (pending.vfs \/ c.op = "vfs") /\ pending'.host = pending.host
    BY <1>1, <2>2
  <2>4. Before = pending /\ run.at # "caller"
    BY <1>5 DEF Before, FlagsOK, InGuest, Turn
  <2>5. asked' # {} => pending'.vfs \/ pending'.host
    BY <2>2, <2>3, <2>4 DEF FlagsOK, Flagged
  <2>6. proc'[inst].body = "guest" /\ (proc'[inst].parked => pending'.vfs)
    <3>1. [proc[inst] EXCEPT !.call = c] \in Proc /\ [proc[inst] EXCEPT !.call = c].body = "guest"
      BY <1>5, <2>1 DEF Proc
    <3> DEFINE new == [proc[inst] EXCEPT !.call = c]
    <3>2. proc'[inst] = Park(new)
      BY <1>1, <2>1, <2>2
    <3> HIDE DEF new
    <3>3. /\ Park(new).body = "guest"
          /\ Park(new).parked => \E why \in {"vfs", "host"} : pending'[why] /\ ~Before[why]
      BY <3>1, ParkValues DEF new
    <3>4. (\E why \in {"vfs", "host"} : pending'[why] /\ ~pending[why]) => pending'.vfs
      BY <2>3
    <3> QED
      BY <2>4, <3>2, <3>3, <3>4
  <2>7. \A q \in Pid : q # inst => proc'[q] = proc[q]
    BY <1>1, <2>2
  <2>8. \A q \in Pid : proc'[q].parked =>
           IF proc'[q].body = "guest" THEN pending'.vfs ELSE pending'.host
    BY <2>3, <2>4, <2>6, <2>7 DEF FlagsOK
  <2> QED
    BY <1>5, <2>5, <2>8 DEF FlagsOK, Flagged
<1>6. CASE RetryBlocked \/ \E c \in Call : GuestBlocks(c)
  <2>1. \E c \in Call : Block(c) /\ (InGuest \/ Turn) /\ proc[inst].body = "guest"
                        /\ (Advance(TRUE) \/ Advance(FALSE))
    <3>1. CASE RetryBlocked
      <4>1. /\ Turn /\ inst \in Pid /\ proc[inst].call \in Call /\ proc[inst].call # None
            /\ Block(proc[inst].call) /\ Advance(FALSE)
        BY <3>1, TheInstance DEF RetryBlocked, Awake, Proc
      <4> QED
        BY <4>1 DEF SInv, CallersOK
    <3>2. CASE \E c \in Call : GuestBlocks(c)
      BY <3>2 DEF GuestBlocks, InGuest, SInv, TurnOK
    <3> QED
      BY <1>6, <3>1, <3>2
  <2>2. run'.at = "pass"
    BY <1>1, <2>1 DEF Advance, RunType
  <2> QED
    BY <1>5, <2>1, <2>2
<1>7. CASE HostSaysAgain
  <2>1. /\ Turn /\ inst \in Pid /\ proc[inst] \in Proc /\ proc[inst].body # "guest"
        /\ pending' = [pending EXCEPT !.host = TRUE] /\ Advance(FALSE)
        /\ proc' = [proc EXCEPT ![inst] = Park(proc[inst])]
    BY <1>7, TheInstance DEF HostSaysAgain, InputComplete, InHost, Awake
  <2>2. run'.at = "pass" /\ run.at = "pass"
    BY <1>1, <2>1 DEF Advance, RunType, Turn
  <2>3. pending'.vfs = pending.vfs /\ pending'.host
    BY <1>1, <2>1
  <2>4. /\ proc'[inst].body = proc[inst].body
        /\ \A q \in Pid : q # inst => proc'[q] = proc[q]
    BY <1>1, <2>1, ParkValues
  <2> QED
    BY <2>1, <2>2, <2>3, <2>4 DEF FlagsOK, Flagged
<1> QED
  BY <1>2, <1>3, <1>4, <1>6, <1>7, CalmSteps

(* How an idle pass comes to where it is: from the instance before, which  *)
(* it has come by without the list being changed.                          *)
ComesBy ==
    \/ SkipParked \/ RetryBlocked \/ HostWaitsForInput \/ HostSaysAgain
    \/ \E n \in 0 .. MaxOutput : HostFills(n)

LEMMA UnmovedSteps ==
    ASSUME SInv, [Next]_vars, "exec_fails" \notin Uses, Unmoved'
    PROVE  \/ Tick \/ UNCHANGED vars
           \/ run'.index = 1
           \/ Unmoved /\ ComesBy
<1>1. run \in RunType /\ run'.at = "pass" /\ ~run'.progressed
  BY DEF SInv, Values, Unmoved
<1>2. ASSUME Ended \/ Advance(TRUE) PROVE FALSE
  BY <1>1, <1>2 DEF Ended, Advance, RunType
<1>3. CASE Guest
  <2>1. InGuest /\ (run' = run \/ Advance(TRUE) \/ Ended)
    BY <1>3 DEF Guest, GuestCalls, GuestBlocks, GuestExits, EndInstance, GuestMakesPipe, GuestCloses,
                GuestVforks, ChildExits, ChildExecs, GuestExecs, GuestExecFails
  <2> QED
    BY <1>1, <1>2, <2>1 DEF InGuest
<1>4. CASE ComesBy
  <2>1. Turn /\ Advance(FALSE)
    BY <1>4 DEF ComesBy, HostWaitsForInput, HostSaysAgain, HostFills, InputComplete, InHost, Awake,
                SkipParked, RetryBlocked
  <2>2. Unmoved
    BY <1>1, <2>1 DEF Turn, Unmoved, Advance, RunType
  <2> QED
    BY <1>4, <2>2
<1>5. CASE Host /\ ~ComesBy
  BY <1>2, <1>5 DEF Host, ComesBy, HostEnds
<1>6. CASE EnterGuest \/ RetryAnswered
  BY <1>1, <1>6 DEF EnterGuest, RetryAnswered, RunType
<1>7. CASE StartChild \/ StartChildFails
  BY <1>1, <1>7 DEF StartChild, StartChildFails, AtTop
<1>8. CASE WallClock \/ NothingLeft \/ Step
  <2>1. \E at \in {"over", "top"} : run' = [run EXCEPT !.at = at]
    BY <1>8 DEF WallClock, NothingLeft, Step
  <2> QED
    BY <1>1, <2>1 DEF RunType
<1>9. CASE BeginPass \/ GoIdle \/ OutOfBudget \/ GoRound
  <2>1. \E at \in {"pass", "caller", "top"} :
           run' = [run EXCEPT !.at = at, !.index = 1, !.progressed = FALSE]
    BY <1>9 DEF BeginPass, GoIdle, OutOfBudget, GoRound, Returns
  <2> QED
    BY <1>1, <2>1 DEF RunType
<1>10. CASE WriteStdin \/ CloseStdin
  BY <1>1, <1>10 DEF WriteStdin, CloseStdin, Caller
<1> QED
  BY <1>3, <1>4, <1>5, <1>6, <1>7, <1>8, <1>9, <1>10 DEF Next, Loop, ComesBy

LEMMA ComesByOne ==
    ASSUME SInv, ComesBy
    PROVE  /\ Turn /\ inst \in Pid /\ task \in Pid /\ proc[inst] \in Proc /\ stack[inst] # <<>>
           /\ UNCHANGED <<procVars, order, holds>>
           /\ stdin' = stdin \/ RetryBlocked \/ HostWaitsForInput \/ InputComplete
           /\ \A q \in Passed' : q = inst \/ (q # inst /\ q \in Passed /\ q \in Pid)
           /\ \A q \in Pid : q # inst => proc'[q] = proc[q]
<1>1. Turn /\ Advance(FALSE)
  BY DEF ComesBy, HostWaitsForInput, HostSaysAgain, HostFills, InputComplete, InHost, Awake,
         SkipParked, RetryBlocked
<1>2. /\ inst \in Pid /\ task \in Pid /\ proc[inst] \in Proc /\ stack[inst] # <<>>
      /\ Len(order) \in Nat /\ run.index \in 1 .. Len(order) /\ run.index <= MaxPid
  BY <1>1, TheInstance
<1>3. UNCHANGED <<procVars, order, holds>>
  BY DEF ComesBy, HostWaitsForInput, HostSaysAgain, HostFills, SkipParked, RetryBlocked, Block,
         ioVars
<1>4. stdin' = stdin \/ RetryBlocked \/ HostWaitsForInput \/ InputComplete
  BY DEF ComesBy, HostSaysAgain, HostFills, SkipParked, ioVars
<1>5. \A q \in Passed' : q = inst \/ (q # inst /\ q \in Passed /\ q \in Pid)
  <2> SUFFICES ASSUME NEW q \in Passed', q # inst PROVE q \in Passed /\ q \in Pid
    OBVIOUS
  <2>1. run'.index = run.index + 1
    BY <1>1, <1>2, AdvanceRun DEF SInv, Values
  <2>2. PICK m \in 1 .. Len(order) : m < run.index + 1 /\ order[m] = q
    BY <1>3, <2>1 DEF Passed
  <2>3. m # run.index
    BY <2>2 DEF inst
  <2>4. m < run.index
    BY <1>2, <2>2, <2>3
  <2>5. order[m] \in Pid
    BY <1>2, <2>2 DEF SInv, ListOK
  <2> QED
    BY <2>2, <2>4, <2>5 DEF Passed
<1>6. \A q \in Pid : q # inst => proc'[q] = proc[q]
  <2>1. \/ proc' = proc
        \/ \E new : proc' = [proc EXCEPT ![inst] = new]
    BY DEF ComesBy, HostWaitsForInput, HostSaysAgain, HostFills, SkipParked, RetryBlocked, Block
  <2> QED
    BY <2>1 DEF SInv, Values
<1> QED
  BY <1>1, <1>2, <1>3, <1>4, <1>5, <1>6

LEMMA VfsSeenKept ==
    ASSUME SInv, FlagsOK, VfsSeen, [Next]_vars, "exec_fails" \notin Uses
    PROVE  VfsSeen'
<1> SUFFICES ASSUME Unmoved', NEW q \in Passed', Waits(q, "vfs")' PROVE pending'.vfs
  BY DEF VfsSeen
<1>1. CASE Tick \/ UNCHANGED vars
  BY <1>1 DEF Tick, vars, VfsSeen, Unmoved, Passed, Waits
<1>2. CASE run'.index = 1
  BY <1>2 DEF Passed
<1>3. CASE Unmoved /\ ComesBy
  <2>1. /\ Turn /\ inst \in Pid /\ proc[inst] \in Proc
        /\ q = inst \/ (q # inst /\ q \in Passed /\ q \in Pid /\ proc'[q] = proc[q])
    BY <1>3, ComesByOne
  <2>2. pending.vfs => pending'.vfs
    BY <1>3 DEF ComesBy, SkipParked, RetryBlocked, Block, HostWaitsForInput, HostSaysAgain,
                HostFills, SInv, Values
  <2>3. CASE q # inst
    BY <1>3, <2>1, <2>2, <2>3 DEF VfsSeen, Waits
  <2>4. CASE q = inst /\ SkipParked
    <3>1. proc' = proc /\ proc[inst].parked
      BY <2>4 DEF SkipParked
    <3>2. proc[inst].body = "guest"
      BY <2>1, <2>4, <3>1 DEF Waits, SInv, CallersOK
    <3> QED
      BY <2>1, <2>2, <3>1, <3>2 DEF FlagsOK, Turn
  <2>5. CASE q = inst /\ RetryBlocked
    <3>1. /\ Block(proc[inst].call) /\ proc[inst].call \in Call
          /\ pending' = [pending EXCEPT !.vfs = @ \/ proc[inst].call.op = "vfs"]
      BY <2>1, <2>5 DEF RetryBlocked, Block, Proc
    <3>2. proc'[inst].call = proc[inst].call
      <4>1. task \in Pid
        BY <2>1, TheInstance
      <4> QED
        BY <2>1, <3>1, <4>1, BlockValues DEF SInv
    <3> QED
      BY <2>5, <3>1, <3>2 DEF Waits, SInv, Values
  <2>6. CASE q = inst /\ ~SkipParked /\ ~RetryBlocked
    <3>1. proc[inst].body # "guest"
      BY <1>3, <2>6 DEF ComesBy, HostWaitsForInput, HostSaysAgain, HostFills, InputComplete, InHost
    <3>2. proc[inst].call = None
      BY <2>1, <3>1 DEF SInv, CallersOK
    <3>4. proc'[inst].call = proc[inst].call
      <4>1. CASE HostWaitsForInput
        BY <4>1 DEF HostWaitsForInput
      <4>2. CASE HostSaysAgain
        <5>1. proc' = [proc EXCEPT ![inst] = Park(proc[inst])]
          BY <4>2 DEF HostSaysAgain
        <5> QED
          BY <2>1, <5>1, ParkValues DEF SInv, Values
      <4>3. ASSUME NEW n, HostFills(n) PROVE proc'[inst].call = proc[inst].call
        <5>1. proc' = [proc EXCEPT ![inst].left = n - (PipeCapacity - Drained)]
          BY <4>3 DEF HostFills
        <5> QED
          BY <2>1, <5>1 DEF SInv, Values, Proc
      <4> QED
        BY <1>3, <2>6, <4>1, <4>2, <4>3 DEF ComesBy
    <3> QED
      BY <2>6, <3>2, <3>4 DEF Waits
  <2> QED
    BY <2>1, <2>3, <2>4, <2>5, <2>6
<1> QED
  BY <1>1, <1>2, <1>3, UnmovedSteps

(* The caller is told that nothing runs by GoIdle only. *)
Idle == Caller /\ report \in Reports \ {"none", "budget"}

LEMMA IdleSteps ==
    ASSUME SInv, [Next]_vars, Idle'
    PROVE  \/ GoIdle
           \/ /\ Idle
              /\ UNCHANGED <<procVars, order, proc, ioVars, wake, pending, report, asked>>
<1>1. run \in RunType /\ run'.at = "caller" /\ report' \notin {"none", "budget"}
  BY DEF SInv, Values, Idle, Caller
<1>2. CASE Tick \/ UNCHANGED vars
  BY <1>2 DEF Tick, vars, Idle, Caller
<1>3. CASE Step \/ WriteStdin \/ CloseStdin \/ OutOfBudget
  BY <1>1, <1>3 DEF Step, WriteStdin, CloseStdin, OutOfBudget, Returns
<1>4. CASE Guest \/ Host \/ SkipParked \/ EnterGuest \/ RetryAnswered \/ RetryBlocked
  <2>1. \/ (InGuest \/ Turn) /\ (run' = run \/ Advance(TRUE) \/ Advance(FALSE) \/ Ended)
        \/ \E w : run' = [run EXCEPT !.at = "run", !.waited = w]
    BY <1>4 DEF Guest, GuestCalls, GuestBlocks, GuestExits, EndInstance, GuestMakesPipe,
       GuestCloses, GuestVforks, ChildExits, ChildExecs, GuestExecs, GuestExecFails,
       Host, HostWaitsForInput, HostSaysAgain, HostFills, HostEnds, InputComplete, InHost,
       Awake, SkipParked, EnterGuest, RetryAnswered, RetryBlocked
  <2> QED
    BY <1>1, <2>1 DEF InGuest, Turn, Advance, Ended, RunType
<1>5. CASE StartChild \/ StartChildFails
  BY <1>1, <1>5 DEF StartChild, StartChildFails, AtTop
<1>6. CASE WallClock \/ NothingLeft
  <2>1. run' = [run EXCEPT !.at = "over"]
    BY <1>6 DEF WallClock, NothingLeft
  <2> QED
    BY <1>1, <2>1 DEF RunType
<1>7. CASE BeginPass \/ GoRound
  <2>1. \E at \in {"pass", "top"} :
           run' = [run EXCEPT !.at = at, !.index = 1, !.progressed = FALSE]
    BY <1>7 DEF BeginPass, GoRound
  <2> QED
    BY <1>1, <2>1 DEF RunType
<1> QED
  BY <1>2, <1>3, <1>4, <1>5, <1>6, <1>7 DEF Next, Loop

(* A pass that ends has come by everybody. *)
LEMMA AllPassed ==
    ASSUME SInv, GoIdle
    PROVE  /\ Unmoved /\ run.at # "caller" /\ \A q \in Listed : q \in Passed /\ q \in Pid
           /\ UNCHANGED <<procVars, order, proc, ioVars, wake, asked>> /\ report' = WhyIdle
<1>1. run.at = "pass" /\ ~run.progressed /\ run.index > Len(order) /\ run.index \in Int
  BY DEF GoIdle, PassDone, SInv, Values, RunType
<1>2. Len(order) \in Nat /\ \A n \in 1 .. Len(order) : order[n] \in Pid
  BY ListsInstances DEF SInv
<1>3. \A n \in 1 .. Len(order) : n < run.index
  BY <1>1, <1>2
<1> QED
  BY <1>1, <1>2, <1>3 DEF Listed, ToSet, Passed, Unmoved, GoIdle, Returns

LEMMA AgainReportedKept ==
    ASSUME SInv, FlagsOK, VfsSeen, AgainIsReported, [Next]_vars, "exec_fails" \notin Uses
    PROVE  AgainIsReported'
<1> DEFINE waiting == {q \in Listed : proc[q].call # None /\ proc[q].call.op = "vfs"}
           hosts == {q \in Listed \cap asked : proc[q].body # "guest"}
<1> SUFFICES ASSUME Idle'
             PROVE  /\ waiting' # {} => report' = "vfs"
                    /\ hosts' # {} => report' \in {"vfs", "host"}
  BY DEF AgainIsReported, Told, Idle, WaitsFor, HostsAsked
<1>1. CASE Idle /\ UNCHANGED <<procVars, order, proc, ioVars, wake, pending, report, asked>>
  <2>1. waiting' = waiting /\ hosts' = hosts
    BY <1>1 DEF Listed
  <2>2. /\ waiting # {} => report = "vfs"
        /\ hosts # {} => report \in {"vfs", "host"}
    BY <1>1 DEF AgainIsReported, Told, Idle, WaitsFor, HostsAsked
  <2> QED
    BY <1>1, <2>1, <2>2
<1>2. CASE GoIdle
  <2>1. /\ Unmoved /\ run.at # "caller" /\ \A q \in Listed : q \in Passed
        /\ UNCHANGED <<order, proc, asked>> /\ report' = WhyIdle
    BY <1>2, AllPassed
  <2>2. waiting' = waiting /\ hosts' = hosts
    BY <2>1 DEF Listed
  <2>3. waiting # {} => pending.vfs
    BY <2>1 DEF VfsSeen, Waits
  <2>4. hosts # {} => pending.vfs \/ pending.host
    BY <2>1 DEF FlagsOK, Flagged
  <2> QED
    BY <2>1, <2>2, <2>3, <2>4 DEF WhyIdle
<1> QED
  BY <1>1, <1>2, IdleSteps

-----------------------------------------------------------------------------
(* 11. What an idle pass may say of those it has come by. *)

(* What an instance could do depends on no more than this. *)
LEMMA LessToDo ==
    ASSUME NEW q, UNCHANGED <<holds, stack, table>>,
           proc'[q].call = proc[q].call, proc'[q].body = proc[q].body,
           proc'[q].left = proc[q].left,
           fill \in Nat, fill' \in Nat, fill' <= fill,
           stdin.data \in Nat, stdin'.data \in Nat, stdin'.data <= stdin.data,
           stdin'.closed = stdin.closed,
           fill' = fill \/ (~Waits(q, "write") /\ proc[q].left = None),
           CouldRun(q)'
    PROVE  CouldRun(q)
<1>1. Readers' = Readers /\ Writers' = Writers
  BY DEF Readers, Writers
<1>2. \A t : InputReady(t)' => InputReady(t)
  BY <1>1 DEF InputReady
<1>3. P!Current(q)' = P!Current(q)
  BY DEF P!Current
<1>4. CASE proc[q].body = "guest" /\ proc[q].call # None
  <2> DEFINE c == proc[q].call
  <2>1. CASE c.op = "read"
    BY <1>1, <1>4, <2>1 DEF CouldRun, GuestCouldRun, Answerable, Polls
  <2>2. CASE c.op = "write"
    BY <1>1, <1>4, <2>2 DEF CouldRun, GuestCouldRun, Answerable, Polls, Room, Waits
  <2>3. CASE c.op = "stdin"
    BY <1>4, <2>3 DEF CouldRun, GuestCouldRun, Answerable, Polls
  <2>4. CASE c.op = "wait"
    BY <1>4, <2>4
       DEF CouldRun, GuestCouldRun, Answerable, Polls, P!Current, P!Candidates, P!Reapable, P!IsChild
  <2>5. CASE c.op \in Polls
    BY <1>1, <1>2, <1>4, <2>5 DEF CouldRun, GuestCouldRun, Polls, P!Current, InputReady
  <2>6. CASE c.op \notin Polls \cup {"read", "write", "stdin", "wait"}
    BY <1>4, <2>6 DEF CouldRun, GuestCouldRun
  <2> QED
    BY <2>1, <2>2, <2>3, <2>4, <2>5, <2>6
<1>5. CASE proc[q].body = "guest" /\ proc[q].call = None
  BY <1>5 DEF CouldRun, GuestCouldRun
<1>6. CASE proc[q].body # "guest" /\ proc[q].left # None
  BY <1>1, <1>6 DEF CouldRun, HostCouldRun, Room
<1>7. CASE proc[q].body # "guest" /\ proc[q].left = None
  BY <1>1, <1>7 DEF CouldRun, HostCouldRun
<1> QED
  BY <1>4, <1>5, <1>6, <1>7

(* Programs that do nothing in a turn which is reported as none: no execve *)
(* that fails, no host command that fills a pipe, or drains one that a     *)
(* program may wait to write to.                                           *)
NothingUnseen ==
    /\ "exec_fails" \notin Uses
    /\ \/ Bodies \subseteq {"guest"}
       \/ MaxOutput = 0 /\ ("filter" \notin Bodies \/ "write" \notin Uses)

ProgramsOK == \A q \in Pid : proc[q].body \in Bodies \cup {"guest"} /\ proc[q].left = None

Still(q) == proc[q].parked \/ ~CouldRun(q) \/ (proc[q].body # "guest" /\ q \in asked)
AsksForStdin(q) ==
    Waits(q, "stdin")
    \/ (Waits(q, "ppoll") /\ proc[q].call.arg = 0 /\ "in" \in holds[P!Current(q)])
Scanned ==
    Unmoved => \A q \in Passed :
        Still(q) /\ (AsksForStdin(q) => Flagged \/ stdin.wanted \/ stdin.closed)

LEMMA NothingFills ==
    ASSUME SInv, ProgramsOK, NothingUnseen
    PROVE  /\ \A n \in 0 .. MaxOutput : ~HostFills(n)
           /\ InHost => Drained = fill \/ "write" \notin Uses
<1>1. ASSUME NEW n \in 0 .. MaxOutput, HostFills(n) PROVE FALSE
  <2>1. /\ inst \in Pid /\ proc[inst].body # "guest" /\ n > 0
    BY <1>1, TheInstance DEF HostFills, InputComplete, InHost, Awake, ToPipe
  <2>2. ~(Bodies \subseteq {"guest"})
    BY <2>1 DEF ProgramsOK
  <2> QED
    BY <2>1, <2>2 DEF NothingUnseen
<1>2. ASSUME InHost, "write" \in Uses PROVE Drained = fill
  <2>1. inst \in Pid /\ proc[inst].body \in Bodies /\ proc[inst].body # "guest"
    BY <1>2, TheInstance DEF InHost, Awake, ProgramsOK
  <2>2. "filter" \notin Bodies
    BY <1>2, <2>1 DEF NothingUnseen
  <2> QED
    BY <2>1, <2>2 DEF Drained, FromPipe, HostReads
<1> QED
  BY <1>1, <1>2

LEMMA ProgramsKept ==
    ASSUME SInv, ProgramsOK, NothingUnseen, [Next]_vars
    PROVE  ProgramsOK'
<1>1. proc \in [Pid -> Proc]
  BY DEF SInv, Values
<1>2. ASSUME NEW r, NEW body \in Bodies \cup {"guest"}, proc' = [proc EXCEPT ![r] = NewProc(body)]
      PROVE  ProgramsOK'
  BY <1>1, <1>2, NewProcValues DEF ProgramsOK
<1>3. ASSUME proc' = proc PROVE ProgramsOK'
  BY <1>3 DEF ProgramsOK
<1>4. ASSUME NEW new, inst \in Pid, proc' = [proc EXCEPT ![inst] = new],
             new.body = proc[inst].body, new.left = proc[inst].left
      PROVE  ProgramsOK'
  BY <1>1, <1>4 DEF ProgramsOK
<1>5. ASSUME NEW c \in Call, Block(c), inst \in Pid PROVE ProgramsOK'
  <2> DEFINE called == [proc[inst] EXCEPT !.call = c]
  <2>1. called \in Proc /\ called.body = proc[inst].body /\ called.left = proc[inst].left
    BY <1>1, <1>5 DEF Proc
  <2>2. proc' = [proc EXCEPT ![inst] = Park(called)]
    BY <1>5 DEF Block
  <2> HIDE DEF called
  <2> QED
    BY <1>4, <1>5, <2>1, <2>2, ParkValues
<1>6. CASE Guest
  <2>1. InGuest => inst \in Pid
    BY TheInstance
  <2>2. ASSUME NEW c \in Call, GuestCalls(c) \/ GuestBlocks(c) PROVE ProgramsOK'
    BY <1>3, <1>5, <2>1, <2>2 DEF GuestCalls, GuestBlocks
  <2>3. ASSUME NEW body \in Bodies, ChildExecs(body) \/ GuestExecs(body) PROVE ProgramsOK'
    BY <1>2, <2>3 DEF ChildExecs, GuestExecs
  <2>4. ASSUME NEW status, GuestExits(status) PROVE ProgramsOK'
    BY <1>2, <2>4 DEF GuestExits, EndInstance
  <2>5. CASE GuestExecFails
    BY <1>2, <2>5 DEF GuestExecFails
  <2>6. CASE \/ GuestMakesPipe \/ GuestVforks
             \/ \E end \in {"in", "r", "w"} : GuestCloses(end)
             \/ \E status \in Codes : ChildExits(status)
    BY <1>3, <2>6 DEF GuestMakesPipe, GuestVforks, GuestCloses, ChildExits
  <2> QED
    BY <1>6, <2>2, <2>3, <2>4, <2>5, <2>6 DEF Guest
<1>7. CASE Host
  <2>1. ASSUME NEW n, NEW status, HostEnds(n, status) PROVE ProgramsOK'
    BY <1>2, <2>1 DEF HostEnds
  <2>2. CASE HostSaysAgain
    <3>1. /\ inst \in Pid /\ proc[inst] \in Proc
          /\ proc' = [proc EXCEPT ![inst] = Park(proc[inst])]
      BY <2>2, TheInstance DEF HostSaysAgain, InputComplete, InHost, Awake
    <3> QED
      BY <1>4, <3>1, ParkValues
  <2>3. CASE HostWaitsForInput
    BY <1>3, <2>3 DEF HostWaitsForInput
  <2> QED
    BY <1>7, <2>1, <2>2, <2>3, NothingFills DEF Host
<1>8. CASE RetryAnswered \/ RetryBlocked
  <2>1. inst \in Pid /\ proc[inst] \in Proc /\ proc[inst].call \in Call
    BY <1>8, TheInstance DEF RetryAnswered, RetryBlocked, Awake, Proc
  <2>2. CASE RetryAnswered
    <3> DEFINE new == [proc[inst] EXCEPT !.call = None]
    <3>1. new.body = proc[inst].body /\ new.left = proc[inst].left
      BY <2>1 DEF Proc
    <3>2. proc' = [proc EXCEPT ![inst] = new]
      BY <2>2 DEF RetryAnswered
    <3> HIDE DEF new
    <3> QED
      BY <1>4, <2>1, <3>1, <3>2
  <2>3. CASE RetryBlocked
    BY <1>5, <2>1, <2>3 DEF RetryBlocked
  <2> QED
    BY <1>8, <2>2, <2>3
<1>9. CASE Step
  BY <1>1, <1>9 DEF Step, Unparked, ProgramsOK, Proc
<1>10. CASE StartChildFails
  BY <1>2, <1>10 DEF StartChildFails
<1>11. CASE \/ SkipParked \/ EnterGuest \/ StartChild \/ WallClock \/ BeginPass \/ NothingLeft
            \/ GoIdle \/ OutOfBudget \/ GoRound \/ WriteStdin \/ CloseStdin \/ Tick
            \/ UNCHANGED vars
  BY <1>3, <1>11 DEF SkipParked, EnterGuest, StartChild, WallClock, BeginPass, NothingLeft, GoIdle,
                     OutOfBudget, GoRound, WriteStdin, CloseStdin, Tick, vars
<1> QED
  BY <1>6, <1>7, <1>8, <1>9, <1>10, <1>11 DEF Next, Loop

(* What a step of an idle pass does to those it has come by before ... *)
LEMMA OthersStill ==
    ASSUME SInv, ProgramsOK, NothingUnseen, ComesBy,
           NEW q \in Pid, q # inst, proc'[q] = proc[q], Still(q)
    PROVE  Still(q)'
<1>1. /\ UNCHANGED <<procVars, order, holds>>
      /\ inst \in Pid /\ proc[inst] \in Proc
      /\ proc[q].left = None
  BY ComesByOne DEF ProgramsOK
<1>2. /\ fill \in Nat /\ PipeCapacity \in Nat
      /\ stdin \in [data : 0 .. 1, closed : BOOLEAN, wanted : BOOLEAN]
  BY SchedulerAssumption DEF SInv, Values
<1>3. fill' \in Nat /\ fill' <= fill /\ (fill' = fill \/ ~Waits(q, "write"))
  <2>1. CASE SkipParked \/ RetryBlocked
    <3>1. fill' = fill
      BY <2>1 DEF SkipParked, RetryBlocked, Block, ioVars
    <3> QED
      BY <1>2, <3>1
  <2>2. CASE HostWaitsForInput \/ HostSaysAgain
    <3>1. fill' = Drained /\ InHost
      BY <2>2 DEF HostWaitsForInput, HostSaysAgain, InputComplete
    <3>2. Drained = 0 \/ Drained = fill
      BY DEF Drained
    <3>3. Waits(q, "write") => "write" \in Uses
      BY DEF Waits, SInv, CallersOK
    <3> QED
      BY <1>2, <3>1, <3>2, <3>3, NothingFills
  <2> QED
    BY <2>1, <2>2, NothingFills DEF ComesBy
<1>4. stdin'.data \in Nat /\ stdin'.data <= stdin.data /\ stdin'.closed = stdin.closed
  <2>1. CASE SkipParked \/ RetryBlocked
    <3>1. stdin' = stdin \/ \E asks : stdin' = [stdin EXCEPT !.wanted = @ \/ asks]
      BY <2>1 DEF SkipParked, RetryBlocked, Block, ioVars
    <3> QED
      BY <1>2, <3>1
  <2>2. CASE HostWaitsForInput \/ HostSaysAgain
    <3>1. stdin' = stdin \/ \E wanted : stdin' = [stdin EXCEPT !.data = 0, !.wanted = wanted]
      BY <2>2 DEF HostWaitsForInput, HostSaysAgain, InputComplete, Emptied
    <3>2. stdin'.data = stdin.data \/ stdin'.data = 0
      BY <1>2, <3>1
    <3>3. stdin'.closed = stdin.closed
      BY <1>2, <3>1
    <3>4. stdin.data \in Nat
      BY <1>2
    <3> QED
      BY <3>2, <3>3, <3>4
  <2> QED
    BY <2>1, <2>2, NothingFills DEF ComesBy
<1>5. asked \subseteq asked'
  BY DEF ComesBy, SkipParked, RetryBlocked, Block, HostWaitsForInput, HostSaysAgain, HostFills
<1>6. CouldRun(q)' => CouldRun(q)
  BY <1>1, <1>2, <1>3, <1>4, LessToDo DEF procVars
<1> QED
  BY <1>5, <1>6 DEF Still

(* ... and the one it comes by waits, or was told AGAIN. *)
LEMMA ComesByStill ==
    ASSUME SInv, FlagsOK, ProgramsOK, NothingUnseen, ComesBy, NEW q \in Pid, q = inst
    PROVE  Still(q)' /\ (AsksForStdin(q)' => Flagged' \/ stdin'.wanted \/ stdin'.closed)
<1>1. /\ UNCHANGED <<procVars, order, holds>> /\ Turn
      /\ inst \in Pid /\ task \in Pid /\ proc[q] \in Proc /\ proc[q].left = None
  BY ComesByOne DEF ProgramsOK
<1>2. /\ proc \in [Pid -> Proc]
      /\ stdin \in [data : 0 .. 1, closed : BOOLEAN, wanted : BOOLEAN]
  BY DEF SInv, Values
<1>3. /\ Readers' = Readers /\ Writers' = Writers
      /\ P!Current(q) = task /\ stack'[q][Len(stack'[q])] = task
  BY <1>1 DEF Readers, Writers, procVars, task, P!Current
<1>4. CASE SkipParked
  <2>1. proc'[q].parked /\ pending' = pending /\ Flagged
    BY <1>1, <1>4 DEF SkipParked, FlagsOK, Flagged, Turn
  <2> QED
    BY <2>1 DEF Still, Flagged
<1>5. CASE RetryBlocked
  <2> DEFINE c == proc[q].call
  <2>1. /\ c \in Call /\ c # None /\ Block(c) /\ proc[q].body = "guest"
    BY <1>1, <1>5 DEF RetryBlocked, Proc, SInv, CallersOK
  <2>2. /\ proc'[q].call = c /\ proc'[q].body = "guest" /\ fill' = fill
    BY <1>1, <2>1, BlockValues DEF SInv
  <2>3. c.op = "vfs" \/ ~Answerable(task, c)
    BY <2>1 DEF Block
  <2>4. \E asks \in Asks(c) : stdin' = [stdin EXCEPT !.wanted = @ \/ asks]
    BY <2>1 DEF Block
  <2>5. /\ stdin'.data = stdin.data /\ stdin'.closed = stdin.closed
        /\ Asks(c) = {TRUE} => stdin'.wanted
    BY <1>2, <2>4
  <2> HIDE DEF c
  <2>6. \A t : InputReady(t)' => InputReady(t)
    BY <1>1, <1>3, <2>2, <2>5 DEF InputReady
  <2>7. ASSUME CouldRun(q)' PROVE FALSE
    <3>1. CASE c.op = "read"
      BY <1>3, <2>1, <2>2, <2>3, <2>7, <3>1 DEF CouldRun, GuestCouldRun, Answerable, Polls
    <3>2. CASE c.op = "write"
      BY <1>3, <2>1, <2>2, <2>3, <2>7, <3>2 DEF CouldRun, GuestCouldRun, Answerable, Polls, Room
    <3>3. CASE c.op = "stdin"
      BY <2>1, <2>2, <2>3, <2>5, <2>7, <3>3 DEF CouldRun, GuestCouldRun, Answerable, Polls
    <3>4. CASE c.op = "wait"
      BY <1>1, <1>3, <2>1, <2>2, <2>3, <2>7, <3>4
         DEF CouldRun, GuestCouldRun, Answerable, Polls, P!Current, P!Candidates, P!Reapable,
             P!IsChild, procVars
    <3>5. CASE c.op \in Polls
      <4>1. InputReady(task)
        BY <1>3, <2>1, <2>2, <2>6, <2>7, <3>5
           DEF CouldRun, GuestCouldRun, Polls, P!Current, InputReady
      <4> QED
        BY <2>3, <3>5, <4>1 DEF Answerable, Polls
    <3>6. CASE c.op \notin Polls \cup {"read", "write", "stdin", "wait"}
      BY <2>1, <2>2, <2>7, <3>6 DEF CouldRun, GuestCouldRun
    <3> QED
      BY <3>1, <3>2, <3>3, <3>4, <3>5, <3>6
  <2>8. AsksForStdin(q)' => stdin'.wanted
    <3> SUFFICES ASSUME AsksForStdin(q)' PROVE Asks(c) = {TRUE}
      BY <2>5
    <3>1. c.op = "stdin" \/ (c.op = "ppoll" /\ c.arg = 0 /\ "in" \in holds[task])
      BY <1>1, <1>3, <2>2 DEF AsksForStdin, Waits, P!Current
    <3> QED
      BY <3>1 DEF Asks
  <2> QED
    BY <2>7, <2>8 DEF Still
<1>6. CASE HostWaitsForInput \/ HostSaysAgain
  <2>1. proc[q].body # "guest" /\ InHost
    BY <1>6 DEF HostWaitsForInput, HostSaysAgain, InputComplete, InHost
  <2>2. proc[q].call = None
    BY <2>1 DEF SInv, CallersOK
  <2>3. /\ proc'[q].call = None /\ proc'[q].body = proc[q].body /\ proc'[q].left = None
    <3>1. CASE HostWaitsForInput
      BY <1>1, <2>2, <3>1 DEF HostWaitsForInput
    <3>2. CASE HostSaysAgain
      <4>1. proc' = [proc EXCEPT ![inst] = Park(proc[inst])]
        BY <3>2 DEF HostSaysAgain
      <4> QED
        BY <1>1, <1>2, <2>2, <4>1, ParkValues
    <3> QED
      BY <1>6, <3>1, <3>2
  <2>4. ~AsksForStdin(q)'
    BY <2>3 DEF AsksForStdin, Waits
  <2>5. CASE HostSaysAgain
    BY <2>1, <2>3, <2>4, <2>5 DEF HostSaysAgain, Still
  <2>6. CASE HostWaitsForInput
    <3>1. /\ proc[q].body # "source" /\ fill' = Drained /\ stdin' = Emptied(TRUE)
          /\ (FromPipe /\ Writers # {}) \/ (FromStdin /\ ~stdin.closed)
      BY <2>6 DEF HostWaitsForInput, FromPipe, FromStdin, HostReads
    <3>2. ~CouldRun(q)'
      <4>1. CASE FromPipe /\ Writers # {}
        <5>1. fill' = 0 /\ "r" \in holds'[q] /\ Writers' # {}
          BY <1>1, <1>3, <3>1, <4>1 DEF Drained, FromPipe
        <5> QED
          BY <2>1, <2>3, <3>1, <5>1 DEF CouldRun, HostCouldRun
      <4>2. CASE FromStdin /\ ~stdin.closed
        <5>1. /\ stdin'.data = 0 /\ stdin'.closed = FALSE
              /\ "r" \notin holds'[q] /\ "in" \in holds'[q]
          BY <1>1, <1>2, <3>1, <4>2 DEF Emptied, FromStdin
        <5>2. ~("in" \in holds'[q] => stdin'.data > 0 \/ stdin'.closed)
          BY <5>1
        <5> QED
          BY <2>1, <2>3, <3>1, <5>1, <5>2, Zenon DEF CouldRun, HostCouldRun
      <4> QED
        BY <3>1, <4>1, <4>2
    <3> QED
      BY <2>4, <3>2 DEF Still
  <2> QED
    BY <1>6, <2>5, <2>6
<1> QED
  BY <1>4, <1>5, <1>6, NothingFills DEF ComesBy

LEMMA ScannedKept ==
    ASSUME SInv, FlagsOK, ProgramsOK, NothingUnseen, Scanned, [Next]_vars
    PROVE  Scanned'
<1> SUFFICES ASSUME Unmoved', NEW q \in Passed'
             PROVE  /\ Still(q)'
                    /\ AsksForStdin(q)' => Flagged' \/ stdin'.wanted \/ stdin'.closed
  BY DEF Scanned
<1>1. CASE Tick \/ UNCHANGED vars
  <2>1. UNCHANGED <<procVars, order, proc, ioVars, wake, pending, run, report, asked>>
    BY <1>1 DEF Tick, vars
  <2>2. Unmoved /\ q \in Passed
    BY <2>1 DEF Unmoved, Passed
  <2>3. Still(q) /\ (AsksForStdin(q) => Flagged \/ stdin.wanted \/ stdin.closed)
    BY <2>2 DEF Scanned
  <2>4. CouldRun(q)' => CouldRun(q)
    <3>1. fill \in Nat /\ stdin.data \in Nat /\ fill <= fill /\ stdin.data <= stdin.data
      BY SchedulerAssumption DEF SInv, Values
    <3> QED
      BY <2>1, <3>1, LessToDo DEF procVars, ioVars
  <2> QED
    BY <2>1, <2>3, <2>4
       DEF Still, AsksForStdin, Waits, Flagged, procVars, ioVars, P!Current
<1>2. CASE run'.index = 1
  BY <1>2 DEF Passed
<1>3. CASE Unmoved /\ ComesBy
  <2>1. CASE q = inst
    BY <1>3, <2>1, ComesByOne, ComesByStill
  <2>2. CASE q # inst
    <3>1. /\ q \in Passed /\ q \in Pid /\ proc'[q] = proc[q]
          /\ UNCHANGED <<procVars, order, holds>>
      BY <1>3, <2>2, ComesByOne
    <3>2. Still(q)'
      BY <1>3, <2>2, <3>1, OthersStill DEF Scanned
    <3>3. AsksForStdin(q)' => AsksForStdin(q)
      BY <3>1 DEF AsksForStdin, Waits, procVars, P!Current
    <3>4. Flagged \/ stdin.wanted \/ stdin.closed
             => Flagged' \/ stdin'.wanted \/ stdin'.closed
      <4>1. stdin \in [data : 0 .. 1, closed : BOOLEAN, wanted : BOOLEAN]
            /\ pending \in [vfs : BOOLEAN, host : BOOLEAN]
        BY DEF SInv, Values
      <4>2. CASE SkipParked
        BY <4>2 DEF SkipParked, ioVars, Flagged
      <4>3. CASE RetryBlocked
        <5>1. /\ \E asks : stdin' = [stdin EXCEPT !.wanted = @ \/ asks]
              /\ \E vfs : pending' = [pending EXCEPT !.vfs = @ \/ vfs]
          BY <4>3 DEF RetryBlocked, Block
        <5> QED
          BY <4>1, <5>1 DEF Flagged
      <4>4. CASE HostWaitsForInput
        BY <4>1, <4>4 DEF HostWaitsForInput, Emptied, Flagged
      <4>5. CASE HostSaysAgain
        <5>1. pending' = [pending EXCEPT !.host = TRUE]
          BY <4>5 DEF HostSaysAgain
        <5> QED
          BY <4>1, <5>1 DEF Flagged
      <4> QED
        BY <1>3, <4>2, <4>3, <4>4, <4>5, NothingFills DEF ComesBy
    <3> QED
      BY <1>3, <3>1, <3>2, <3>3, <3>4 DEF Scanned
  <2> QED
    BY <2>1, <2>2
<1> QED
  BY <1>1, <1>2, <1>3, UnmovedSteps DEF NothingUnseen

-----------------------------------------------------------------------------
(* 12. What the caller is told. *)

LEMMA SameToDo ==
    ASSUME SInv, UNCHANGED <<procVars, order, proc, ioVars>>, NEW q
    PROVE  CouldRun(q)' => CouldRun(q)
<1>1. fill \in Nat /\ stdin.data \in Nat /\ fill <= fill /\ stdin.data <= stdin.data
  BY SchedulerAssumption DEF SInv, Values
<1> QED
  BY <1>1, LessToDo DEF procVars, ioVars

LEMMA DeadlockKept ==
    ASSUME SInv, FlagsOK, VfsSeen, ProgramsOK, Scanned, DeadlockIsReal, NothingUnseen, [Next]_vars
    PROVE  DeadlockIsReal'
<1> DEFINE Pollers(q) == Waits(q, "ppoll") /\ proc[q].call.arg = 0 /\ "in" \in holds[P!Current(q)]
           Blocked(q) ==
              /\ ~CouldRun(q)
              /\ ~(proc[q].call # None /\ Timed(proc[q].call)) /\ ~Waits(q, "vfs")
              /\ ~(q \in asked /\ proc[q].body # "guest")
              /\ ~stdin.closed => ~Waits(q, "stdin") /\ ~Pollers(q)
<1>1. DeadlockIsReal <=> (Told("deadlock") => \A q \in Listed : Blocked(q))
  BY DEF DeadlockIsReal, Sleepers, WaitsFor, HostsAsked, StdinPollers, Waits
<1>2. DeadlockIsReal' <=> (Told("deadlock")' => \A q \in Listed' : Blocked(q)')
  BY DEF DeadlockIsReal, Sleepers, WaitsFor, HostsAsked, StdinPollers, Waits
<1> SUFFICES ASSUME Told("deadlock")', NEW q \in Listed' PROVE Blocked(q)'
  BY <1>2
<1>3. Idle'
  BY DEF Idle, Told, Reports
<1>4. CASE Idle /\ UNCHANGED <<procVars, order, proc, ioVars, wake, pending, report, asked>>
  <2>1. Told("deadlock") /\ q \in Listed
    BY <1>4 DEF Told, Idle, Listed
  <2>2. Blocked(q)
    BY <1>1, <2>1
  <2>3. CouldRun(q)' => CouldRun(q)
    BY <1>4, SameToDo
  <2> QED
    BY <1>4, <2>2, <2>3 DEF procVars, ioVars, P!Current, Waits
<1>5. CASE GoIdle
  <2>1. /\ Unmoved /\ run.at # "caller" /\ q \in Listed /\ q \in Passed /\ q \in Pid
        /\ UNCHANGED <<procVars, order, proc, ioVars, wake, asked>> /\ WhyIdle = "deadlock"
    BY <1>5, AllPassed DEF Listed, Told
  <2>2. /\ ~Flagged /\ \A p \in Pid : wake[p] = None
        /\ ~stdin.closed => ~stdin.wanted
    BY <2>1 DEF WhyIdle, Flagged
  <2>3. asked = {} /\ ~proc[q].parked
    BY <2>1, <2>2 DEF FlagsOK, Flagged
  <2>4. ~CouldRun(q) /\ (~stdin.closed => ~AsksForStdin(q))
    BY <2>1, <2>2, <2>3 DEF Scanned, Still
  <2>5. ~Waits(q, "vfs")
    BY <2>1, <2>2 DEF VfsSeen, Flagged
  <2>6. ASSUME proc[q].call # None, Timed(proc[q].call) PROVE FALSE
    <3>1. stack[q] # <<>>
      BY <2>1 DEF Passed, SInv, ListOK
    <3>2. P!Current(q) \in Pid /\ wake[P!Current(q)] = proc[q].call.arg
      BY <2>1, <2>6, <3>1, FactsOfProcesses DEF SInv, SleepOK, ProcessFacts
    <3>3. proc[q].call \in Call
      BY <2>1, <2>6 DEF SInv, Values, Proc
    <3>4. proc[q].call.arg \in Nat
      BY <2>6, <3>3, SchedulerAssumption DEF Call, Timed, Polls, Time
    <3> QED
      BY <2>2, <3>2, <3>4, SchedulerAssumption
  <2>7. CouldRun(q)' => CouldRun(q)
    BY <2>1, SameToDo
  <2> QED
    BY <2>1, <2>3, <2>4, <2>5, <2>6, <2>7
       DEF procVars, ioVars, P!Current, Waits, AsksForStdin
<1> QED
  BY <1>3, <1>4, <1>5, IdleSteps

LEMMA NothingRunnableKept ==
    ASSUME SInv, ProgramsOK, Scanned, NothingRunnableWhenIdle, NothingUnseen, [Next]_vars,
           Bodies \subseteq {"guest"}
    PROVE  NothingRunnableWhenIdle'
<1> SUFFICES ASSUME Idle', NEW q \in Listed' PROVE proc'[q].parked \/ ~CouldRun(q)'
  BY DEF NothingRunnableWhenIdle, Told, Idle
<1>1. CASE Idle /\ UNCHANGED <<procVars, order, proc, ioVars, wake, pending, report, asked>>
  <2>1. q \in Listed
    BY <1>1 DEF Listed
  <2>2. proc[q].parked \/ ~CouldRun(q)
    BY <1>1, <2>1 DEF NothingRunnableWhenIdle, Told, Idle
  <2> QED
    BY <1>1, <2>2, SameToDo
<1>2. CASE GoIdle
  <2>1. /\ Unmoved /\ q \in Passed /\ q \in Pid
        /\ UNCHANGED <<procVars, order, proc, ioVars>>
    BY <1>2, AllPassed DEF Listed
  <2>2. proc[q].parked \/ ~CouldRun(q)
    BY <2>1 DEF Scanned, Still, ProgramsOK
  <2> QED
    BY <2>1, <2>2, SameToDo
<1> QED
  BY <1>1, <1>2, IdleSteps

LEMMA AtTheStart ==
    Init => /\ FlagsOK /\ VfsSeen /\ ProgramsOK /\ Scanned
            /\ AgainIsReported /\ DeadlockIsReal /\ NothingRunnableWhenIdle
<1> SUFFICES ASSUME Init
             PROVE  /\ FlagsOK /\ VfsSeen /\ ProgramsOK /\ Scanned
                    /\ AgainIsReported /\ DeadlockIsReal /\ NothingRunnableWhenIdle
  OBVIOUS
<1>1. run.at = "caller" /\ report = "none"
  BY DEF Init
<1>2. FlagsOK /\ VfsSeen /\ Scanned
  BY <1>1 DEF FlagsOK, VfsSeen, Scanned, Unmoved
<1>3. ProgramsOK
  BY DEF Init, ProgramsOK, NewProc
<1>4. AgainIsReported /\ DeadlockIsReal /\ NothingRunnableWhenIdle
  BY <1>1 DEF AgainIsReported, DeadlockIsReal, NothingRunnableWhenIdle, Told
<1> QED
  BY <1>2, <1>3, <1>4

(* Unless an execve fails: whoever waits for the caller's Vfs, and every   *)
(* host command that said AGAIN, is reported before anything else.         *)
THEOREM SchedulerReportsAgain ==
    ASSUME "exec_fails" \notin Uses PROVE Spec => []AgainIsReported
<1>1. SInv /\ FlagsOK /\ VfsSeen /\ AgainIsReported /\ [Next]_vars
        => FlagsOK' /\ VfsSeen' /\ AgainIsReported'
  BY FlagsKept, VfsSeenKept, AgainReportedKept
<1> QED
  BY <1>1, AtTheStart, SchedulerInvariant, PTL DEF Spec

(* Among programs that do nothing in a turn which is reported as none:     *)
(* when step reports a deadlock, nobody could go on, and nobody waits for  *)
(* the clock, the caller's Vfs, a host command or open standard input.     *)
THEOREM SchedulerDeadlocks ==
    ASSUME NothingUnseen PROVE Spec => []DeadlockIsReal
<1>1. "exec_fails" \notin Uses
  BY DEF NothingUnseen
<1>2. SInv /\ FlagsOK /\ VfsSeen /\ ProgramsOK /\ Scanned /\ DeadlockIsReal /\ [Next]_vars
        => FlagsOK' /\ VfsSeen' /\ ProgramsOK' /\ Scanned' /\ DeadlockIsReal'
  BY <1>1, FlagsKept, VfsSeenKept, ProgramsKept, ScannedKept, DeadlockKept
<1> QED
  BY <1>2, AtTheStart, SchedulerInvariant, PTL DEF Spec

(* In a session of guest programs, none of whose execve fails: whatever    *)
(* step reports but an exhausted budget, no instance could go on by        *)
(* itself, however late in a pass a pipe was filled, drained or closed.    *)
THEOREM SchedulerIdle ==
    ASSUME "exec_fails" \notin Uses, Bodies \subseteq {"guest"}
    PROVE  Spec => []NothingRunnableWhenIdle
<1>1. NothingUnseen
  BY DEF NothingUnseen
<1>2. SInv /\ FlagsOK /\ ProgramsOK /\ Scanned /\ NothingRunnableWhenIdle /\ [Next]_vars
        => FlagsOK' /\ ProgramsOK' /\ Scanned' /\ NothingRunnableWhenIdle'
  BY <1>1, FlagsKept, ProgramsKept, ScannedKept, NothingRunnableKept
<1> QED
  BY <1>2, AtTheStart, SchedulerInvariant, PTL DEF Spec
=============================================================================
