---------------------------- MODULE MemoryProofs ----------------------------
(***************************************************************************)
(* For any number of pids, any limits and any sizes: what the sandbox is   *)
(* charged is what its live instances hold.                                *)
(*                                                                         *)
(* Every step of Memory is one of Processes with its effect on memory, so  *)
(* what module ProcessesProofs shows of the process table holds here too.  *)
(* The sum is a recursive function over the pids: section 1 says by        *)
(* induction how it follows a change of one size, and section 4 how        *)
(* kill_all counts it down to nothing.                                     *)
(***************************************************************************)
EXTENDS Memory, ProcessesProofs

Sizes == [Pid -> Nat]
MemoryRecord == [size : Nat, charged : Nat, grown : Nat]

-----------------------------------------------------------------------------
(* 1. The sum. *)

Added(w) == [n \in 1 .. MaxPid |-> [v \in Nat |-> v + w[n]]]

LEMMA AddedIsLoop ==
    ASSUME NEW w \in Sizes
    PROVE  Added(w) \in [1 .. MaxPid -> [Nat -> Nat]]
<1>1. \A n \in 1 .. MaxPid : w[n] \in Nat
  BY DEF Sizes, Pid
<1>2. \A n \in 1 .. MaxPid : [v \in Nat |-> v + w[n]] \in [Nat -> Nat]
  BY <1>1
<1> QED
  BY <1>2 DEF Added

LEMMA TotalIsLoop ==
    ASSUME NEW w \in Sizes
    PROVE  \E g : IsLoop(g, Nat, MaxPid, 0, Added(w)) /\ Total(w) = g[MaxPid]
<1> DEFINE Round(f) == [n \in 0 .. MaxPid |-> IF n = 0 THEN 0 ELSE f[n - 1] + w[n]]
           after == CHOOSE f : f = Round(f)
           F == Added(w)
<1>1. MaxPid \in Nat /\ F \in [1 .. MaxPid -> [Nat -> Nat]]
  BY ProcessesAssumption, AddedIsLoop
<1>2. PICK g : IsLoop(g, Nat, MaxPid, 0, F)
  BY <1>1, LoopExists
<1>3. g = Round(g)
  <2>1. ASSUME NEW n \in 1 .. MaxPid PROVE g[n] = Round(g)[n]
    <3>1. g[n] = F[n][g[n - 1]] /\ g[n - 1] \in Nat
      <4>1. g \in [0 .. MaxPid -> Nat] /\ g[n] = F[n][g[n - 1]]
        BY <1>2 DEF IsLoop
      <4>2. n - 1 \in 0 .. MaxPid
        BY <1>1
      <4> QED
        BY <4>1, <4>2
    <3>2. n \in 0 .. MaxPid /\ n # 0
      BY <1>1
    <3> QED
      BY <3>1, <3>2, Zenon DEF Added
  <2>2. Round(g)[0] = 0 /\ DOMAIN Round(g) = 0 .. MaxPid
    BY <1>1
  <2>3. g[0] = 0 /\ g \in [0 .. MaxPid -> Nat]
    BY <1>2 DEF IsLoop
  <2>4. \A n \in 0 .. MaxPid : n = 0 \/ n \in 1 .. MaxPid
    BY <1>1
  <2>5. Round(g) = [n \in 0 .. MaxPid |-> Round(g)[n]]
    BY Zenon
  <2> HIDE DEF Round
  <2> QED
    BY <2>1, <2>2, <2>3, <2>4, <2>5
<1>4. after = Round(after)
  BY <1>3
<1>5. Total(w) = after[MaxPid]
  BY DEF Total
<1> HIDE DEF after
<1>6. after[0] = 0
  BY <1>1, <1>4
<1>7. \E W : after \in [0 .. MaxPid -> W]
  <2>1. Round(after) \in [0 .. MaxPid -> {Round(after)[n] : n \in 0 .. MaxPid}]
    OBVIOUS
  <2> HIDE DEF Round
  <2> QED
    BY <1>4, <2>1
<1>8. \A n \in 1 .. MaxPid : after[n - 1] \in Nat => after[n] = F[n][after[n - 1]]
  <2>1. ASSUME NEW n \in 1 .. MaxPid, after[n - 1] \in Nat PROVE after[n] = F[n][after[n - 1]]
    <3>1. n \in 0 .. MaxPid /\ n # 0
      BY <1>1
    <3>2. after[n] = after[n - 1] + w[n]
      BY <1>4, <3>1, Zenon
    <3> QED
      BY <2>1, <3>2, Zenon DEF Added
  <2> QED
    BY <2>1
<1> HIDE DEF F, Round
<1>9. IsLoop(after, Nat, MaxPid, 0, F)
  BY <1>1, <1>6, <1>7, <1>8, RecursionIsLoop
<1> QED
  BY <1>5, <1>9 DEF F

(* A sum as its running totals. *)
LEMMA RunningTotals ==
    ASSUME NEW w \in Sizes
    PROVE  \E g \in [0 .. MaxPid -> Nat] :
              /\ g[0] = 0 /\ Total(w) = g[MaxPid]
              /\ \A n \in 1 .. MaxPid : g[n] = g[n - 1] + w[n]
<1>1. PICK g : IsLoop(g, Nat, MaxPid, 0, Added(w)) /\ Total(w) = g[MaxPid]
  BY TotalIsLoop
<1>2. g \in [0 .. MaxPid -> Nat] /\ g[0] = 0
  BY <1>1 DEF IsLoop
<1>3. ASSUME NEW n \in 1 .. MaxPid PROVE g[n] = g[n - 1] + w[n]
  <2>1. g[n] = Added(w)[n][g[n - 1]]
    BY <1>1 DEF IsLoop
  <2>2. g[n - 1] \in Nat
    <3>1. n - 1 \in 0 .. MaxPid
      BY ProcessesAssumption
    <3> QED
      BY <1>2, <3>1
  <2> QED
    BY <2>1, <2>2, Zenon DEF Added
<1> QED
  BY <1>1, <1>2, <1>3

LEMMA TotalOfNothing ==
    ASSUME NEW w \in Sizes, \A b \in Pid : w[b] = 0
    PROVE  Total(w) = 0
<1>1. PICK g \in [0 .. MaxPid -> Nat] :
         /\ g[0] = 0 /\ Total(w) = g[MaxPid]
         /\ \A n \in 1 .. MaxPid : g[n] = g[n - 1] + w[n]
  BY RunningTotals
<1> DEFINE S == {m \in Nat : m <= MaxPid => g[m] = 0}
<1>2. 0 \in S
  BY <1>1
<1>3. ASSUME NEW m \in Nat, m \in S, m + 1 <= MaxPid PROVE g[m + 1] = 0
  <2>1. m + 1 \in 1 .. MaxPid /\ (m + 1) - 1 = m /\ m + 1 \in Pid
    BY <1>3, ProcessesAssumption DEF Pid
  <2>2. g[m + 1] = g[m] + w[m + 1] /\ w[m + 1] = 0 /\ g[m] = 0
    BY <1>1, <1>3, <2>1, ProcessesAssumption
  <2> QED
    BY <2>2
<1>4. \A m \in Nat : m \in S => m + 1 \in S
  BY <1>3
<1> HIDE DEF S
<1>5. MaxPid \in S
  BY <1>2, <1>4, Induction, ProcessesAssumption
<1> QED
  BY <1>1, <1>5, ProcessesAssumption DEF S

(* One more term, at b or not. *)
LEMMA OneTerm ==
    ASSUME NEW m \in Nat, NEW b \in Nat, NEW wb \in Nat, NEW vb \in Nat,
           NEW gm \in Nat, NEW hm \in Nat, NEW x \in Nat, NEW y \in Nat, NEW g1, NEW h1,
           g1 = gm + x /\ h1 = hm + y,
           /\ m < b => hm = gm
           /\ b <= m => hm = gm - wb + vb /\ wb <= gm,
           m + 1 # b => y = x,
           m + 1 = b => x = wb /\ y = vb
    PROVE  /\ m + 1 < b => h1 = g1
           /\ b <= m + 1 => h1 = g1 - wb + vb /\ wb <= g1
OBVIOUS

(* A sum follows the change of one of its terms. *)
LEMMA TotalFollows ==
    ASSUME NEW w \in Sizes, NEW v \in Sizes, NEW b \in Pid,
           \A c \in Pid : c # b => v[c] = w[c]
    PROVE  /\ Total(w) \in Nat /\ Total(v) \in Nat /\ w[b] \in Nat /\ v[b] \in Nat
           /\ Total(v) = Total(w) - w[b] + v[b]
           /\ w[b] <= Total(w)
<1>1. PICK g \in [0 .. MaxPid -> Nat] :
         /\ g[0] = 0 /\ Total(w) = g[MaxPid]
         /\ \A n \in 1 .. MaxPid : g[n] = g[n - 1] + w[n]
  BY RunningTotals
<1>2. PICK h \in [0 .. MaxPid -> Nat] :
         /\ h[0] = 0 /\ Total(v) = h[MaxPid]
         /\ \A n \in 1 .. MaxPid : h[n] = h[n - 1] + v[n]
  BY RunningTotals
<1>3. w[b] \in Nat /\ v[b] \in Nat /\ b \in 1 .. MaxPid /\ MaxPid \in Nat
  BY ProcessesAssumption DEF Sizes, Pid
<1> DEFINE S == {m \in Nat : m <= MaxPid =>
                    /\ m < b => h[m] = g[m]
                    /\ b <= m => h[m] = g[m] - w[b] + v[b] /\ w[b] <= g[m]}
<1>4. 0 \in S
  BY <1>1, <1>2, <1>3
<1>5. ASSUME NEW m \in Nat, m \in S, m + 1 <= MaxPid
      PROVE  /\ m + 1 < b => h[m + 1] = g[m + 1]
             /\ b <= m + 1 => h[m + 1] = g[m + 1] - w[b] + v[b] /\ w[b] <= g[m + 1]
  <2>1. m + 1 \in 1 .. MaxPid /\ (m + 1) - 1 = m /\ m + 1 \in Pid /\ m \in 0 .. MaxPid
    BY <1>3, <1>5 DEF Pid
  <2>2. g[m + 1] = g[m] + w[m + 1] /\ h[m + 1] = h[m] + v[m + 1]
    BY <1>1, <1>2, <2>1
  <2>3. g[m] \in Nat /\ h[m] \in Nat /\ w[m + 1] \in Nat /\ v[m + 1] \in Nat
    BY <1>1, <1>2, <2>1 DEF Sizes
  <2>4. /\ m < b => h[m] = g[m]
        /\ b <= m => h[m] = g[m] - w[b] + v[b] /\ w[b] <= g[m]
    BY <1>3, <1>5
  <2>5. m + 1 # b => v[m + 1] = w[m + 1]
    BY <2>1
  <2> HIDE DEF S
  <2>6. (m + 1 = b => w[m + 1] = w[b] /\ v[m + 1] = v[b]) /\ b \in Nat
    BY <1>3
  <2> DEFINE gm == g[m]  hm == h[m]  x == w[m + 1]  y == v[m + 1]
             g1 == g[m + 1]  h1 == h[m + 1]  wb == w[b]  vb == v[b]
  <2>7. /\ gm \in Nat /\ hm \in Nat /\ x \in Nat /\ y \in Nat /\ wb \in Nat /\ vb \in Nat
        /\ g1 = gm + x /\ h1 = hm + y
        /\ m < b => hm = gm
        /\ b <= m => hm = gm - wb + vb /\ wb <= gm
        /\ m + 1 # b => y = x
        /\ m + 1 = b => x = wb /\ y = vb
    BY <1>3, <2>2, <2>3, <2>4, <2>5, <2>6
  <2> HIDE DEF gm, hm, x, y, g1, h1, wb, vb
  <2>8. /\ m + 1 < b => h1 = g1
        /\ b <= m + 1 => h1 = g1 - wb + vb /\ wb <= g1
    BY <2>6, <2>7, OneTerm
  <2> QED
    BY <2>8 DEF gm, hm, x, y, g1, h1, wb, vb
<1>6. \A m \in Nat : m \in S => m + 1 \in S
  BY <1>5
<1> HIDE DEF S
<1>7. MaxPid \in S
  BY <1>3, <1>4, <1>6, Induction
<1>8. h[MaxPid] = g[MaxPid] - w[b] + v[b] /\ w[b] <= g[MaxPid]
  BY <1>3, <1>7 DEF S
<1>9. g[MaxPid] \in Nat /\ h[MaxPid] \in Nat
  BY <1>1, <1>2, <1>3
<1> QED
  BY <1>1, <1>2, <1>3, <1>8, <1>9

-----------------------------------------------------------------------------
(* 2. The steps of Memory are steps of Processes. *)

LEMMA MemoryStepsAreProcessSteps ==
    /\ MemoryInit => Init
    /\ [MemoryNext]_allVars => [Next]_vars
<1>1. MemoryInit => Init
  BY DEF MemoryInit
<1>2. ASSUME MemoryNext PROVE Next \/ UNCHANGED vars
  <2>1. ASSUME NEW image \in Images, StartCharged(image) PROVE Next
    BY <2>1 DEF StartCharged, Next
  <2>2. ASSUME NEW b \in Pid, NEW image \in Images, Replace(b, image) PROVE UNCHANGED vars
    BY <2>2 DEF Replace
  <2>3. ASSUME StartRefused PROVE Next
    BY <2>3 DEF StartRefused, Next
  <2>4. ASSUME NEW b \in Pid, ReplaceFails(b) PROVE Next
    BY <2>4 DEF ReplaceFails, Next
  <2>5. ASSUME NEW b \in Pid, NEW status \in Codes \cup {"126", "SIGSEGV"}, FinishReleases(b, status)
        PROVE  Next
    BY <2>5 DEF FinishReleases, Next, Status
  <2>6. ASSUME NEW b \in Pid, NEW n \in Lengths, Brk(b, n) \/ Mmap(b, n) \/ MmapBlocks(b, n)
        PROVE  UNCHANGED vars
    BY <2>6 DEF Brk, Mmap, MmapBlocks
  <2>7. ASSUME NEW b \in Pid, RetryMaps(b) \/ RetryBlocks(b) \/ RetryRefused(b)
        PROVE  UNCHANGED vars
    BY <2>7 DEF RetryMaps, RetryBlocks, RetryRefused
  <2>8. ASSUME NEW order \in SetToSeqs(Instances), KillAllReleases(order) PROVE Next
    BY <2>8 DEF KillAllReleases, Next
  <2>9. ASSUME Others PROVE Next
    BY <2>9 DEF Others, Next
  <2> QED
    BY <1>2, <2>1, <2>2, <2>3, <2>4, <2>5, <2>6, <2>7, <2>8, <2>9 DEF MemoryNext
<1>3. UNCHANGED allVars => UNCHANGED vars
  BY DEF allVars
<1> QED
  BY <1>1, <1>2, <1>3

(* Memory implements Processes: accounting adds no step to the life of     *)
(* processes and changes none, so all that holds of them holds here.       *)
THEOREM MemoryImplementsProcesses == MemorySpec => Spec
<1>1. MemoryInit => Init
  BY MemoryStepsAreProcessSteps
<1>2. [MemoryNext]_allVars => [Next]_vars
  BY MemoryStepsAreProcessSteps
<1> QED
  BY <1>1, <1>2, PTL DEF MemorySpec, Spec

-----------------------------------------------------------------------------
(* 3. The invariant, and how one instance's change keeps it. *)

MemoryTypeOK ==
    /\ used \in Nat
    /\ memory \in [Pid -> MemoryRecord]
    /\ mapping \in [Pid -> Nat]

WaitersAreInstances == \A b \in Pid : mapping[b] # 0 => b \in Instances

MemoryInv ==
    /\ IInv
    /\ MemoryTypeOK
    /\ WaitersAreInstances
    /\ MemoryIsAccounted

LEMMA SizesOfInstances ==
    ASSUME MemoryTypeOK
    PROVE  /\ InstanceSizes \in Sizes
           /\ \A b \in Pid : InstanceSizes[b] = IF b \in Instances THEN memory[b].size ELSE 0
           /\ \A b \in Pid : /\ memory[b] \in MemoryRecord /\ memory[b].size \in Nat
                             /\ memory[b].charged \in Nat /\ memory[b].grown \in Nat
<1>1. \A b \in Pid : /\ memory[b] \in MemoryRecord /\ memory[b].size \in Nat
                     /\ memory[b].charged \in Nat /\ memory[b].grown \in Nat
  BY DEF MemoryTypeOK, MemoryRecord
<1> QED
  BY <1>1 DEF InstanceSizes, Sizes

(* What an instance has is not more than what is used. *)
LEMMA HeldIsUsed ==
    ASSUME MemoryInv, NEW b \in Pid, b \in Instances
    PROVE  /\ Held(b) = memory[b].size /\ Held(b) = InstanceSizes[b] /\ Held(b) \in Nat
           /\ used \in Nat /\ used <= MemoryLimit
           /\ Released(used, Held(b)) = used - InstanceSizes[b]
           /\ used - InstanceSizes[b] \in Nat
<1>1. InstanceSizes \in Sizes /\ InstanceSizes[b] = memory[b].size /\ memory[b].size \in Nat
  BY SizesOfInstances DEF MemoryInv
<1>2. Held(b) = memory[b].size /\ used = Total(InstanceSizes) /\ used <= MemoryLimit
  BY DEF MemoryInv, MemoryIsAccounted
<1>3. InstanceSizes[b] <= Total(InstanceSizes) /\ Total(InstanceSizes) \in Nat
  BY <1>1, TotalFollows
<1>4. Held(b) <= used /\ used \in Nat
  BY <1>1, <1>2, <1>3
<1> QED
  BY <1>1, <1>2, <1>4 DEF Released

(* Only b changes, and what is used changes with it. *)
LEMMA OneChange ==
    ASSUME MemoryInv, IInv', MemoryTypeOK', NEW b \in Pid,
           \A c \in Pid : c # b => /\ (c \in Instances') <=> (c \in Instances)
                                   /\ memory'[c] = memory[c] /\ mapping'[c] = mapping[c],
           IF b \in Instances' THEN memory'[b].size = Held(b)' ELSE memory'[b] = NoMemory,
           mapping'[b] # 0 => b \in Instances',
           used' = used - InstanceSizes[b] + InstanceSizes'[b],
           used' <= MemoryLimit
    PROVE  MemoryInv'
<1>1. InstanceSizes \in Sizes
  BY SizesOfInstances DEF MemoryInv
<1>2. InstanceSizes' \in Sizes
  <2>1. \A c \in Pid : memory'[c].size \in Nat
    BY DEF MemoryTypeOK, MemoryRecord
  <2> QED
    BY <2>1 DEF InstanceSizes, Sizes
<1>3. \A c \in Pid : c # b => InstanceSizes'[c] = InstanceSizes[c]
  BY DEF InstanceSizes
<1>4. Total(InstanceSizes') = Total(InstanceSizes) - InstanceSizes[b] + InstanceSizes'[b]
  BY <1>1, <1>2, <1>3, TotalFollows
<1>5. used = Total(InstanceSizes)
  BY DEF MemoryInv, MemoryIsAccounted
<1>6. used' = Total(InstanceSizes')
  BY <1>4, <1>5
<1>7. ASSUME NEW c \in Pid
      PROVE  IF c \in Instances' THEN memory'[c].size = Held(c)' ELSE memory'[c] = NoMemory
  <2>1. CASE c = b
    BY <2>1
  <2>2. CASE c # b
    <3>1. /\ (c \in Instances') <=> (c \in Instances)
          /\ memory'[c] = memory[c]
      BY <2>2
    <3>2. IF c \in Instances THEN memory[c].size = Held(c) ELSE memory[c] = NoMemory
      BY DEF MemoryInv, MemoryIsAccounted
    <3> QED
      BY <3>1, <3>2 DEF Held
  <2> QED
    BY <2>1, <2>2
<1>8. MemoryIsAccounted'
  BY <1>6, <1>7 DEF MemoryIsAccounted
<1>9. WaitersAreInstances'
  BY DEF MemoryInv, WaitersAreInstances
<1> QED
  BY <1>8, <1>9 DEF MemoryInv

(* Nobody's memory changes. *)
LEMMA NoChange ==
    ASSUME MemoryInv, IInv', used' = used, memory' = memory, mapping' \in [Pid -> Nat],
           \A b \in Pid : mapping'[b] # 0 => b \in Instances,
           \A b \in Pid : (b \in Instances') <=> (b \in Instances)
    PROVE  MemoryInv'
<1>1. MemoryTypeOK'
  BY DEF MemoryInv, MemoryTypeOK
<1>2. InstanceSizes' = InstanceSizes
  BY DEF InstanceSizes
<1>3. MemoryIsAccounted'
  BY <1>2 DEF MemoryInv, MemoryIsAccounted, Held
<1>4. WaitersAreInstances'
  BY DEF WaitersAreInstances
<1> QED
  BY <1>1, <1>3, <1>4 DEF MemoryInv

LEMMA PagesAreBytes ==
    ASSUME NEW bytes \in Nat
    PROVE  Pages(bytes) \in Nat
<1>1. Page \in Nat \ {0}
  BY MemoryAssumption
<1>2. bytes + Page - 1 \in Nat
  BY <1>1
<1>3. \A a \in Nat : a \div Page \in Nat
  BY <1>1
<1>4. \A a \in Nat : a * Page \in Nat
  BY <1>1
<1> QED
  BY <1>2, <1>3, <1>4 DEF Pages

LEMMA NeedIsBytes ==
    ASSUME NEW image \in Images
    PROVE  /\ Need(image) \in Nat /\ Charged(Need(image)) \in MemoryRecord
           /\ Charged(Need(image)).size = Need(image)
           /\ Charged(Need(image)).charged + Charged(Need(image)).grown = Need(image)
<1>1. Need(image) \in Nat
  BY MemoryAssumption DEF Need
<1> QED
  BY <1>1 DEF Charged, MemoryRecord

-----------------------------------------------------------------------------
(* 4. The steps. *)

LEMMA GrowKeepsInvariant ==
    ASSUME MemoryInv, IInv', UNCHANGED vars, NEW b \in Pid, b \in Instances,
           NEW bytes \in Nat, Grow(b, bytes),
           mapping' \in [Pid -> Nat], \A c \in Pid : c # b => mapping'[c] = mapping[c]
    PROVE  MemoryInv'
<1>1. memory[b] \in MemoryRecord /\ used \in Nat /\ memory \in [Pid -> MemoryRecord]
  BY DEF MemoryInv, MemoryTypeOK
<1> DEFINE r == memory[b]
<1>2. /\ memory'[b] = [size |-> r.size + bytes, charged |-> r.charged, grown |-> r.grown + bytes]
      /\ \A c \in Pid : c # b => memory'[c] = memory[c]
      /\ DOMAIN memory' = Pid /\ memory' = [c \in Pid |-> memory'[c]]
  <2>1. memory' = [memory EXCEPT ![b].size = @ + bytes, ![b].grown = @ + bytes]
    BY DEF Grow
  <2> QED
    BY <1>1, <2>1 DEF MemoryRecord
<1>3. /\ memory'[b] \in MemoryRecord
      /\ memory'[b].size = r.size + bytes
      /\ memory'[b].charged = r.charged /\ memory'[b].grown = r.grown + bytes
  BY <1>1, <1>2 DEF MemoryRecord
<1>4. memory' \in [Pid -> MemoryRecord]
  <2>1. \A c \in Pid : memory'[c] \in MemoryRecord
    BY <1>1, <1>2, <1>3
  <2> QED
    BY <1>2, <2>1
<1>5. used' = used + bytes /\ used' <= MemoryLimit /\ used' \in Nat
  BY <1>1 DEF Grow, Fits
<1>6. Instances' = Instances
  BY DEF vars, Instances
<1>7. /\ r.size = r.charged + r.grown
      /\ r.size \in Nat /\ r.charged \in Nat /\ r.grown \in Nat
  BY <1>1 DEF MemoryInv, MemoryIsAccounted, Held, MemoryRecord
<1>8. InstanceSizes[b] = r.size /\ InstanceSizes'[b] = r.size + bytes
  BY <1>3, <1>6 DEF InstanceSizes
<1>9. memory'[b].size = Held(b)'
  BY <1>3, <1>7 DEF Held
<1>10. used' = used - InstanceSizes[b] + InstanceSizes'[b]
  BY <1>1, <1>5, <1>7, <1>8
<1>11. MemoryTypeOK'
  BY <1>4, <1>5 DEF MemoryTypeOK
<1> HIDE DEF r
<1> QED
  BY <1>2, <1>5, <1>6, <1>9, <1>10, <1>11, OneChange

LEMMA StartChargedKeepsInvariant ==
    ASSUME MemoryInv, IInv', NEW image \in Images, StartCharged(image)
    PROVE  MemoryInv'
<1> DEFINE n == Need(image)
<1>1. IInv /\ Start /\ MemoryTypeOK
  BY DEF MemoryInv, StartCharged
<1>2. PICK h \in Pid : /\ h = Head(spawn) /\ stack[h] = <<>>
                      /\ stack' = [stack EXCEPT ![h] = <<h>>]
  <2> DEFINE h == Head(spawn)
  <2>1. spawn \in Seq(Pid) /\ spawn # <<>>
    BY <1>1, QueueIsLive DEF Start
  <2>2. h \in Pid /\ h \in TasksOf(spawn)
    BY <2>1, TailOfSeq
  <2>3. h \notin TasksOf(stack[h])
    BY <1>1, <2>2, Distinct
  <2>4. stack[h] = <<>> /\ stack' = [stack EXCEPT ![h] = <<h>>]
    BY <1>1, <2>2, <2>3, QueueIsLive, Bottoms DEF Start
  <2> QED
    BY <2>2, <2>4
<1>3. /\ h \notin Instances /\ h \in Instances'
      /\ \A c \in Pid : c # h => ((c \in Instances') <=> (c \in Instances))
  <2>1. stack'[h] = <<h>> /\ \A c \in Pid : c # h => stack'[c] = stack[c]
    BY <1>1, <1>2, QueueIsLive
  <2>2. <<h>> # <<>>
    OBVIOUS
  <2> QED
    BY <1>2, <2>1, <2>2 DEF Instances
<1>4. /\ n \in Nat /\ Charged(n) \in MemoryRecord /\ Charged(n).size = n
      /\ Charged(n).charged + Charged(n).grown = n
  BY NeedIsBytes
<1>5. /\ used' = used + n /\ used' <= MemoryLimit /\ mapping' = mapping
      /\ memory' = [memory EXCEPT ![h] = Charged(n)]
  BY <1>2 DEF StartCharged, Fits
<1>6. used \in Nat /\ memory \in [Pid -> MemoryRecord] /\ mapping \in [Pid -> Nat]
  BY <1>1 DEF MemoryTypeOK
<1> HIDE DEF n
<1>7. /\ memory'[h] = Charged(n) /\ \A c \in Pid : c # h => memory'[c] = memory[c]
      /\ MemoryTypeOK'
  BY <1>2, <1>4, <1>5, <1>6 DEF MemoryTypeOK
<1>8. memory'[h].size = Held(h)'
  BY <1>4, <1>7 DEF Held
<1>9. InstanceSizes[h] = 0 /\ InstanceSizes'[h] = n
  BY <1>2, <1>3, <1>4, <1>7 DEF InstanceSizes
<1>10. used' = used - InstanceSizes[h] + InstanceSizes'[h]
  BY <1>4, <1>5, <1>6, <1>9
<1> QED
  BY <1>2, <1>3, <1>5, <1>7, <1>8, <1>10, OneChange

LEMMA ReplaceKeepsInvariant ==
    ASSUME MemoryInv, IInv', NEW b \in Pid, NEW image \in Images, Replace(b, image)
    PROVE  MemoryInv'
<1> DEFINE n == Need(image)
<1>1. Instances' = Instances /\ stack' = stack
  BY DEF Replace, vars, Instances
<1>2. b \in Instances
  <2>1. Len(stack[b]) = 1
    BY DEF Replace
  <2> QED
    BY <2>1, NoTasks DEF Instances
<1>3. /\ n \in Nat /\ Charged(n) \in MemoryRecord /\ Charged(n).size = n
      /\ Charged(n).charged + Charged(n).grown = n
  BY NeedIsBytes
<1>4. /\ Released(used, Held(b)) = used - InstanceSizes[b] /\ used - InstanceSizes[b] \in Nat
      /\ InstanceSizes[b] \in Nat /\ used \in Nat
  BY <1>2, HeldIsUsed
<1>5. /\ used' = Released(used, Held(b)) + n /\ used' <= MemoryLimit /\ mapping' = mapping
      /\ memory' = [memory EXCEPT ![b] = Charged(n)]
  BY DEF Replace, Fits
<1>6. memory \in [Pid -> MemoryRecord] /\ mapping \in [Pid -> Nat]
  BY DEF MemoryInv, MemoryTypeOK
<1> HIDE DEF n
<1>7. /\ memory'[b] = Charged(n) /\ \A c \in Pid : c # b => memory'[c] = memory[c]
      /\ MemoryTypeOK'
  BY <1>3, <1>4, <1>5, <1>6 DEF MemoryTypeOK
<1>8. memory'[b].size = Held(b)'
  BY <1>3, <1>7 DEF Held
<1>9. InstanceSizes'[b] = n
  BY <1>1, <1>2, <1>3, <1>7 DEF InstanceSizes
<1>10. used' = used - InstanceSizes[b] + InstanceSizes'[b]
  BY <1>3, <1>4, <1>5, <1>9
<1> QED
  BY <1>1, <1>2, <1>5, <1>7, <1>8, <1>10, OneChange

(* An instance ends and gives back what it held. *)
LEMMA EndKeepsInvariant ==
    ASSUME MemoryInv, IInv', NEW b \in Pid, b \in Instances,
           stack' = [stack EXCEPT ![b] = <<>>],
           used' = Released(used, Held(b)), memory' = [memory EXCEPT ![b] = NoMemory],
           mapping' \in [Pid -> Nat], mapping'[b] = 0,
           \A c \in Pid : c # b => mapping'[c] = mapping[c]
    PROVE  MemoryInv'
<1>1. /\ Released(used, Held(b)) = used - InstanceSizes[b] /\ used - InstanceSizes[b] \in Nat
      /\ InstanceSizes[b] \in Nat /\ used \in Nat /\ used <= MemoryLimit
  BY HeldIsUsed
<1>2. memory \in [Pid -> MemoryRecord] /\ NoMemory \in MemoryRecord /\ MemoryLimit \in Nat
  BY MemoryAssumption DEF MemoryInv, MemoryTypeOK, NoMemory, MemoryRecord
<1>3. b \notin Instances' /\ \A c \in Pid : c # b => ((c \in Instances') <=> (c \in Instances))
  BY QueueIsLive DEF MemoryInv, Instances
<1>4. /\ memory'[b] = NoMemory /\ \A c \in Pid : c # b => memory'[c] = memory[c]
      /\ MemoryTypeOK'
  BY <1>1, <1>2 DEF MemoryTypeOK
<1>5. InstanceSizes'[b] = 0
  BY <1>3 DEF InstanceSizes
<1>6. used' = used - InstanceSizes[b] + InstanceSizes'[b] /\ used' <= MemoryLimit
  BY <1>1, <1>2, <1>5
<1> QED
  BY <1>3, <1>4, <1>6, OneChange

-----------------------------------------------------------------------------
(* 5. kill_all counts down to nothing, instance by instance. *)

Releases(order) ==
    [n \in 1 .. Len(order) |-> [v \in Nat |-> Released(v, Held(order[n]))]]

LEMMA ReleasesAreBytes ==
    ASSUME MemoryTypeOK, NEW order \in Seq(Pid)
    PROVE  Releases(order) \in [1 .. Len(order) -> [Nat -> Nat]]
<1>1. ASSUME NEW n \in 1 .. Len(order), NEW v \in Nat PROVE Released(v, Held(order[n])) \in Nat
  <2>1. order[n] \in Pid
    BY ElementOfSeq
  <2>2. Held(order[n]) \in Nat
    BY <2>1, SizesOfInstances DEF Held
  <2> QED
    BY <2>2 DEF Released
<1>2. \A n \in 1 .. Len(order) : [v \in Nat |-> Released(v, Held(order[n]))] \in [Nat -> Nat]
  BY <1>1
<1> QED
  BY <1>2 DEF Releases

LEMMA ReleasesAreLoop ==
    ASSUME MemoryTypeOK, NEW order \in Seq(Pid), KillAllReleases(order)
    PROVE  \E g : IsLoop(g, Nat, Len(order), used, Releases(order)) /\ used' = g[Len(order)]
<1> DEFINE L == Len(order)
           F == Releases(order)
           Round(f) == [n \in 0 .. L |->
                          IF n = 0 THEN used ELSE Released(f[n - 1], Held(order[n]))]
           after == CHOOSE f : f = Round(f)
<1>1. L \in Nat /\ F \in [1 .. L -> [Nat -> Nat]] /\ used \in Nat
  <2>1. L \in Nat /\ used \in Nat
    BY DEF MemoryTypeOK
  <2>2. F \in [1 .. L -> [Nat -> Nat]]
    BY ReleasesAreBytes, Zenon
  <2> QED
    BY <2>1, <2>2, Zenon
<1>2. PICK g : IsLoop(g, Nat, L, used, F)
  BY <1>1, LoopExists
<1>3. g = Round(g)
  <2>1. ASSUME NEW n \in 1 .. L PROVE g[n] = Round(g)[n]
    <3>1. g[n] = F[n][g[n - 1]] /\ g[n - 1] \in Nat
      <4>1. g \in [0 .. L -> Nat] /\ g[n] = F[n][g[n - 1]]
        BY <1>2 DEF IsLoop
      <4>2. n - 1 \in 0 .. L
        BY <1>1
      <4> QED
        BY <4>1, <4>2
    <3>2. n \in 0 .. L /\ n # 0
      BY <1>1
    <3> QED
      BY <3>1, <3>2, Zenon DEF Releases
  <2>2. Round(g)[0] = used /\ DOMAIN Round(g) = 0 .. L
    BY <1>1
  <2>3. g[0] = used /\ g \in [0 .. L -> Nat]
    BY <1>2 DEF IsLoop
  <2>4. \A n \in 0 .. L : n = 0 \/ n \in 1 .. L
    BY <1>1
  <2>5. Round(g) = [n \in 0 .. L |-> Round(g)[n]]
    BY Zenon
  <2> HIDE DEF Round
  <2> QED
    BY <2>1, <2>2, <2>3, <2>4, <2>5
<1>4. after = Round(after)
  BY <1>3
<1>5. used' = after[L]
  BY DEF KillAllReleases
<1> HIDE DEF after
<1>6. after[0] = used
  BY <1>1, <1>4
<1>7. \E W : after \in [0 .. L -> W]
  <2>1. Round(after) \in [0 .. L -> {Round(after)[n] : n \in 0 .. L}]
    OBVIOUS
  <2> HIDE DEF Round
  <2> QED
    BY <1>4, <2>1
<1>8. \A n \in 1 .. L : after[n - 1] \in Nat => after[n] = F[n][after[n - 1]]
  <2>1. ASSUME NEW n \in 1 .. L, after[n - 1] \in Nat PROVE after[n] = F[n][after[n - 1]]
    <3>1. n \in 0 .. L /\ n # 0
      BY <1>1
    <3>2. after[n] = Released(after[n - 1], Held(order[n]))
      BY <1>4, <3>1, Zenon
    <3> QED
      BY <2>1, <3>2, Zenon DEF Releases
  <2> QED
    BY <2>1
<1> HIDE DEF F, L, Round
<1>9. IsLoop(after, Nat, L, used, F)
  BY <1>1, <1>6, <1>7, <1>8, RecursionIsLoop
<1> QED
  BY <1>5, <1>9 DEF F, L

(* What is left when the first m instances of the order are gone. *)
Left(order, m) ==
    [b \in Pid |-> IF \E k \in 1 .. m : order[k] = b THEN 0 ELSE InstanceSizes[b]]

LEMMA ReleaseLeaves ==
    ASSUME MemoryInv, NEW order \in SetToSeqs(Instances), NEW m \in Nat, m + 1 <= Len(order)
    PROVE  /\ Left(order, m + 1) \in Sizes
           /\ Total(Left(order, m)) \in Nat
           /\ Released(Total(Left(order, m)), Held(order[m + 1])) = Total(Left(order, m + 1))
<1>1. InstanceSizes \in Sizes
  BY SizesOfInstances DEF MemoryInv
<1>2. \A n \in Nat : Left(order, n) \in Sizes
  BY <1>1 DEF Left, Sizes
<1>3. /\ Len(order) \in Nat
      /\ \A k \in 1 .. Len(order) : order[k] \in Instances /\ order[k] \in Pid
      /\ \A k, l \in 1 .. Len(order) : order[k] = order[l] => k = l
  BY OrderIsComplete DEF Instances
<1>4. m + 1 \in 1 .. Len(order) /\ \A k \in 1 .. m : k \in 1 .. Len(order) /\ k # m + 1
  BY <1>3
<1>5. 1 .. m + 1 = (1 .. m) \cup {m + 1}
  OBVIOUS
<1>6. PICK b \in Pid : b = order[m + 1]
  BY <1>3, <1>4
<1>7. b \in Instances /\ \A k \in 1 .. m : order[k] # b
  BY <1>3, <1>4, <1>6
<1>8. Left(order, m)[b] = InstanceSizes[b] /\ Left(order, m + 1)[b] = 0
  BY <1>5, <1>6, <1>7 DEF Left
<1>9. \A c \in Pid : c # b => Left(order, m + 1)[c] = Left(order, m)[c]
  BY <1>5, <1>6 DEF Left
<1>10. Held(b) = InstanceSizes[b] /\ Held(b) \in Nat
  BY <1>7, HeldIsUsed
<1> DEFINE w == Left(order, m)
           v == Left(order, m + 1)
<1>11. w \in Sizes /\ v \in Sizes /\ m + 1 \in Nat
  BY <1>2
<1> HIDE DEF w, v
<1>12. /\ Total(w) \in Nat /\ Total(v) \in Nat
       /\ Total(v) = Total(w) - w[b] + v[b] /\ w[b] <= Total(w)
  BY <1>8, <1>9, <1>11, TotalFollows DEF w, v
<1>13. w[b] = Held(b) /\ v[b] = 0
  BY <1>8, <1>10 DEF w, v
<1>14. Released(Total(w), Held(b)) = Total(v)
  BY <1>10, <1>12, <1>13 DEF Released
<1> QED
  BY <1>6, <1>11, <1>12, <1>14 DEF w, v

LEMMA KillAllReleasesAll ==
    ASSUME MemoryInv, NEW order \in SetToSeqs(Instances), KillAllReleases(order)
    PROVE  used' = 0
<1>1. order \in Seq(Pid) /\ Len(order) \in Nat
  BY OrderIsComplete
<1>2. PICK g : IsLoop(g, Nat, Len(order), used, Releases(order)) /\ used' = g[Len(order)]
  BY <1>1, ReleasesAreLoop DEF MemoryInv
<1> DEFINE L == Len(order)
           S == {m \in Nat : m <= L => g[m] = Total(Left(order, m))}
<1>3. InstanceSizes \in Sizes /\ used = Total(InstanceSizes)
  BY SizesOfInstances DEF MemoryInv, MemoryIsAccounted
<1>4. 0 \in S
  <2>1. Left(order, 0) = InstanceSizes
    BY <1>3 DEF Left, Sizes
  <2> QED
    BY <1>2, <1>3, <2>1 DEF IsLoop
<1>5. ASSUME NEW m \in Nat, m \in S, m + 1 <= L
      PROVE  g[m + 1] = Total(Left(order, m + 1))
  <2>1. m + 1 \in 1 .. L /\ (m + 1) - 1 = m
    BY <1>1, <1>5
  <2>2. g[m + 1] = Releases(order)[m + 1][g[m]]
    BY <1>2, <2>1 DEF IsLoop
  <2>3. g[m] = Total(Left(order, m))
    BY <1>1, <1>5
  <2>4. g[m] \in Nat
    BY <1>5, <2>3, ReleaseLeaves
  <2>5. g[m + 1] = Released(g[m], Held(order[m + 1]))
    BY <2>1, <2>2, <2>4, Zenon DEF Releases
  <2> QED
    BY <1>5, <2>3, <2>5, ReleaseLeaves
<1>6. \A m \in Nat : m \in S => m + 1 \in S
  BY <1>5
<1> HIDE DEF S
<1>7. L \in S
  BY <1>1, <1>4, <1>6, Induction
<1>8. g[L] = Total(Left(order, L))
  BY <1>1, <1>7 DEF S
<1>9. ASSUME NEW b \in Pid PROVE Left(order, L)[b] = 0
  <2>1. CASE b \in Instances
    <3>1. \E k \in 1 .. L : order[k] = b
      BY <2>1, OrderIsComplete DEF Instances
    <3> QED
      BY <3>1 DEF Left
  <2>2. CASE b \notin Instances
    BY <2>2 DEF Left, InstanceSizes
  <2> QED
    BY <2>1, <2>2
<1>10. Left(order, L) \in Sizes
  BY <1>3 DEF Left, Sizes
<1> QED
  BY <1>2, <1>8, <1>9, <1>10, TotalOfNothing

LEMMA KillAllReleasesKeepsInvariant ==
    ASSUME MemoryInv, IInv', NEW order \in SetToSeqs(Instances), KillAllReleases(order)
    PROVE  MemoryInv'
<1>1. used' = 0
  BY KillAllReleasesAll
<1>2. memory' = [b \in Pid |-> NoMemory] /\ mapping' = [b \in Pid |-> 0]
  BY DEF KillAllReleases
<1>3. Instances' = {}
  BY DEF KillAllReleases, KillAll, Instances
<1>4. NoMemory \in MemoryRecord /\ 0 <= MemoryLimit
  BY MemoryAssumption DEF NoMemory, MemoryRecord
<1>5. MemoryTypeOK' /\ WaitersAreInstances'
  BY <1>1, <1>2, <1>4 DEF MemoryTypeOK, WaitersAreInstances
<1>6. InstanceSizes' \in Sizes /\ \A b \in Pid : InstanceSizes'[b] = 0
  BY <1>3 DEF InstanceSizes, Sizes
<1>7. Total(InstanceSizes') = 0
  BY <1>6, TotalOfNothing
<1>8. MemoryIsAccounted'
  BY <1>1, <1>2, <1>3, <1>4, <1>7 DEF MemoryIsAccounted
<1> QED
  BY <1>5, <1>8 DEF MemoryInv

-----------------------------------------------------------------------------
(* 6. The other steps, and the theorems. *)

(* Which instances there are, after a step that moves no bottom task. *)
LEMMA SameInstances ==
    ASSUME IInv, Others \/ StartRefused
    PROVE  \A b \in Pid : (b \in Instances') <=> (b \in Instances)
<1> DEFINE Same(b) == (stack'[b] # <<>>) <=> (stack[b] # <<>>)
<1>1. \A b \in Pid : (b \in Instances' <=> stack'[b] # <<>>) /\ (b \in Instances <=> stack[b] # <<>>)
  BY DEF Instances
<1>2. CASE stack' = stack
  BY <1>1, <1>2
<1>3. ASSUME NEW b \in Pid, Vfork(b) PROVE \A c \in Pid : Same(c)
  <2>1. nextPid \in Pid
    BY <1>3, ProcessesAssumption DEF Vfork, IInv, TypeOK, Pid, First
  <2>2. stack[b] \in Seq(Pid) /\ stack[b] # <<>> /\ stack' = [stack EXCEPT ![b] = Append(@, nextPid)]
    BY <1>3, QueueIsLive DEF Vfork, Instances
  <2>3. Append(stack[b], nextPid) # <<>>
    BY <2>1, <2>2, AppendToSeq
  <2> QED
    BY <2>2, <2>3, QueueIsLive
<1>4. ASSUME NEW b \in Pid, Len(stack[b]) > 1, stack' = [stack EXCEPT ![b] = Front(@)]
      PROVE  \A c \in Pid : Same(c)
  <2>1. stack[b] \in Seq(Pid) /\ Len(stack[b]) \in Nat /\ stack[b] # <<>>
    BY <1>4, QueueIsLive, NoTasks
  <2>2. Len(Front(stack[b])) > 0
    BY <1>4, <2>1, FrontOfSeq
  <2>3. Front(stack[b]) # <<>>
    BY <2>2, NoTasks
  <2> QED
    BY <1>4, <2>1, <2>3, QueueIsLive
<1>5. CASE StartRefused
  BY <1>2, <1>5 DEF StartRefused, StartFails
<1>6. CASE Others
  <2>1. ASSUME NEW b \in Pid,
               ExecChild(b) \/ \E status \in Codes : ExitChild(b, status)
        PROVE  \A c \in Pid : Same(c)
    BY <1>4, <2>1 DEF ExecChild, ExitChild, InChild
  <2>2. ASSUME NEW b \in Pid, \E which \in Pid \cup {0} : Reap(b, which)
        PROVE  stack' = stack
    BY <2>2 DEF Reap
  <2>3. ASSUME NoneLeft PROVE stack' = stack
    BY <2>3 DEF NoneLeft
  <2>4. (\A c \in Pid : Same(c)) \/ stack' = stack
    BY <1>3, <1>6, <2>1, <2>2, <2>3 DEF Others
  <2> QED
    BY <1>1, <1>2, <2>4
<1> QED
  BY <1>5, <1>6

LEMMA MemoryInitInvariant == MemoryInit => MemoryInv
<1> SUFFICES ASSUME MemoryInit PROVE MemoryInv
  OBVIOUS
<1>1. IInv
  BY InitInvariant DEF MemoryInit
<1>2. PICK image \in Images :
         /\ Fits(0, Need(image)) /\ used = Need(image)
         /\ memory = [b \in Pid |-> IF b = First THEN Charged(Need(image)) ELSE NoMemory]
  BY DEF MemoryInit
<1> DEFINE n == Need(image)
<1>3. /\ n \in Nat /\ Charged(n) \in MemoryRecord /\ Charged(n).size = n
      /\ Charged(n).charged + Charged(n).grown = n
  BY NeedIsBytes
<1>4. NoMemory \in MemoryRecord
  BY DEF NoMemory, MemoryRecord
<1>5. /\ First \in Pid /\ First \in Instances
      /\ \A b \in Pid : b \in Instances <=> b = First
  <2>1. First \in Pid
    BY ProcessesAssumption DEF Pid, First
  <2>2. \A b \in Pid : stack[b] = IF b = First THEN <<First>> ELSE <<>>
    BY DEF MemoryInit, Init
  <2>3. <<First>> # <<>>
    OBVIOUS
  <2> QED
    BY <2>1, <2>2, <2>3 DEF Instances
<1>6. used = n /\ n <= MemoryLimit
  BY <1>2, <1>3, MemoryAssumption DEF Fits
<1> HIDE DEF n
<1>7. /\ memory[First] = Charged(n)
      /\ \A b \in Pid : b # First => memory[b] = NoMemory
      /\ memory \in [Pid -> MemoryRecord]
  BY <1>2, <1>3, <1>4, <1>5 DEF n
<1>8. mapping = [b \in Pid |-> 0]
  BY DEF MemoryInit
<1>9. MemoryTypeOK /\ WaitersAreInstances
  BY <1>3, <1>6, <1>7, <1>8 DEF MemoryTypeOK, WaitersAreInstances
<1> DEFINE w == InstanceSizes
           v == [b \in Pid |-> 0]
<1>10. w \in Sizes /\ v \in Sizes /\ w[First] = n /\ v[First] = 0
  BY <1>3, <1>5, <1>7, <1>9, SizesOfInstances DEF Sizes
<1>11. \A c \in Pid : c # First => v[c] = w[c]
  BY <1>5, <1>9, SizesOfInstances
<1>12. Total(v) = 0
  <2>1. \A b \in Pid : v[b] = 0
    OBVIOUS
  <2> HIDE DEF v
  <2> QED
    BY <1>10, <2>1, TotalOfNothing
<1> HIDE DEF w, v
<1>13. Total(w) \in Nat /\ Total(v) = Total(w) - w[First] + v[First]
  BY <1>5, <1>10, <1>11, TotalFollows
<1>14. used = Total(w)
  BY <1>3, <1>6, <1>10, <1>12, <1>13
<1>15. memory[First].size = Held(First)
  BY <1>3, <1>7 DEF Held
<1>16. MemoryIsAccounted
  BY <1>5, <1>6, <1>7, <1>14, <1>15 DEF MemoryIsAccounted, w
<1> QED
  BY <1>1, <1>9, <1>16 DEF MemoryInv

(* brk and mmap, and the retries of mmap. *)
LEMMA GuestGrowKeepsInvariant ==
    ASSUME MemoryInv, IInv', NEW b \in Pid, NEW n \in Nat,
           Brk(b, n) \/ Mmap(b, n) \/ MmapBlocks(b, n) \/ RetryMaps(b) \/ RetryBlocks(b)
    PROVE  MemoryInv'
<1>1. n \in Nat /\ \A m \in Nat : Pages(m) \in Nat
  BY PagesAreBytes
<1>2. mapping \in [Pid -> Nat] /\ mapping[b] \in Nat /\ memory[b].size \in Nat
  BY SizesOfInstances DEF MemoryInv, MemoryTypeOK
<1>3. /\ UNCHANGED vars /\ b \in Instances
      /\ mapping' \in [Pid -> Nat] /\ \A c \in Pid : c # b => mapping'[c] = mapping[c]
  BY <1>1, <1>2 DEF MemoryInv, WaitersAreInstances, InGuest,
                    Brk, Mmap, MmapBlocks, RetryMaps, RetryBlocks
<1>4. \E bytes \in Nat : Grow(b, bytes)
  <2>1. CASE Brk(b, n)
    <3>1. n - memory[b].size \in Nat
      BY <1>1, <1>2, <2>1 DEF Brk
    <3> QED
      BY <1>1, <2>1, <3>1 DEF Brk
  <2>2. CASE Mmap(b, n) \/ MmapBlocks(b, n)
    BY <1>1, <2>2 DEF Mmap, MmapBlocks, Mappable
  <2>3. CASE RetryMaps(b) \/ RetryBlocks(b)
    BY <1>1, <1>2, <2>3 DEF RetryMaps, RetryBlocks, Mappable
  <2> QED
    BY <2>1, <2>2, <2>3
<1> QED
  BY <1>3, <1>4, GrowKeepsInvariant

LEMMA RetryRefusedKeepsInvariant ==
    ASSUME MemoryInv, IInv', NEW b \in Pid, RetryRefused(b)
    PROVE  MemoryInv'
<1>1. mapping \in [Pid -> Nat] /\ \A c \in Pid : mapping[c] # 0 => c \in Instances
  BY DEF MemoryInv, MemoryTypeOK, WaitersAreInstances
<1>2. used' = used /\ memory' = memory /\ stack' = stack /\ mapping' = [mapping EXCEPT ![b] = 0]
  BY DEF RetryRefused, vars
<1>3. mapping' \in [Pid -> Nat] /\ \A c \in Pid : mapping'[c] # 0 => c \in Instances
  BY <1>1, <1>2
<1>4. \A c \in Pid : (c \in Instances') <=> (c \in Instances)
  BY <1>2 DEF Instances
<1> QED
  BY <1>2, <1>3, <1>4, NoChange

LEMMA MemoryNextInvariant == MemoryInv /\ [MemoryNext]_allVars => MemoryInv'
<1> SUFFICES ASSUME MemoryInv, [MemoryNext]_allVars PROVE MemoryInv'
  OBVIOUS
<1>1. IInv'
  BY MemoryStepsAreProcessSteps, NextInvariant DEF MemoryInv
<1>2. mapping \in [Pid -> Nat] /\ \A c \in Pid : mapping[c] # 0 => c \in Instances
  BY DEF MemoryInv, MemoryTypeOK, WaitersAreInstances
<1>3. ASSUME NEW image \in Images, StartCharged(image) PROVE MemoryInv'
  BY <1>1, <1>3, StartChargedKeepsInvariant
<1>4. ASSUME NEW b \in Pid, NEW image \in Images, Replace(b, image) PROVE MemoryInv'
  BY <1>1, <1>4, ReplaceKeepsInvariant
<1>5. CASE StartRefused \/ Others
  <2>1. used' = used /\ memory' = memory /\ mapping' = mapping
    BY <1>5 DEF StartRefused, Others, memoryVars
  <2>2. \A c \in Pid : (c \in Instances') <=> (c \in Instances)
    BY <1>5, SameInstances DEF MemoryInv
  <2> QED
    BY <1>1, <1>2, <2>1, <2>2, NoChange
<1>6. ASSUME NEW b \in Pid, ReplaceFails(b) PROVE MemoryInv'
  <2>1. /\ stack' = [stack EXCEPT ![b] = <<>>] /\ Len(stack[b]) = 1
        /\ used' = Released(used, Held(b)) /\ memory' = [memory EXCEPT ![b] = NoMemory]
        /\ mapping' = mapping /\ mapping[b] = 0
    BY <1>6 DEF ReplaceFails, ExecFails
  <2>2. b \in Instances
    BY <2>1, NoTasks DEF Instances
  <2>3. /\ mapping' \in [Pid -> Nat] /\ mapping'[b] = 0
        /\ \A c \in Pid : c # b => mapping'[c] = mapping[c]
    BY <1>2, <2>1
  <2> QED
    BY <1>1, <2>1, <2>2, <2>3, EndKeepsInvariant
<1>7. ASSUME NEW b \in Pid, NEW status \in Codes \cup {"126", "SIGSEGV"}, FinishReleases(b, status)
      PROVE  MemoryInv'
  <2>1. /\ stack' = [stack EXCEPT ![b] = <<>>] /\ b \in Instances
        /\ used' = Released(used, Held(b)) /\ memory' = [memory EXCEPT ![b] = NoMemory]
        /\ mapping' = [mapping EXCEPT ![b] = 0]
    BY <1>7 DEF FinishReleases, Finish
  <2>2. /\ mapping' \in [Pid -> Nat] /\ mapping'[b] = 0
        /\ \A c \in Pid : c # b => mapping'[c] = mapping[c]
    BY <1>2, <2>1
  <2> QED
    BY <1>1, <2>1, <2>2, EndKeepsInvariant
<1>8. ASSUME NEW b \in Pid, NEW n \in Lengths, Brk(b, n) \/ Mmap(b, n) \/ MmapBlocks(b, n)
      PROVE  MemoryInv'
  BY <1>1, <1>8, MemoryAssumption, GuestGrowKeepsInvariant
<1>9. ASSUME NEW b \in Pid, RetryMaps(b) \/ RetryBlocks(b) PROVE MemoryInv'
  <2>1. 0 \in Nat
    OBVIOUS
  <2> QED
    BY <1>1, <1>9, <2>1, GuestGrowKeepsInvariant
<1>10. ASSUME NEW b \in Pid, RetryRefused(b) PROVE MemoryInv'
  BY <1>1, <1>10, RetryRefusedKeepsInvariant
<1>11. ASSUME NEW order \in SetToSeqs(Instances), KillAllReleases(order) PROVE MemoryInv'
  BY <1>1, <1>11, KillAllReleasesKeepsInvariant
<1>12. CASE UNCHANGED allVars
  <2>1. used' = used /\ memory' = memory /\ mapping' = mapping /\ stack' = stack
    BY <1>12 DEF allVars, memoryVars, vars
  <2>2. \A c \in Pid : (c \in Instances') <=> (c \in Instances)
    BY <2>1 DEF Instances
  <2> QED
    BY <1>1, <1>2, <2>1, <2>2, NoChange
<1> QED
  BY <1>3, <1>4, <1>5, <1>6, <1>7, <1>8, <1>9, <1>10, <1>11, <1>12 DEF MemoryNext

(* The invariant of the accounting holds in every state: with what is      *)
(* known of the processes, only instances wait in mmap, and the sum of     *)
(* what instances hold is what is used.                                    *)
THEOREM MemoryInvariant == MemorySpec => []MemoryInv
<1> QED
  BY MemoryInitInvariant, MemoryNextInvariant, PTL DEF MemorySpec

(* What the sandbox is charged is exactly what the live instances hold,    *)
(* and never more than the limit (charge_memory, release_memory).          *)
THEOREM MemoryAccounted == MemorySpec => []MemoryIsAccounted
<1>1. MemoryInv => MemoryIsAccounted
  BY DEF MemoryInv
<1> QED
  BY <1>1, MemoryInvariant, PTL
=============================================================================
