--------------------------- MODULE ProcessesProofs ---------------------------
(***************************************************************************)
(* For any number of pids, any limit and any set of statuses: the records  *)
(* of the process table match the tasks there are, a task that waits in    *)
(* vfork is the parent of the one above it, and the status of a process    *)
(* that ends is kept, unchanged, for a parent that can still wait for it.  *)
(*                                                                         *)
(* The end of an instance is a loop over its tasks, and kill_all a loop    *)
(* over instances.  Sections 1 to 3 say what such a loop does to the       *)
(* table, by induction on the number of its rounds; the steps then follow  *)
(* from that.                                                              *)
(***************************************************************************)
EXTENDS Processes, FiniteSetTheorems, FunctionTheorems, SequenceTheorems,
        WellFoundedInduction, TLAPS

-----------------------------------------------------------------------------
(* 1. Induction, and functions defined by recursion.                       *)

LEMMA LeastNumber ==
    ASSUME NEW T, T \subseteq Nat, T # {}
    PROVE  \E x \in T : \A y \in T : ~(y < x)
<1> DEFINE R == {ss \in Nat \X Nat : ss[1] < ss[2]}
<1>1. IsWellFoundedOn(R, Nat)
  BY NatLessThanWellFounded DEF OpToRel
<1>2. \A x, y \in Nat : y < x => <<y, x>> \in R
  OBVIOUS
<1> HIDE DEF R
<1>3. \E x \in T : \A y \in T : ~(<<y, x>> \in R)
  BY <1>1, WFMin
<1> QED
  BY <1>2, <1>3

LEMMA Induction ==
    ASSUME NEW S, 0 \in S, \A n \in Nat : n \in S => n + 1 \in S
    PROVE  \A n \in Nat : n \in S
<1> DEFINE T == Nat \ S
<1>1. CASE T # {}
  <2>1. PICK x \in T : \A y \in T : ~(y < x)
    BY <1>1, LeastNumber
  <2>2. x \in Nat \ {0} /\ x - 1 \in Nat
    BY <2>1
  <2>3. x - 1 \in S
    BY <2>1, <2>2
  <2> QED
    BY <2>1, <2>2, <2>3
<1> QED
  BY <1>1

(* A loop of L rounds, where round n makes F[n][v] of v. *)
IsLoop(g, V, L, v0, F) ==
    /\ g \in [0 .. L -> V]
    /\ g[0] = v0
    /\ \A n \in 1 .. L : g[n] = F[n][g[n - 1]]

LEMMA LoopExists ==
    ASSUME NEW V, NEW L \in Nat, NEW v0 \in V, NEW F \in [1 .. L -> [V -> V]]
    PROVE  \E g : IsLoop(g, V, L, v0, F)
<1> DEFINE S == {m \in Nat : m <= L => \E g : IsLoop(g, V, m, v0, F)}
<1>1. 0 \in S
  <2>1. IsLoop([n \in 0 .. 0 |-> v0], V, 0, v0, F)
    BY DEF IsLoop
  <2> QED
    BY <2>1
<1>2. ASSUME NEW m \in Nat, m \in S, m + 1 <= L
      PROVE  \E g : IsLoop(g, V, m + 1, v0, F)
  <2>1. PICK g : IsLoop(g, V, m, v0, F)
    BY <1>2
  <2> DEFINE h == [n \in 0 .. m + 1 |-> IF n <= m THEN g[n] ELSE F[m + 1][g[m]]]
  <2>2. F[m + 1] \in [V -> V] /\ g[m] \in V
    BY <1>2, <2>1 DEF IsLoop
  <2>3. h \in [0 .. m + 1 -> V]
    BY <2>1, <2>2 DEF IsLoop
  <2>4. h[0] = v0
    BY <2>1 DEF IsLoop
  <2>5. ASSUME NEW n \in 1 .. m + 1
        PROVE  h[n] = F[n][h[n - 1]]
    <3>1. CASE n <= m
      <4>1. n \in 1 .. m /\ n \in 0 .. m + 1 /\ n - 1 \in 0 .. m + 1 /\ n - 1 <= m
        BY <3>1
      <4>2. g[n] = F[n][g[n - 1]]
        BY <2>1, <4>1 DEF IsLoop
      <4> QED
        BY <3>1, <4>1, <4>2
    <3>2. CASE n = m + 1
      <4>1. n \in 0 .. m + 1 /\ ~(n <= m) /\ n - 1 = m /\ m \in 0 .. m + 1
        BY <3>2
      <4> QED
        BY <3>2, <4>1
    <3> QED
      BY <3>1, <3>2
  <2> HIDE DEF h
  <2>6. IsLoop(h, V, m + 1, v0, F)
    BY <2>3, <2>4, <2>5 DEF IsLoop
  <2> QED
    BY <2>6
<1>3. \A m \in Nat : m \in S => m + 1 \in S
  BY <1>2
<1> HIDE DEF S
<1>4. L \in S
  BY <1>1, <1>3, Induction
<1> QED
  BY <1>4 DEF S

-----------------------------------------------------------------------------
(* 2. The end of processes: what becomes of a table t, now u, when those   *)
(* in D die.  Steps of that kind compose.                                  *)

(* Tables in which parents come before their children. *)
Ordered(t) == \A p \in Pid : t[p] # None => t[p].ppid < p
Tables == {t \in [Pid -> ProcRecord \cup {None}] : Ordered(t)}

(* ZombiesHaveParents, of a table. *)
Collected(t) ==
    AliveIn(t, First) =>
        \A p \in Pid : t[p] # None /\ t[p].exit # None => AliveIn(t, t[p].ppid)

Adopted(t, u, q, D) ==
    /\ t[q] # None /\ t[q].ppid \in D
    /\ u[q] # None /\ u[q].ppid = First /\ u[q].exit = t[q].exit

Ends(t, u, D) ==
    /\ u \in Tables
    /\ Collected(t) => Collected(u)
    /\ \A q \in Pid : AliveIn(u, q) <=> AliveIn(t, q) /\ q \notin D
    /\ \A q \in Pid : q \in D \/ u[q] = t[q] \/ Adopted(t, u, q, D)
    /\ \A q \in Pid : u[q] # None => t[q] # None

(* Nobody's record goes while a parent can still wait for it. *)
Kept(t, u, D) ==
    \A q \in D : AliveIn(t, q) /\ u[q] = None => ~AliveIn(t, t[q].ppid)

LEMMA RecordsOfTables ==
    ASSUME NEW t \in Tables, NEW q \in Pid, t[q] # None
    PROVE  /\ t[q] \in ProcRecord
           /\ t[q].ppid \in Pid \cup {NoPid} /\ t[q].exit \in Status \cup {None}
           /\ t[q].ppid < q
BY DEF Tables, Ordered, ProcRecord

LEMMA NothingEnds ==
    ASSUME NEW t \in Tables
    PROVE  Ends(t, t, {}) /\ Kept(t, t, {})
BY DEF Ends, Kept

(* Both halves of a death that are composed: the second set has nobody of  *)
(* the first in it, and no child of one.                                   *)
LEMMA EndsCompose ==
    ASSUME NEW t \in Tables, NEW u, NEW v, NEW D, NEW E,
           Ends(t, u, D), Ends(u, v, E)
    PROVE  Ends(t, v, D \cup E)
<1>1. ASSUME NEW q \in Pid, q \notin D \cup E
      PROVE  v[q] = t[q] \/ Adopted(t, v, q, D \cup E)
  <2>1. u[q] = t[q] \/ Adopted(t, u, q, D)
    BY <1>1 DEF Ends
  <2>2. v[q] = u[q] \/ Adopted(u, v, q, E)
    BY <1>1 DEF Ends
  <2> QED
    BY <2>1, <2>2 DEF Adopted
<1> QED
  BY <1>1 DEF Ends

LEMMA KeptCompose ==
    ASSUME NEW t \in Tables, NEW u, NEW v, NEW D, NEW E, D \subseteq Pid, E \subseteq Pid,
           Ends(t, u, D), Ends(u, v, E), Kept(t, u, D), Kept(u, v, E),
           \A q \in E : q \notin D /\ (t[q] # None => t[q].ppid \notin D)
    PROVE  Kept(t, v, D \cup E)
<1>1. ASSUME NEW q \in D, AliveIn(t, q), v[q] = None
      PROVE  ~AliveIn(t, t[q].ppid)
  <2>1. q \notin E /\ q \in Pid
    OBVIOUS
  <2>2. v[q] = u[q] \/ Adopted(u, v, q, E)
    BY <2>1 DEF Ends
  <2>3. u[q] = None
    BY <1>1, <2>2 DEF Adopted
  <2> QED
    BY <1>1, <2>3 DEF Kept
<1>2. ASSUME NEW q \in E, AliveIn(t, q), v[q] = None
      PROVE  ~AliveIn(t, t[q].ppid)
  <2>1. q \notin D /\ q \in Pid /\ t[q].ppid \notin D
    BY <1>2 DEF AliveIn
  <2>2. u[q] = t[q]
    BY <2>1 DEF Ends, Adopted
  <2>3. AliveIn(u, q)
    BY <1>2, <2>1 DEF Ends
  <2>4. ~AliveIn(u, t[q].ppid)
    BY <1>2, <2>2, <2>3 DEF Kept
  <2>5. AliveIn(t, t[q].ppid) => t[q].ppid \in Pid
    BY DEF AliveIn
  <2> QED
    BY <2>1, <2>4, <2>5 DEF Ends
<1> QED
  BY <1>1, <1>2 DEF Kept

LEMMA SetExitEnds ==
    ASSUME NEW t \in Tables, NEW p \in Pid, NEW status \in Status
    PROVE  Ends(t, SetExit(t, p, status), {p}) /\ Kept(t, SetExit(t, p, status), {p})
<1> DEFINE marked == Mark(t, p, status)
           given == Adopt(marked, p)
           parent == IF t[p] = None THEN NoPid ELSE t[p].ppid
           u == SetExit(t, p, status)
<1>1. \A q \in Pid : t[q] # None => t[q] \in ProcRecord /\ t[q].ppid < q
  BY RecordsOfTables
<1>2. /\ marked \in [Pid -> ProcRecord \cup {None}]
      /\ marked[p] = IF t[p] # None /\ t[p].exit = None THEN [t[p] EXCEPT !.exit = status]
                     ELSE t[p]
      /\ \A q \in Pid \ {p} : marked[q] = t[q]
  <2>1. t[p] # None => [t[p] EXCEPT !.exit = status] \in ProcRecord
    BY <1>1 DEF ProcRecord
  <2> QED
    BY <2>1 DEF Mark, Tables
<1>3. /\ marked[p] # None => marked[p] \in ProcRecord /\ marked[p].ppid = t[p].ppid
      /\ marked[p] = None <=> t[p] = None
      /\ marked[p] # None => marked[p].exit # None
  BY <1>1, <1>2, ProcessesAssumption DEF ProcRecord
<1> HIDE DEF marked
<1>4. /\ given[p] = marked[p]
      /\ \A q \in Pid \ {p} : given[q] = IF t[q] # None /\ t[q].ppid = p
                                         THEN [t[q] EXCEPT !.ppid = First] ELSE t[q]
  BY <1>1, <1>2, <1>3 DEF Adopt, IsChild, Pid
<1>5. ASSUME NEW q \in Pid \ {p}
      PROVE  given[q] = t[q] \/ (Adopted(t, given, q, {p}) /\ given[q] \in ProcRecord)
  <2>1. CASE t[q] # None /\ t[q].ppid = p
    <3>1. given[q] = [t[q] EXCEPT !.ppid = First] /\ t[q] \in ProcRecord
      BY <1>1, <1>4, <2>1
    <3>2. given[q] \in ProcRecord /\ given[q].exit = t[q].exit /\ given[q].ppid = First
      BY <3>1, ProcessesAssumption DEF ProcRecord, Pid, First
    <3> QED
      BY <2>1, <3>2, ProcessesAssumption DEF Adopted
  <2>2. CASE ~(t[q] # None /\ t[q].ppid = p)
    BY <1>4, <2>2
  <2> QED
    BY <2>1, <2>2
<1>6. given \in Tables
  <2>1. given = [q \in Pid |-> given[q]]
    BY DEF Adopt
  <2>2. \A q \in Pid : given[q] \in ProcRecord \cup {None}
    BY <1>2, <1>4, <1>5 DEF Tables
  <2>3. \A q \in Pid : given[q] # None => given[q].ppid < q
    BY <1>1, <1>3, <1>4, <1>5 DEF Adopted, Pid, First
  <2> HIDE DEF given
  <2> QED
    BY <2>1, <2>2, <2>3 DEF Tables, Ordered
<1> HIDE DEF given
<1>7. \A q \in Pid : AliveIn(given, q) <=> AliveIn(t, q) /\ q # p
  BY <1>3, <1>4, <1>5 DEF AliveIn, Adopted
<1>8. u = IF AliveIn(given, parent) THEN given ELSE [given EXCEPT ![p] = None]
  BY DEF SetExit, given, marked
<1>9. u \in Tables /\ \A q \in Pid \ {p} : u[q] = given[q]
  BY <1>6, <1>8 DEF Tables, Ordered
<1>10. u[p] # None => u[p] = given[p] /\ given[p] # None /\ u = given /\ AliveIn(given, parent)
  BY <1>6, <1>8 DEF Tables
<1> HIDE DEF u
<1>11. \A q \in Pid : AliveIn(u, q) <=> AliveIn(t, q) /\ q # p
  BY <1>3, <1>4, <1>7, <1>9, <1>10 DEF AliveIn
<1>12. \A q \in Pid : q \in {p} \/ u[q] = t[q] \/ Adopted(t, u, q, {p})
  BY <1>5, <1>9 DEF Adopted
<1>13. \A q \in Pid : u[q] # None => t[q] # None
  BY <1>3, <1>4, <1>10, <1>12 DEF Adopted
<1>14. Collected(t) => Collected(u)
  <2> SUFFICES ASSUME Collected(t), AliveIn(u, First), NEW q \in Pid,
                      u[q] # None, u[q].exit # None
               PROVE  AliveIn(u, u[q].ppid)
    BY DEF Collected
  <2>1. CASE q = p
    <3>1. u[p].ppid = parent
      BY <1>3, <1>4, <1>10, <2>1
    <3> QED
      BY <1>10, <2>1, <3>1
  <2>2. CASE q # p /\ Adopted(t, u, q, {p})
    BY <2>2 DEF Adopted
  <2>3. CASE q # p /\ u[q] = t[q] /\ t[q].ppid # p
    <3>1. AliveIn(t, t[q].ppid)
      BY <1>11, <2>3, ProcessesAssumption DEF Collected, Pid, First
    <3> QED
      BY <1>11, <2>3, <3>1 DEF AliveIn
  <2>4. CASE q # p /\ u[q] = t[q] /\ t[q].ppid = p
    <3>1. u[q] = given[q] /\ t[q] # None
      BY <1>9, <2>4
    <3>2. given[q] = [t[q] EXCEPT !.ppid = First] /\ t[q] \in ProcRecord
      BY <1>1, <1>4, <2>4, <3>1
    <3>3. u[q].ppid = First
      BY <3>1, <3>2 DEF ProcRecord
    <3> QED
      BY <3>3
  <2> QED
    BY <1>12, <2>1, <2>2, <2>3, <2>4
<1>15. AliveIn(t, p) /\ u[p] = None => ~AliveIn(t, t[p].ppid)
  <2> SUFFICES ASSUME AliveIn(t, p), u[p] = None PROVE ~AliveIn(t, t[p].ppid)
    OBVIOUS
  <2>1. t[p] # None /\ parent = t[p].ppid /\ parent # p
    BY <1>1 DEF AliveIn, Pid
  <2>2. AliveIn(given, parent) <=> AliveIn(t, parent)
    BY <1>7, <2>1 DEF AliveIn
  <2>3. given[p] # None
    BY <1>3, <1>4, <2>1
  <2> QED
    BY <1>8, <2>1, <2>2, <2>3
<1>16. Ends(t, u, {p})
  BY <1>9, <1>11, <1>12, <1>13, <1>14 DEF Ends
<1>17. Kept(t, u, {p})
  BY <1>15 DEF Kept
<1> QED
  BY <1>16, <1>17 DEF u

-----------------------------------------------------------------------------
(* 3. The end of an instance and of all of them: one death after another.  *)

UpTo(X, n) == UNION {X[m] : m \in 1 .. n}

LEMMA UpToNext ==
    ASSUME NEW X, NEW n \in Nat
    PROVE  UpTo(X, 0) = {} /\ UpTo(X, n + 1) = UpTo(X, n) \cup X[n + 1]
<1>1. 1 .. 0 = {} /\ 1 .. n + 1 = (1 .. n) \cup {n + 1}
  OBVIOUS
<1> QED
  BY <1>1 DEF UpTo

LEMMA LoopEnds ==
    ASSUME NEW t \in Tables, NEW L \in Nat, NEW X, NEW F, NEW g,
           IsLoop(g, Tables, L, t, F),
           \A n \in 1 .. L : \A v \in Tables : Ends(v, F[n][v], X[n])
    PROVE  Ends(t, g[L], UpTo(X, L))
<1> DEFINE S == {m \in Nat : m <= L => Ends(t, g[m], UpTo(X, m))}
<1>1. 0 \in S
  BY UpToNext, NothingEnds DEF IsLoop
<1>2. ASSUME NEW m \in Nat, m \in S, m + 1 <= L
      PROVE  Ends(t, g[m + 1], UpTo(X, m + 1))
  <2>1. m + 1 \in 1 .. L /\ m \in 0 .. L /\ (m + 1) - 1 = m
    BY <1>2
  <2>2. g[m] \in Tables /\ g[m + 1] = F[m + 1][g[m]]
    BY <2>1 DEF IsLoop
  <2>3. Ends(g[m], g[m + 1], X[m + 1])
    BY <2>1, <2>2
  <2>4. Ends(t, g[m], UpTo(X, m))
    BY <1>2, <2>1
  <2>5. Ends(t, g[m + 1], UpTo(X, m) \cup X[m + 1])
    BY <2>2, <2>3, <2>4, EndsCompose
  <2> QED
    BY <1>2, <2>5, UpToNext
<1>3. \A m \in Nat : m \in S => m + 1 \in S
  BY <1>2
<1> HIDE DEF S
<1>4. L \in S
  BY <1>1, <1>3, Induction
<1> QED
  BY <1>4 DEF S

(* The rounds are apart, and nobody dies before his child. *)
ChildrenFirst(t, X, L) ==
    \A m, n \in 1 .. L : \A q \in X[n] :
        m < n => q \notin X[m] /\ (t[q] # None => t[q].ppid \notin X[m])

LEMMA LoopKeeps ==
    ASSUME NEW t \in Tables, NEW L \in Nat, NEW X, NEW F, NEW g,
           IsLoop(g, Tables, L, t, F),
           \A n \in 1 .. L : X[n] \subseteq Pid,
           \A n \in 1 .. L : \A v \in Tables : Ends(v, F[n][v], X[n]) /\ Kept(v, F[n][v], X[n]),
           ChildrenFirst(t, X, L)
    PROVE  Kept(t, g[L], UpTo(X, L))
<1> DEFINE S == {m \in Nat : m <= L => Ends(t, g[m], UpTo(X, m)) /\ Kept(t, g[m], UpTo(X, m))}
<1>1. 0 \in S
  BY UpToNext, NothingEnds DEF IsLoop
<1>2. ASSUME NEW m \in Nat, m \in S, m + 1 <= L
      PROVE  Ends(t, g[m + 1], UpTo(X, m + 1)) /\ Kept(t, g[m + 1], UpTo(X, m + 1))
  <2>1. m + 1 \in 1 .. L /\ m \in 0 .. L /\ (m + 1) - 1 = m
    BY <1>2
  <2>2. g[m] \in Tables /\ g[m + 1] = F[m + 1][g[m]]
    BY <2>1 DEF IsLoop
  <2>3. Ends(g[m], g[m + 1], X[m + 1]) /\ Kept(g[m], g[m + 1], X[m + 1])
    BY <2>1, <2>2
  <2>4. Ends(t, g[m], UpTo(X, m)) /\ Kept(t, g[m], UpTo(X, m))
    BY <1>2, <2>1
  <2>5. UpTo(X, m) \subseteq Pid /\ X[m + 1] \subseteq Pid
    BY <2>1 DEF UpTo
  <2>6. \A q \in X[m + 1] :
           q \notin UpTo(X, m) /\ (t[q] # None => t[q].ppid \notin UpTo(X, m))
    <3>1. \A k \in 1 .. m : k \in 1 .. L /\ k < m + 1
      BY <2>1
    <3> QED
      BY <2>1, <3>1 DEF UpTo, ChildrenFirst
  <2>7. Ends(t, g[m + 1], UpTo(X, m) \cup X[m + 1])
    BY <2>2, <2>3, <2>4, EndsCompose
  <2>8. Kept(t, g[m + 1], UpTo(X, m) \cup X[m + 1])
    BY <2>2, <2>3, <2>4, <2>5, <2>6, KeptCompose
  <2> QED
    BY <1>2, <2>7, <2>8, UpToNext
<1>3. \A m \in Nat : m \in S => m + 1 \in S
  BY <1>2
<1> HIDE DEF S
<1>4. L \in S
  BY <1>1, <1>3, Induction
<1> QED
  BY <1>4 DEF S

(* What a recursive function that follows the rounds returns is a loop. *)
LEMMA RecursionIsLoop ==
    ASSUME NEW V, NEW L \in Nat, NEW v0 \in V, NEW F \in [1 .. L -> [V -> V]],
           NEW W, NEW h \in [0 .. L -> W], h[0] = v0,
           \A n \in 1 .. L : h[n - 1] \in V => h[n] = F[n][h[n - 1]]
    PROVE  IsLoop(h, V, L, v0, F)
<1> DEFINE S == {m \in Nat : m <= L => h[m] \in V}
<1>1. 0 \in S
  OBVIOUS
<1>2. ASSUME NEW m \in Nat, m \in S, m + 1 <= L
      PROVE  h[m + 1] \in V
  <2>1. m + 1 \in 1 .. L /\ (m + 1) - 1 = m /\ h[m] \in V
    BY <1>2
  <2>2. h[m + 1] = F[m + 1][h[m]] /\ F[m + 1] \in [V -> V]
    BY <2>1
  <2> QED
    BY <2>1, <2>2
<1>3. \A m \in Nat : m \in S => m + 1 \in S
  BY <1>2
<1> HIDE DEF S
<1>4. \A m \in Nat : m \in S
  BY <1>1, <1>3, Induction
<1>5. \A m \in 0 .. L : h[m] \in V
  BY <1>4 DEF S
<1>6. h \in [0 .. L -> V]
  BY <1>5
<1> QED
  BY <1>5, <1>6 DEF IsLoop

Deaths(tasks, status) ==
    [n \in 1 .. Len(tasks) |-> [v \in Tables |->
        SetExit(v, tasks[Len(tasks) + 1 - n], IF n = Len(tasks) THEN status ELSE "SIGKILL")]]

LEMMA DeathsAreTables ==
    ASSUME NEW tasks \in Seq(Pid), NEW status \in Status
    PROVE  /\ Deaths(tasks, status) \in [1 .. Len(tasks) -> [Tables -> Tables]]
           /\ \A n \in 1 .. Len(tasks) : \A v \in Tables :
                 /\ tasks[Len(tasks) + 1 - n] \in Pid
                 /\ Ends(v, Deaths(tasks, status)[n][v], {tasks[Len(tasks) + 1 - n]})
                 /\ Kept(v, Deaths(tasks, status)[n][v], {tasks[Len(tasks) + 1 - n]})
<1>1. ASSUME NEW n \in 1 .. Len(tasks), NEW v \in Tables
      PROVE  /\ tasks[Len(tasks) + 1 - n] \in Pid
             /\ Deaths(tasks, status)[n][v] \in Tables
             /\ Ends(v, Deaths(tasks, status)[n][v], {tasks[Len(tasks) + 1 - n]})
             /\ Kept(v, Deaths(tasks, status)[n][v], {tasks[Len(tasks) + 1 - n]})
  <2>1. tasks[Len(tasks) + 1 - n] \in Pid
    <3>1. Len(tasks) + 1 - n \in 1 .. Len(tasks)
      OBVIOUS
    <3> QED
      BY <3>1, ElementOfSeq
  <2> DEFINE last == IF n = Len(tasks) THEN status ELSE "SIGKILL"
  <2>2. last \in Status
    BY DEF Status
  <2>3. Deaths(tasks, status)[n][v] = SetExit(v, tasks[Len(tasks) + 1 - n], last)
    BY Zenon DEF Deaths
  <2> HIDE DEF last
  <2>4. /\ Ends(v, SetExit(v, tasks[Len(tasks) + 1 - n], last), {tasks[Len(tasks) + 1 - n]})
        /\ Kept(v, SetExit(v, tasks[Len(tasks) + 1 - n], last), {tasks[Len(tasks) + 1 - n]})
    BY <2>1, <2>2, SetExitEnds
  <2> QED
    BY <2>1, <2>3, <2>4 DEF Ends
<1>2. \A n \in 1 .. Len(tasks) :
         Deaths(tasks, status)[n] = [v \in Tables |-> Deaths(tasks, status)[n][v]]
  BY Zenon DEF Deaths
<1>3. \A n \in 1 .. Len(tasks) : Deaths(tasks, status)[n] \in [Tables -> Tables]
  BY <1>1, <1>2
<1>4. Deaths(tasks, status) = [n \in 1 .. Len(tasks) |-> Deaths(tasks, status)[n]]
  BY DEF Deaths
<1> QED
  BY <1>1, <1>3, <1>4

LEMMA TearDownIsLoop ==
    ASSUME NEW t \in Tables, NEW tasks \in Seq(Pid), NEW status \in Status
    PROVE  \E g : /\ IsLoop(g, Tables, Len(tasks), t, Deaths(tasks, status))
                  /\ TearDown(t, tasks, status) = g[Len(tasks)]
<1> DEFINE L == Len(tasks)
           F == Deaths(tasks, status)
           Round(f) == [n \in 0 .. L |->
                          IF n = 0 THEN t
                          ELSE SetExit(f[n - 1], tasks[L + 1 - n],
                                       IF n = L THEN status ELSE "SIGKILL")]
           after == CHOOSE f : f = Round(f)
<1>1. L \in Nat /\ F \in [1 .. L -> [Tables -> Tables]]
  BY DeathsAreTables
<1>2. PICK g : IsLoop(g, Tables, L, t, F)
  BY <1>1, LoopExists
<1>3. g = Round(g)
  <2>1. ASSUME NEW n \in 1 .. L PROVE g[n] = Round(g)[n]
    <3>1. g[n] = F[n][g[n - 1]] /\ g[n - 1] \in Tables
      BY <1>1, <1>2 DEF IsLoop
    <3>2. n \in 0 .. L /\ n # 0
      BY <1>1
    <3> QED
      BY <3>1, <3>2, Zenon DEF Deaths
  <2>2. Round(g)[0] = t /\ DOMAIN Round(g) = 0 .. L
    BY <1>1
  <2>3. g[0] = t /\ g \in [0 .. L -> Tables]
    BY <1>2 DEF IsLoop
  <2>4. \A n \in 0 .. L : n = 0 \/ n \in 1 .. L
    BY <1>1
  <2>5. Round(g) = [n \in 0 .. L |-> Round(g)[n]]
    BY Zenon
  <2> HIDE DEF Round
  <2> QED
    BY <2>1, <2>2, <2>3, <2>4, <2>5
<1>4. after = Round(after)
  BY <1>3
<1>5. TearDown(t, tasks, status) = after[L]
  BY DEF TearDown
<1> HIDE DEF after
<1>6. after[0] = t
  BY <1>1, <1>4
<1>7. \E W : after \in [0 .. L -> W]
  <2>1. Round(after) \in [0 .. L -> {Round(after)[n] : n \in 0 .. L}]
    OBVIOUS
  <2> HIDE DEF Round
  <2> QED
    BY <1>4, <2>1
<1>8. \A n \in 1 .. L : after[n - 1] \in Tables => after[n] = F[n][after[n - 1]]
  BY <1>1, <1>4 DEF Deaths
<1> HIDE DEF F, L, Round
<1>9. IsLoop(after, Tables, L, t, F)
  BY <1>1, <1>6, <1>7, <1>8, RecursionIsLoop
<1> QED
  BY <1>5, <1>9 DEF F, L

TasksOf(s) == {s[n] : n \in 1 .. Len(s)}

LEMMA TearDownEnds ==
    ASSUME NEW t \in Tables, NEW tasks \in Seq(Pid), NEW status \in Status
    PROVE  /\ Ends(t, TearDown(t, tasks, status), TasksOf(tasks))
           /\ (\A m, n \in 1 .. Len(tasks) : m < n => tasks[m] < tasks[n])
              => Kept(t, TearDown(t, tasks, status), TasksOf(tasks))
<1> DEFINE L == Len(tasks)
           F == Deaths(tasks, status)
           X == [n \in 1 .. L |-> {tasks[L + 1 - n]}]
<1>1. PICK g : IsLoop(g, Tables, L, t, F) /\ TearDown(t, tasks, status) = g[L]
  BY TearDownIsLoop
<1>2. L \in Nat /\ \A n \in 1 .. L : tasks[n] \in Pid /\ L + 1 - n \in 1 .. L
  BY ElementOfSeq
<1>3. \A n \in 1 .. L : X[n] = {tasks[L + 1 - n]} /\ X[n] \subseteq Pid
  BY <1>2
<1>4. \A n \in 1 .. L : \A v \in Tables : Ends(v, F[n][v], X[n]) /\ Kept(v, F[n][v], X[n])
  BY <1>3, DeathsAreTables
<1>5. UpTo(X, L) = TasksOf(tasks)
  <2>1. \A n \in 1 .. L : tasks[n] \in X[L + 1 - n]
    BY <1>2, <1>3
  <2> HIDE DEF X
  <2>2. UpTo(X, L) \subseteq TasksOf(tasks)
    BY <1>2, <1>3 DEF UpTo, TasksOf
  <2>3. TasksOf(tasks) \subseteq UpTo(X, L)
    BY <1>2, <2>1 DEF UpTo, TasksOf
  <2> QED
    BY <2>2, <2>3
<1> HIDE DEF X, F
<1>6. Ends(t, g[L], TasksOf(tasks))
  BY <1>1, <1>2, <1>4, <1>5, LoopEnds
<1>7. ASSUME \A m, n \in 1 .. L : m < n => tasks[m] < tasks[n]
      PROVE  Kept(t, g[L], TasksOf(tasks))
  <2>1. ASSUME NEW k \in 1 .. L, NEW l \in 1 .. L, k < l
        PROVE  tasks[k] # tasks[l] /\ (t[tasks[k]] # None => t[tasks[k]].ppid # tasks[l])
    <3>1. /\ tasks[k] < tasks[l] /\ tasks[k] \in Nat /\ tasks[l] \in Nat
          /\ tasks[k] \in Pid
      <4>1. tasks[k] \in Pid /\ tasks[l] \in Pid
        BY <1>2
      <4> QED
        BY <1>7, <2>1, <4>1 DEF Pid
    <3>2. t[tasks[k]] # None => t[tasks[k]].ppid < tasks[k] /\ t[tasks[k]].ppid \in Int
      BY <3>1, RecordsOfTables DEF Pid, NoPid
    <3> HIDE DEF L
    <3> QED
      BY <3>1, <3>2
  <2>2. ChildrenFirst(t, X, L)
    <3> SUFFICES ASSUME NEW m \in 1 .. L, NEW n \in 1 .. L, NEW q \in X[n], m < n
                 PROVE  q \notin X[m] /\ (t[q] # None => t[q].ppid \notin X[m])
      BY DEF ChildrenFirst
    <3>1. q = tasks[L + 1 - n] /\ X[m] = {tasks[L + 1 - m]}
      BY <1>3
    <3>2. L + 1 - n \in 1 .. L /\ L + 1 - m \in 1 .. L /\ L + 1 - n < L + 1 - m
      BY <1>2
    <3> QED
      BY <2>1, <3>1, <3>2
  <2>3. Kept(t, g[L], UpTo(X, L))
    <3> HIDE DEF L
    <3> QED
      BY <1>1, <1>2, <1>3, <1>4, <2>2, LoopKeeps
  <2> QED
    BY <1>5, <2>3
<1> QED
  BY <1>1, <1>6, <1>7

Rounds(order) ==
    [n \in 1 .. Len(order) |-> [v \in Tables |-> TearDown(v, stack[order[n]], "SIGKILL")]]

LEMMA KillAllEnds ==
    ASSUME NEW t \in Tables, NEW order \in Seq(Pid), stack \in [Pid -> Seq(Pid)]
    PROVE  Ends(t, KillAllOf(t, order), UNION {TasksOf(stack[order[n]]) : n \in 1 .. Len(order)})
<1> DEFINE L == Len(order)
           F == Rounds(order)
           X == [n \in 1 .. L |-> TasksOf(stack[order[n]])]
           Round(f) == [n \in 0 .. L |->
                          IF n = 0 THEN t ELSE TearDown(f[n - 1], stack[order[n]], "SIGKILL")]
           after == CHOOSE f : f = Round(f)
<1>1. L \in Nat /\ \A n \in 1 .. L : stack[order[n]] \in Seq(Pid)
  BY ElementOfSeq
<1>2. \A n \in 1 .. L : \A v \in Tables :
         F[n][v] = TearDown(v, stack[order[n]], "SIGKILL") /\ Ends(v, F[n][v], X[n])
  <2> TAKE n \in 1 .. L
  <2> TAKE v \in Tables
  <2>1. F[n][v] = TearDown(v, stack[order[n]], "SIGKILL") /\ X[n] = TasksOf(stack[order[n]])
    BY Zenon DEF Rounds
  <2>2. "SIGKILL" \in Status
    BY DEF Status
  <2> QED
    BY <1>1, <2>1, <2>2, TearDownEnds
<1>3. F \in [1 .. L -> [Tables -> Tables]]
  <2>1. \A n \in 1 .. L : \A v \in Tables : F[n][v] \in Tables
    BY <1>2 DEF Ends
  <2>2. F = [n \in 1 .. L |-> [v \in Tables |-> F[n][v]]]
    BY Zenon DEF Rounds
  <2> HIDE DEF F
  <2>3. \A n \in 1 .. L : [v \in Tables |-> F[n][v]] \in [Tables -> Tables]
    BY <2>1
  <2> QED
    BY <2>2, <2>3, Zenon
<1>4. PICK g : IsLoop(g, Tables, L, t, F)
  BY <1>1, <1>3, LoopExists
<1>5. g = Round(g)
  <2>1. ASSUME NEW n \in 1 .. L PROVE g[n] = Round(g)[n]
    <3>1. g[n] = F[n][g[n - 1]] /\ g[n - 1] \in Tables
      <4>1. g \in [0 .. L -> Tables] /\ g[n] = F[n][g[n - 1]]
        BY <1>4 DEF IsLoop
      <4>2. n - 1 \in 0 .. L
        BY <1>1
      <4> QED
        BY <4>1, <4>2
    <3>2. n \in 0 .. L /\ n # 0
      BY <1>1
    <3> QED
      BY <1>2, <3>1, <3>2, Zenon
  <2>2. Round(g)[0] = t /\ DOMAIN Round(g) = 0 .. L
    BY <1>1
  <2>3. g[0] = t /\ g \in [0 .. L -> Tables]
    BY <1>4 DEF IsLoop
  <2>4. \A n \in 0 .. L : n = 0 \/ n \in 1 .. L
    BY <1>1
  <2>5. Round(g) = [n \in 0 .. L |-> Round(g)[n]]
    BY Zenon
  <2> HIDE DEF Round
  <2> QED
    BY <2>1, <2>2, <2>3, <2>4, <2>5
<1>6. after = Round(after)
  BY <1>5
<1>7. KillAllOf(t, order) = after[L]
  BY DEF KillAllOf
<1> HIDE DEF after
<1>8. after[0] = t
  BY <1>1, <1>6
<1>9. \E W : after \in [0 .. L -> W]
  <2>1. Round(after) \in [0 .. L -> {Round(after)[n] : n \in 0 .. L}]
    OBVIOUS
  <2> HIDE DEF Round
  <2> QED
    BY <1>6, <2>1
<1>10. \A n \in 1 .. L : after[n - 1] \in Tables => after[n] = F[n][after[n - 1]]
  <2>1. ASSUME NEW n \in 1 .. L, after[n - 1] \in Tables PROVE after[n] = F[n][after[n - 1]]
    <3>1. after[n] = TearDown(after[n - 1], stack[order[n]], "SIGKILL")
      <4>1. n \in 0 .. L /\ n # 0
        BY <1>1
      <4> QED
        BY <1>6, <4>1, Zenon
    <3> QED
      BY <1>2, <2>1, <3>1
  <2> QED
    BY <2>1
<1> HIDE DEF F, Round
<1>11. IsLoop(after, Tables, L, t, F)
  BY <1>1, <1>3, <1>8, <1>9, <1>10, RecursionIsLoop
<1>12. Ends(t, after[L], UpTo(X, L))
  BY <1>1, <1>2, <1>11, LoopEnds
<1>13. UpTo(X, L) = UNION {TasksOf(stack[order[n]]) : n \in 1 .. L}
  BY DEF UpTo
<1> QED
  BY <1>7, <1>12, <1>13

-----------------------------------------------------------------------------
(* 4. The inductive invariant. *)

Unborn == \A p \in Pid : p >= nextPid => table[p] = None

InStack(p) == \E b \in Pid : p \in TasksOf(stack[b])
Queued(p) == p \in TasksOf(spawn)

TasksLive ==
    /\ \A b \in Pid : \A p \in TasksOf(stack[b]) : Alive(p)
    /\ \A p \in TasksOf(spawn) : Alive(p)

LivingAreTasks == \A p \in Pid : Alive(p) => InStack(p) \/ Queued(p)

(* Vfork goes to ever higher pids. *)
Rising ==
    \A b \in Pid :
        /\ \A m, n \in 1 .. Len(stack[b]) : m < n => stack[b][m] < stack[b][n]
        /\ \A n \in 1 .. Len(stack[b]) : n <= stack[b][n]

OnePlace ==
    /\ \A b, c \in Pid : b # c => TasksOf(stack[b]) \cap TasksOf(stack[c]) = {}
    /\ \A m, n \in 1 .. Len(spawn) : spawn[m] = spawn[n] => m = n
    /\ \A p \in Pid : ~(InStack(p) /\ Queued(p))

IInv ==
    /\ TypeOK
    /\ Ordered(table)
    /\ Unborn
    /\ TasksLive
    /\ LivingAreTasks
    /\ Rising
    /\ OnePlace
    /\ VforkParentIsParent
    /\ Collected(table)

LEMMA TablesOfType ==
    TypeOK /\ Ordered(table) <=> TypeOK /\ table \in Tables
BY DEF TypeOK, Tables

LEMMA StacksOfType ==
    ASSUME TypeOK, NEW b \in Pid
    PROVE  /\ stack[b] \in Seq(Pid)
           /\ TasksOf(stack[b]) \subseteq Pid
           /\ \A n \in 1 .. Len(stack[b]) : stack[b][n] \in Pid /\ stack[b][n] \in TasksOf(stack[b])
<1>1. stack[b] \in Seq(Pid)
  BY DEF TypeOK
<1>2. \A n \in 1 .. Len(stack[b]) : stack[b][n] \in Pid
  BY <1>1, ElementOfSeq
<1> QED
  BY <1>1, <1>2 DEF TasksOf

(* A bottom task is at the bottom of its own instance. *)
LEMMA Bottoms ==
    ASSUME TypeOK, NEW b \in Pid, stack[b] # <<>>
    PROVE  Len(stack[b]) >= 1 /\ stack[b][1] = b /\ b \in TasksOf(stack[b])
<1>1. stack[b] \in Seq(Pid) /\ stack[b][1] = b
  BY DEF TypeOK, Instances
<1>2. Len(stack[b]) \in Nat /\ Len(stack[b]) # 0
  BY <1>1
<1> QED
  BY <1>1, <1>2 DEF TasksOf

LEMMA TasksOfPrefix ==
    ASSUME NEW s, NEW u, NEW D, 1 .. Len(u) \subseteq 1 .. Len(s),
           \A n \in 1 .. Len(u) : u[n] = s[n] /\ s[n] \notin D
    PROVE  TasksOf(u) \subseteq TasksOf(s) \ D
BY DEF TasksOf

(* Steps in which tasks die, or leave their places with their records: the *)
(* others stay where they are.                                             *)
LEMMA DeathKeepsInvariant ==
    ASSUME IInv, NEW D, Ends(table, table', D), nextPid' = nextPid,
           finished' \in Status \cup {None},
           stack' \in [Pid -> Seq(Pid)], spawn' \in Seq(Pid),
           \A b \in Pid :
              /\ Len(stack'[b]) <= Len(stack[b])
              /\ \A n \in 1 .. Len(stack'[b]) : stack'[b][n] = stack[b][n] /\ stack[b][n] \notin D
              /\ \A p \in TasksOf(stack[b]) : p \in D \/ p \in TasksOf(stack'[b]),
           TasksOf(spawn') \subseteq TasksOf(spawn) \ D,
           TasksOf(spawn) \subseteq TasksOf(spawn') \cup D,
           \A m, n \in 1 .. Len(spawn') : spawn'[m] = spawn'[n] => m = n
    PROVE  IInv'
<1>1. table \in Tables /\ TypeOK
  BY TablesOfType DEF IInv
<1>2. \A b \in Pid :
         /\ Len(stack[b]) \in Nat /\ Len(stack'[b]) \in Nat
         /\ TasksOf(stack'[b]) \subseteq TasksOf(stack[b]) \ D
         /\ TasksOf(stack[b]) \subseteq TasksOf(stack'[b]) \cup D
         /\ 1 .. Len(stack'[b]) \subseteq 1 .. Len(stack[b])
  <2> TAKE b \in Pid
  <2>1. stack[b] \in Seq(Pid) /\ stack'[b] \in Seq(Pid)
    BY <1>1 DEF TypeOK
  <2>2. Len(stack[b]) \in Nat /\ Len(stack'[b]) \in Nat
    BY <2>1
  <2>3. 1 .. Len(stack'[b]) \subseteq 1 .. Len(stack[b])
    BY <2>2
  <2>4. \A n \in 1 .. Len(stack'[b]) : stack'[b][n] = stack[b][n] /\ stack[b][n] \notin D
    OBVIOUS
  <2>5. TasksOf(stack'[b]) \subseteq TasksOf(stack[b]) \ D
    <3> DEFINE s == stack[b]
               u == stack'[b]
    <3>1. 1 .. Len(u) \subseteq 1 .. Len(s)
      BY <2>3
    <3>2. \A n \in 1 .. Len(u) : u[n] = s[n] /\ s[n] \notin D
      BY <2>4
    <3> HIDE DEF s, u
    <3>3. TasksOf(u) \subseteq TasksOf(s) \ D
      BY <3>1, <3>2, TasksOfPrefix
    <3> QED
      BY <3>3 DEF s, u
  <2>6. TasksOf(stack[b]) \subseteq TasksOf(stack'[b]) \cup D
    OBVIOUS
  <2> QED
    BY <2>2, <2>3, <2>5, <2>6
<1>3. TypeOK'
  <2>1. table' \in [Pid -> ProcRecord \cup {None}]
    BY DEF Ends, Tables
  <2>2. nextPid' \in Pid \cup {MaxPid + 1}
    BY <1>1 DEF TypeOK
  <2>3. ASSUME NEW b \in Pid, stack'[b] # <<>> PROVE stack'[b][1] = b
    <3>1. stack'[b] \in Seq(Pid)
      OBVIOUS
    <3>2. 1 \in 1 .. Len(stack'[b])
      BY <2>3, <3>1
    <3>3. stack'[b][1] = stack[b][1] /\ 1 \in 1 .. Len(stack[b])
      BY <1>2, <3>2
    <3>4. stack[b] # <<>>
      BY <3>3
    <3> QED
      BY <1>1, <3>3, <3>4, Bottoms
  <2> QED
    BY <2>1, <2>2, <2>3 DEF TypeOK, Instances
<1>4. Ordered(table)'
  BY DEF Ends, Tables
<1>5. Unborn'
  BY <1>1 DEF IInv, Unborn, Ends
<1>6. TasksLive'
  <2>1. \A p \in Pid : Alive(p) /\ p \notin D => Alive(p)'
    BY DEF Ends, Alive
  <2>2. TasksOf(spawn) \subseteq Pid /\ \A b \in Pid : TasksOf(stack[b]) \subseteq Pid
    BY DEF IInv, TasksLive, Alive, AliveIn
  <2> QED
    BY <1>2, <2>1, <2>2 DEF IInv, TasksLive
<1>7. LivingAreTasks'
  <2> SUFFICES ASSUME NEW p \in Pid, Alive(p)' PROVE InStack(p)' \/ Queued(p)'
    BY DEF LivingAreTasks
  <2>1. Alive(p) /\ p \notin D
    BY DEF Ends, Alive
  <2>2. InStack(p) \/ Queued(p)
    BY <2>1 DEF IInv, LivingAreTasks
  <2> QED
    BY <1>2, <2>1, <2>2 DEF InStack, Queued
<1>8. Rising'
  BY <1>2 DEF IInv, Rising
<1>9. OnePlace'
  BY <1>2 DEF IInv, OnePlace, InStack, Queued
<1>10. VforkParentIsParent'
  <2> SUFFICES ASSUME NEW b \in Pid, NEW n \in 2 .. Len(stack'[b])
               PROVE  table'[stack'[b][n]].ppid = stack'[b][n - 1]
    BY DEF VforkParentIsParent
  <2>1. /\ n \in 1 .. Len(stack'[b]) /\ n - 1 \in 1 .. Len(stack'[b])
        /\ n \in 2 .. Len(stack[b]) /\ n \in 1 .. Len(stack[b])
    BY <1>2
  <2>2. /\ stack'[b][n] = stack[b][n] /\ stack[b][n] \notin D
        /\ stack'[b][n - 1] = stack[b][n - 1] /\ stack[b][n - 1] \notin D
    BY <2>1
  <2>3. table[stack[b][n]].ppid = stack[b][n - 1]
    BY <2>1 DEF IInv, VforkParentIsParent
  <2>4. stack[b][n] \in Pid
    BY <1>1, <2>1, StacksOfType
  <2>5. table'[stack[b][n]] = table[stack[b][n]]
    BY <2>2, <2>3, <2>4 DEF Ends, Adopted
  <2> QED
    BY <2>2, <2>3, <2>5
<1>11. Collected(table)'
  BY DEF IInv, Ends
<1> QED
  BY <1>3, <1>4, <1>5, <1>6, <1>7, <1>8, <1>9, <1>10, <1>11 DEF IInv

-----------------------------------------------------------------------------
(* 5. The steps. *)

LEMMA FrontOfSeq ==
    ASSUME NEW s \in Seq(Pid), NEW k \in Nat, Len(s) = k, k > 0
    PROVE  /\ Front(s) \in Seq(Pid) /\ Len(Front(s)) = k - 1
           /\ \A n \in 1 .. k - 1 : Front(s)[n] = s[n]
           /\ TasksOf(s) = TasksOf(Front(s)) \cup {s[k]}
<1>1. Front(s) = SubSeq(s, 1, k - 1)
  BY DEF Front
<1>2. /\ Front(s) \in Seq(Pid) /\ Len(Front(s)) = k - 1
      /\ \A n \in 1 .. k - 1 : Front(s)[n] = s[n]
  BY <1>1, SubSeqProperties, ElementOfSeq
<1>3. 1 .. k = (1 .. k - 1) \cup {k}
  OBVIOUS
<1>4. TasksOf(Front(s)) = {s[n] : n \in 1 .. k - 1}
  BY <1>2 DEF TasksOf
<1>5. TasksOf(s) = {s[n] : n \in 1 .. k - 1} \cup {s[k]}
  BY <1>3 DEF TasksOf
<1> QED
  BY <1>2, <1>4, <1>5

LEMMA TailOfSeq ==
    ASSUME NEW s \in Seq(Pid), s # <<>>
    PROVE  /\ Tail(s) \in Seq(Pid) /\ Head(s) \in Pid /\ Head(s) = s[1]
           /\ Len(s) \in Nat /\ Len(s) >= 1 /\ Len(Tail(s)) = Len(s) - 1
           /\ \A n \in 1 .. Len(s) - 1 : Tail(s)[n] = s[n + 1]
           /\ TasksOf(s) = TasksOf(Tail(s)) \cup {Head(s)}
<1>1. /\ Tail(s) \in Seq(Pid) /\ Head(s) \in Pid /\ Head(s) = s[1]
      /\ Len(s) \in Nat /\ Len(s) >= 1 /\ Len(Tail(s)) = Len(s) - 1
      /\ \A n \in 1 .. Len(s) - 1 : Tail(s)[n] = s[n + 1]
  OBVIOUS
<1>2. ASSUME NEW n \in 1 .. Len(s) PROVE s[n] \in TasksOf(Tail(s)) \cup {Head(s)}
  <2>1. CASE n = 1
    BY <1>1, <2>1
  <2>2. CASE n # 1
    <3>1. n - 1 \in 1 .. Len(s) - 1 /\ (n - 1) + 1 = n
      BY <1>1, <2>2
    <3> QED
      BY <1>1, <3>1 DEF TasksOf
  <2> QED
    BY <2>1, <2>2
<1>3. \A n \in 1 .. Len(s) - 1 : n + 1 \in 1 .. Len(s)
  BY <1>1
<1>4. 1 \in 1 .. Len(s)
  BY <1>1
<1> QED
  BY <1>1, <1>2, <1>3, <1>4 DEF TasksOf

(* An instance without tasks has none. *)
LEMMA NoTasks == TasksOf(<<>>) = {} /\ Len(<<>>) = 0 /\ <<>> \in Seq(Pid)
BY DEF TasksOf

LEMMA Distinct ==
    ASSUME IInv
    PROVE  /\ \A b \in Pid : \A m, n \in 1 .. Len(stack[b]) : stack[b][m] = stack[b][n] => m = n
           /\ \A b, c \in Pid : b # c => TasksOf(stack[b]) \cap TasksOf(stack[c]) = {}
           /\ \A b \in Pid : TasksOf(stack[b]) \cap TasksOf(spawn) = {}
<1>1. ASSUME NEW b \in Pid, NEW m \in 1 .. Len(stack[b]), NEW n \in 1 .. Len(stack[b]),
             stack[b][m] = stack[b][n]
      PROVE  m = n
  <2>1. stack[b][m] \in Nat /\ stack[b][n] \in Nat
    BY StacksOfType DEF IInv, Pid
  <2>2. m \in Int /\ n \in Int
    OBVIOUS
  <2>3. (m < n => stack[b][m] < stack[b][n]) /\ (n < m => stack[b][n] < stack[b][m])
    BY DEF IInv, Rising
  <2> QED
    BY <1>1, <2>1, <2>2, <2>3
<1>2. \A b \in Pid : TasksOf(stack[b]) \cap TasksOf(spawn) = {}
  <2>1. \A b \in Pid : TasksOf(stack[b]) \subseteq Pid
    BY StacksOfType DEF IInv
  <2> QED
    BY <2>1 DEF IInv, OnePlace, InStack, Queued
<1> QED
  BY <1>1, <1>2 DEF IInv, OnePlace

LEMMA QueueIsLive ==
    ASSUME IInv
    PROVE  /\ spawn \in Seq(Pid) /\ TasksOf(spawn) \subseteq Pid
           /\ \A m, n \in 1 .. Len(spawn) : spawn[m] = spawn[n] => m = n
           /\ table \in Tables /\ TypeOK /\ finished \in Status \cup {None}
           /\ stack \in [Pid -> Seq(Pid)]
BY TablesOfType DEF IInv, TypeOK, OnePlace, TasksLive, Alive, AliveIn

(* What ends is all that an instance has. *)
LEMMA InstanceDies ==
    ASSUME IInv, NEW b \in Pid, Ends(table, table', TasksOf(stack[b])),
           stack' = [stack EXCEPT ![b] = <<>>],
           UNCHANGED <<nextPid, spawn>>, finished' \in Status \cup {None}
    PROVE  IInv'
<1> DEFINE D == TasksOf(stack[b])
<1>1. stack' \in [Pid -> Seq(Pid)]
  BY QueueIsLive, NoTasks
<1>2. ASSUME NEW c \in Pid
      PROVE  /\ Len(stack'[c]) <= Len(stack[c])
             /\ \A n \in 1 .. Len(stack'[c]) : stack'[c][n] = stack[c][n] /\ stack[c][n] \notin D
             /\ \A p \in TasksOf(stack[c]) : p \in D \/ p \in TasksOf(stack'[c])
  <2>1. stack[c] \in Seq(Pid) /\ Len(stack[c]) \in Nat
    BY QueueIsLive
  <2>2. CASE c = b
    <3>1. stack'[c] = <<>>
      BY <2>2, QueueIsLive
    <3> QED
      BY <2>1, <2>2, <3>1, NoTasks
  <2>3. CASE c # b
    <3>1. stack'[c] = stack[c]
      BY <2>3, QueueIsLive
    <3>2. TasksOf(stack[c]) \cap D = {}
      BY <2>3, Distinct
    <3>3. \A n \in 1 .. Len(stack[c]) : stack[c][n] \in TasksOf(stack[c])
      BY DEF TasksOf
    <3> QED
      BY <2>1, <3>1, <3>2, <3>3
  <2> QED
    BY <2>2, <2>3
<1>3. TasksOf(spawn) \cap D = {}
  BY Distinct
<1>4. Ends(table, table', D) /\ nextPid' = nextPid /\ spawn' = spawn
  OBVIOUS
<1> HIDE DEF D
<1>5. /\ spawn' \in Seq(Pid)
      /\ TasksOf(spawn') \subseteq TasksOf(spawn) \ D
      /\ TasksOf(spawn) \subseteq TasksOf(spawn') \cup D
      /\ \A m, n \in 1 .. Len(spawn') : spawn'[m] = spawn'[n] => m = n
  BY <1>3, <1>4, QueueIsLive
<1> QED
  BY <1>1, <1>2, <1>4, <1>5, DeathKeepsInvariant

LEMMA AppendToSeq ==
    ASSUME NEW s \in Seq(Pid), NEW p \in Pid, NEW k \in Nat, Len(s) = k
    PROVE  /\ Append(s, p) \in Seq(Pid) /\ Len(Append(s, p)) = k + 1
           /\ \A n \in 1 .. k : Append(s, p)[n] = s[n]
           /\ Append(s, p)[k + 1] = p
           /\ Append(s, p) # <<>>
           /\ TasksOf(Append(s, p)) = TasksOf(s) \cup {p}
<1>1. /\ Append(s, p) \in Seq(Pid) /\ Len(Append(s, p)) = k + 1 /\ Append(s, p) # <<>>
      /\ \A n \in 1 .. k : Append(s, p)[n] = s[n]
      /\ Append(s, p)[k + 1] = p
  BY AppendProperties
<1>2. 1 .. k + 1 = (1 .. k) \cup {k + 1}
  OBVIOUS
<1> QED
  BY <1>1, <1>2 DEF TasksOf

LEMMA CurrentIsTask ==
    ASSUME IInv, NEW b \in Pid, stack[b] # <<>>
    PROVE  /\ stack[b] \in Seq(Pid) /\ Len(stack[b]) \in Nat \ {0}
           /\ Current(b) = stack[b][Len(stack[b])]
           /\ Current(b) \in Pid /\ Current(b) \in TasksOf(stack[b])
           /\ Alive(Current(b)) /\ table[Current(b)] \in ProcRecord
<1>1. stack[b] \in Seq(Pid) /\ Len(stack[b]) \in Nat \ {0}
  BY QueueIsLive
<1>2. Current(b) \in Pid /\ Current(b) \in TasksOf(stack[b])
  BY <1>1, StacksOfType DEF IInv, Current
<1>3. Alive(Current(b))
  BY <1>2 DEF IInv, TasksLive
<1> QED
  BY <1>1, <1>2, <1>3, QueueIsLive, RecordsOfTables DEF Alive, AliveIn, Current

LEMMA VforkKeepsInvariant ==
    ASSUME IInv, NEW b \in Pid, Vfork(b)
    PROVE  IInv'
<1> DEFINE p == nextPid
           c == Current(b)
           k == Len(stack[b])
<1>1. stack[b] # <<>> /\ p \in Pid
  <2>1. p \in Pid \cup {MaxPid + 1} /\ p <= MaxPid
    BY DEF Vfork, IInv, TypeOK
  <2> QED
    BY <2>1, ProcessesAssumption DEF Vfork, Instances
<1>2. /\ stack[b] \in Seq(Pid) /\ k \in Nat \ {0} /\ c = stack[b][k]
      /\ c \in Pid /\ c \in TasksOf(stack[b]) /\ Alive(c)
  BY <1>1, CurrentIsTask
<1>3. table \in Tables /\ TypeOK
  BY QueueIsLive
<1>4. table' = [table EXCEPT ![p] = Record(c)] /\ Record(c) \in ProcRecord /\ Record(c) # None
  BY <1>2, ProcessesAssumption DEF Vfork, Record, ProcRecord
<1>5. \A q \in Pid : Alive(q) => q < p
  BY <1>1 DEF IInv, Unborn, Alive, AliveIn, Pid
<1>6. /\ table'[p] = Record(c) /\ Record(c).ppid = c /\ Record(c).exit = None
      /\ \A q \in Pid \ {p} : table'[q] = table[q]
  BY <1>1, <1>3, <1>4 DEF Record, Tables
<1>7. /\ stack' \in [Pid -> Seq(Pid)]
      /\ stack'[b] = Append(stack[b], p)
      /\ \A d \in Pid \ {b} : stack'[d] = stack[d]
  BY <1>1, <1>2, AppendToSeq, QueueIsLive DEF Vfork
<1>8. /\ Len(stack'[b]) = k + 1 /\ stack'[b] # <<>>
      /\ \A n \in 1 .. k : stack'[b][n] = stack[b][n]
      /\ stack'[b][k + 1] = p
      /\ TasksOf(stack'[b]) = TasksOf(stack[b]) \cup {p}
  <2>1. stack[b] \in Seq(Pid) /\ k \in Nat /\ Len(stack[b]) = k
    BY <1>2
  <2> HIDE DEF k, p
  <2>2. /\ Len(Append(stack[b], p)) = k + 1 /\ Append(stack[b], p) # <<>>
        /\ \A n \in 1 .. k : Append(stack[b], p)[n] = stack[b][n]
        /\ Append(stack[b], p)[k + 1] = p
        /\ TasksOf(Append(stack[b], p)) = TasksOf(stack[b]) \cup {p}
    BY <1>1, <2>1, AppendToSeq
  <2> QED
    BY <1>7, <2>2
<1>9. spawn' = spawn /\ nextPid' = p + 1 /\ finished' = finished
  BY DEF Vfork
<1>10. /\ \A d \in Pid : p \notin TasksOf(stack[d])
       /\ p \notin TasksOf(spawn)
       /\ \A n \in 1 .. k : stack[b][n] < p /\ stack[b][n] \in Nat
  <2>1. \A d \in Pid : \A q \in TasksOf(stack[d]) : q < p /\ q \in Pid
    BY <1>5 DEF IInv, TasksLive, Alive, AliveIn
  <2>2. \A q \in TasksOf(spawn) : q < p /\ q \in Pid
    BY <1>5 DEF IInv, TasksLive, Alive, AliveIn
  <2>3. \A n \in 1 .. k : stack[b][n] \in TasksOf(stack[b])
    BY DEF TasksOf
  <2>4. \A q \in Pid : q \in Nat /\ ~(q < q)
    BY DEF Pid
  <2> HIDE DEF k, p
  <2> QED
    BY <1>1, <2>1, <2>2, <2>3, <2>4
<1>11. \A q \in Pid : AliveIn(table', q) <=> (Alive(q) \/ q = p)
  <2> HIDE DEF p, c
  <2> QED
    BY <1>1, <1>4, <1>6 DEF Alive, AliveIn
<1>12. k = Len(stack[b])
  OBVIOUS
<1> HIDE DEF p, c, k
<1>13. TypeOK'
  <2>1. table' \in [Pid -> ProcRecord \cup {None}]
    BY <1>3, <1>4 DEF Tables
  <2>2. nextPid' \in Pid \cup {MaxPid + 1}
    BY <1>1, <1>9, ProcessesAssumption DEF Pid
  <2>3. ASSUME NEW d \in Pid, stack'[d] # <<>> PROVE stack'[d][1] = d
    <3>1. CASE d = b
      <4>1. 1 \in 1 .. k
        BY <1>2
      <4> QED
        BY <1>1, <1>3, <1>8, <3>1, <4>1, Bottoms
    <3>2. CASE d # b
      BY <1>3, <1>7, <2>3, <3>2, Bottoms
    <3> QED
      BY <3>1, <3>2
  <2> QED
    BY <1>3, <1>7, <1>9, <2>1, <2>2, <2>3 DEF TypeOK, Instances
<1>14. Ordered(table)'
  <2>1. c < p
    BY <1>2, <1>5
  <2>2. \A q \in Pid : table'[q] # None => table'[q].ppid < q
    BY <1>3, <1>6, <2>1 DEF Tables, Ordered
  <2> QED
    BY <2>2 DEF Ordered
<1>15. Unborn'
  BY <1>1, <1>6, <1>9 DEF IInv, Unborn, Pid, p
<1>16. TasksLive'
  <2>1. \A d \in Pid : TasksOf(stack[d]) \subseteq Pid
    BY <1>3, StacksOfType
  <2>2. TasksOf(spawn) \subseteq Pid
    BY QueueIsLive
  <2> QED
    BY <1>1, <1>7, <1>8, <1>9, <1>11, <2>1, <2>2 DEF IInv, TasksLive, Alive
<1>17. LivingAreTasks'
  <2> SUFFICES ASSUME NEW q \in Pid, AliveIn(table', q) PROVE InStack(q)' \/ Queued(q)'
    BY DEF LivingAreTasks, Alive
  <2>1. \A d \in Pid : TasksOf(stack[d]) \subseteq TasksOf(stack'[d])
    BY <1>7, <1>8
  <2>2. CASE q = p
    BY <1>8, <2>2 DEF InStack
  <2>3. CASE Alive(q)
    <3>1. InStack(q) \/ Queued(q)
      BY <2>3 DEF IInv, LivingAreTasks
    <3> QED
      BY <1>9, <2>1, <3>1 DEF InStack, Queued
  <2> QED
    BY <1>11, <2>2, <2>3
<1>18. Rising'
  <2>1. ASSUME NEW m \in 1 .. k + 1, NEW n \in 1 .. k + 1, m < n
        PROVE  stack'[b][m] < stack'[b][n]
    <3>1. m \in 1 .. k /\ stack'[b][m] = stack[b][m]
      BY <1>2, <1>8, <2>1
    <3>2. CASE n = k + 1
      BY <1>8, <1>10, <3>1, <3>2
    <3>3. CASE n # k + 1
      <4>1. n \in 1 .. k
        BY <1>2, <3>3
      <4> QED
        BY <1>8, <2>1, <3>1, <4>1 DEF IInv, Rising, k
    <3> QED
      BY <3>2, <3>3
  <2>2. ASSUME NEW n \in 1 .. k + 1
        PROVE  n <= stack'[b][n]
    <3>1. CASE n = k + 1
      <4>1. k \in 1 .. k
        BY <1>2
      <4>2. k <= stack[b][k]
        BY <4>1 DEF IInv, Rising, k
      <4>3. stack[b][k] < p /\ stack[b][k] \in Nat /\ p \in Nat
        BY <1>1, <1>10, <4>1 DEF Pid
      <4> QED
        BY <1>2, <1>8, <3>1, <4>2, <4>3
    <3>2. CASE n # k + 1
      <4>1. n \in 1 .. k
        BY <1>2, <3>2
      <4> QED
        BY <1>8, <4>1 DEF IInv, Rising, k
    <3> QED
      BY <3>1, <3>2
  <2> QED
    BY <1>7, <1>8, <2>1, <2>2 DEF IInv, Rising
<1>19. OnePlace'
  <2>1. \A d, e \in Pid : d # e => TasksOf(stack'[d]) \cap TasksOf(stack'[e]) = {}
    <3>1. ASSUME NEW d \in Pid \ {b}
          PROVE  /\ TasksOf(stack'[d]) = TasksOf(stack[d])
                 /\ TasksOf(stack'[d]) \cap TasksOf(stack'[b]) = {}
      <4>1. TasksOf(stack[d]) \cap TasksOf(stack[b]) = {}
        BY Distinct
      <4>2. TasksOf(stack'[d]) = TasksOf(stack[d])
        BY <1>7
      <4>3. p \notin TasksOf(stack[d])
        BY <1>10
      <4> QED
        BY <1>8, <4>1, <4>2, <4>3
    <3>2. TAKE d, e \in Pid
    <3>3. HAVE d # e
    <3>4. CASE d = b \/ e = b
      BY <3>1, <3>3, <3>4
    <3>5. CASE d # b /\ e # b
      <4>1. TasksOf(stack[d]) \cap TasksOf(stack[e]) = {}
        BY <3>3, Distinct
      <4> QED
        BY <3>1, <3>5, <4>1
    <3> QED
      BY <3>4, <3>5
  <2>2. \A q \in Pid : ~(InStack(q)' /\ Queued(q)')
    <3>1. \A d \in Pid : TasksOf(stack'[d]) \cap TasksOf(spawn') = {}
      <4> TAKE d \in Pid
      <4>1. TasksOf(stack[d]) \cap TasksOf(spawn) = {}
        BY Distinct
      <4>2. CASE d = b
        BY <1>8, <1>9, <1>10, <4>1, <4>2
      <4>3. CASE d # b
        BY <1>7, <1>9, <4>1, <4>3
      <4> QED
        BY <4>2, <4>3
    <3> QED
      BY <3>1 DEF InStack, Queued
  <2> QED
    BY <1>9, <2>1, <2>2 DEF IInv, OnePlace
<1>20. VforkParentIsParent'
  <2> SUFFICES ASSUME NEW d \in Pid, NEW n \in 2 .. Len(stack'[d])
               PROVE  table'[stack'[d][n]].ppid = stack'[d][n - 1]
    BY DEF VforkParentIsParent
  <2>1. CASE d = b /\ n = k + 1
    <3>1. n - 1 = k /\ k \in 1 .. k
      BY <1>2, <2>1
    <3>2. stack'[b][n] = p /\ stack'[b][n - 1] = c
      BY <1>2, <1>8, <2>1, <3>1
    <3> QED
      BY <1>6, <2>1, <3>2
  <2>2. CASE ~(d = b /\ n = k + 1)
    <3>1. n \in 2 .. Len(stack[d]) /\ n \in 1 .. Len(stack[d]) /\ n - 1 \in 1 .. Len(stack[d])
      <4>1. Len(stack[d]) \in Nat
        BY QueueIsLive
      <4>2. n \in 2 .. Len(stack[d])
        <5>1. CASE d = b
          <6>1. n \in 2 .. k + 1 /\ n # k + 1
            BY <1>8, <2>2, <5>1
          <6> QED
            BY <1>2, <1>12, <5>1, <6>1
        <5>2. CASE d # b
          BY <1>7, <5>2
        <5> QED
          BY <5>1, <5>2
      <4> QED
        BY <4>1, <4>2
    <3>2. stack'[d][n] = stack[d][n] /\ stack'[d][n - 1] = stack[d][n - 1]
      BY <1>7, <1>8, <1>12, <2>2, <3>1
    <3>3. stack[d][n] \in Pid /\ stack[d][n] \in TasksOf(stack[d])
      BY <1>3, <3>1, StacksOfType
    <3>4. table'[stack[d][n]] = table[stack[d][n]]
      BY <1>6, <1>10, <3>3
    <3> QED
      BY <3>1, <3>2, <3>4 DEF IInv, VforkParentIsParent
  <2> QED
    BY <2>1, <2>2
<1>21. Collected(table)'
  <2> SUFFICES ASSUME AliveIn(table', First), NEW q \in Pid, table'[q] # None, table'[q].exit # None
               PROVE  AliveIn(table', table'[q].ppid)
    BY DEF Collected
  <2>1. First # p /\ First \in Pid
    BY <1>1, <1>2, <1>5, ProcessesAssumption DEF Pid, First
  <2>2. Alive(First)
    BY <1>11, <2>1
  <2>3. q # p /\ table'[q] = table[q]
    BY <1>6
  <2>4. Alive(table[q].ppid)
    BY <2>2, <2>3 DEF IInv, Collected, Alive
  <2>5. table[q].ppid \in Pid
    BY <2>4 DEF Alive, AliveIn
  <2> QED
    BY <1>11, <2>3, <2>4, <2>5
<1> QED
  BY <1>13, <1>14, <1>15, <1>16, <1>17, <1>18, <1>19, <1>20, <1>21 DEF IInv

LEMMA ExitChildKeepsInvariant ==
    ASSUME IInv, NEW b \in Pid, NEW status \in Status, ExitChild(b, status)
    PROVE  IInv'
<1> DEFINE c == Current(b)
           k == Len(stack[b])
<1>1. stack[b] # <<>> /\ k > 1
  <2>1. Len(stack[b]) \in Nat /\ Len(stack[b]) > 1
    BY QueueIsLive DEF ExitChild, InChild
  <2> QED
    BY <2>1
<1>2. /\ stack[b] \in Seq(Pid) /\ k \in Nat \ {0} /\ c = stack[b][k]
      /\ c \in Pid /\ c \in TasksOf(stack[b])
  BY <1>1, CurrentIsTask
<1>3. Ends(table, table', {c})
  BY <1>2, QueueIsLive, SetExitEnds DEF ExitChild
<1>4. /\ Front(stack[b]) \in Seq(Pid) /\ Len(Front(stack[b])) = k - 1
      /\ \A n \in 1 .. k - 1 : Front(stack[b])[n] = stack[b][n]
      /\ TasksOf(stack[b]) = TasksOf(Front(stack[b])) \cup {stack[b][k]}
  BY <1>1, <1>2, FrontOfSeq
<1>5. /\ stack' \in [Pid -> Seq(Pid)] /\ stack'[b] = Front(stack[b])
      /\ \A d \in Pid \ {b} : stack'[d] = stack[d]
  BY <1>4, QueueIsLive DEF ExitChild
<1>6. nextPid' = nextPid /\ spawn' = spawn /\ finished' = finished
  BY DEF ExitChild
<1>7. ASSUME NEW d \in Pid
      PROVE  /\ Len(stack'[d]) <= Len(stack[d])
             /\ \A n \in 1 .. Len(stack'[d]) : stack'[d][n] = stack[d][n] /\ stack[d][n] \notin {c}
             /\ \A p \in TasksOf(stack[d]) : p \in {c} \/ p \in TasksOf(stack'[d])
  <2>1. CASE d = b
    <3>1. \A n \in 1 .. k - 1 : stack[b][n] # stack[b][k]
      <4>1. \A n \in 1 .. k - 1 : n \in 1 .. k /\ n # k
        BY <1>2
      <4>2. k \in 1 .. k
        BY <1>2
      <4> QED
        BY <4>1, <4>2, Distinct
    <3>2. stack'[d] = Front(stack[b]) /\ stack[d] = stack[b] /\ k = Len(stack[d])
      BY <1>5, <2>1
    <3> HIDE DEF c, k
    <3> QED
      BY <1>2, <1>4, <3>1, <3>2
  <2>2. CASE d # b
    <3>1. stack'[d] = stack[d] /\ Len(stack[d]) \in Nat
      BY <1>5, <2>2, QueueIsLive
    <3>2. c \notin TasksOf(stack[d])
      BY <1>2, <2>2, Distinct
    <3>3. \A n \in 1 .. Len(stack[d]) : stack[d][n] \in TasksOf(stack[d])
      BY DEF TasksOf
    <3> QED
      BY <3>1, <3>2, <3>3
  <2> QED
    BY <2>1, <2>2
<1>8. c \notin TasksOf(spawn)
  BY <1>2, Distinct
<1>9. /\ spawn' \in Seq(Pid) /\ finished' \in Status \cup {None}
      /\ TasksOf(spawn') \subseteq TasksOf(spawn) \ {c}
      /\ TasksOf(spawn) \subseteq TasksOf(spawn') \cup {c}
      /\ \A m, n \in 1 .. Len(spawn') : spawn'[m] = spawn'[n] => m = n
  BY <1>6, <1>8, QueueIsLive
<1> HIDE DEF c, k
<1> QED
  BY <1>3, <1>5, <1>6, <1>7, <1>9, DeathKeepsInvariant

LEMMA StartFailsKeepsInvariant ==
    ASSUME IInv, StartFails
    PROVE  IInv'
<1> DEFINE h == Head(spawn)
<1>1. spawn # <<>> /\ spawn \in Seq(Pid)
  BY QueueIsLive DEF StartFails
<1>2. /\ Tail(spawn) \in Seq(Pid) /\ h \in Pid /\ h = spawn[1]
      /\ Len(spawn) \in Nat /\ Len(spawn) >= 1 /\ Len(Tail(spawn)) = Len(spawn) - 1
      /\ \A n \in 1 .. Len(spawn) - 1 : Tail(spawn)[n] = spawn[n + 1]
      /\ TasksOf(spawn) = TasksOf(Tail(spawn)) \cup {h}
  BY <1>1, TailOfSeq
<1>3. /\ nextPid' = nextPid /\ stack' = stack /\ finished' = finished /\ spawn' = Tail(spawn)
      /\ table' = SetExit(table, h, "126")
  BY DEF StartFails
<1>4. Ends(table, table', {h})
  <2>1. "126" \in Status
    BY DEF Status
  <2> QED
    BY <1>2, <1>3, <2>1, QueueIsLive, SetExitEnds
<1>5. \A m, n \in 1 .. Len(Tail(spawn)) : Tail(spawn)[m] = Tail(spawn)[n] => m = n
  <2> SUFFICES ASSUME NEW m \in 1 .. Len(Tail(spawn)), NEW n \in 1 .. Len(Tail(spawn)),
                      Tail(spawn)[m] = Tail(spawn)[n]
               PROVE  m = n
    OBVIOUS
  <2>1. m + 1 \in 1 .. Len(spawn) /\ n + 1 \in 1 .. Len(spawn)
    BY <1>2
  <2>2. spawn[m + 1] = spawn[n + 1]
    BY <1>2
  <2>3. m + 1 = n + 1
    BY <2>1, <2>2, QueueIsLive
  <2> QED
    BY <2>3
<1>6. h \notin TasksOf(Tail(spawn))
  <2> SUFFICES ASSUME NEW n \in 1 .. Len(Tail(spawn)), Tail(spawn)[n] = h
               PROVE  FALSE
    BY DEF TasksOf
  <2>1. n + 1 \in 1 .. Len(spawn) /\ 1 \in 1 .. Len(spawn) /\ n + 1 # 1
    BY <1>2
  <2>2. spawn[n + 1] = spawn[1]
    BY <1>2
  <2> QED
    BY <2>1, <2>2, QueueIsLive
<1>7. ASSUME NEW d \in Pid
      PROVE  /\ Len(stack'[d]) <= Len(stack[d])
             /\ \A n \in 1 .. Len(stack'[d]) : stack'[d][n] = stack[d][n] /\ stack[d][n] \notin {h}
             /\ \A p \in TasksOf(stack[d]) : p \in {h} \/ p \in TasksOf(stack'[d])
  <2>1. stack'[d] = stack[d] /\ Len(stack[d]) \in Nat
    BY <1>3, QueueIsLive
  <2>2. h \notin TasksOf(stack[d])
    BY <1>2, Distinct
  <2>3. \A n \in 1 .. Len(stack[d]) : stack[d][n] \in TasksOf(stack[d])
    BY DEF TasksOf
  <2> QED
    BY <2>1, <2>2, <2>3
<1> HIDE DEF h
<1>8. /\ spawn' \in Seq(Pid) /\ finished' \in Status \cup {None}
      /\ TasksOf(spawn') \subseteq TasksOf(spawn) \ {h}
      /\ TasksOf(spawn) \subseteq TasksOf(spawn') \cup {h}
      /\ \A m, n \in 1 .. Len(spawn') : spawn'[m] = spawn'[n] => m = n
  BY <1>2, <1>3, <1>5, <1>6, QueueIsLive
<1>9. stack' \in [Pid -> Seq(Pid)]
  BY <1>3, QueueIsLive
<1> QED
  BY <1>3, <1>4, <1>7, <1>8, <1>9, DeathKeepsInvariant

LEMMA ExecFailsKeepsInvariant ==
    ASSUME IInv, NEW b \in Pid, ExecFails(b)
    PROVE  IInv'
<1>1. TasksOf(stack[b]) = {b}
  <2>1. Len(stack[b]) = 1 /\ stack[b] # <<>>
    <3>1. Len(stack[b]) = 1
      BY DEF ExecFails
    <3> QED
      BY <3>1, NoTasks
  <2>2. stack[b][1] = b
    BY <2>1, QueueIsLive, Bottoms
  <2>3. 1 .. 1 = {1}
    OBVIOUS
  <2> QED
    BY <2>1, <2>2, <2>3 DEF TasksOf
<1>2. "126" \in Status
  BY DEF Status
<1>3. Ends(table, table', TasksOf(stack[b]))
  BY <1>1, <1>2, QueueIsLive, SetExitEnds DEF ExecFails
<1> QED
  BY <1>3, QueueIsLive, InstanceDies DEF ExecFails

LEMMA FinishKeepsInvariant ==
    ASSUME IInv, NEW b \in Pid, NEW status \in Status, Finish(b, status)
    PROVE  IInv'
<1>1. stack[b] \in Seq(Pid) /\ table \in Tables
  BY QueueIsLive
<1>2. Ends(table, table', TasksOf(stack[b]))
  BY <1>1, TearDownEnds DEF Finish
<1>3. finished' \in Status \cup {None}
  BY DEF Finish
<1> QED
  BY <1>2, <1>3, InstanceDies DEF Finish

(* kill_all sees every instance. *)
LEMMA OrderIsComplete ==
    ASSUME NEW order \in SetToSeqs(Instances)
    PROVE  /\ order \in Seq(Pid)
           /\ \A b \in Pid : stack[b] # <<>> => \E n \in 1 .. Len(order) : order[n] = b
           /\ \A n \in 1 .. Len(order) : order[n] \in Instances
           /\ \A m, n \in 1 .. Len(order) : order[m] = order[n] => m = n
<1> DEFINE k == Cardinality(Instances)
<1>1. IsFiniteSet(Instances)
  <2>1. IsFiniteSet(Pid)
    BY FS_Interval, ProcessesAssumption DEF Pid
  <2> QED
    BY <2>1, FS_Subset DEF Instances
<1>2. k \in Nat
  BY <1>1, FS_CardinalityType
<1>3. /\ order \in [1 .. k -> Instances]
      /\ \A m, n \in 1 .. k : m # n => order[m] # order[n]
  BY DEF SetToSeqs
<1> HIDE DEF k
<1>4. order \in Seq(Instances) /\ Len(order) = k
  BY <1>2, <1>3
<1>5. order \in Injection(1 .. k, Instances)
  BY <1>3 DEF Injection, IsInjective
<1>6. Cardinality(1 .. k) = k
  BY <1>2, FS_Interval
<1>7. order \in Surjection(1 .. k, Instances)
  BY <1>1, <1>5, <1>6, FS_Injection DEF k
<1>8. \A b \in Instances : \E n \in 1 .. k : order[n] = b
  BY <1>7 DEF Surjection
<1>9. order \in Seq(Pid)
  BY <1>2, <1>3 DEF Instances
<1> QED
  BY <1>3, <1>4, <1>8, <1>9 DEF Instances

LEMMA KillAllKeepsInvariant ==
    ASSUME IInv, NEW order \in SetToSeqs(Instances), KillAll(order)
    PROVE  IInv'
<1> DEFINE D == UNION {TasksOf(stack[order[n]]) : n \in 1 .. Len(order)}
<1>1. Ends(table, table', D)
  <2>1. table' = KillAllOf(table, order)
    BY DEF KillAll
  <2>2. order \in Seq(Pid) /\ table \in Tables /\ stack \in [Pid -> Seq(Pid)]
    BY OrderIsComplete, QueueIsLive
  <2>3. Ends(table, KillAllOf(table, order), D)
    BY <2>2, KillAllEnds
  <2> QED
    BY <2>1, <2>3
<1>2. /\ nextPid' = nextPid /\ spawn' = spawn /\ finished' \in Status \cup {None}
      /\ stack' = [b \in Pid |-> <<>>]
  BY DEF KillAll, Status
<1>3. ASSUME NEW d \in Pid
      PROVE  /\ Len(stack'[d]) <= Len(stack[d])
             /\ \A n \in 1 .. Len(stack'[d]) : stack'[d][n] = stack[d][n] /\ stack[d][n] \notin D
             /\ \A p \in TasksOf(stack[d]) : p \in D \/ p \in TasksOf(stack'[d])
  <2>1. stack'[d] = <<>> /\ Len(stack[d]) \in Nat
    BY <1>2, QueueIsLive
  <2>2. CASE stack[d] = <<>>
    BY <2>1, <2>2, NoTasks
  <2>3. CASE stack[d] # <<>>
    <3>1. PICK n \in 1 .. Len(order) : order[n] = d
      BY <2>3, OrderIsComplete
    <3>2. TasksOf(stack[d]) \subseteq D
      BY <3>1
    <3> HIDE DEF D
    <3> QED
      BY <2>1, <3>2, NoTasks
  <2> QED
    BY <2>2, <2>3
<1>4. D \cap TasksOf(spawn) = {}
  <2>1. \A n \in 1 .. Len(order) : order[n] \in Pid
    BY OrderIsComplete DEF Instances
  <2> QED
    BY <2>1, Distinct
<1> HIDE DEF D
<1>5. stack' \in [Pid -> Seq(Pid)]
  BY <1>2, NoTasks
<1>6. /\ spawn' \in Seq(Pid)
      /\ TasksOf(spawn') \subseteq TasksOf(spawn) \ D
      /\ TasksOf(spawn) \subseteq TasksOf(spawn') \cup D
      /\ \A m, n \in 1 .. Len(spawn') : spawn'[m] = spawn'[n] => m = n
  BY <1>2, <1>4, QueueIsLive
<1> QED
  BY <1>1, <1>2, <1>3, <1>5, <1>6, DeathKeepsInvariant

(* Steps that leave the records alone and move a task from a place to      *)
(* another.                                                                *)
LEMMA MoveKeepsInvariant ==
    ASSUME IInv, UNCHANGED <<table, nextPid, finished>>,
           stack' \in [Pid -> Seq(Pid)], spawn' \in Seq(Pid), NEW b \in Pid, NEW p \in Pid,
           \A d \in Pid : d # b => stack'[d] = stack[d],
           \/ /\ TasksOf(stack'[b]) = TasksOf(stack[b]) \ {p} /\ p \in TasksOf(stack[b])
              /\ TasksOf(spawn') = TasksOf(spawn) \cup {p}
           \/ /\ TasksOf(stack'[b]) = TasksOf(stack[b]) \cup {p}
              /\ TasksOf(spawn') = TasksOf(spawn) \ {p} /\ p \in TasksOf(spawn),
           stack'[b] # <<>> => stack'[b][1] = b,
           \A m, n \in 1 .. Len(stack'[b]) : m < n => stack'[b][m] < stack'[b][n],
           \A n \in 1 .. Len(stack'[b]) : n <= stack'[b][n],
           \A n \in 2 .. Len(stack'[b]) : table[stack'[b][n]].ppid = stack'[b][n - 1],
           \A m, n \in 1 .. Len(spawn') : spawn'[m] = spawn'[n] => m = n
    PROVE  IInv'
<1>1. TypeOK'
  <2>1. \A d \in Pid : stack'[d] # <<>> => stack'[d][1] = d
    BY Bottoms DEF IInv
  <2> QED
    BY <2>1 DEF IInv, TypeOK, Instances
<1>2. Ordered(table)' /\ Unborn' /\ Collected(table)'
  BY DEF IInv, Unborn
<1>3. \A d \in Pid : TasksOf(stack'[d]) \subseteq TasksOf(stack[d]) \cup TasksOf(spawn)
  <2> TAKE d \in Pid
  <2>1. CASE d # b
    BY <2>1
  <2>2. CASE d = b
    BY <2>2
  <2> QED
    BY <2>1, <2>2
<1>4. TasksOf(spawn') \subseteq TasksOf(spawn) \cup TasksOf(stack[b])
  OBVIOUS
<1>5. TasksLive'
  <2>1. \A d \in Pid : \A q \in TasksOf(stack'[d]) : AliveIn(table, q)
    BY <1>3 DEF IInv, TasksLive, Alive
  <2>2. \A q \in TasksOf(spawn') : AliveIn(table, q)
    BY <1>4 DEF IInv, TasksLive, Alive
  <2> QED
    BY <2>1, <2>2 DEF TasksLive, Alive
<1>6. LivingAreTasks'
  <2> SUFFICES ASSUME NEW q \in Pid, AliveIn(table, q)
               PROVE  q \in TasksOf(spawn') \/ \E d \in Pid : q \in TasksOf(stack'[d])
    BY DEF LivingAreTasks, Alive, InStack, Queued
  <2>1. q \in TasksOf(spawn) \/ \E d \in Pid : q \in TasksOf(stack[d])
    BY DEF IInv, LivingAreTasks, Alive, InStack, Queued
  <2>2. CASE q \in TasksOf(spawn)
    BY <2>2
  <2>3. ASSUME NEW d \in Pid, q \in TasksOf(stack[d])
        PROVE  q \in TasksOf(spawn') \/ q \in TasksOf(stack'[d])
    BY <2>3
  <2> QED
    BY <2>1, <2>2, <2>3
<1>7. Rising'
  <2> SUFFICES ASSUME NEW d \in Pid
               PROVE  /\ \A m, n \in 1 .. Len(stack'[d]) : m < n => stack'[d][m] < stack'[d][n]
                      /\ \A n \in 1 .. Len(stack'[d]) : n <= stack'[d][n]
    BY DEF Rising
  <2>1. CASE d = b
    BY <2>1
  <2>2. CASE d # b
    BY <2>2 DEF IInv, Rising
  <2> QED
    BY <2>1, <2>2
<1>8. ASSUME NEW d \in Pid, NEW e \in Pid, d # e
      PROVE  TasksOf(stack'[d]) \cap TasksOf(stack'[e]) = {}
  <2>1. /\ TasksOf(stack[d]) \cap TasksOf(stack[e]) = {}
        /\ TasksOf(stack[d]) \cap TasksOf(spawn) = {}
        /\ TasksOf(stack[e]) \cap TasksOf(spawn) = {}
    BY <1>8, Distinct
  <2>2. CASE d # b /\ e # b
    BY <2>1, <2>2
  <2>3. CASE d = b
    BY <1>8, <2>1, <2>3
  <2>4. CASE e = b
    BY <1>8, <2>1, <2>4
  <2> QED
    BY <2>2, <2>3, <2>4
<1>9. ASSUME NEW d \in Pid
      PROVE  TasksOf(stack'[d]) \cap TasksOf(spawn') = {}
  <2>1. TasksOf(stack[d]) \cap TasksOf(spawn) = {} /\ TasksOf(stack[b]) \cap TasksOf(spawn) = {}
    BY Distinct
  <2>2. CASE d # b
    <3>1. TasksOf(stack[d]) \cap TasksOf(stack[b]) = {}
      BY <2>2, Distinct
    <3> QED
      BY <2>1, <2>2, <3>1
  <2>3. CASE d = b
    BY <2>1, <2>3
  <2> QED
    BY <2>2, <2>3
<1>10. OnePlace'
  <2>1. \A q \in Pid : ~(\E d \in Pid : q \in TasksOf(stack'[d]) /\ q \in TasksOf(spawn'))
    BY <1>9
  <2> QED
    BY <1>8, <2>1 DEF OnePlace, InStack, Queued
<1>11. VforkParentIsParent'
  <2> SUFFICES ASSUME NEW d \in Pid, NEW n \in 2 .. Len(stack'[d])
               PROVE  table[stack'[d][n]].ppid = stack'[d][n - 1]
    BY DEF VforkParentIsParent
  <2>1. CASE d = b
    <3>1. n \in 2 .. Len(stack'[b])
      BY <2>1
    <3> QED
      BY <2>1, <3>1
  <2>2. CASE d # b
    <3>1. stack'[d] = stack[d]
      BY <2>2
    <3>2. \A k \in 2 .. Len(stack[d]) : table[stack[d][k]].ppid = stack[d][k - 1]
      BY DEF IInv, VforkParentIsParent
    <3> QED
      BY <3>1, <3>2
  <2> QED
    BY <2>1, <2>2
<1> QED
  BY <1>1, <1>2, <1>5, <1>6, <1>7, <1>10, <1>11 DEF IInv

LEMMA ExecChildKeepsInvariant ==
    ASSUME IInv, NEW b \in Pid, ExecChild(b)
    PROVE  IInv'
<1> DEFINE p == Current(b)
           k == Len(stack[b])
           j == Len(spawn)
<1>1. stack[b] # <<>> /\ k > 1
  <2>1. Len(stack[b]) \in Nat /\ Len(stack[b]) > 1
    BY QueueIsLive DEF ExecChild, InChild
  <2> QED
    BY <2>1
<1>2. /\ stack[b] \in Seq(Pid) /\ k \in Nat \ {0} /\ p = stack[b][k]
      /\ p \in Pid /\ p \in TasksOf(stack[b])
  BY <1>1, CurrentIsTask
<1>3. /\ Front(stack[b]) \in Seq(Pid) /\ Len(Front(stack[b])) = k - 1
      /\ \A n \in 1 .. k - 1 : Front(stack[b])[n] = stack[b][n]
      /\ TasksOf(stack[b]) = TasksOf(Front(stack[b])) \cup {p}
  BY <1>1, <1>2, FrontOfSeq
<1>4. /\ stack' \in [Pid -> Seq(Pid)] /\ stack'[b] = Front(stack[b])
      /\ \A d \in Pid : d # b => stack'[d] = stack[d]
  BY <1>3, QueueIsLive DEF ExecChild
<1>5. spawn \in Seq(Pid) /\ j \in Nat
  BY QueueIsLive
<1>6. /\ spawn' \in Seq(Pid) /\ Len(spawn') = j + 1
      /\ \A n \in 1 .. j : spawn'[n] = spawn[n]
      /\ spawn'[j + 1] = p
      /\ TasksOf(spawn') = TasksOf(spawn) \cup {p}
  <2>1. spawn' = Append(spawn, p)
    BY DEF ExecChild
  <2> HIDE DEF p
  <2> QED
    BY <1>2, <1>5, <2>1, AppendToSeq
<1>7. UNCHANGED <<table, nextPid, finished>>
  BY DEF ExecChild
<1>8. k = Len(stack[b]) /\ j = Len(spawn)
  OBVIOUS
<1> HIDE DEF p, k, j
<1>9. Len(stack'[b]) = k - 1 /\ \A n \in 1 .. k - 1 : stack'[b][n] = stack[b][n]
  BY <1>3, <1>4
<1>10. p \notin TasksOf(stack'[b])
  <2>1. ASSUME NEW n \in 1 .. k - 1 PROVE stack'[b][n] # p
    <3>1. n \in 1 .. Len(stack[b]) /\ k \in 1 .. Len(stack[b]) /\ n # k
      BY <1>2, <1>8
    <3>2. stack[b][n] # stack[b][k]
      BY <3>1, Distinct
    <3> QED
      BY <1>2, <1>9, <3>2
  <2>2. TasksOf(stack'[b]) = {stack'[b][n] : n \in 1 .. k - 1}
    BY <1>9 DEF TasksOf
  <2> QED
    BY <2>1, <2>2
<1>11. TasksOf(stack'[b]) = TasksOf(stack[b]) \ {p}
  BY <1>3, <1>4, <1>10
<1>12. /\ 1 .. Len(stack'[b]) = 1 .. k - 1
       /\ \A n \in 1 .. k - 1 : n \in 1 .. Len(stack[b]) /\ stack'[b][n] = stack[b][n]
  <2>1. 1 .. Len(stack'[b]) = 1 .. k - 1
    BY <1>9
  <2>2. \A n \in 1 .. k - 1 : n \in 1 .. Len(stack[b])
    BY <1>2, <1>8
  <2> QED
    BY <1>9, <2>1, <2>2
<1>13. /\ \A m, n \in 1 .. Len(stack'[b]) : m < n => stack'[b][m] < stack'[b][n]
       /\ \A n \in 1 .. Len(stack'[b]) : n <= stack'[b][n]
  BY <1>12 DEF IInv, Rising
<1>14. \A n \in 2 .. Len(stack'[b]) : table[stack'[b][n]].ppid = stack'[b][n - 1]
  <2> TAKE n \in 2 .. Len(stack'[b])
  <2>1. n \in 1 .. k - 1 /\ n - 1 \in 1 .. k - 1 /\ n \in 2 .. Len(stack[b])
    <3>1. n \in 2 .. k - 1
      BY <1>9
    <3> QED
      BY <1>2, <1>8, <3>1
  <2>2. stack'[b][n] = stack[b][n] /\ stack'[b][n - 1] = stack[b][n - 1]
    BY <1>12, <2>1
  <2> QED
    BY <2>1, <2>2 DEF IInv, VforkParentIsParent
<1>15. stack'[b][1] = b
  <2>1. 1 \in 1 .. k - 1
    BY <1>1, <1>2
  <2> QED
    BY <1>1, <1>12, <2>1, QueueIsLive, Bottoms
<1>16. \A m, n \in 1 .. Len(spawn') : spawn'[m] = spawn'[n] => m = n
  <2>1. \A n \in 1 .. j : spawn[n] # p
    <3>1. p \notin TasksOf(spawn)
      BY <1>2, Distinct
    <3> QED
      BY <1>8, <3>1 DEF TasksOf
  <2>2. \A n \in 1 .. Len(spawn') : n \in 1 .. j \/ n = j + 1
    BY <1>5, <1>6
  <2> QED
    BY <1>6, <1>8, <2>1, <2>2, QueueIsLive
<1> QED
  BY <1>2, <1>4, <1>6, <1>7, <1>11, <1>13, <1>14, <1>15, <1>16, MoveKeepsInvariant

LEMMA StartKeepsInvariant ==
    ASSUME IInv, Start
    PROVE  IInv'
<1> DEFINE h == Head(spawn)
<1>1. spawn # <<>> /\ spawn \in Seq(Pid)
  BY QueueIsLive DEF Start
<1>2. /\ Tail(spawn) \in Seq(Pid) /\ h \in Pid /\ h = spawn[1]
      /\ Len(spawn) \in Nat /\ Len(spawn) >= 1 /\ Len(Tail(spawn)) = Len(spawn) - 1
      /\ \A n \in 1 .. Len(spawn) - 1 : Tail(spawn)[n] = spawn[n + 1]
      /\ TasksOf(spawn) = TasksOf(Tail(spawn)) \cup {h}
  BY <1>1, TailOfSeq
<1>3. /\ UNCHANGED <<table, nextPid, finished>> /\ spawn' = Tail(spawn)
      /\ stack' = [stack EXCEPT ![h] = <<h>>]
  BY DEF Start
<1>4. \A m, n \in 1 .. Len(Tail(spawn)) : Tail(spawn)[m] = Tail(spawn)[n] => m = n
  <2> SUFFICES ASSUME NEW m \in 1 .. Len(Tail(spawn)), NEW n \in 1 .. Len(Tail(spawn)),
                      Tail(spawn)[m] = Tail(spawn)[n]
               PROVE  m = n
    OBVIOUS
  <2>1. m + 1 \in 1 .. Len(spawn) /\ n + 1 \in 1 .. Len(spawn)
    BY <1>2
  <2>2. spawn[m + 1] = spawn[n + 1]
    BY <1>2
  <2>3. m + 1 = n + 1
    BY <2>1, <2>2, QueueIsLive
  <2> QED
    BY <2>3
<1>5. h \notin TasksOf(Tail(spawn))
  <2> SUFFICES ASSUME NEW n \in 1 .. Len(Tail(spawn)), Tail(spawn)[n] = h
               PROVE  FALSE
    BY DEF TasksOf
  <2>1. n + 1 \in 1 .. Len(spawn) /\ 1 \in 1 .. Len(spawn) /\ n + 1 # 1
    BY <1>2
  <2>2. spawn[n + 1] = spawn[1]
    BY <1>2
  <2> QED
    BY <2>1, <2>2, QueueIsLive
<1>6. stack[h] = <<>>
  <2>1. h \notin TasksOf(stack[h])
    BY <1>2, Distinct
  <2> QED
    BY <1>2, <2>1, QueueIsLive, Bottoms
<1> HIDE DEF h
<1>7. <<h>> \in Seq(Pid) /\ Len(<<h>>) = 1 /\ <<h>>[1] = h
  BY <1>2
<1>8. /\ stack' \in [Pid -> Seq(Pid)] /\ stack'[h] = <<h>>
      /\ \A d \in Pid : d # h => stack'[d] = stack[d]
  BY <1>2, <1>3, <1>7, QueueIsLive
<1>9. /\ \A n \in 1 .. Len(stack'[h]) : n = 1 /\ stack'[h][n] = h
      /\ ~ \E n \in 2 .. Len(stack'[h]) : TRUE
  BY <1>7, <1>8
<1>10. TasksOf(stack'[h]) = {h}
  <2>1. 1 .. Len(<<h>>) = {1}
    BY <1>7
  <2>2. TasksOf(<<h>>) = {h}
    BY <1>7, <2>1 DEF TasksOf
  <2> QED
    BY <1>8, <2>2
<1>11. /\ TasksOf(stack'[h]) = TasksOf(stack[h]) \cup {h}
       /\ TasksOf(spawn') = TasksOf(spawn) \ {h} /\ h \in TasksOf(spawn)
  BY <1>2, <1>3, <1>5, <1>6, <1>10, NoTasks
<1>12. /\ \A m, n \in 1 .. Len(stack'[h]) : m < n => stack'[h][m] < stack'[h][n]
       /\ \A n \in 1 .. Len(stack'[h]) : n <= stack'[h][n]
       /\ \A n \in 2 .. Len(stack'[h]) : table[stack'[h][n]].ppid = stack'[h][n - 1]
       /\ stack'[h] # <<>> => stack'[h][1] = h
  BY <1>2, <1>7, <1>8, <1>9 DEF Pid
<1>13. /\ spawn' \in Seq(Pid)
       /\ \A m, n \in 1 .. Len(spawn') : spawn'[m] = spawn'[n] => m = n
  BY <1>2, <1>3, <1>4
<1> QED
  BY <1>2, <1>3, <1>8, <1>11, <1>12, <1>13, MoveKeepsInvariant

LEMMA ReapKeepsInvariant ==
    ASSUME IInv, NEW b \in Pid, NEW which \in Pid \cup {0}, Reap(b, which)
    PROVE  IInv'
<1>1. PICK c \in Reapable(Current(b), which) : table' = [table EXCEPT ![c] = None]
  BY DEF Reap
<1>2. c \in Pid /\ table[c] # None /\ table[c].exit # None
  BY <1>1 DEF Reapable, Candidates, IsChild
<1>3. table \in Tables /\ TypeOK
  BY QueueIsLive
<1>4. table' \in Tables /\ table'[c] = None /\ \A q \in Pid \ {c} : table'[q] = table[q]
  BY <1>1, <1>2, <1>3 DEF Tables, Ordered
<1>5. UNCHANGED <<nextPid, stack, spawn, finished>>
  BY DEF Reap
<1>6. \A q : AliveIn(table', q) <=> AliveIn(table, q)
  BY <1>2, <1>4 DEF AliveIn
<1>7. TypeOK'
  BY <1>3, <1>4, <1>5 DEF TypeOK, Tables, Instances
<1>8. Ordered(table)' /\ Unborn'
  BY <1>2, <1>4, <1>5 DEF IInv, Unborn, Tables
<1>9. TasksLive'
  BY <1>5, <1>6 DEF IInv, TasksLive, Alive
<1>10. LivingAreTasks'
  BY <1>5, <1>6 DEF IInv, LivingAreTasks, Alive, InStack, Queued
<1>11. Rising' /\ OnePlace'
  BY <1>5 DEF IInv, Rising, OnePlace, InStack, Queued
<1>12. VforkParentIsParent'
  <2> SUFFICES ASSUME NEW d \in Pid, NEW n \in 2 .. Len(stack[d])
               PROVE  table'[stack[d][n]].ppid = stack[d][n - 1]
    BY <1>5 DEF VforkParentIsParent
  <2>1. n \in 1 .. Len(stack[d])
    BY QueueIsLive
  <2>2. stack[d][n] \in Pid /\ stack[d][n] \in TasksOf(stack[d])
    BY <1>3, <2>1, StacksOfType
  <2>3. stack[d][n] # c
    BY <1>2, <2>2 DEF IInv, TasksLive, Alive, AliveIn
  <2>4. table'[stack[d][n]] = table[stack[d][n]]
    BY <1>4, <2>2, <2>3
  <2> QED
    BY <2>4 DEF IInv, VforkParentIsParent
<1>13. Collected(table)'
  <2> SUFFICES ASSUME AliveIn(table', First), NEW q \in Pid, table'[q] # None, table'[q].exit # None
               PROVE  AliveIn(table', table'[q].ppid)
    BY DEF Collected
  <2>1. q # c /\ table'[q] = table[q]
    BY <1>4
  <2>2. AliveIn(table, table[q].ppid)
    BY <1>6, <2>1 DEF IInv, Collected
  <2> QED
    BY <1>6, <2>1, <2>2
<1> QED
  BY <1>7, <1>8, <1>9, <1>10, <1>11, <1>12, <1>13 DEF IInv

LEMMA InitInvariant == Init => IInv
<1> SUFFICES ASSUME Init PROVE IInv
  OBVIOUS
<1>1. First \in Pid /\ First = 1 /\ MaxPid \in Nat
  BY ProcessesAssumption DEF Pid, First
<1>2. Record(NoPid) \in ProcRecord /\ Record(NoPid) # None
      /\ Record(NoPid).ppid = NoPid /\ Record(NoPid).exit = None
  BY ProcessesAssumption DEF Record, ProcRecord
<1>3. \A p \in Pid : table[p] = IF p = First THEN Record(NoPid) ELSE None
  BY DEF Init
<1>4. \A b \in Pid : stack[b] = IF b = First THEN <<First>> ELSE <<>>
  BY DEF Init
<1>5. /\ <<First>> \in Seq(Pid) /\ Len(<<First>>) = 1 /\ <<First>>[1] = First
      /\ TasksOf(<<First>>) = {First}
  <2>1. 1 .. 1 = {1}
    OBVIOUS
  <2> QED
    BY <1>1, <2>1 DEF TasksOf
<1>6. TypeOK
  <2>1. table \in [Pid -> ProcRecord \cup {None}]
    BY <1>2 DEF Init
  <2>2. nextPid \in Pid \cup {MaxPid + 1}
    BY <1>1, ProcessesAssumption DEF Init, Pid, First
  <2>3. stack \in [Pid -> Seq(Pid)]
    BY <1>5, NoTasks DEF Init
  <2>4. \A b \in Instances : stack[b][1] = b
    BY <1>4, <1>5 DEF Instances
  <2>5. spawn \in Seq(Pid) /\ finished \in Status \cup {None}
    BY NoTasks DEF Init
  <2> QED
    BY <2>1, <2>2, <2>3, <2>4, <2>5 DEF TypeOK
<1>7. Ordered(table)
  BY <1>1, <1>2, <1>3 DEF Ordered, NoPid
<1>8. Unborn
  BY <1>1, <1>3 DEF Unborn, Init, Pid
<1>9. \A p \in Pid : Alive(p) <=> p = First
  BY <1>2, <1>3 DEF Alive, AliveIn
<1>10. /\ \A b \in Pid : TasksOf(stack[b]) = IF b = First THEN {First} ELSE {}
       /\ spawn = <<>> /\ TasksOf(spawn) = {} /\ Len(spawn) = 0
  BY <1>4, <1>5, NoTasks DEF Init
<1>11. TasksLive /\ LivingAreTasks /\ OnePlace
  <2>1. TasksLive
    BY <1>1, <1>9, <1>10 DEF TasksLive
  <2>2. LivingAreTasks
    BY <1>1, <1>9, <1>10 DEF LivingAreTasks, InStack
  <2>3. OnePlace
    BY <1>10 DEF OnePlace, Queued
  <2> QED
    BY <2>1, <2>2, <2>3
<1>12. \A b \in Pid : \A n \in 1 .. Len(stack[b]) : n = 1 /\ stack[b][n] = First
  <2> TAKE b \in Pid
  <2>1. CASE b = First
    <3>1. stack[b] = <<First>>
      BY <1>4, <2>1
    <3> QED
      BY <1>5, <3>1
  <2>2. CASE b # First
    <3>1. stack[b] = <<>>
      BY <1>4, <2>2
    <3> QED
      BY <3>1, NoTasks
  <2> QED
    BY <2>1, <2>2
<1>13. Rising
  <2> SUFFICES ASSUME NEW b \in Pid
               PROVE  /\ \A m, n \in 1 .. Len(stack[b]) : m < n => stack[b][m] < stack[b][n]
                      /\ \A n \in 1 .. Len(stack[b]) : n <= stack[b][n]
    BY DEF Rising
  <2>1. \A m, n \in 1 .. Len(stack[b]) : ~(m < n)
    BY <1>12
  <2>2. \A n \in 1 .. Len(stack[b]) : n <= stack[b][n]
    BY <1>1, <1>12
  <2> QED
    BY <2>1, <2>2
<1>14. VforkParentIsParent
  <2>1. \A b \in Pid : Len(stack[b]) \in {0, 1}
    BY <1>4, <1>5, NoTasks
  <2> QED
    BY <2>1 DEF VforkParentIsParent
<1>15. Collected(table)
  BY <1>2, <1>3 DEF Collected
<1> QED
  BY <1>6, <1>7, <1>8, <1>11, <1>13, <1>14, <1>15 DEF IInv

LEMMA NextInvariant == IInv /\ [Next]_vars => IInv'
<1> SUFFICES ASSUME IInv, [Next]_vars PROVE IInv'
  OBVIOUS
<1>1. Codes \subseteq Status
  BY DEF Status
<1>2. ASSUME NEW b \in Pid, Vfork(b) PROVE IInv'
  BY <1>2, VforkKeepsInvariant
<1>3. ASSUME NEW b \in Pid, ExecChild(b) PROVE IInv'
  BY <1>3, ExecChildKeepsInvariant
<1>4. ASSUME NEW b \in Pid, ExecFails(b) PROVE IInv'
  BY <1>4, ExecFailsKeepsInvariant
<1>5. ASSUME NEW b \in Pid, NEW status \in Codes, ExitChild(b, status) PROVE IInv'
  BY <1>1, <1>5, ExitChildKeepsInvariant
<1>6. ASSUME NEW b \in Pid, NEW status \in Status, Finish(b, status)
      PROVE  IInv'
  BY <1>1, <1>6, FinishKeepsInvariant
<1>7. ASSUME NEW b \in Pid, NEW which \in Pid \cup {0}, Reap(b, which) PROVE IInv'
  BY <1>7, ReapKeepsInvariant
<1>8. CASE Start
  BY <1>8, StartKeepsInvariant
<1>9. CASE StartFails
  BY <1>9, StartFailsKeepsInvariant
<1>10. ASSUME NEW order \in SetToSeqs(Instances), KillAll(order) PROVE IInv'
  BY <1>10, KillAllKeepsInvariant
<1>11. CASE NoneLeft \/ UNCHANGED vars
  <2>1. UNCHANGED <<table, nextPid, stack, spawn>> /\ finished' \in Status \cup {None}
    BY <1>11, QueueIsLive DEF NoneLeft, vars, Status
  <2>2. TypeOK'
    BY <2>1 DEF IInv, TypeOK, Instances
  <2>3. Unborn' /\ TasksLive' /\ LivingAreTasks' /\ Rising' /\ OnePlace' /\ VforkParentIsParent'
    BY <2>1 DEF IInv, Unborn, TasksLive, LivingAreTasks, Rising, OnePlace, VforkParentIsParent,
                Alive, InStack, Queued
  <2> QED
    BY <2>1, <2>2, <2>3 DEF IInv
<1> QED
  BY <1>2, <1>3, <1>4, <1>5, <1>6, <1>7, <1>8, <1>9, <1>10, <1>11 DEF Next

(* The invariant holds in every state. *)
THEOREM ProcessesInvariant == Spec => []IInv
<1>1. Init => IInv
  BY InitInvariant
<1>2. IInv /\ [Next]_vars => IInv'
  BY NextInvariant
<1> QED
  BY <1>1, <1>2, PTL DEF Spec

(* Every state of the process table has the type its variables declare,    *)
(* and an instance is named by its bottom task.                            *)
THEOREM TypeCorrect == Spec => []TypeOK
<1>1. IInv => TypeOK
  BY DEF IInv
<1> QED
  BY <1>1, ProcessesInvariant, PTL

(* A task that waits in a vfork stack is the parent of the task above it:  *)
(* the pid that vfork returns to it is one it can wait for.                *)
THEOREM VforkParentsAreParents == Spec => []VforkParentIsParent
<1>1. IInv => VforkParentIsParent
  BY DEF IInv
<1> QED
  BY <1>1, ProcessesInvariant, PTL

(* While the first process lives, every dead child has a live parent.      *)
THEOREM ZombiesAreCollectable == Spec => []ZombiesHaveParents
<1>1. IInv => ZombiesHaveParents
  BY DEF IInv, ZombiesHaveParents, Collected, Alive, Zombie
<1> QED
  BY <1>1, ProcessesInvariant, PTL

-----------------------------------------------------------------------------
(* 6. One place for each live record, and none for the others. *)

LEMMA NoPlaceForTheDead ==
    ASSUME IInv, NEW p \in Pid, ~Alive(p)
    PROVE  Cardinality(Places(p)) = 0
<1>1. \A b \in Pid : \A n \in 1 .. Len(stack[b]) : stack[b][n] # p
  BY DEF IInv, TasksLive, TasksOf
<1>2. \A n \in 1 .. Len(spawn) : spawn[n] # p
  BY DEF IInv, TasksLive, TasksOf
<1>3. {place \in Pid \X Pid :
          place[2] <= Len(stack[place[1]]) /\ stack[place[1]][place[2]] = p} = {}
  <2> SUFFICES ASSUME NEW b \in Pid, NEW n \in Pid, n <= Len(stack[b]), stack[b][n] = p
               PROVE  FALSE
    OBVIOUS
  <2>1. n \in 1 .. Len(stack[b])
    BY QueueIsLive DEF Pid
  <2> QED
    BY <1>1, <2>1
<1>4. Places(p) = {}
  BY <1>2, <1>3 DEF Places
<1> QED
  BY <1>4, FS_EmptySet

LEMMA OnePlaceForTheLiving ==
    ASSUME IInv, NEW p \in Pid, Alive(p)
    PROVE  Cardinality(Places(p)) = 1
<1> DEFINE Up == {place \in Pid \X Pid :
                     place[2] <= Len(stack[place[1]]) /\ stack[place[1]][place[2]] = p}
           Wait == {m \in 1 .. Len(spawn) : spawn[m] = p}
<1>1. Places(p) = Up \cup {<<NoPid, n>> : n \in Wait}
  BY DEF Places
<1>2. \A b, n \in Pid : <<b, n>> \in Up <=> n \in 1 .. Len(stack[b]) /\ stack[b][n] = p
  <2>1. \A b \in Pid : Len(stack[b]) \in Nat
    BY QueueIsLive
  <2> QED
    BY <2>1 DEF Pid
<1>3. \A place \in Up : \E b, n \in Pid : place = <<b, n>>
  OBVIOUS
<1> HIDE DEF Up
<1>4. CASE InStack(p)
  <2>1. PICK b \in Pid : p \in TasksOf(stack[b])
    BY <1>4 DEF InStack
  <2>2. PICK n \in 1 .. Len(stack[b]) : stack[b][n] = p
    BY <2>1 DEF TasksOf
  <2>3. n \in Pid
    <3>1. n <= stack[b][n]
      BY DEF IInv, Rising
    <3> QED
      BY <2>2, <3>1, ProcessesAssumption DEF Pid
  <2>4. Up = {<<b, n>>}
    <3>1. <<b, n>> \in Up
      BY <1>2, <2>2, <2>3
    <3>2. ASSUME NEW c \in Pid, NEW m \in Pid, <<c, m>> \in Up PROVE c = b /\ m = n
      <4>1. m \in 1 .. Len(stack[c]) /\ stack[c][m] = p
        BY <1>2, <3>2
      <4>2. p \in TasksOf(stack[c])
        BY <4>1 DEF TasksOf
      <4>3. c = b
        BY <2>1, <4>2, Distinct
      <4> QED
        BY <2>2, <4>1, <4>3, Distinct
    <3> QED
      BY <1>3, <3>1, <3>2
  <2>5. Wait = {}
    <3>1. p \notin TasksOf(spawn)
      BY <2>1, Distinct
    <3> QED
      BY <3>1 DEF TasksOf
  <2>6. Places(p) = {<<b, n>>}
    BY <1>1, <2>4, <2>5
  <2> QED
    BY <2>6, FS_Singleton
<1>5. CASE Queued(p)
  <2>1. PICK n \in 1 .. Len(spawn) : spawn[n] = p
    BY <1>5 DEF Queued, TasksOf
  <2>2. Wait = {n}
    BY <2>1, QueueIsLive
  <2>3. Up = {}
    <3> SUFFICES ASSUME NEW c \in Pid, NEW m \in Pid, <<c, m>> \in Up PROVE FALSE
      BY <1>3
    <3>1. p \in TasksOf(stack[c])
      BY <1>2 DEF TasksOf
    <3> QED
      BY <1>5, <3>1, Distinct DEF Queued
  <2>4. Places(p) = {<<NoPid, n>>}
    BY <1>1, <2>2, <2>3
  <2> QED
    BY <2>4, FS_Singleton
<1> QED
  BY <1>4, <1>5 DEF IInv, LivingAreTasks

(* A record is alive exactly while its task is somewhere, and a task is in *)
(* one place only.                                                         *)
THEOREM RecordsAreTasks == Spec => []RecordsMatchTasks
<1>1. IInv => RecordsMatchTasks
  BY NoPlaceForTheDead, OnePlaceForTheLiving DEF RecordsMatchTasks
<1> QED
  BY <1>1, ProcessesInvariant, PTL

-----------------------------------------------------------------------------
(* 7. What becomes of a status. *)

(* What a step does to the records: nothing; the tasks in D end, none of   *)
(* whom is dead, and while the session lasts no record goes that somebody  *)
(* could wait for; a child is born; or its parent has waited for one.      *)
LEMMA TableSteps ==
    ASSUME IInv, [Next]_vars
    PROVE  \/ table' = table
           \/ \E D \in SUBSET Pid : /\ Ends(table, table', D) /\ \A q \in D : Alive(q)
                                    /\ ~Over' => Kept(table, table', D)
           \/ \E p \in Pid : /\ table[p] = None /\ table'[p] # None
                             /\ \A q \in Pid \ {p} : table'[q] = table[q]
           \/ \E b \in Pid : \E c \in Reapable(Current(b), 0) :
                 /\ Reap(b, c) /\ table' = [table EXCEPT ![c] = None]
<1> DEFINE Deadly == \E D \in SUBSET Pid : /\ Ends(table, table', D) /\ \A q \in D : Alive(q)
                                           /\ ~Over' => Kept(table, table', D)
           Birth == \E p \in Pid : /\ table[p] = None /\ table'[p] # None
                                   /\ \A q \in Pid \ {p} : table'[q] = table[q]
           Wait(b) == \E c \in Reapable(Current(b), 0) :
                         /\ Reap(b, c) /\ table' = [table EXCEPT ![c] = None]
<1>1. \A b \in Pid : TasksOf(stack[b]) \subseteq Pid /\ \A q \in TasksOf(stack[b]) : Alive(q)
  BY StacksOfType DEF IInv, TasksLive
<1>2. TasksOf(spawn) \subseteq Pid /\ \A q \in TasksOf(spawn) : Alive(q)
  BY QueueIsLive DEF IInv, TasksLive
<1>3. ASSUME NEW p \in Pid, NEW status \in Status, Alive(p), table' = SetExit(table, p, status)
      PROVE  Deadly
  <2>1. Ends(table, table', {p}) /\ Kept(table, table', {p})
    BY <1>3, QueueIsLive, SetExitEnds
  <2> QED
    BY <1>3, <2>1
<1>4. ASSUME NEW b \in Pid, Vfork(b)
      PROVE  Birth
  <2>1. nextPid \in Pid /\ table[nextPid] = None
    <3>1. nextPid \in Pid \cup {MaxPid + 1} /\ nextPid <= MaxPid
      BY <1>4 DEF Vfork, IInv, TypeOK
    <3>2. nextPid \in Pid /\ nextPid >= nextPid
      BY <3>1, ProcessesAssumption DEF Pid
    <3> QED
      BY <3>2 DEF IInv, Unborn
  <2>2. Record(Current(b)) # None
    <3>1. stack[b] # <<>>
      BY <1>4 DEF Vfork, Instances
    <3>2. Record(Current(b)) \in ProcRecord
      BY <3>1, CurrentIsTask DEF Record, ProcRecord
    <3> QED
      BY <3>2, ProcessesAssumption
  <2>3. table' = [table EXCEPT ![nextPid] = Record(Current(b))] /\ table \in Tables
    BY <1>4, QueueIsLive DEF Vfork
  <2>4. table'[nextPid] # None /\ \A q \in Pid \ {nextPid} : table'[q] = table[q]
    BY <2>1, <2>2, <2>3 DEF Tables
  <2> QED
    BY <2>1, <2>4
<1>5. ASSUME NEW b \in Pid, NEW status \in Codes, ExitChild(b, status)
      PROVE  Deadly
  <2>1. stack[b] # <<>>
    <3>1. Len(stack[b]) > 1
      BY <1>5 DEF ExitChild, InChild
    <3> QED
      BY <3>1, NoTasks
  <2>2. Current(b) \in Pid /\ Alive(Current(b)) /\ status \in Status
    BY <2>1, CurrentIsTask DEF Status
  <2> QED
    BY <1>3, <1>5, <2>2 DEF ExitChild
<1>6. ASSUME StartFails
      PROVE  Deadly
  <2>1. Head(spawn) \in Pid /\ Alive(Head(spawn))
    BY <1>2, <1>6, QueueIsLive, TailOfSeq DEF StartFails
  <2> QED
    BY <1>3, <1>6, <2>1 DEF StartFails, Status
<1>7. ASSUME NEW b \in Pid, ExecFails(b)
      PROVE  Deadly
  <2>1. Len(stack[b]) = 1 /\ stack[b] # <<>>
    <3>1. Len(stack[b]) = 1
      BY <1>7 DEF ExecFails
    <3> QED
      BY <3>1, NoTasks
  <2>2. b \in TasksOf(stack[b])
    BY <2>1, QueueIsLive, Bottoms
  <2> QED
    BY <1>1, <1>3, <1>7, <2>2 DEF ExecFails, Status
<1>8. ASSUME NEW b \in Pid, NEW status \in Status, Finish(b, status)
      PROVE  Deadly
  <2>1. stack[b] \in Seq(Pid) /\ status \in Status /\ table \in Tables
    BY QueueIsLive DEF Status
  <2>2. \A m, n \in 1 .. Len(stack[b]) : m < n => stack[b][m] < stack[b][n]
    BY DEF IInv, Rising
  <2>3. table' = TearDown(table, stack[b], status)
    BY <1>8 DEF Finish
  <2>4. Ends(table, table', TasksOf(stack[b])) /\ Kept(table, table', TasksOf(stack[b]))
    BY <2>1, <2>2, <2>3, TearDownEnds
  <2> QED
    BY <1>1, <2>4
<1>9. ASSUME NEW order \in SetToSeqs(Instances), KillAll(order)
      PROVE  Deadly
  <2> DEFINE D == UNION {TasksOf(stack[order[n]]) : n \in 1 .. Len(order)}
  <2>1. table' = KillAllOf(table, order)
    BY <1>9 DEF KillAll
  <2>2. order \in Seq(Pid) /\ table \in Tables /\ stack \in [Pid -> Seq(Pid)]
    BY OrderIsComplete, QueueIsLive
  <2>3. Ends(table, KillAllOf(table, order), D)
    BY <2>2, KillAllEnds
  <2>4. D \in SUBSET Pid /\ \A q \in D : Alive(q)
    <3>1. \A n \in 1 .. Len(order) : order[n] \in Pid
      BY OrderIsComplete DEF Instances
    <3> QED
      BY <1>1, <3>1
  <2>5. Over'
    BY <1>9, ProcessesAssumption DEF KillAll, Over, Status
  <2> HIDE DEF D
  <2> QED
    BY <2>1, <2>3, <2>4, <2>5
<1>10. ASSUME NEW b \in Pid, NEW which \in Pid \cup {0}, Reap(b, which)
       PROVE  Wait(b)
  <2>1. PICK c \in Reapable(Current(b), which) : table' = [table EXCEPT ![c] = None]
    BY <1>10 DEF Reap
  <2>2. c \in Pid /\ c \in Reapable(Current(b), 0) /\ Reapable(Current(b), c) = {c}
    BY <2>1 DEF Reapable, Candidates, Pid
  <2>3. c <= c
    BY <2>2 DEF Pid
  <2>4. Reap(b, c)
    BY <1>10, <2>1, <2>2, <2>3 DEF Reap
  <2> QED
    BY <2>1, <2>2, <2>4
<1>11. Start \/ NoneLeft \/ (\E b \in Pid : ExecChild(b)) \/ UNCHANGED vars => table' = table
  BY DEF Start, NoneLeft, ExecChild, vars
<1> HIDE DEF Deadly, Birth, Wait
<1>12. ASSUME Next PROVE table' = table \/ Deadly \/ Birth \/ \E b \in Pid : Wait(b)
  <2>1. CASE \E b \in Pid : Vfork(b) \/ ExecChild(b) \/ ExecFails(b)
    BY <1>4, <1>7, <1>11, <2>1
  <2>2. CASE \E b \in Pid : \E status \in Codes : ExitChild(b, status)
    BY <1>5, <2>2
  <2>3. CASE \E b \in Pid : \E status \in Status : Finish(b, status)
    BY <1>8, <2>3
  <2>4. CASE \E b \in Pid : \E which \in Pid \cup {0} : Reap(b, which)
    BY <1>10, <2>4
  <2>5. CASE Start \/ StartFails \/ NoneLeft
    BY <1>6, <1>11, <2>5
  <2>6. CASE \E order \in SetToSeqs(Instances) : KillAll(order)
    BY <1>9, <2>6
  <2> QED
    BY <1>12, <2>1, <2>2, <2>3, <2>4, <2>5, <2>6 DEF Next
<1>13. table' = table \/ Deadly \/ Birth \/ \E b \in Pid : Wait(b)
  BY <1>11, <1>12
<1> QED
  BY <1>13 DEF Deadly, Birth, Wait

LEMMA StepKeepsStatus ==
    ASSUME IInv, [Next]_vars, ~Over', NEW p \in Pid, Alive(p), table'[p] = None
    PROVE  ~Alive(table[p].ppid)
<1>1. table[p] # None /\ table[p].exit = None
  BY DEF Alive, AliveIn
<1>2. ASSUME NEW D \in SUBSET Pid, Ends(table, table', D), Kept(table, table', D)
      PROVE  ~Alive(table[p].ppid)
  <2>1. p \in D
    BY <1>1, <1>2 DEF Ends, Adopted
  <2> QED
    BY <1>2, <2>1 DEF Kept, Alive
<1>3. ASSUME NEW b \in Pid, NEW c \in Reapable(Current(b), 0), table' = [table EXCEPT ![c] = None]
      PROVE  FALSE
  <2>1. p # c
    BY <1>1 DEF Reapable
  <2> QED
    BY <1>1, <1>3, <2>1, QueueIsLive DEF Tables
<1> QED
  BY <1>1, <1>2, <1>3, TableSteps

LEMMA StepKeepsZombie ==
    ASSUME IInv, [Next]_vars, NEW p \in Pid, Zombie(p)
    PROVE  \/ table'[p] # None /\ table'[p].exit = table[p].exit
           \/ \E b \in Pid : Reap(b, p) /\ Current(b) = table[p].ppid
<1>1. table[p] # None /\ table[p].exit # None
  BY DEF Zombie
<1>2. ASSUME NEW D \in SUBSET Pid, Ends(table, table', D), \A q \in D : Alive(q)
      PROVE  table'[p] # None /\ table'[p].exit = table[p].exit
  <2>1. p \notin D
    BY <1>1, <1>2 DEF Alive, AliveIn
  <2> QED
    BY <1>1, <1>2, <2>1 DEF Ends, Adopted
<1>3. ASSUME NEW b \in Pid, NEW c \in Reapable(Current(b), 0),
             Reap(b, c), table' = [table EXCEPT ![c] = None]
      PROVE  \/ table'[p] # None /\ table'[p].exit = table[p].exit
             \/ Reap(b, p) /\ Current(b) = table[p].ppid
  <2>1. CASE p = c
    BY <1>3, <2>1 DEF Reapable, Candidates, IsChild
  <2>2. CASE p # c
    <3>1. table'[p] = table[p]
      BY <1>3, <2>2, QueueIsLive DEF Tables
    <3> QED
      BY <1>1, <3>1
  <2> QED
    BY <2>1, <2>2
<1> QED
  BY <1>1, <1>2, <1>3, TableSteps

(* While the session lasts, a process that ends is dropped from the table  *)
(* at once only if it has no live parent, whichever of them end together.  *)
THEOREM StatusesAreKept == Spec => StatusIsKept
<1> DEFINE Step == ~Over' => \A p \in Pid : Alive(p) /\ table'[p] = None => ~Alive(table[p].ppid)
<1>1. IInv /\ [Next]_vars => Step
  BY StepKeepsStatus
<1>2. IInv /\ [Next]_vars => [Step]_vars
  BY <1>1
<1> HIDE DEF Step
<1>3. Spec => [][Step]_vars
  BY <1>2, ProcessesInvariant, PTL DEF Spec
<1> QED
  BY <1>3 DEF StatusIsKept, Step

(* What wait4 will report of a dead child never changes, and only its      *)
(* parent takes it away, by waiting.                                       *)
THEOREM StatusesAreFinal == Spec => StatusIsFinal
<1> DEFINE Step == \A p \in Pid : Zombie(p) =>
                      \/ table'[p] # None /\ table'[p].exit = table[p].exit
                      \/ \E b \in Pid : Reap(b, p) /\ Current(b) = table[p].ppid
<1>1. IInv /\ [Next]_vars => Step
  BY StepKeepsZombie
<1>2. IInv /\ [Next]_vars => [Step]_vars
  BY <1>1
<1> HIDE DEF Step
<1>3. Spec => [][Step]_vars
  BY <1>2, ProcessesInvariant, PTL DEF Spec
<1> QED
  BY <1>3 DEF StatusIsFinal, Step
=============================================================================
