---------------------------- MODULE Descriptors ----------------------------
(***************************************************************************)
(* Descriptor tables, open file descriptions and pipes (kernel/fd.rs), and *)
(* the system calls that change who refers to what (kernel/syscall.rs).    *)
(*                                                                         *)
(* A task's descriptor points at a description by key; a description       *)
(* counts the descriptors that point at it; a pipe counts its open ends.   *)
(* Counts are adjusted by hand on every path, including the failing ones,  *)
(* and that is what this module is about.  The two slabs are taken at the  *)
(* level of module KeyedStore: an insert takes any free key and is refused *)
(* when there is none.                                                     *)
(*                                                                         *)
(* Any live task may make any call at any time.  In the code a vfork       *)
(* parent waits for its child and the scheduler picks the order; neither   *)
(* is assumed here.  A call on a descriptor that is not open returns BADF  *)
(* before it changes anything and has no action.                           *)
(***************************************************************************)
EXTENDS Integers, FiniteSets

CONSTANTS Tasks,        \* tasks that can exist at once
          First,        \* the task the session starts with
          OpenFiles,    \* limits.open_files: descriptors per task
          DescKeys,     \* keys of the description slab, 4 * open_files in the code
          PipeKeys,     \* keys of the pipe slab, open_files in the code
          MaxRefs,      \* u32::MAX: where a reference count saturates
          Flags,        \* close-on-exec values calls pass, BOOLEAN in the code
          None          \* the absence of a value

Fds == 0 .. OpenFiles - 1
Positions == Tasks \X Fds

FdEntry == [desc : DescKeys, cloexec : BOOLEAN]
Description ==
    [kind : {"file"}, pipe : {None}, refs : 1 .. MaxRefs]
        \cup [kind : {"read", "write"}, pipe : PipeKeys, refs : 1 .. MaxRefs]
Pipe == [readers : 0 .. 1, writers : 0 .. 1]

ASSUME DescriptorsAssumption ==
    /\ IsFiniteSet(Tasks) /\ First \in Tasks
    /\ OpenFiles \in Nat /\ OpenFiles >= 3
    /\ IsFiniteSet(DescKeys)
    /\ MaxRefs \in Nat /\ MaxRefs > Cardinality(Positions) + 1
    /\ Flags \subseteq BOOLEAN
    /\ None \notin PipeKeys \cup FdEntry \cup Description \cup Pipe

VARIABLES fds,          \* FdTable of each task: the entry at <<task, fd>>, or None
          live,         \* tasks that have a table
          descs,        \* Shared::descs
          pipes,        \* Shared::pipes
          result        \* what the last call returned

vars == <<fds, live, descs, pipes, result>>

Results == {"ok", "BADF", "MFILE", "FAULT"}

-----------------------------------------------------------------------------
FreeDescs == {k \in DescKeys : descs[k] = None}
FreePipes == {q \in PipeKeys : pipes[q] = None}

Entry(k, cloexec) == [desc |-> k, cloexec |-> cloexec]
FileDesc == [kind |-> "file", pipe |-> None, refs |-> 1]
EndDesc(kind, q) == [kind |-> kind, pipe |-> q, refs |-> 1]

(* Desc::new and Pipe::new: one reference, one end of each kind.  Nothing  *)
(* else ever adds an end, so the end counts never pass 1.                  *)
NewPipe == [readers |-> 1, writers |-> 1]

Open(p) == {f \in Fds : fds[<<p, f>>] # None}

(* FdTable::alloc: the lowest free descriptor at or above min. *)
FreeFrom(p, min) == {f \in Fds : f >= min /\ fds[<<p, f>>] = None}
Lowest(S) == CHOOSE f \in S : \A g \in S : f <= g

(* How many entries of a set of positions point at a description. *)
PointingIn(R, k) == {x \in R : fds[x] # None /\ fds[x].desc = k}
Count(R) == [k \in DescKeys |-> Cardinality(PointingIn(R, k))]
Once(key) == [k \in DescKeys |-> IF k = key THEN 1 ELSE 0]

(* desc.refs.saturating_add, for n[k] new references to every k. *)
Acquire(ds, n) ==
    [k \in DescKeys |->
        IF ds[k] = None THEN None
        ELSE [ds[k] EXCEPT !.refs = IF @ + n[k] > MaxRefs THEN MaxRefs ELSE @ + n[k]]]

(* release_desc: the last reference removes the description, a removed     *)
(* pipe end counts down its pipe, and a pipe without ends is collected.    *)
LastGoneLate(ds, n, k) == ds[k] # None /\ n[k] > 0 /\ ds[k].refs < n[k]   \* mutant

LastGone(ds, n, k) == ds[k] # None /\ n[k] > 0 /\ ds[k].refs <= n[k]

DescsAfter(ds, n) ==
    [k \in DescKeys |->
        IF LastGone(ds, n, k) THEN None
        ELSE IF ds[k] = None THEN None
        ELSE [ds[k] EXCEPT !.refs = @ - n[k]]]

(* Mutants: the other end is counted down; every descriptor counts down.   *)
EndGoneSwapped(ds, n, kind, q) ==
    \E k \in DescKeys : LastGone(ds, n, k) /\ ds[k].kind # kind /\ ds[k].pipe = q
EndGonePerDescriptor(ds, n, kind, q) ==
    \E k \in DescKeys : ds[k] # None /\ n[k] > 0 /\ ds[k].kind = kind /\ ds[k].pipe = q

EndGone(ds, n, kind, q) ==
    \E k \in DescKeys : LastGone(ds, n, k) /\ ds[k].kind = kind /\ ds[k].pipe = q

PipesAfter(ds, ps, n) ==
    [q \in PipeKeys |->
        IF ps[q] = None THEN None
        ELSE LET r == IF EndGone(ds, n, "read", q) THEN 0 ELSE ps[q].readers
                 w == IF EndGone(ds, n, "write", q) THEN 0 ELSE ps[q].writers
             IN IF r = 0 /\ w = 0 THEN None ELSE [readers |-> r, writers |-> w]]

(* Mutant: a descriptor goes and its reference stays. *)
ReleaseNothing(ds, n) == descs' = ds /\ pipes' = pipes

Release(ds, n) ==
    /\ descs' = DescsAfter(ds, n)
    /\ pipes' = PipesAfter(ds, pipes, n)

-----------------------------------------------------------------------------
(* spawn_first: standard input, output and error at 0, 1 and 2. *)
Init ==
    /\ live = {First}
    /\ \E std \in [0 .. 2 -> DescKeys] :
          /\ \A i, j \in 0 .. 2 : std[i] = std[j] => i = j
          /\ fds = [x \in Positions |->
                       IF x[1] = First /\ x[2] \in 0 .. 2
                       THEN Entry(std[x[2]], FALSE) ELSE None]
          /\ descs = [k \in DescKeys |->
                         IF \E i \in 0 .. 2 : std[i] = k THEN FileDesc ELSE None]
    /\ pipes = [q \in PipeKeys |-> None]
    /\ result = "ok"

(* openat of anything but /dev/fd/N, once the path has resolved: a new     *)
(* description, given back if the table has no room for it.                *)
OpenNew(p, cloexec) ==
    /\ p \in live
    /\ UNCHANGED <<live, pipes>>
    /\ \/ /\ FreeDescs = {} \/ FreeFrom(p, 0) = {}
          /\ result' = "MFILE"
          /\ UNCHANGED <<fds, descs>>
       \/ /\ FreeFrom(p, 0) # {}
          /\ \E k \in FreeDescs :
                /\ descs' = [descs EXCEPT ![k] = FileDesc]
                /\ fds' = [fds EXCEPT ![<<p, Lowest(FreeFrom(p, 0))>>] = Entry(k, cloexec)]
          /\ result' = "ok"

(* dup, fcntl(F_DUPFD) and openat of /dev/fd/N: the reference is taken     *)
(* before the table is asked for room.                                     *)
Duplicate(p, f, min, cloexec) ==
    /\ p \in live /\ f \in Open(p)
    /\ descs' = Acquire(descs, Once(fds[<<p, f>>].desc))
    /\ UNCHANGED <<live, pipes>>
    /\ \/ /\ FreeFrom(p, min) = {}
          /\ result' = "MFILE"
          /\ UNCHANGED fds
       \/ /\ FreeFrom(p, min) # {}
          /\ fds' = [fds EXCEPT ![<<p, Lowest(FreeFrom(p, min))>>] =
                                   Entry(fds[<<p, f>>].desc, cloexec)]
          /\ result' = "ok"

(* dup3: the reference is taken before the target is checked. *)
Dup3(p, f, target, cloexec) ==
    /\ p \in live /\ f \in Open(p) /\ f # target
    /\ LET taken == Acquire(descs, Once(fds[<<p, f>>].desc)) IN
         \/ /\ target \notin Fds
            /\ descs' = taken
            /\ result' = "BADF"
            /\ UNCHANGED <<fds, pipes>>
         \/ /\ target \in Fds
            /\ fds' = [fds EXCEPT ![<<p, target>>] = Entry(fds[<<p, f>>].desc, cloexec)]
            /\ Release(taken, Count({<<p, target>>}))
            /\ result' = "ok"
    /\ UNCHANGED live

Close(p, f) ==
    /\ p \in live /\ f \in Open(p)
    /\ fds' = [fds EXCEPT ![<<p, f>>] = None]
    /\ Release(descs, Count({<<p, f>>}))
    /\ result' = "ok"
    /\ UNCHANGED live

(* The end of pipe2, with the pipe and both descriptions in their slabs. *)
Pipe2Fds(p, cloexec, q, r, w) ==
    LET made == [descs EXCEPT ![r] = EndDesc("read", q), ![w] = EndDesc("write", q)]
        room == FreeFrom(p, 0)
        readFd == Lowest(room)
    IN
    \/ /\ room = {}
       /\ pipes' = [pipes EXCEPT ![q] = NewPipe]
       /\ descs' = made
       /\ result' = "MFILE"
       /\ UNCHANGED fds
    \/ /\ room # {} /\ room \ {readFd} = {}
       /\ pipes' = [pipes EXCEPT ![q] = [readers |-> 0, writers |-> 1]]
       /\ descs' = [made EXCEPT ![r] = None]
       /\ result' = "MFILE"
       /\ UNCHANGED fds
    \/ /\ room # {} /\ room \ {readFd} # {}
       /\ pipes' = [pipes EXCEPT ![q] = NewPipe]
       /\ descs' = made
       /\ fds' = [fds EXCEPT ![<<p, readFd>>] = Entry(r, cloexec),
                             ![<<p, Lowest(room \ {readFd})>>] = Entry(w, cloexec)]
       /\ result' \in {"ok", "FAULT"}

(* pipe2: the pipe, then a description for each end, then a descriptor for *)
(* each.  Only the failure of the last step undoes anything, and it undoes *)
(* the read end alone.  The two numbers are stored in guest memory last,   *)
(* which can fault with both descriptors already open.                     *)
Pipe2(p, cloexec) ==
    /\ p \in live
    /\ UNCHANGED live
    /\ \/ /\ FreePipes = {}
          /\ result' = "MFILE"
          /\ UNCHANGED <<fds, descs, pipes>>
       \/ \E q \in FreePipes :
             \/ /\ FreeDescs = {}
                /\ pipes' = [pipes EXCEPT ![q] = NewPipe]
                /\ result' = "MFILE"
                /\ UNCHANGED <<fds, descs>>
             \/ \E r \in FreeDescs :
                   \/ /\ FreeDescs = {r}
                      /\ pipes' = [pipes EXCEPT ![q] = NewPipe]
                      /\ descs' = [descs EXCEPT ![r] = EndDesc("read", q)]
                      /\ result' = "MFILE"
                      /\ UNCHANGED fds
                   \/ \E w \in FreeDescs \ {r} : Pipe2Fds(p, cloexec, q, r, w)

SetCloexec(p, f, on) ==
    /\ p \in live /\ f \in Open(p)
    /\ fds' = [fds EXCEPT ![<<p, f>>].cloexec = on]
    /\ result' = "ok"
    /\ UNCHANGED <<live, descs, pipes>>

(* clone(CLONE_VFORK): FdTable::duplicate copies the table and takes a     *)
(* reference for every entry.                                              *)
Vfork(p, c) ==
    /\ p \in live /\ c \in Tasks \ live
    /\ live' = live \cup {c}
    /\ fds' = [x \in Positions |-> IF x[1] = c THEN fds[<<p, x[2]>>] ELSE fds[x]]
    /\ descs' = Acquire(descs, Count({p} \X Fds))
    /\ result' = "ok"
    /\ UNCHANGED pipes

(* Mutant: the entries are released and stay in the table. *)
ExecKeeping(p) ==
    /\ p \in live
    /\ Release(descs, Count({x \in {p} \X Open(p) : fds[x].cloexec}))
    /\ result' = "ok"
    /\ UNCHANGED <<fds, live>>

(* finish_exec: drain_cloexec, then a release for each entry drained. *)
Exec(p) ==
    LET closing == {x \in {p} \X Open(p) : fds[x].cloexec} IN
    /\ p \in live
    /\ fds' = [x \in Positions |-> IF x \in closing THEN None ELSE fds[x]]
    /\ Release(descs, Count(closing))
    /\ result' = "ok"
    /\ UNCHANGED live

(* release_fds: every way a task ends comes here (exit, a fatal signal, a  *)
(* trap, a spawn that could not be started).                               *)
End(p) ==
    /\ p \in live
    /\ live' = live \ {p}
    /\ fds' = [x \in Positions |-> IF x[1] = p THEN None ELSE fds[x]]
    /\ Release(descs, Count({p} \X Fds))
    /\ result' = "ok"

Next ==
    \E p \in Tasks :
        \/ \E cloexec \in Flags : OpenNew(p, cloexec) \/ Pipe2(p, cloexec)
        \/ \E f \in Fds, cloexec \in Flags :
              \/ \E min \in 0 .. OpenFiles : Duplicate(p, f, min, cloexec)
              \/ \E target \in 0 .. OpenFiles : Dup3(p, f, target, cloexec)
              \/ SetCloexec(p, f, cloexec)
        \/ \E f \in Fds : Close(p, f)
        \/ \E c \in Tasks : Vfork(p, c)
        \/ Exec(p)
        \/ End(p)

Spec == Init /\ [][Next]_vars

-----------------------------------------------------------------------------
(* Every entry of a table that names a description. *)
Holders(k) == PointingIn(Positions, k)

(* Every table, slab and count has its type; a task that ended has no      *)
(* descriptors.                                                            *)
TypeOK ==
    /\ fds \in [Positions -> FdEntry \cup {None}]
    /\ live \subseteq Tasks
    /\ descs \in [DescKeys -> Description \cup {None}]
    /\ pipes \in [PipeKeys -> Pipe \cup {None}]
    /\ result \in Results
    /\ \A x \in Positions : x[1] \notin live => fds[x] = None

(* No descriptor outlives its description, and no description has fewer    *)
(* references than descriptors: whatever the other tasks close, a          *)
(* descriptor keeps working until it is closed itself, and its key is not  *)
(* handed to somebody else's file (release_desc, slab reuse).              *)
RefsCoverDescriptors ==
    \A k \in DescKeys :
        /\ descs[k] = None => Holders(k) = {}
        /\ descs[k] # None => Cardinality(Holders(k)) <= descs[k].refs

(* An open end has a pipe that counts it, and no other description is the  *)
(* same end of the same pipe; a pipe nobody has an end of is gone.         *)
PipesCountTheirEnds ==
    /\ \A k \in DescKeys :
          descs[k] # None /\ descs[k].kind # "file" =>
             /\ pipes[descs[k].pipe] # None
             /\ descs[k].kind = "read" => pipes[descs[k].pipe].readers = 1
             /\ descs[k].kind = "write" => pipes[descs[k].pipe].writers = 1
    /\ \A k, l \in DescKeys :
          /\ descs[k] # None /\ descs[k].kind # "file"
          /\ descs[l] # None /\ descs[l].kind = descs[k].kind
          /\ descs[l].pipe = descs[k].pipe
          => k = l
    /\ \A q \in PipeKeys : pipes[q] # None => pipes[q].readers + pipes[q].writers > 0

(* A reader is told end of file (writers = 0), and a writer broken pipe    *)
(* (readers = 0), only when no task has a descriptor for the other end:    *)
(* read_bytes and write_bytes decide on these counts alone.                *)
NoFalseEndOfFile ==
    \A x \in Positions, q \in PipeKeys :
        fds[x] # None /\ descs[fds[x].desc] # None /\ descs[fds[x].desc].pipe = q =>
           /\ pipes[q] # None
           /\ descs[fds[x].desc].kind = "write" => pipes[q].writers = 1
           /\ descs[fds[x].desc].kind = "read" => pipes[q].readers = 1

(* References that no descriptor accounts for. *)
Surplus(k) == IF descs[k] = None THEN 0 ELSE descs[k].refs - Cardinality(Holders(k))

(* A reference is only ever lost in a call that is refused at a limit:     *)
(* every successful call, and every task's end, gives back exactly what it *)
(* took (dup, dup3, close, pipe2, vfork, exec, exit).                      *)
OnlyRefusalsLeak == [][result' = "ok" => \A k \in DescKeys : Surplus(k)' <= Surplus(k)]_vars
=============================================================================
