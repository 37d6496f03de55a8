------------------------------- MODULE Files -------------------------------
(***************************************************************************)
(* Names and files: how a path becomes a program, a device, a directory of *)
(* the kernel's own or a node of a mount (kernel/path.rs), the calls that  *)
(* read and change what names mean (kernel/syscall.rs), and the in-memory  *)
(* filesystem they act on (vfs/mem.rs).                                    *)
(*                                                                         *)
(* One process makes the calls.  The kernel serves one call at a time and  *)
(* MemVfs never answers EAGAIN, so a call is one step; more processes would *)
(* only bring more working directories and descriptors.                    *)
(*                                                                         *)
(* A resolved path is the sequence of its names, << >> being the root.  A  *)
(* path as a program writes it may also hold "." and "..", and starts with *)
(* "/" when it is absolute.  The contents of a file are its length, and    *)
(* whether it is a script.                                                 *)
(***************************************************************************)
EXTENDS Integers, FiniteSets, SequencesExt

CONSTANTS MountPoints,  \* where filesystems are mounted; << >> is one of them
          ReadOnly,     \* the mounts that refuse changes
          InitialTree,  \* what is on each mount to begin with
          Programs,     \* the paths of the program table
          OwnPid,       \* the caller's pid, as a name
          Scripts,      \* the files that start with #!
          Interpreters, \* what may follow it there
          FileIds,      \* bound: files
          MaxLen,       \* bound: the length of a file, and positions in it
          MaxNodes,     \* bound: nodes of a mount
          Homes,        \* bound: the directories a process works in
          MaxHops,      \* MAX_HOPS
          Limit,        \* Limits::open_files
          Paths,        \* the paths programs use in this instance of the module
          Probes,       \* the paths the invariants resolve
          Targets,      \* the targets of the links they make
          OpenFlags     \* the flags they open with

VARIABLES tree,         \* the nodes of each mount, by path
          len,          \* the length of each file
          fds,          \* the descriptor table, with the description behind each entry
          cwd,          \* Task::cwd
          exe,          \* Task::exe
          last          \* what the last call answered: an errno, or its own name

vars == <<tree, len, fds, cwd, exe, last>>

(* The nodes of a mount (vfs/mem.rs Node). *)
Dir == [is |-> "dir"]
File(id) == [is |-> "file", id |-> id]
Link(target) == [is |-> "link", to |-> target]
Missing == [is |-> "missing"]
Nodes == {Dir} \cup {File(id) : id \in FileIds} \cup {Link(t) : t \in Targets}

(* Names are strings.  (So are those the kernel gives, which are spelled   *)
(* out because the provers do not know it.)                                *)
Name == STRING \cup {"/", "proc", "self", "dev", "fd", "exe", "cwd", "0", "1", "2",
                      "stdin", "stdout", "stderr",
                      "null", "zero", "urandom", "random", "tty", "console"}
Path == Seq(Name)

Closed == [is |-> "closed"]
Fd == 0 .. Limit - 1
Cwd == -100      \* AT_FDCWD

Root(t) == <<>> \in DOMAIN t /\ t[<<>>] = Dir
WellFormed(t) == Root(t) /\ \A p \in DOMAIN t \ {<<>>} :
                                Front(p) \in DOMAIN t /\ t[Front(p)] = Dir

(* Directories that exist because a program or a device is in them         *)
(* (Overlay::new).                                                         *)
OverlayDirs == {<<>>, <<"dev">>, <<"proc">>, <<"proc", "self">>}
                   \cup UNION {{SubSeq(p, 1, n) : n \in 0 .. Len(p) - 1} : p \in Programs}

(* MemVfs has no links but symbolic ones: a file is in one place. *)
NamedOnce(trees) ==
    \A m, k \in MountPoints : \A p \in DOMAIN trees[m], q \in DOMAIN trees[k] :
        trees[m][p].is = "file" /\ trees[k][q] = trees[m][p] => m = k /\ p = q

ASSUME FilesAssumption ==
    /\ MountPoints \cup Programs \cup Interpreters \subseteq Seq(STRING)
    /\ Paths \cup Probes \cup Targets \cup Homes \subseteq Seq(STRING)
    /\ OwnPid \in STRING
    /\ ReadOnly \subseteq MountPoints /\ <<>> \in MountPoints
    /\ InitialTree = [m \in MountPoints |-> InitialTree[m]] /\ NamedOnce(InitialTree)
    /\ \A m \in MountPoints :
          /\ InitialTree[m] = [p \in DOMAIN InitialTree[m] |-> InitialTree[m][p]]
          /\ DOMAIN InitialTree[m] \subseteq Seq(STRING) /\ WellFormed(InitialTree[m])
          /\ \A p \in DOMAIN InitialTree[m] : InitialTree[m][p] \in Nodes
    /\ FileIds \subseteq Nat
    /\ {Limit, MaxHops, MaxLen} \subseteq Nat \ {0} /\ MaxNodes \in Nat

-----------------------------------------------------------------------------
(* Resolution. *)

Absolute(path) == path # <<>> /\ path[1] = "/"

(* normalize: fold away "." and "..", which stays at the root. *)
Under(parts, c) ==
    IF c \in {"/", "."} THEN parts
    ELSE IF c # ".." THEN Append(parts, c)
    ELSE IF parts = <<>> THEN parts ELSE Front(parts)
Folded(path) ==
    LET parts[n \in 0 .. Len(path)] ==
            IF n = 0 THEN <<>> ELSE Under(parts[n - 1], path[n])
    IN  parts[Len(path)]
Normalize(base, path) == Folded(IF Absolute(path) THEN path ELSE base \o path)

(* Mounts::find: the longest mount point on the way to p. *)
MountOf(p) ==
    LET onTheWay == {m \in MountPoints : IsPrefix(m, p)}
    IN  CHOOSE m \in onTheWay : \A n \in onTheWay : Len(n) <= Len(m)
Below(m, p) == SubSeq(p, Len(m) + 1, Len(p))

NodeAt(t, p) == IF p \in DOMAIN t THEN t[p] ELSE Missing

(* MemVfs::stat.  It follows one link, by its own names only. *)
Stat(t, p, follow) ==
    LET n == NodeAt(t, p)
    IN  IF n.is = "link" /\ follow
        THEN NodeAt(t, IF Absolute(n.to) THEN Tail(n.to) ELSE Front(p) \o n.to)
        ELSE n

Devices == {<<"dev", d>> : d \in {"null", "zero", "urandom", "random", "tty", "console"}}
ProcFiles == {"cpuinfo", "meminfo", "uptime", "version", "mounts", "filesystems",
              "loadavg", "stat"}
IsOverlayDir(p) == p \in OverlayDirs \cup {<<"proc", "self", "fd">>}

(* Mounts::children_of. *)
MountsIn(p) == {m[Len(m)] : m \in {n \in MountPoints \ {<<>>} : Front(n) = p}}

(* virtual_link: the links the kernel makes up. *)
NoLink == <<>>
VirtualLink(p) ==
    CASE p = <<>> \/ p[1] \notin {"proc", "dev"} -> NoLink
      [] p \in {<<"proc", "self", "exe">>, <<"proc", OwnPid, "exe">>} -> <<"/">> \o exe
      [] p \in {<<"proc", "self", "cwd">>, <<"proc", OwnPid, "cwd">>} -> <<"/">> \o cwd
      [] p = <<"dev", "stdin">> -> <<"/", "proc", "self", "fd", "0">>
      [] p = <<"dev", "stdout">> -> <<"/", "proc", "self", "fd", "1">>
      [] p = <<"dev", "stderr">> -> <<"/", "proc", "self", "fd", "2">>
      [] OTHER -> NoLink

(* symlink_target. *)
LinkTarget(p) ==
    LET virtual == VirtualLink(p)
        m == MountOf(p)
        n == NodeAt(tree[m], Below(m, p))
    IN  IF virtual # NoLink THEN virtual
        ELSE IF n.is # "link" \/ p \in Programs \cup Devices THEN NoLink
        ELSE n.to

(* What a path can turn out to be (path.rs Node), or why it is nothing. *)
Nothing(e) == [is |-> "error", e |-> e]
Program(p) == [is |-> "program", guest |-> p]
Device(p) == [is |-> "device", guest |-> p]
Synth(p) == [is |-> "synth", guest |-> p]
KernelDir(p) == [is |-> "kernel dir", guest |-> p]
KernelLink(target) == [is |-> "kernel link", to |-> target]
Mounted(m, p) == [is |-> "mounted", mount |-> m, rel |-> Below(m, p), guest |-> p]

(* proc_node: what is left of p once /proc, the own pid and self are gone. *)
Without(name, p) == IF Len(p) > 1 /\ p[1] = name THEN Tail(p) ELSE p
InProc(p) == Without("self", Without(OwnPid, Tail(p)))
ProcNode(p) ==
    LET rest == InProc(p)
    IN  CASE rest \in {<<"fd">>, <<"self">>} -> KernelDir(p)
          [] Len(rest) = 2 /\ rest[1] = "fd" -> Device(rest)
          [] Len(rest) = 1 /\ rest[1] \in ProcFiles \cup {"cmdline", "comm", "status"} -> Synth(p)
          [] OTHER -> Missing
OfProc(p) == Len(p) > 1 /\ p[1] = "proc" /\ ProcNode(p) # Missing

(* classify_final. *)
ClassifyByMount(p) ==          \* mutant: a kernel directory does not shadow an empty place
    IF p \in Programs THEN Program(p)
    ELSE IF p \in Devices THEN Device(p)
    ELSE IF OfProc(p) THEN ProcNode(p) ELSE Mounted(MountOf(p), p)
Classify(p) ==
    LET m == MountOf(p)
    IN  IF p \in Programs THEN Program(p)
        ELSE IF p \in Devices THEN Device(p)
        ELSE IF OfProc(p) THEN ProcNode(p)
        ELSE IF p # <<>> /\ IsOverlayDir(p) /\ Stat(tree[m], Below(m, p), TRUE).is # "dir"
             THEN KernelDir(p)
             ELSE Mounted(m, p)

(* The loop of Resolver::resolve.  It looks from left to right for a link  *)
(* to follow, the last name being followed on request; the link splices    *)
(* its target in, and the walk starts again from the root.                 *)
Links(parts, follow) == {i \in 1 .. Len(parts) :
                            /\ i < Len(parts) \/ follow
                            /\ LinkTarget(SubSeq(parts, 1, i)) # NoLink}
SplicedAtRoot(parts, i, target) ==     \* mutant: a relative target starts at the root
    Normalize(<<>>, target) \o SubSeq(parts, i + 1, Len(parts))
Spliced(parts, i, target) == Normalize(SubSeq(parts, 1, i - 1), target)
                                 \o SubSeq(parts, i + 1, Len(parts))
Hop(parts, follow) ==
    LET links == Links(parts, follow)
        first == Min(links)
    IN  IF links = {} THEN parts
        ELSE Spliced(parts, first, LinkTarget(SubSeq(parts, 1, first)))

(* Where the walk has come after MAX_HOPS links, or before if there are    *)
(* not as many.                                                            *)
Hopped(parts, follow) ==
    LET after[n \in 0 .. MaxHops] == IF n = 0 THEN parts ELSE Hop(after[n - 1], follow)
    IN  after[MaxHops]

(* A link of the kernel's that is the end of the path is given as a link.  *)
Resolve(base, path, follow) ==
    LET end == Hopped(Normalize(base, path), follow)
    IN  IF Links(end, follow) # {} THEN Nothing("LOOP")
        ELSE IF VirtualLink(end) # NoLink THEN KernelLink(VirtualLink(end))
        ELSE Classify(end)

(* The base a relative path starts from (syscall.rs resolve), and the      *)
(* whole of a path argument.                                               *)
Look(at, path, follow) ==
    IF at = Cwd \/ Absolute(path) THEN Resolve(cwd, path, follow)
    ELSE IF fds[at].is = "closed" THEN Nothing("BADF")
    ELSE IF fds[at].is # "dir" THEN Nothing("NOTDIR")
    ELSE Resolve(fds[at].path, path, follow)

-----------------------------------------------------------------------------
(* MemVfs.  Each operation answers with an errno and the tree it leaves.   *)

Answer(e, t) == [e |-> e, tree |-> t]
Done(t) == Answer("ok", t)

(* dir_mut. *)
DirProblem(t, p) == CASE NodeAt(t, p).is = "dir" -> "ok"
                      [] NodeAt(t, p).is = "missing" -> "NOENT"
                      [] OTHER -> "NOTDIR"

Subtree(t, p) == {q \in DOMAIN t : IsPrefix(p, q)}
Cut(t, p) == Restrict(t, DOMAIN t \ Subtree(t, p))
Put(t, p, n) == [q \in DOMAIN t \cup {p} |-> IF q = p THEN n ELSE t[q]]

VfsMakeAnywhere(t, p, n) ==    \* mutant: the directory above is not looked for
    IF NodeAt(t, p) # Missing THEN Answer("EXIST", t) ELSE Done(Put(t, p, n))
VfsMake(t, p, n) ==            \* mkdir and symlink
    IF NodeAt(t, p) # Missing THEN Answer("EXIST", t)
    ELSE IF DirProblem(t, Front(p)) # "ok" THEN Answer(DirProblem(t, Front(p)), t)
    ELSE Done(Put(t, p, n))

(* unlink and rmdir.  The root is no entry of any directory. *)
VfsRemove(t, p, isDir) ==
    LET n == IF p = <<>> THEN Missing ELSE NodeAt(t, p)
        above == IF p = <<>> THEN "ok" ELSE DirProblem(t, Front(p))
        problem == CASE above # "ok" -> above
                     [] above = "ok" /\ n = Missing -> "NOENT"
                     [] n = Dir /\ ~isDir -> "ISDIR"
                     [] n = Dir /\ isDir /\ Subtree(t, p) # {p} -> "NOTEMPTY"
                     [] n \notin {Missing, Dir} /\ isDir -> "NOTDIR"
                     [] OTHER -> "ok"
    IN  IF problem # "ok" THEN Answer(problem, t) ELSE Done(Cut(t, p))

Graft(t, p, from, branch) ==   \* branch, which was at from, put at p
    LET moved == {p \o Below(from, q) : q \in DOMAIN branch}
        rest == Cut(t, p)
    IN  [q \in moved \cup DOMAIN rest |->
            IF q \in moved THEN branch[from \o Below(p, q)] ELSE rest[q]]

(* rename takes the node out, puts it at its new place over whatever is    *)
(* there, or puts it back where it was.                                    *)
RenameForgets(t, from, to) ==  \* mutant: the node is not put back
    IF from = <<>> \/ to = <<>> THEN Answer("INVAL", t)
    ELSE IF NodeAt(t, from) = Missing THEN Answer("NOENT", t)
    ELSE LET rest == Cut(t, from)
             branch == Restrict(t, Subtree(t, from))
         IN  IF DirProblem(rest, Front(to)) = "ok" THEN Done(Graft(rest, to, from, branch))
             ELSE Answer(DirProblem(rest, Front(to)), rest)
RenameInsertsFirst(t, from, to) ==     \* mutant: the node is inserted, then removed
    IF from = <<>> \/ to = <<>> THEN Answer("INVAL", t)
    ELSE IF NodeAt(t, from) = Missing THEN Answer("NOENT", t)
    ELSE IF DirProblem(t, Front(to)) # "ok" THEN Answer(DirProblem(t, Front(to)), t)
    ELSE Done(Cut(Graft(t, to, from, Restrict(t, Subtree(t, from))), from))
VfsRename(t, from, to) ==
    IF from = <<>> \/ to = <<>> THEN Answer("INVAL", t)
    ELSE IF DirProblem(t, Front(from)) # "ok" THEN Answer(DirProblem(t, Front(from)), t)
    ELSE IF NodeAt(t, from) = Missing THEN Answer("NOENT", t)
    ELSE LET rest == Cut(t, from)
             branch == Restrict(t, Subtree(t, from))
         IN  IF DirProblem(rest, Front(to)) = "ok" THEN Done(Graft(rest, to, from, branch))
             ELSE Answer(DirProblem(rest, Front(to)), Graft(rest, from, from, branch))

(* open, of what is not a directory: what refuses it. *)
VfsOpen(t, p, flags) ==
    LET n == NodeAt(t, p)
    IN  CASE n.is = "dir" -> "ISDIR"
          [] n.is = "link" -> "LOOP"
          [] n.is = "file" -> IF {"creat", "excl"} \subseteq flags THEN "EXIST" ELSE "ok"
          [] n.is = "missing" -> IF "creat" \notin flags THEN "NOENT" ELSE DirProblem(t, Front(p))

FilesOf(t) == {t[p].id : p \in {q \in DOMAIN t : t[q].is = "file"}}
Named(trees) == UNION {FilesOf(trees[m]) : m \in MountPoints}
Opened == {fds[f].id : f \in {g \in Fd : fds[g].is = "file"}}
FreeIds == FileIds \ (Named(tree) \cup Opened)

-----------------------------------------------------------------------------
(* Calls.  One that is refused leaves everything as it was.  (What a path  *)
(* resolves to is bound by \E n \in {Look(...)}: there is one such n, and  *)
(* TLC works it out once.)                                                 *)

Init ==
    /\ tree = InitialTree
    /\ len = [id \in FileIds |-> IF id \in Named(InitialTree) THEN 1 ELSE 0]
    /\ fds = [f \in Fd |-> Closed]
    /\ cwd = <<>>
    /\ exe \in Programs
    /\ last = "ok"

Same == UNCHANGED <<tree, len, fds, cwd, exe>>
Refuse(e) == last' = e /\ Same
Answered(call) == last' = call

(* A call that hands what it resolved to the mount it is on. *)
Changes(call, m, answer) ==
    /\ Cardinality(DOMAIN answer.tree) <= MaxNodes
    /\ tree' = [tree EXCEPT ![m] = answer.tree]
    /\ last' = IF answer.e = "ok" THEN call ELSE answer.e
    /\ UNCHANGED <<len, fds, cwd, exe>>

(* What a path is relative to: nothing, when it is absolute. *)
Bases(p) == IF Absolute(p) THEN {Cwd} ELSE {Cwd} \cup Fd

(* mkdirat follows a link in the last place.  What does not resolve, and   *)
(* what does not resolve to a mount, is refused.                           *)
NotMounted(node, e) == IF node.is = "error"
                       THEN IF node.e = "NOENT" THEN "ROFS" ELSE node.e
                       ELSE e
Mkdirat(at, path) ==
    \E n \in {Look(at, path, TRUE)} :
        IF n.is # "mounted" THEN Refuse(NotMounted(n, "EXIST"))
        ELSE IF n.mount \in ReadOnly THEN Refuse("ROFS")
        ELSE Changes("mkdirat", n.mount, VfsMake(tree[n.mount], n.rel, Dir))

Symlinkat(at, path) ==
    \E n \in {Look(at, path, FALSE)} :
        IF n.is # "mounted" THEN Refuse(NotMounted(n, "EXIST"))
        ELSE IF n.mount \in ReadOnly THEN Refuse("ROFS")
        ELSE \E target \in Targets :
                Changes("symlinkat", n.mount, VfsMake(tree[n.mount], n.rel, Link(target)))

Unlinkat(at, path) ==
    \E n \in {Look(at, path, FALSE)} :
        IF n.is # "mounted" THEN Refuse(IF n.is = "error" THEN n.e ELSE "ROFS")
        ELSE IF n.mount \in ReadOnly THEN Refuse("ROFS")
        ELSE \E isDir \in BOOLEAN :
                Changes("unlinkat", n.mount, VfsRemove(tree[n.mount], n.rel, isDir))

Renameat(at, path) ==
    \E from \in {Look(at, path, FALSE)} :
        IF from.is = "error" THEN Refuse(from.e)
        ELSE \E path2 \in Paths : \E at2 \in Bases(path2) :
                \E to \in {Look(at2, path2, FALSE)} :
                    IF to.is = "error" THEN Refuse(to.e)
                    ELSE IF "mounted" \notin {from.is} \cap {to.is} THEN Refuse("ROFS")
                    ELSE IF from.mount # to.mount THEN Refuse("XDEV")
                    ELSE IF from.mount \in ReadOnly THEN Refuse("ROFS")
                    ELSE Changes("renameat", from.mount,
                                 VfsRename(tree[from.mount], from.rel, to.rel))

(* openat (sys_openat): what refuses what was resolved, in the order the   *)
(* code asks.                                                              *)
WantsWrite(flags) == flags \cap {"write", "creat", "trunc"} # {}
OpenProblem(n, flags) ==
    CASE n.is = "error" -> n.e
      [] n.is \in {"program", "synth"} -> IF WantsWrite(flags) THEN "ROFS" ELSE "ok"
      [] n.is = "device" -> "ok"
      [] n.is = "kernel dir" -> IF WantsWrite(flags) THEN "ISDIR" ELSE "ok"
      [] n.is = "kernel link" -> "LOOP"
      [] n.is = "mounted" ->
            LET t == tree[n.mount]
                found == Stat(t, n.rel, TRUE).is
            IN  IF WantsWrite(flags) /\ n.mount \in ReadOnly THEN "ROFS"
                ELSE IF "directory" \in flags /\ found \notin {"dir", "missing"} THEN "NOTDIR"
                ELSE IF found = "dir" /\ WantsWrite(flags) THEN "ISDIR"
                ELSE IF found = "dir"
                THEN IF NodeAt(t, n.rel) # Dir THEN "NOTDIR" ELSE "ok"
                ELSE VfsOpen(t, n.rel, flags)

(* MemFile: what an open file may do, and where it is. *)
Handle(id, mount, at, flags) ==
    [is |-> "file", id |-> id, mount |-> mount, pos |-> at, read |-> "write" \notin flags,
     write |-> "write" \in flags, append |-> "append" \in flags]

(* The description goes into the lowest free descriptor.  When there is    *)
(* none the call is refused, after the mount has done its part.            *)
Install(description) ==
    LET free == {f \in Fd : fds[f] = Closed}
    IN  IF free = {} THEN last' = "MFILE" /\ UNCHANGED fds
        ELSE Answered("openat") /\ fds' = [fds EXCEPT ![Min(free)] = description]

Openat(at, path, flags) ==
    \E n \in {Look(at, path, "nofollow" \notin flags)} :
    LET problem == OpenProblem(n, flags)
        node == NodeAt(tree[n.mount], n.rel)
    IN  IF problem # "ok" THEN Refuse(problem)
        ELSE IF n.is # "mounted"
        THEN /\ Install(IF n.is = "kernel dir" THEN [is |-> "dir", path |-> n.guest]
                        ELSE [is |-> "other"])
             /\ UNCHANGED <<tree, len, cwd, exe>>
        ELSE IF node.is = "dir"
        THEN /\ Install([is |-> "dir", path |-> n.guest])
             /\ UNCHANGED <<tree, len, cwd, exe>>
        ELSE IF node.is = "file"
        THEN /\ len' = IF {"trunc", "write"} \subseteq flags THEN [len EXCEPT ![node.id] = 0]
                       ELSE len
             /\ Install(Handle(node.id, n.mount,
                               IF "append" \in flags THEN len'[node.id] ELSE 0, flags))
             /\ UNCHANGED <<tree, cwd, exe>>
        ELSE /\ FreeIds # {} /\ Cardinality(DOMAIN tree[n.mount]) < MaxNodes
             /\ tree' = [tree EXCEPT ![n.mount] = Put(@, n.rel, File(Min(FreeIds)))]
             /\ len' = [len EXCEPT ![Min(FreeIds)] = 0]
             /\ Install(Handle(Min(FreeIds), n.mount, 0, flags))
             /\ UNCHANGED <<cwd, exe>>

Close(f) ==
    /\ fds[f] # Closed
    /\ fds' = [fds EXCEPT ![f] = Closed]
    /\ Answered("close")
    /\ UNCHANGED <<tree, len, cwd, exe>>

(* read, write and lseek of a file (MemFile), a byte at a time. *)
Read(f) ==
    IF fds[f].is = "closed" THEN Refuse("BADF")
    ELSE IF fds[f].is = "dir" THEN Refuse("ISDIR")
    ELSE IF fds[f].is = "other" THEN Refuse("ok")
    ELSE IF ~fds[f].read THEN Refuse("BADF")
    ELSE /\ fds' = [fds EXCEPT ![f].pos = IF @ < len[fds[f].id] THEN @ + 1 ELSE @]
         /\ Answered("read")
         /\ UNCHANGED <<tree, len, cwd, exe>>

Write(f) ==
    LET h == fds[f]
        start == IF h.append THEN len[h.id] ELSE h.pos
    IN  IF h.is # "file" THEN Refuse("BADF")
        ELSE IF ~h.write THEN Refuse("BADF")
        ELSE IF h.mount \in ReadOnly THEN Refuse("ROFS")
        ELSE /\ start < MaxLen
             /\ len' = [len EXCEPT ![h.id] = Max({@, start + 1})]
             /\ fds' = [fds EXCEPT ![f].pos = start + 1]
             /\ Answered("write")
             /\ UNCHANGED <<tree, cwd, exe>>

Lseek(f, whence, offset) ==
    LET h == fds[f]
        to == CASE whence = "set" -> Max({offset, 0})
                [] whence = "cur" -> h.pos + offset
                [] whence = "end" -> len[h.id] + offset
    IN  IF h.is = "closed" THEN Refuse("BADF")
        ELSE IF h.is # "file" THEN Refuse("ok")
        ELSE IF to < 0 THEN Refuse("INVAL")
        ELSE /\ to <= MaxLen
             /\ fds' = [fds EXCEPT ![f].pos = to]
             /\ Answered("lseek")
             /\ UNCHANGED <<tree, len, cwd, exe>>

(* ftruncate asks the mount and the handle, truncate opens the file. *)
FtruncateAnywhere(f, n) ==     \* mutant: the mount is not asked
    LET h == fds[f]
    IN  IF h.is # "file" THEN Refuse("INVAL")
        ELSE IF ~h.write /\ ~h.append THEN Refuse("BADF")
        ELSE len' = [len EXCEPT ![h.id] = n] /\ Answered("ftruncate")
             /\ UNCHANGED <<tree, fds, cwd, exe>>
Ftruncate(f, n) ==
    LET h == fds[f]
    IN  IF h.is = "closed" THEN Refuse("BADF")
        ELSE IF h.is # "file" THEN Refuse("INVAL")
        ELSE IF h.mount \in ReadOnly THEN Refuse("ROFS")
        ELSE IF ~h.write /\ ~h.append THEN Refuse("BADF")
        ELSE len' = [len EXCEPT ![h.id] = n] /\ Answered("ftruncate")
             /\ UNCHANGED <<tree, fds, cwd, exe>>

Truncate(path) ==
    \E found \in {Look(Cwd, path, TRUE)} :
    LET problem == VfsOpen(tree[found.mount], found.rel, {"write"})
    IN  IF found.is = "error" THEN Refuse(found.e)
        ELSE IF found.is # "mounted" THEN Refuse("ROFS")
        ELSE IF found.mount \in ReadOnly THEN Refuse("ROFS")
        ELSE IF problem # "ok" THEN Refuse(problem)
        ELSE /\ \E n \in 0 .. MaxLen :
                    len' = [len EXCEPT ![tree[found.mount][found.rel].id] = n]
             /\ Answered("truncate")
             /\ UNCHANGED <<tree, fds, cwd, exe>>

WorksIn(p) ==
    p \in Homes /\ cwd' = p /\ Answered("chdir") /\ UNCHANGED <<tree, len, fds, exe>>
Chdir(path) ==
    \E n \in {Look(Cwd, path, TRUE)} :
    LET found == Stat(tree[n.mount], n.rel, TRUE)
    IN  IF n.is = "error" THEN Refuse(n.e)
        ELSE IF n.is \notin {"kernel dir", "mounted"} THEN Refuse("NOTDIR")
        ELSE IF n.is = "mounted" /\ found = Missing THEN Refuse("NOENT")
        ELSE IF n.is = "mounted" /\ found # Dir THEN Refuse("NOTDIR")
        ELSE WorksIn(n.guest)

Fchdir(f) ==
    IF fds[f] = Closed THEN Refuse("BADF")
    ELSE IF fds[f].is # "dir" THEN Refuse("NOTDIR")
    ELSE WorksIn(fds[f].path)

(* execve, as far as the name goes: a program, or a script whose           *)
(* interpreter is one.                                                     *)
ExecProblem(n) ==
    LET found == Stat(tree[n.mount], n.rel, TRUE)
        open == VfsOpen(tree[n.mount], n.rel, {})
    IN  CASE n.is = "error" -> n.e
          [] n.is \notin {"error", "program", "mounted"} -> "ACCES"
          [] n.is = "mounted" /\ found = Dir -> "ACCES"
          [] n.is = "mounted" /\ found # Dir /\ open # "ok" -> open
          [] n.is = "mounted" /\ found # Dir /\ open = "ok" ->
                IF found.id \notin Scripts THEN "NOEXEC" ELSE "script"
          [] OTHER -> "ok"
Execve(path, interpreter) ==
    \E n \in {Look(Cwd, path, TRUE)}, by \in {Look(Cwd, interpreter, TRUE)} :
    LET problem == ExecProblem(n)
        runs == IF problem = "script" THEN by ELSE n
    IN  \/ problem \notin {"ok", "script"} /\ Refuse(problem)
        \/ problem = "script" /\ by.is # "program"
           /\ Refuse(IF by.is = "error" THEN by.e ELSE "NOEXEC")
        \/ problem \in {"ok", "script"} /\ runs.is = "program"
           /\ exe' = runs.guest /\ Answered("execve") /\ UNCHANGED <<tree, len, fds, cwd>>

(* The calls that only look: what each asks of what it resolved. *)
StatProblem(n, follow) ==      \* statx, faccessat, and utimensat, which follows
    IF n.is = "error" THEN n.e
    ELSE IF n.is = "mounted" /\ Stat(tree[n.mount], n.rel, follow) = Missing THEN "NOENT"
    ELSE "ok"
ReadlinkProblem(n) ==
    CASE n.is = "error" -> n.e
      [] n.is = "mounted" -> LET node == NodeAt(tree[n.mount], n.rel)
                             IN  IF node = Missing THEN "NOENT"
                                 ELSE IF node.is = "link" THEN "ok" ELSE "INVAL"
      [] n.is = "kernel link" -> "ok"
      [] OTHER -> "INVAL"
ChmodProblem(n) ==
    IF n.is = "error" THEN n.e
    ELSE IF n.is = "mounted" /\ n.mount \in ReadOnly THEN "ROFS" ELSE "ok"
Looks(at, path) ==
    \E end \in {Look(at, path, TRUE)}, node \in {Look(at, path, FALSE)} :
        \/ Refuse(StatProblem(end, TRUE)) \/ Refuse(ChmodProblem(end))
        \/ (\E follow \in BOOLEAN : Refuse(StatProblem(node, follow)))
        \/ Refuse(ReadlinkProblem(node))

Next ==
    \/ \E p \in Paths : \E at \in Bases(p) :
          \/ Mkdirat(at, p) \/ Symlinkat(at, p) \/ Unlinkat(at, p) \/ Renameat(at, p)
          \/ Looks(at, p)
          \/ \E flags \in OpenFlags : Openat(at, p, flags)
    \/ \E p \in Paths :
          \/ Chdir(p) \/ Truncate(p)
          \/ \E i \in Interpreters : Execve(p, i)
    \/ \E f \in Fd :
          \/ Close(f) \/ Read(f) \/ Write(f) \/ Fchdir(f)
          \/ \E n \in 0 .. MaxLen : Ftruncate(f, n)
          \/ \E whence \in {"set", "cur", "end"}, offset \in {-1, 0, 1} : Lseek(f, whence, offset)

Spec == Init /\ [][Next]_vars

-----------------------------------------------------------------------------
(* Every tree is a tree: what has a name is in a directory.  Descriptors   *)
(* hold files, directories or what the kernel generates.                   *)
TypeOK ==
    /\ \A m \in MountPoints : /\ WellFormed(tree[m])
                              /\ \A p \in DOMAIN tree[m] : tree[m][p] \in Nodes
    /\ len \in [FileIds -> 0 .. MaxLen]
    /\ \A f \in Fd : fds[f] = Closed \/ fds[f].is \in {"dir", "other"}
                     \/ (fds[f].is = "file" /\ fds[f].id \in FileIds /\ fds[f].pos \in 0 .. MaxLen)
    /\ exe \in Programs

(* path.rs:9-10, DESIGN.md "The kernel owns the virtual namespace": every  *)
(* program can be run by its path, and the running one by /proc/self/exe,  *)
(* whatever has been made, linked, renamed and removed around them.  No    *)
(* call refuses to touch a directory of the kernel's by name; that it      *)
(* never resolves to a mount as long as the mount has nothing there is all *)
(* that keeps a link from taking its place.                                *)
(*                                                                         *)
(* It is so when programs go by names that a path keeps, outside the       *)
(* directories the kernel makes up links in (OrdinaryPrograms), and no     *)
(* mount has anything of its own where a directory of the kernel's is      *)
(* (NothingInTheWay).                                                      *)
OrdinaryPrograms ==
    \A p \in Programs : \A i \in 1 .. Len(p) :
        p[i] \notin {"/", ".", ".."} /\ (i = 1 => p[i] \notin {"proc", "dev"})
NothingInTheWay(trees) ==
    \A d \in OverlayDirs : LET m == MountOf(d)
                            IN  Below(m, d) # <<>> => Below(m, d) \notin DOMAIN trees[m]
ProgramsStay ==
    /\ \A p \in Programs : Resolve(cwd, <<"/">> \o p, TRUE) = Program(p)
    /\ Resolve(cwd, <<"/", "proc", "self", "exe">>, TRUE) = Program(exe)

(* The textbook walk: name by name, going on from a link's own directory   *)
(* instead of starting again, and never folding a path as a whole.  It has *)
(* come to a place, with names left to go and so many links behind it.     *)
Place(at, todo, hops) == [at |-> at, todo |-> todo, hops |-> hops]
Followed(s, follow) ==
    IF Head(s.todo) \notin {"/", ".", ".."} /\ (Len(s.todo) > 1 \/ follow)
    THEN LinkTarget(Append(s.at, Head(s.todo))) ELSE NoLink
Arrived(s, follow) == s.todo = <<>> \/ (s.hops = MaxHops /\ Followed(s, follow) # NoLink)
Found(s) == IF s.todo # <<>> THEN Nothing("LOOP")
            ELSE IF VirtualLink(s.at) # NoLink THEN KernelLink(VirtualLink(s.at))
            ELSE Classify(s.at)
Onward(s, follow) ==
    LET c == Head(s.todo)
        rest == Tail(s.todo)
        target == Followed(s, follow)
    IN  IF target # NoLink THEN Place(s.at, target \o rest, s.hops + 1)
        ELSE Place(IF c = "/" THEN <<>> ELSE Under(s.at, c), rest, s.hops)
Walk(path, follow) ==
    LET walk[s \in [at : Path, todo : Path, hops : 0 .. MaxHops]] ==
            IF Arrived(s, follow) THEN Found(s) ELSE walk[Onward(s, follow)]
    IN  walk[Place(<<>>, path, 0)]

(* The two agree as long as "." and ".." are only where a link's target    *)
(* begins: after a name, the resolver folds the ".." with the name it      *)
(* follows, and the walk goes up from where that name has led.  (Programs  *)
(* and directories a process works in go by the names a path keeps.)       *)
OrderlyTargets ==
    /\ \A p \in Programs \cup Homes : \A i \in 1 .. Len(p) : p[i] \notin {"/", ".", ".."}
    /\ \A t \in Targets : t # <<>> /\ \A j \in 1 .. Len(t) :
          /\ t[j] = "/" => j = 1
          /\ t[j] \in {".", ".."} => \A i \in 1 .. j : t[i] \in {"/", ".", ".."}

(* The resolver, which splices and starts again, finds what the walk       *)
(* finds, and a path resolved to its end is never a link.                  *)
ResolutionIsAWalk ==
    \A p \in Probes, follow \in BOOLEAN :
        LET n == Resolve(cwd, p, follow)
        IN  /\ n = Walk(Normalize(cwd, p), follow)
            /\ follow => /\ n.is # "kernel link"
                         /\ n.is = "mounted" => NodeAt(tree[n.mount], n.rel).is # "link"

(* The listing of a directory (readdir, virtual_entries): what is on the   *)
(* mount, and what the kernel adds.                                        *)
EntriesIn(p) ==                \* mutant of KernelNames: the mount points are left out
    {q[Len(q)] : q \in {r \in (Programs \cup OverlayDirs \cup Devices) \ {<<>>} : Front(r) = p}}
KernelNames(p) ==
    EntriesIn(p) \cup MountsIn(p) \cup (IF p = <<"dev">> THEN {"stdin", "stdout", "stderr"} ELSE {})
Listing(n) ==
    KernelNames(n.guest) \cup
        (IF n.is # "mounted" THEN {}
         ELSE {q[Len(q)] : q \in {r \in DOMAIN tree[n.mount] \ {<<>>} : Front(r) = n.rel}})

(* What a listing shows can be looked up, and what can be looked up is     *)
(* shown: the names of the mount, the programs, the mount points below and *)
(* nothing that one of them hides.  /proc, whose listing leaves names out, *)
(* is not asked.                                                           *)
Names == (UNION {{p[i] : i \in 1 .. Len(p)} : p \in Probes})
             \cup {p[1] : p \in MountPoints \ {<<>>}} \cup {p[1] : p \in OverlayDirs \ {<<>>}}
Exists(n) == n.is # "error" /\ (n.is = "mounted" => NodeAt(tree[n.mount], n.rel) # Missing)
IsDirectory(n) == n.is = "kernel dir" \/ (n.is = "mounted" /\ NodeAt(tree[n.mount], n.rel) = Dir)
ListingAgreesWithLookup ==
    \A p \in Probes : LET d == Resolve(cwd, p, TRUE)
                     IN  IsDirectory(d) /\ ~IsPrefix(<<"proc">>, d.guest) =>
                         \A c \in Names \ {"/", ".", ".."} :
                             c \in Listing(d) <=> Exists(Resolve(d.guest, <<c>>, FALSE))

(* A read-only mount stays as it was, whichever call is made, on whatever  *)
(* path or descriptor it is reached.                                       *)
ReadOnlyStays ==
    [][\A m \in ReadOnly : /\ tree'[m] = tree[m]
                           /\ \A p \in DOMAIN tree[m] : tree[m][p].is = "file" =>
                                  len'[tree[m][p].id] = len[tree[m][p].id]]_vars

(* A call that is refused has changed nothing.  Only openat can be refused *)
(* too late, for want of a descriptor: it has created the file, or emptied *)
(* it, and nothing else.                                                   *)
Succeeded == {"ok", "openat", "close", "read", "write", "lseek", "mkdirat", "symlinkat",
              "unlinkat", "renameat", "ftruncate", "truncate", "chdir", "execve"}
RefusedCallsChangeNothing ==
    [][last' \notin Succeeded =>
          /\ UNCHANGED <<fds, cwd, exe>>
          /\ last' # "MFILE" => UNCHANGED <<tree, len>>
          /\ \A m \in MountPoints : Restrict(tree'[m], DOMAIN tree[m]) = tree[m]
          /\ \A id \in FileIds : len'[id] \in {0, len[id]}]_vars

(* A file loses its name to an unlink of that name, or to a rename that    *)
(* puts something else where it, or a directory above it, was.  ("Put it   *)
(* back rather than lose it", mem.rs:348.)                                 *)
FilesKeepTheirNames ==
    [][\A id \in Named(tree) \ Named(tree') :
          \/ last' = "unlinkat" /\ Named(tree) \ Named(tree') = {id}
          \/ /\ last' = "renameat"
             /\ \E m \in MountPoints :
                    \E p \in DOMAIN tree[m], from \in DOMAIN tree[m], to \in DOMAIN tree'[m] :
                        /\ tree[m][p] = File(id) /\ IsPrefix(to, p)
                        /\ from # to /\ tree'[m][to] = tree[m][from]
                        /\ from \in DOMAIN tree'[m] => IsPrefix(to, from)]_vars
=============================================================================
