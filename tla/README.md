# A TLA+ development of wasmux

wasmux runs POSIX programs compiled to WebAssembly in one host thread: a small kernel written in
Rust (`src/crates/wasmux`) gives them processes, descriptors, pipes, signals and a file system, and
the embedding program drives the whole sandbox with `Session::step`. Nothing in it runs in
parallel. What is hard is that everything interleaves anyway: a guest runs until a system call
cannot be answered, its stack is unwound out of the way, the call is kept and tried again later,
and who goes next is the order of a vector. Reference counts, parents, masks, deadlines, memory and
"who is waiting for whom" are bookkeeping done by hand on every path, the failing ones included.
This development models that bookkeeping, checks it with TLC and proves part of it with TLAPS.

Paths below are relative to `src/crates/wasmux/src` unless they start with `src/`.

## 1. Inventory

| component | state | operations | interacts with | hard behaviour |
|---|---|---|---|---|
| Slab (`slab.rs`) | slots, free list | insert, get, remove, len | holds descriptions and pipes for the kernel | keys are reused |
| Descriptors (`kernel/fd.rs`, calls in `kernel/syscall.rs`) | a table per task, descriptions with a reference count, pipes with end counts | openat, dup, dup3, fcntl, close, pipe2, vfork, execve, exit | `release_desc` removes descriptions, then pipe ends, then pipes | calls refused half way; counts over every path |
| Process table (`kernel/mod.rs`, `kernel/task.rs`) | records, next pid, instances with their vfork stack, spawn queue, exit status of the session | clone, execve, exit, wait4, set_exit, finish_process, kill_all | the scheduler starts children, replaces and ends instances | parent and child end in either order; two tasks in one instance; execve that fails after the point of no return |
| Memory accounting (`charge_memory`, brk, mmap) | bytes used by the session; per instance what it started with and what it grew | charge, grow, release | start, replace, end | a vfork child grows its parent's instance; a retried call that charges twice |
| Scheduler (`Kernel::run`, `step_process`, `step_host`, `why_idle`) | the list of instances with resume, parked and phase; `vfs_pending`, `host_pending`, `stdin.wanted`, `wake_at` | one turn of an instance; the top of the loop; the report of an idle pass | calls `dispatch` for new and for kept calls; reports to the session | nobody is ever woken: lost wake-ups, false deadlocks, stale flags |
| Session (`lib.rs`) | kernel, finished status | step, write_stdin, close_stdin, take output | the embedder's event loop | what each report obliges the caller to do |
| Pipe input and output (`read_bytes`, `write_bytes`, readv, writev) | bytes in pipes | read, write | descriptors, scheduler | short writes, end of file, EPIPE, several parts per call |
| Signals (`kernel/task.rs`, `kernel/syscall.rs`, `src/toolchain/musl/src/signal`) | pending and blocked sets, dispositions, groups, the mask put aside, the flag in guest memory | kill, sigaction, sigprocmask, sigsuspend, setpgid, sigfetch, SIGCHLD | interrupts every blocked call; set_exit raises SIGCHLD | a signal between the check and the wait; the wrong task's flag; masks put back in the wrong order |
| Suspend and resume (`kernel/mod.rs` imports, `after_return`, `src/toolchain/musl/src/process`) | asyncify area, rewinding, resume value and stack pointer, jmp_buf snapshots, vfork's depth | unwind, rewind, setjmp, longjmp, vfork, blocked retry, execve, exit | every blocking call | the result must reach the frame that asked |
| Host commands (`host.rs`, `step_host`) | phase, input so far, output so far | run, retry | embedder's code | identical retries, output in parts |
| Path resolution (`kernel/path.rs`) | mounts, program overlay | normalize, find, resolve, list | every call with a path | links in the middle, loops, `..` after a link, what hides what |
| File calls (`kernel/syscall.rs`) | working directory, open files and offsets | openat, close, read, write, lseek, truncate, mkdir, symlink, unlink, rename, chdir, execve by name | path resolution, `Vfs` implementations | read-only mounts reached by detours, late refusals |
| MemVfs (`vfs/mem.rs`) | a tree, open files | the `Vfs` trait | file calls | rename over and into itself, unlink while open |
| HostVfs, terminal, guest memory accessors, backends, tables, corpus, command line, build scripts | little or none of their own | - | - | adapters, codecs, constants and scripts |

What makes each correct, in a sentence: a key has one owner; a description lives exactly as long as
its descriptors and a pipe end as long as its description; a record is alive exactly while its task
is somewhere, and a status reaches the parent once; what is charged is what live instances hold; an
idle report is given only when nobody can run, and says truthfully what is awaited; whoever waits
for something that has happened goes on; a signal that may be delivered is noticed at the next way
out of the kernel, and a mask is what the program asked for; every result reaches the frames that
asked for it, on the stack they had; a path means what a walk of the tree means, and a refused call
leaves nothing behind.

`PROJECT.json` lists every component with its status and, under "hazards", the places in the code
where these can go wrong.

## 2. Modules

| module | models | abstraction |
|---|---|---|
| `KeyedStore` | what a slab promises: insert takes any free key, or is refused when there is none | which free key is left open |
| `Slab` | `slab.rs` itself; `ImplementsStore` is the refinement | - |
| `Descriptors` | `kernel/fd.rs` and every call that changes who refers to what, with each of their failures | slabs are keyed stores; file contents, offsets and status flags are left out; any live task may call at any time |
| `Processes` | the process table, vfork stacks, the spawn queue and wait4 | any instance may step at any time; groups and signals are left out |
| `Memory` | `Processes` with the memory of each instance and of the session: start, replace, end, brk, mmap and its retry | addresses are left out; sizes are small numbers and a page is two |
| `Scheduler` | `Kernel::run` and the caller of `Session::step` | one pipe with counted bytes, one deadline per record, standard input of at most one byte between writes; a program is any sequence of calls |
| `Signals` | `Processes` with pending sets, masks, actions, groups, sigsuspend, kill, SIGCHLD, the flag and musl's fetch loop | any instance may step at any time; three signals; wait4 stands for every call that waits |
| `Calls` | what a program is promised of calls, setjmp, longjmp and vfork: an abstract machine with real stacks | which task answers what is left open |
| `Guest` | one instance: the import shims, ExecState, `after_return`, the retry, and vfork as the C library builds it; `ImplementsCalls` is the refinement | a frame is the last result it saw; Asyncify is modelled from its use |
| `Files` | `kernel/path.rs`, `vfs/mem.rs` and the file calls between them | one process; contents are lengths; names come from the instance |

`Scheduler`, `Signals` and `Memory` each compose with `Processes`: every step that touches the
process table takes the action of `Processes` and adds its own effect. That they take no other is
proved for each of the three, so what is proved of `Processes` holds of them too. `Descriptors` stands
at the level of `KeyedStore`; that `Slab` implements it is checked and proved.

How the code appears in them:

- *Descriptors*. `fds[<<task, fd>>]` is `FdTable`, `descs[k].refs` and `pipes[q].readers/writers` are
  the counts. `Acquire` is the saturating increment, `Release` is `release_desc` for a set of
  entries, down to `collect_pipe`. `Pipe2` has one disjunct for each place it can stop, because only
  the last failure undoes anything. `Duplicate` stands for dup, `F_DUPFD` and `/dev/fd/N`, which all
  take the reference first.
- *Processes*. `stack[b]` is `vfork_stack` with `ctx.task` on top, named by the pid at its bottom.
  `SetExit` is `set_exit`: record the status, hand the children to process 1, and drop the record if
  its parent is dead. `TearDown` is the loop of `finish_process`.
- *Memory*. `memory[b]` has the instance's true size beside `Proc::charged` and `ExecState::grown`,
  which the kernel keeps; the invariant compares them. `mapping[b]` is an mmap that waits for its file.
- *Scheduler*. `run` is the program counter of `Kernel::run` and its locals (`index`, `progressed`,
  `waited`). A guest's turn is `EnterGuest` or `RetryAnswered`, any number of calls that are answered
  at once, and one action that ends it. `GuestBlocks` keeps the call (`Resume::Blocked`);
  `RetryBlocked` is the retry outside the guest and counts as no progress. `Polls` are ppoll and
  pselect6 on standard input, with and without a time limit: only ppoll without one sets
  `stdin.wanted`. `WhyIdle` is `why_idle`, its order of tests included. `Park` compares the flags
  before and after a turn, as the code does. `asked` is a history variable: who has been told AGAIN
  since the caller last had control.
- *Signals*. `Finish` is `finish` followed by `raise_signal_flag`: the mask put aside goes back, then the
  flag is computed for the task that is current by then, which after the end of a vfork child is the
  parent. The flag is not a variable: the guest looks at it only as the call returns, so a set flag
  is `where[b] = Leaving`, the fetch loop. `Suspends` is rt_sigsuspend called or retried. `frames` is
  what lies on the guest's stack above its program, so that a vfork child's end takes the handlers
  above vfork with it. `own` and `late` are history variables: the mask the program asked for, and
  who was signalled since it last left the kernel.
- *Guest*. `where` is who has control: the guest, `after_return`, the scheduler, or nobody any more.
  `Unwind` moves the frames into the area, `FinishRewind` puts them back and gives the last one its
  result. `sp` is the global that Asyncify does not save. `then` is what the C library around an import
  does with the result, which is how vfork's setjmp, clone, exit and longjmp fit together.
- *Files*. A path is a sequence of names, a tree a function from paths to nodes for each mount.
  `Hop` is one round of the loop of `Resolver::resolve`: the first of `Links` is spliced in and the walk
  starts again; `Hopped` is the loop and `Resolve` what follows it. `Classify` is `classify_final` in its
  order, `Vfs...` are the operations of `MemVfs`, answering an errno and the tree they leave, and the
  calls are actions named after the system calls. `last` is what the last call answered.

## 3. Runs

| run | instance | shows |
|---|---|---|
| `slab` | cap 4, key limit 6, keys asked for up to 5 | free list = empty slots; implements the keyed store |
| `descriptors` | 2 tasks, 3 descriptors each, 4 descriptions, 1 pipe, close-on-exec on what is opened | counts cover descriptors, pipes count their ends, no false end of file, only refusals lose references |
| `memory` | 4 pids, 3 alive at once, 2 exit codes; pages of 2 bytes, limits of 11 for the session and 7 for a process, two images, two lengths | records match tasks, parents of vfork, zombies have parents, statuses are kept and final, memory is accounted |
| `scheduler_waits` | 2 processes (guests and a filter command), every kind of wait, time up to 1 | deadlock and AGAIN reports are true and in the right order; sleepers have deadlines |
| `scheduler_hosts` | 3 processes, guests, filters and sources, failing starts and execs, wall clock | every step is a step of `Processes` |
| `scheduler_live` | 2 processes, a pipe of 2 bytes, with fairness | nothing can run when a step reports idle; waits are answered, sleepers wake, children start, end of file arrives |
| `signals` | 2 pids; SIGKILL and SIGCHLD; default and handler; 2 masks; groups 1 and 2; handlers and vforks 2 deep; guests and host commands; with fairness | masks, missed signals, interrupted calls, ends of waits, deaths |
| `files` | writable root with a directory and a file, read-only mount with a script, one program; 7 paths to call with, 16 to look up, 2 link targets, 4 sets of flags, 1 descriptor, 2 files, files of at most 1 byte, trees of at most 4 nodes, 2 link hops | resolution, listings, programs, read-only mounts, refused calls, rename |
| `guest` | stacks of 2 frames, 1 jmp_buf of the program and 2 of vfork, 2 children, 1 value | stack pointer and the refinement of `Calls` |
| `scheduler_deadlock`, `signals_suspend`, `memory_retry` | small | the divergences of section 6 |

Why the bounds are enough. *Descriptors*: three descriptors hold the standard streams, so every
allocation limit is reached at once and closing one is enough to reach the others; four descriptions
make pipe2 fail after none, one and both of its insertions; two tasks suffice for sharing, since all
that matters of a third is another count. A behaviour is cut off when it has lost its first
reference (`MaxLost`), because a refusal can be repeated for ever; the theorems have no such bound.
*Memory*: four pids give a stack of vforks, an orphan with children, and a pid after each kind of
end. One length is not a multiple of the page and one is more than a process may have; two
instances fit with a little growth, three do not, so every charge is also refused. *Scheduler*: three
instances have one before, one at and one after the index; every mutual wait in this kernel is between
two. A pipe of one or two bytes is full, partly full and empty. Two bytes of output overflow a pipe
of one. Time has one deadline to come and one passed. TLC explores every order of the list because
starts, replacements and ends happen in every order. *Signals*: parent and child, in one instance or
two, are all that masks, the flag and SIGCHLD ever relate; one signal that cannot be blocked and one
that is ignored by default until a handler is installed meet every branch of `triage` but the ordinary fatal signal,
which differs from SIGKILL only in being maskable. One handler above one vfork, and one vfork above
one handler, need two frames. Program waits are wait4 for any child and for the caller's group, which
a moved child leaves. *Files*: a link in the first and in a later place, absolute and relative; a
chain of two and a loop; a rename onto, over and below itself; a second file whose name is taken by
the first; a file that is open, unlinked and made again. One descriptor is a file, a directory or the
one that is missing. `VIEW` leaves out `last`, which only the properties of a step look at, and TLC
checks those on every step. *Guest*: with two frames a jump leaves one behind; two vforks are nested,
and the end of the inner one must find its own jmp_buf; one value besides 0, the children and the
refusal tells a result from a stale one.

Deadlock checking is off where the system may stop: a session that is over, a caller that never
steps again, an instance that is gone, or a pid or time bound that is used up.

The scheduler runs with the idle properties leave two things out on purpose. Host commands that
write to a full pipe, and execve that fails after the old instance is gone, both end a turn that
changed something with `Stuck`; with them `NothingRunnableWhenIdle`, `DeadlockIsReal` and
`AgainIsReported` are false of the code, which is a finding (section 6) and not a property.
pselect6 and timed polls on standard input wait for the caller too, but the code never tells it so
(section 6); `DeadlockIsReal` counts only read and ppoll without a time limit.

Each property of a passing run has a mutant: a definition with a bug of a plausible kind (a count not
taken, the wrong end counted down, progress not noted, a flag not cleared, a mask saved twice, a link
spliced in at the wrong place) with which TLC finds the property violated.

## 4. Fairness

`Scheduler!FairSpec` assumes, and the code justifies, no more than this:

- the run loop and host commands take their next step (`Loop`, `Host`): `Kernel::run` is a loop in one
  thread, and a host command's `run` returns;
- a program ends its turn in the end (`GuestYields`), by a call that blocks, by execve or by its own
  end: nothing preempts a guest, so one that computes for ever hangs the sandbox and no property of
  the kernel can help;
- the caller steps again when the report asks it to (`StepWhenAsked`): after `Yielded`, after `Vfs` or
  `Host`, and after `Until` once the deadline has come. It is *not* assumed to step after a deadlock
  error, or to provide standard input;
- time passes (`Tick`).

`Signals!FairSpec` assumes of each instance, and of none of its calls in particular, that it goes on:
a blocked call is retried (the run loop, on every pass), the fetch loop of the C library fetches (it
is a plain loop around the import), and a program that runs makes some call in the end. No fairness
is assumed of signals, handlers, ends or starts. The last assumption is the same as `GuestYields`: a
program that never calls again never looks at a flag, and nothing can deliver a signal to it.

## 5. Theorems

| theorem | says | argument |
|---|---|---|
| `SlabProofs!FreeListCorrect` | the free list is exactly the empty slots, each once | inductive with the type invariant: a popped key is removed from both sides, a removed one added to both |
| `SlabProofs!SlabImplementsStore` | `Slab` refines `KeyedStore` | step simulation under the invariant |
| `DescriptorsProofs!DescriptorsTypeCorrect` | types, and no descriptors after a task's end | part of the inductive invariant |
| `DescriptorsProofs!ReferencesSuffice` | references never fall below the descriptors | see below |
| `DescriptorsProofs!PipeEndsCounted` | each open end is counted, and alone of its kind | see below |
| `DescriptorsProofs!EndOfFileIsTrue` | no false end of file or broken pipe | follows from the two before |
| `DescriptorsProofs!OnlyRefusalsLose` | a call that succeeds loses no reference | the same counts, before and after each call |
| `ProcessesProofs!TypeCorrect` | types; an instance is named by its bottom task | part of the inductive invariant |
| `ProcessesProofs!RecordsAreTasks` | a record is alive exactly while its task is in one place | see below |
| `ProcessesProofs!VforkParentsAreParents` | who waits in vfork is the parent of the task above | part of the inductive invariant |
| `ProcessesProofs!ZombiesAreCollectable` | while process 1 lives, the dead have live parents | part of the inductive invariant |
| `ProcessesProofs!StatusesAreKept`, `StatusesAreFinal` | no status is lost that could be waited for; none changes, and the parent alone takes it | what a step does to the table, from the invariant |
| `MemoryProofs!MemoryImplementsProcesses` | the steps of `Memory` are steps of `Processes` | each step takes an action of it, or leaves it alone |
| `MemoryProofs!MemoryAccounted` | what is charged is the sum of what live instances hold, within the limit | see below |
| `GuestProofs!GuestTypeCorrect` | types; frames are on the machine or in the area; a vfork is never counted down twice | part of the inductive invariant |
| `GuestProofs!StackPointerTheorem` | the stack pointer is right whenever guest code runs | see below |
| `GuestProofs!GuestImplementsCalls` | `Guest` refines `Calls` | step simulation under the invariant |
| `SchedulerProofs!SchedulerImplementsProcesses` | the run loop takes only the steps of `Processes` | step simulation under the invariant |
| `SchedulerProofs!SchedulerTyped` | types; the list holds every instance, once | part of the inductive invariant |
| `SchedulerProofs!SchedulerSleepers` | who sleeps has its deadline in a live record | part of the inductive invariant |
| `SchedulerProofs!SchedulerReportsAgain` | unless an execve fails, who was told AGAIN is reported first | see below |
| `SchedulerProofs!SchedulerDeadlocks` | a reported deadlock is one, for programs whose turns do not change anything unseen | see below |
| `SchedulerProofs!SchedulerIdle` | whatever else is reported, nobody could go on by itself, for guests whose execve does not fail | see below |
| `SignalsProofs!SignalsImplementProcesses` | with signals, processes take only the steps of `Processes` | step simulation under the invariant |
| `SignalsProofs!SignalsTypeCorrect` | types; SIGKILL is never caught or ignored; the dead have nothing pending | part of the inductive invariant |
| `SignalsProofs!MasksAreThePrograms` | outside sigsuspend a task's mask is the one its program asked for | part of the inductive invariant |
| `SignalsProofs!NoSignalGoesUnseen` | no call, and no end of a vfork child, leaves a signal behind that the program does not look for | part of the inductive invariant |
| `SignalsProofs!SignalledWaitsFetch` | a wait that ends with a signal deliverable returns into the fetch loop | what a step does to a blocked call, from the invariant |
| `FilesProofs!FilesTyped` | every mount is a tree, descriptors hold what they may | part of the inductive invariant |
| `FilesProofs!FilesHaveOneName` | no file has two names; an open file that has one has it on its handle's mount | part of the inductive invariant |
| `FilesProofs!ReadOnlyMountsStay` | a read-only mount keeps its names and lengths | what a step does, from the invariant |
| `FilesProofs!RefusalsLeaveEverything` | a refused call changes nothing; openat without a descriptor creates or empties, and no more | what a step does, from the invariant |
| `FilesProofs!NamesStay` | only unlink, and rename over it, take a file's name away | what a step does, from the invariant |
| `FilesProofs!ProgramsAreNotHidden` | programs, and `/proc/self/exe`, stay where they are | see below |
| `FilesProofs!FollowedPathsAreNoLinks` | a path followed to its end is no link | where the loop of the resolver ends |
| `FilesProofs!ListingsAgree` | a listing shows what can be looked up, and nothing else | see below |
| `FilesProofs!ResolutionWalks` | the resolver finds what the textbook walk finds | see below |

The inductive invariant of `Descriptors` is `TypeOK /\ RefsCoverDescriptors /\ PipesCountTheirEnds`.
Neither half is inductive alone: a release removes a description when its count says so, which is
right for the tables only if counts cover descriptors, and wrong for the pipes unless each end is the
only one of its kind. The proof counts once (how one changed entry, or a set of entries taken away,
changes the number of positions pointing at a description), shows that `Acquire` and `Release` keep
the invariant when what they add or drop is that change, and has one lemma per call. That a call which
succeeds loses no reference takes the counts as equalities, where the invariant needs only bounds: each
of open, dup, dup3, close, pipe2, vfork, exec and exit moves the descriptors of every description by
what it adds to the count or takes from it (section 4 of the module). Assumptions:
finitely many tasks and keys, at least three descriptors per task (the standard streams must fit),
and reference counts that cannot saturate (`MaxRefs` exceeds every descriptor there can be by more
than one; the code's is `u32::MAX`).

The invariant of `Processes` (`IInv` in `ProcessesProofs`) says where the tasks are: each live record
has its task in one stack or in the queue and in one place of it, each task has a live record, pids
that were not handed out have none, and parents are older than their children. The last is what makes
the end of an instance work: `finish_process` kills the tasks above the bottom one first, top down, and
pids rise with the stack, so nobody dies before a child of its own in the same stack (`Rising`,
`Ordered`), and every status goes to a parent that is still there to take it. `TearDown` and `KillAllOf`
are loops, written as recursive functions. A recursive function is a CHOOSE; section 1 proves, by
induction over the naturals (from the library's well-founded minimum, since its induction theorems take
an operator), that a function with the rounds of a loop exists, and section 3 what such a loop does to
the table if each round does it (`LoopEnds`, `LoopKeeps`). Assumptions: there is a first pid, the limit
is a number, and `None` is no status and no record.

`MemoryIsAccounted` is inductive once it is known which instances wait in mmap and what types there are.
Its sum over the instances is again a loop: `TotalFollows` proves that it moves by what one term moves,
and that no term exceeds it, so a saturating `release_memory` never saturates; `KillAllReleasesAll`
that giving back one instance after another in any order leaves nothing. Assumptions: sizes and limits
are numbers and a page is not empty.

The invariant of `Scheduler` (`SInv` in `SchedulerProofs`) adds to that of `Processes` what the loop
keeps beside the table: the list has each instance once, a guest that runs is in the list and in no call,
only a guest with an instance is in a blocked call, and a timed call has its deadline in the record of
the task on top of the instance's stack. It needs `Processes`' invariant, since `order` shrinks and
grows with `stack`, and a deadline stays where it is only because no two instances share a task. What
step reports is proved from three further invariants about a pass in which nothing has run so far.
`FlagsOK`: a flag stays set while anybody is parked for it or was told AGAIN. `VfsSeen`: the pass raised
the flag if it came by somebody who waits for a Vfs. `Scanned`: everybody the pass came by is parked, or
cannot go on, or is a host command that said AGAIN, and if it waits for standard input the caller will
be told. The last needs most: an instance that the pass came by and that blocked must not be made
runnable by a later turn of the same pass unless that turn counts as progress. `UnmovedSteps` lists the
turns that do not count, and `OthersStill` shows that none of them gives the others anything. The
theorems' hypotheses are those turns of the code that do (section 6), and no others: execve does not
fail (`SchedulerReportsAgain`, and the other two); no host command fills a pipe, or drains one that a
program may be waiting to write to (`NothingUnseen`, for `SchedulerDeadlocks`). TLC finds each theorem
false without its own. `SchedulerIdle` is stated for guests only, since a host command that has said
AGAIN is not always parked, and may be able to go on once it is called again. Assumptions: those of
`Processes`, a pipe that holds at least one byte, numbers for bounds, and `None` is no call and no time.

The invariant of `Signals` (`SInv` in `SignalsProofs`) is that of `Processes`, the types, and three
conditions that hold each other up. `SavedOK`: a mask is put aside in an instance exactly while its call
is sigsuspend, and then it is the one its current task's program asked for. `MaskOK`: a mask differs from
the program's only while some instance is suspended in that task. `NothingUnseen` is
`NoSignalIsMissed`. The two properties about masks are not inductive by themselves: sigsuspend puts the
old mask back from the instance, and that it is the right task's follows from `SavedOK` and from no two
instances having a task in common, which is `Processes`' invariant. Each action is shown to change
nothing of the other instances but what they have pending, of which a history variable keeps note
(`Elsewhere`), to give no task but its own a mask that is not its program's (`Remasks`), and to leave
its own instance right (`Here`); `StepKeeps` puts the three together once for all actions. Assumptions:
those of `Processes`, that SIGKILL and SIGCHLD are among the signals and every mask is of signals, and
that `None` is no mask.

The invariant of `Guest` (`IInv` in `GuestProofs`) goes by where the control of the instance is. In the
guest, the pointer is where the frames left it, and vfork's code, when it is the one that runs, has
its snapshot in the right jmp_buf. Out of it, the area, the suspension and the pointer to resume with
belong to the same import. On the way back in, the result to be handed over is one this import may
have: 0 or a pid for vfork's setjmp, a pid for an execve only if a child has just ended. It also
says that every jmp_buf holds the frames of its own setjmp with their pointer, and that each vfork in
progress has one. `StackPointerKept` alone is not inductive, because the pointer is put back from a
snapshot or from the call that blocked, and nothing in it says that those are right. The refinement
then says what each such place is for `Calls` (section 6 of the module) and compares, for each
action, the places before and after it: the pid of a vfork child, which travels by a longjmp, is
"owed" to the caller from the child's end to the return of vfork. `GuestAssumption` says that pids are
positive and no results of other calls, that the program's jmp_bufs are not vfork's own, and that
`None` is no stack.

The invariant of `Files` (`IInv` in `FilesProofs`) has three parts: the types, with every mount a tree
(`StateOK`); that no file has two names (`NamedOnce`); and that a descriptor's file, if it still has a
name, has it on the mount the descriptor was opened on (`OnTheirMounts`). The last two are why a check
of the mount is enough to protect a read-only one: write and ftruncate ask the mount in the handle and
then change the file, whichever mount that is on. `OnTheirMounts` alone does not hold from step to step,
since a rename gives a name that could be another's. The actions are first shown to be of a few kinds
(`AnyStep`: a node is made, removed or moved, a descriptor is opened, with or without a new file, a
length changes, the process changes), and everything else is proved of the kinds.

Folding a path and resolving one are loops, written as recursive functions, and unfolded as those of
`Processes` are. A program stays where it is (`ProgramsAreNotHidden`) because no mount ever gets anything
where the kernel has a directory: each name a call makes is a resolved path, and a path resolves to a
mount at such a place only if the mount has a directory there already. That must
be so of the initial trees (`NothingInTheWay`), and a program must not lie in `/proc` or `/dev`
(`OrdinaryPrograms`); without the first the property is false of the code (section 6). `ListingsAgree`
has no such hypothesis. It rests on resolved paths being plain names with no link on the way, so that
looking a name up in a directory is classifying one more name, and compares both sides case by case: a
program, a device, a mount point, a directory of the kernel's, a node of the mount.

`ResolutionWalks` compares two loops of different shape. The walk of `ResolutionIsAWalk` goes name by
name from where it is; the resolver folds the whole path, splices the first link and starts again. The
walk is a function that calls itself last, and need not be known to end to exist: its value is what the
trail of its calls ends at, if it does (`TailRecursionExists`). `OnTheWay` says that what lies behind
the walk has no links, and that it and the names to go, folded together, are what the resolver has after as
many links. Each step keeps that (`StaysOnTheWay`), and where it stops both answer alike (`ArrivesRight`);
the induction is over the links that may still be followed and, within, over the names to go. The
hypothesis `OrderlyTargets` is that "." and ".." occur in a target only where it begins, and in the
names of programs and working directories not at all. TLC finds the
theorem false without it: of a link `/a` to `a/..` the resolver makes `/`, since it folds `a/..` before it
looks at `a`, and the walk gives up after too many links.

Assumptions on the namespace: a filesystem is mounted at the root, paths are sequences of strings, the
initial trees are trees with each file named once, and bounds are numbers. Two theorems also suppose that no link
has an empty target (`FollowedPathsAreNoLinks`, `ResolutionWalks`).

## 6. Where the code and its documentation disagree

Each has a run that finds it (kind "violation"), with the quoted line in `PROJECT.json`:

- *A deadlock that is none* (`scheduler_deadlock`). A host command that fills a pipe reports that it did
  nothing, so a pass in which that was all ends with `Error::Deadlock` though the reader could go on. A
  failed execve does the same to a waiting parent, and makes the pass skip the next instance; whoever
  is skipped may be waiting for the caller's Vfs, which is then not reported. A host command that drains
  a full pipe and waits for more reports nothing either, so a program that blocked on that pipe earlier
  in the pass is in a reported deadlock too.
- *sigsuspend answers EINTR and no handler runs* (`signals_suspend`). The mask put aside is restored
  before the flag is computed, so a signal that only the temporary mask let in ends the call and is
  blocked again when the guest would fetch it. A program that waits with the signal blocked, which is
  what sigsuspend is for, sees its handler only after it unblocks the signal.
- *mmap takes memory at every retry* (`memory_retry`). The instance is charged and grown before the file
  is read; a `Vfs` that answers AGAIN blocks the call, and each retry grows it again.

Seen while modelling, without a run of their own:

- *Descriptors and processes.* dup, `F_DUPFD`, dup3 and `/dev/fd/N` that are refused keep the
  reference they counted, so the description is never released (`OnlyRefusalsLeak` says that nothing
  else leaks); pipe2 refused half way leaves the pipe and its descriptions in their slabs. An execve
  whose program cannot be instantiated ends process 1 without ending the session. A trap, or a fatal
  signal, in a vfork child ends its parent too, which shares the instance, where `src/README.md` line 38
  says that a trap kills one process. The result of `VfsFile::close` is dropped, where `vfs/mod.rs` lines
  309-310 say it is reported.
- *Scheduler.* Only the first process told AGAIN in a slice is parked; a second one is stepped again
  for as long as others make progress. A flag of an AGAIN that was answered after a slice ended by
  budget is reported as `Wait::Vfs` later, with nobody waiting. `wake_at` is not cleared when a sleep
  returns, so a past deadline is reported as `Wait::Until` with nobody asleep. pselect6, and ppoll with
  a time limit, never set `stdin.wanted`: a session that waits in them for standard input is told
  `Until`, or `Deadlock`, and never `Stdin`.
- *Signals.* Host commands never look at signals, though `host.rs` says that kill reaches them.
  ppoll and pselect6 ignore their signal mask, and sigaction's mask is not applied while the handler
  runs. A SIGCHLD that is ignored by default stays pending until something is fetched. Process 1 gets
  no SIGCHLD for a zombie it inherits.
- *Suspend and resume.* `longjmp(env, 0)` makes setjmp return 0. A vfork nested deeper than
  `VFORK_DEPTH` reuses the last jmp_buf, and its return reads past the array.
- *Memory.* brk rounds its growth up to a page and can pass a `memory_per_process` that is no multiple
  of one; the image a program starts with is not compared with that limit. mmap of a file that fails
  leaves the file's offset moved.
- *Files.* `MemVfs::rename` replaces a directory that is not empty. mkdirat follows a link in the last
  place, and makes the directory the link points to. A handle opened `O_RDONLY|O_APPEND` may be
  truncated. The working directory and directory descriptors are paths, and name something else
  after a rename. The ".." of a link's target is folded with the name before it, as `path.rs` line 13
  says, though that name need not exist and may be a link to somewhere else. If a mount has a real directory where the kernel has one of its own (say `/bin`),
  renaming it away, or a link over it, changes what programs are found under.

## 7. What is only model-checked

The liveness of `Scheduler` and `Signals`: that under the fairness of section 4 waits are answered, sleepers
wake, children start, readers see the end of file, signals end waits and killed guests die. Liveness under fairness, and
ENABLED, are out of the prover's reach. `BlockedCallsConsumeNothing`, `sigsuspend`'s promise and
`DeadlockMeansBlocked` are false of the code (section 6). Every other property of a run is a theorem.

## 8. Not modelled, and simplifications

HostVfs and the backends are adapters to code outside the repository. The terminal, the tables and
the guest memory accessors have no behaviour over time beyond bounds checks. The corpus, the command
line and the build scripts are users of the kernel. Contents of files and messages to the user are left
out everywhere; so are times, modes and owners, which the kernel accepts and mostly ignores.
`PROJECT.json` gives the status of each.

Within what is modelled: `Files` has one process (its calls are atomic, so several differ only in
working directory and descriptors), directory listings without a position in them, and nothing of
the initial tree where the kernel has directories of its own; `/proc/self/fd` is modelled where it
matters, as a dup, in `Descriptors`. `Scheduler` counts the bytes of a pipe but does not tell them apart;
readv and writev are single reads and writes. A bad guest pointer, which makes wait4 and read lose
what they took, is not modelled, since which addresses are mapped is the program's affair. `Guest`
bounds vforks by `VforkDepth` and takes for granted that a signal handler is ordinary guest code.
`Signals` has no stopped processes: job control signals have no effect in the code either.
