------------------------------- MODULE Memory -------------------------------
(***************************************************************************)
(* The memory accounting of the kernel, laid over the process life of      *)
(* module Processes: what charge_memory and release_memory count           *)
(* (kernel/mod.rs), against what the instances really hold.                *)
(*                                                                         *)
(* An instance is charged when it is started and each time brk or mmap     *)
(* grows it, and gives everything back when it ends or is replaced.  A     *)
(* vfork child grows the instance of its parent.  Every step of Processes  *)
(* is taken here with its effect on memory; a step of a guest that waits   *)
(* in mmap for its file is not.                                            *)
(***************************************************************************)
EXTENDS Processes

CONSTANTS MemoryLimit,        \* limits.memory
          ProcessLimit,       \* limits.memory_per_process
          Page,               \* PAGE
          AsyncifyArea,       \* ASYNCIFY_PAGES * PAGE
          Images,             \* sizes programs start with
          Lengths             \* what brk and mmap are asked for

ASSUME MemoryAssumption ==
    /\ MemoryLimit \in Nat /\ ProcessLimit \in Nat /\ Page \in Nat \ {0}
    /\ AsyncifyArea \in Nat /\ Images \subseteq Nat /\ Lengths \subseteq Nat \ {0}
    /\ \A image \in Images \cup {AsyncifyArea} : image % Page = 0

VARIABLES used,         \* Shared::memory_used
          memory,       \* of each instance: its size, Proc::charged, ExecState::grown
          mapping       \* the mmap an instance waits in, as its length, or 0

memoryVars == <<used, memory, mapping>>
allVars == <<vars, memoryVars>>

-----------------------------------------------------------------------------
NoMemory == [size |-> 0, charged |-> 0, grown |-> 0]
Charged(bytes) == [size |-> bytes, charged |-> bytes, grown |-> 0]
Pages(bytes) == ((bytes + Page - 1) \div Page) * Page       \* div_ceil, in bytes

(* charge_memory and release_memory. *)
Fits(taken, bytes) == taken + bytes <= MemoryLimit
Released(taken, bytes) == IF bytes <= taken THEN taken - bytes ELSE 0

Held(b) == memory[b].charged + memory[b].grown

(* What a program needs to start: its image and the area of Asyncify. *)
Need(image) == image + AsyncifyArea

MemoryInit ==
    /\ Init
    /\ \E image \in Images :
          /\ Fits(0, Need(image))
          /\ used = Need(image)
          /\ memory = [b \in Pid |-> IF b = First THEN Charged(Need(image)) ELSE NoMemory]
    /\ mapping = [b \in Pid |-> 0]

(* start, for a child of the queue. *)
StartCharged(image) ==
    /\ Start
    /\ Fits(used, Need(image))
    /\ used' = used + Need(image)
    /\ memory' = [memory EXCEPT ![Head(spawn)] = Charged(Need(image))]
    /\ UNCHANGED mapping

(* Its program cannot be loaded, or does not fit: nothing stays charged.   *)
StartRefused == StartFails /\ UNCHANGED memoryVars

(* Mutant: what the old program had grown is forgotten. *)
ReplaceUngrown(b, image) ==
    /\ ~Over /\ Len(stack[b]) = 1 /\ mapping[b] = 0
    /\ LET rest == Released(used, memory[b].charged)
       IN Fits(rest, Need(image)) /\ used' = rest + Need(image)
    /\ memory' = [memory EXCEPT ![b] = Charged(Need(image))]
    /\ UNCHANGED <<vars, mapping>>

(* replace_instance: the old instance gives its memory back before the new *)
(* one is charged.                                                         *)
Replace(b, image) ==
    /\ ~Over /\ Len(stack[b]) = 1 /\ mapping[b] = 0
    /\ LET rest == Released(used, Held(b))
       IN Fits(rest, Need(image)) /\ used' = rest + Need(image)
    /\ memory' = [memory EXCEPT ![b] = Charged(Need(image))]
    /\ UNCHANGED <<vars, mapping>>

ReplaceFails(b) ==
    /\ ExecFails(b) /\ mapping[b] = 0
    /\ used' = Released(used, Held(b))
    /\ memory' = [memory EXCEPT ![b] = NoMemory]
    /\ UNCHANGED mapping

(* finish_process, of an instance whose guest is not waiting, or was told  *)
(* EINTR by a signal that ends it.                                         *)
FinishReleases(b, status) ==
    /\ Finish(b, status)
    /\ used' = Released(used, Held(b))
    /\ memory' = [memory EXCEPT ![b] = NoMemory]
    /\ mapping' = [mapping EXCEPT ![b] = 0]

(* kill_all, instance by instance. *)
KillAllReleases(order) ==
    /\ KillAll(order)
    /\ LET after[n \in 0 .. Len(order)] ==
               IF n = 0 THEN used ELSE Released(after[n - 1], Held(order[n]))
       IN used' = after[Len(order)]
    /\ memory' = [b \in Pid |-> NoMemory]
    /\ mapping' = [b \in Pid |-> 0]

-----------------------------------------------------------------------------
Grow(b, bytes) ==
    /\ Fits(used, bytes)
    /\ used' = used + bytes
    /\ memory' = [memory EXCEPT ![b].size = @ + bytes, ![b].grown = @ + bytes]

InGuest(b) == ~Over /\ b \in Instances /\ mapping[b] = 0

(* sys_brk for a break above the present one.  A refusal, by a limit or by *)
(* the instance itself, answers the present break and changes nothing.     *)
Brk(b, request) ==
    /\ InGuest(b)
    /\ request > memory[b].size /\ request <= ProcessLimit
    /\ Grow(b, Pages(request - memory[b].size))
    /\ UNCHANGED <<vars, mapping>>

Mappable(b, length) ==
    /\ memory[b].size + Pages(length) <= ProcessLimit
    /\ Grow(b, Pages(length))

(* sys_mmap.  It grows the instance first and looks at the file afterwards: *)
(* the memory stays when the descriptor is bad, when the file cannot be    *)
(* mapped or read, and when it has to be asked again.                      *)
Mmap(b, length) ==
    /\ InGuest(b) /\ Mappable(b, length)
    /\ UNCHANGED <<vars, mapping>>

MmapBlocks(b, length) ==
    /\ InGuest(b) /\ Mappable(b, length)
    /\ mapping' = [mapping EXCEPT ![b] = length]
    /\ UNCHANGED vars

(* The retry is the same call again; a limit, or a signal, ends the wait.  *)
RetryMaps(b) ==
    /\ ~Over /\ mapping[b] # 0 /\ Mappable(b, mapping[b])
    /\ mapping' = [mapping EXCEPT ![b] = 0]
    /\ UNCHANGED vars

RetryBlocks(b) ==
    /\ ~Over /\ mapping[b] # 0 /\ Mappable(b, mapping[b])
    /\ UNCHANGED <<vars, mapping>>

RetryRefused(b) ==
    /\ ~Over /\ mapping[b] # 0
    /\ mapping' = [mapping EXCEPT ![b] = 0]
    /\ UNCHANGED <<vars, used, memory>>

-----------------------------------------------------------------------------
(* The steps that neither take nor give memory. *)
Others ==
    /\ UNCHANGED memoryVars
    /\ \/ \E b \in Pid :
             /\ mapping[b] = 0
             /\ \/ Vfork(b) \/ ExecChild(b)
                \/ \E status \in Codes : ExitChild(b, status)
                \/ \E which \in Pid \cup {0} : Reap(b, which)
       \/ NoneLeft

MemoryNext ==
    \/ \E image \in Images : StartCharged(image) \/ \E b \in Pid : Replace(b, image)
    \/ StartRefused
    \/ \E b \in Pid :
          \/ ReplaceFails(b)
          \/ \E status \in Codes \cup {"126", "SIGSEGV"} : FinishReleases(b, status)
          \/ \E n \in Lengths : Brk(b, n) \/ Mmap(b, n) \/ MmapBlocks(b, n)
          \/ RetryMaps(b) \/ RetryBlocks(b) \/ RetryRefused(b)
    \/ \E order \in SetToSeqs(Instances) : KillAllReleases(order)
    \/ Others

MemorySpec == MemoryInit /\ [][MemoryNext]_allVars

-----------------------------------------------------------------------------
(* The sizes, added up over the pids. *)
Total(sizes) ==
    LET sum[n \in 0 .. MaxPid] == IF n = 0 THEN 0 ELSE sum[n - 1] + sizes[n]
    IN sum[MaxPid]

InstanceSizes == [b \in Pid |-> IF b \in Instances THEN memory[b].size ELSE 0]

(* What the sandbox is charged is exactly what the live instances hold,    *)
(* and never more than the limit: a heap goes back with the instance,      *)
(* whichever task of it asked for it and whichever way it ended, and a     *)
(* start that fails keeps nothing.                                         *)
MemoryIsAccounted ==
    /\ used = Total(InstanceSizes)
    /\ used <= MemoryLimit
    /\ \A b \in Pid : IF b \in Instances THEN memory[b].size = Held(b)
                      ELSE memory[b] = NoMemory

(* DESIGN.md says: "A blocked syscall is called again with the same        *)
(* arguments, so nothing may be consumed before the call can commit."      *)
BlockedCallsConsumeNothing ==
    [][\A b \in Pid : mapping'[b] # 0 => memory'[b] = memory[b]]_allVars
=============================================================================
