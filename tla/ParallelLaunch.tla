--------------------------- MODULE ParallelLaunch ---------------------------
(***************************************************************************)
(* The parallel_launch command: several kernels given in one command.      *)
(* They run one after the other in the debugger's own process, or, when a  *)
(* device is asked for and the environment does not want that, each in a   *)
(* spawned process with a queue of its own, which the parent joins in turn.*)
(*                                                                         *)
(* A kernel may write every array it is given; what matters of an array of *)
(* the script is which kernels of the command may have written it.         *)
(***************************************************************************)
EXTENDS Naturals, Sequences

CONSTANTS
  MaxSlots,  \* bound on the kernels of a command
  Arrays,    \* the arrays of the script
  Cupy,      \* those in device memory
  Big,       \* those that do not fit in the pipe of a result queue
  Kernels    \* the kernel specifications a command may be made of

ASSUME MaxSlotsAssumption == MaxSlots \in Nat \ {0}
ASSUME CupyAssumption == Cupy \subseteq Arrays
ASSUME BigAssumption == Big \subseteq Arrays

Slots == 1 .. MaxSlots
Spaces == {"host", "device"}

\* A kernel of the command: its pk.<ExecSpace>, the space of its policy (an int
\* has none), its array arguments and those marked mut: or mod:.
KernelSpec ==
  {s \in [space : Spaces \cup {"none"}, policy : Spaces \cup {"int"},
          args : SUBSET Arrays, mutable : SUBSET Arrays] : s.mutable \subseteq s.args}

ASSUME KernelsAssumption == Kernels \subseteq KernelSpec

VARIABLES
  inProcess,     \* PKDB_PARALLEL_LAUNCH_CUDA_INPROCESS, on by default
  specs,         \* the command's kernels
  pc,            \* the parent: "prompt", "slots", "start" or "join"
  slot,          \* the slot it is at
  defaultSpace,  \* the default execution space of the debugged process
  child,         \* "none", "running", "put" (its result), "exited" or "killed"
  outcome,       \* what became of each kernel: "none", "success" or "failed"
  results,       \* what the command reports of it
  touched,       \* the slots whose kernels may have written each script array
  seen           \* the slots whose writes each kernel may have read

commandVars == <<inProcess, specs, defaultSpace>>
vars == <<inProcess, specs, pc, slot, defaultSpace, child, outcome, results, touched, seen>>

\* The slots of the command.
Given == 1 .. Len(specs)

\* _kernel_specs_need_spawn_for_cuda.
NeedsDevice(s) == s.space = "device" \/ (s.space = "none" /\ s.policy = "device")
Mode ==
  IF \A i \in Given : ~NeedsDevice(specs[i]) THEN "host"
  ELSE IF inProcess THEN "device" ELSE "spawn"

\* The arguments a worker opens through CUDA IPC; the report calls the others copied.
Ipc(i) == IF Mode = "spawn" THEN specs[i].mutable \cap Cupy ELSE {}

\* _convert_arrays_for_space copies what is not in the memory of an explicit space.
Unconverted(s, arrays) ==
  CASE s.space = "none" -> arrays
    [] s.space = "device" -> arrays \cap Cupy
    [] s.space = "host" -> arrays \ Cupy

\* Mutant of Shared: every device array is opened through CUDA IPC.
SharedUnmarked(i) ==
  CASE Mode = "host" -> {}
    [] Mode = "device" -> Unconverted(specs[i], specs[i].args)
    [] Mode = "spawn" -> Unconverted(specs[i], specs[i].args \cap Cupy)

\* The arguments that are the script's own memory when the kernel runs.
Shared(i) ==
  CASE Mode = "host" -> {}
    [] Mode = "device" -> Unconverted(specs[i], specs[i].args)
    [] Mode = "spawn" -> Unconverted(specs[i], Ipc(i))

\* What the kernel's arguments may contain: copies for the host and for workers
\* are made before any kernel starts.
Visible(i) ==
  UNION {touched[a] : a \in IF Mode = "device" THEN specs[i].args ELSE Shared(i)}

Touch(i) == touched' = [a \in Arrays |-> IF a \in Shared(i) THEN touched[a] \cup {i} ELSE touched[a]]

Init ==
  /\ inProcess \in BOOLEAN
  /\ specs = <<>>
  /\ pc = "prompt"
  /\ slot = 1
  /\ defaultSpace \in Spaces
  /\ child = [i \in Slots |-> "none"]
  /\ outcome = [i \in Slots |-> "none"]
  /\ results = [i \in Slots |-> "none"]
  /\ touched = [a \in Arrays |-> {}]
  /\ seen = [i \in Slots |-> {}]

\* The command is parsed, and its arguments copied, before anything runs.
Launch(n, command) ==
  /\ pc = "prompt"
  /\ specs' = [i \in 1 .. n |-> command[i]]
  /\ UNCHANGED <<inProcess, defaultSpace>>
  /\ pc' = IF Mode' = "spawn" THEN "start" ELSE "slots"
  /\ slot' = 1
  /\ child' = [i \in Slots |-> "none"]
  /\ outcome' = [i \in Slots |-> "none"]
  /\ results' = [i \in Slots |-> "none"]
  /\ touched' = [a \in Arrays |-> {}]
  /\ seen' = [i \in Slots |-> {}]

\* After slot the parent goes on with the next one, or to the point to.
Advance(to) ==
  /\ slot' = IF slot = Len(specs) THEN 1 ELSE slot + 1
  /\ pc' = IF slot = Len(specs) THEN to ELSE pc

-----------------------------------------------------------------------------
(* In the debugger's process.                                              *)

\* The explicit space becomes the default of the debugged process and stays it.
RunSlot ==
  /\ pc = "slots"
  /\ Advance("prompt")
  /\ defaultSpace' = IF specs[slot].space = "none" THEN defaultSpace ELSE specs[slot].space
  /\ seen' = [seen EXCEPT ![slot] = Visible(slot) \ {slot}]
  /\ \E how \in {"success", "failed"} :
       /\ outcome' = [outcome EXCEPT ![slot] = how]
       /\ results' = [results EXCEPT ![slot] = how]
       /\ \/ Touch(slot)
          \/ how = "failed" /\ UNCHANGED touched
  /\ UNCHANGED <<inProcess, specs, child>>

-----------------------------------------------------------------------------
(* In spawned processes.                                                   *)

StartChild ==
  /\ pc = "start"
  /\ Advance("join")
  /\ child' = [child EXCEPT ![slot] = "running"]
  /\ UNCHANGED <<commandVars, outcome, results, touched, seen>>

KernelReads(i) == seen' = [seen EXCEPT ![i] = @ \cup (Visible(i) \ {i})]

\* The kernel writes its arguments while it runs.
KernelWrites(i) ==
  /\ child[i] = "running"
  /\ Touch(i)
  /\ KernelReads(i)
  /\ UNCHANGED <<commandVars, pc, slot, child, outcome, results>>

\* It returns or raises; the result is put into the queue.
KernelEnds(i) ==
  /\ child[i] = "running"
  /\ child' = [child EXCEPT ![i] = "put"]
  /\ \E how \in {"success", "failed"} :
       /\ outcome' = [outcome EXCEPT ![i] = how]
       /\ how = "success" => \A a \in Shared(i) : i \in touched[a]
  /\ KernelReads(i)
  /\ UNCHANGED <<commandVars, pc, slot, results, touched>>

\* A crash in native code, or an interrupt: no result.
ChildCrashes(i) ==
  /\ child[i] = "running"
  /\ child' = [child EXCEPT ![i] = "exited"]
  /\ UNCHANGED <<commandVars, pc, slot, outcome, results, touched, seen>>

\* A process exits only when the pipe has taken all it put into its queue.
Blocked(i) == outcome[i] = "success" /\ specs[i].args \cap Big # {}

ChildExits(i) ==
  /\ child[i] = "put"
  /\ ~Blocked(i)
  /\ child' = [child EXCEPT ![i] = "exited"]
  /\ UNCHANGED <<commandVars, pc, slot, outcome, results, touched, seen>>

\* Mutant of Join: the queue is read without waiting for the process.
JoinNoWait ==
  /\ pc = "join"
  /\ results' = [results EXCEPT ![slot] = IF outcome[slot] = "none" THEN "lost" ELSE outcome[slot]]
  /\ Advance("prompt")
  /\ UNCHANGED <<commandVars, child, outcome, touched, seen>>

\* The process has ended: its queue holds the result, or nothing.
Join ==
  /\ pc = "join"
  /\ child[slot] = "exited"
  /\ results' = [results EXCEPT ![slot] = IF outcome[slot] = "none" THEN "lost" ELSE outcome[slot]]
  /\ Advance("prompt")
  /\ UNCHANGED <<commandVars, child, outcome, touched, seen>>

\* Mutant of Timeout: the process is left alone.
TimeoutNoKill ==
  /\ pc = "join"
  /\ child[slot] = "running" \/ (child[slot] = "put" /\ Blocked(slot))
  /\ results' = [results EXCEPT ![slot] = "timeout"]
  /\ Advance("prompt")
  /\ UNCHANGED <<commandVars, child, outcome, touched, seen>>

\* Mutant of Timeout: join without a timeout.
TimeoutNever ==
  /\ FALSE
  /\ TimeoutNoKill

\* The join timed out, after 30 seconds or more: long enough for a process that
\* has only to exit, so the kernel still runs or the process is blocked.
Timeout ==
  /\ pc = "join"
  /\ child[slot] = "running" \/ (child[slot] = "put" /\ Blocked(slot))
  /\ child' = [child EXCEPT ![slot] = "killed"]
  /\ results' = [results EXCEPT ![slot] = "timeout"]
  /\ Advance("prompt")
  /\ UNCHANGED <<commandVars, outcome, touched, seen>>

Next ==
  \/ \E n \in Slots : \E command \in [1 .. n -> Kernels] : Launch(n, command)
  \/ RunSlot
  \/ StartChild
  \/ Join
  \/ Timeout
  \/ \E i \in Slots : KernelWrites(i) \/ KernelEnds(i) \/ ChildCrashes(i) \/ ChildExits(i)

Spec == Init /\ [][Next]_vars

\* The parent and the operating system go on; a kernel in a worker may hang, one
\* in the debugger's process is taken to end.
Fairness ==
  /\ WF_vars(RunSlot)
  /\ WF_vars(StartChild)
  /\ WF_vars(Join)
  /\ WF_vars(Timeout)
  /\ \A i \in Slots : WF_vars(ChildExits(i))

FairSpec == Spec /\ Fairness

-----------------------------------------------------------------------------
(* Properties *)

TypeOK ==
  /\ inProcess \in BOOLEAN
  /\ specs \in UNION {[1 .. n -> Kernels] : n \in 0 .. MaxSlots}
  /\ pc \in {"prompt", "slots", "start", "join"}
  /\ slot \in Slots /\ (slot = 1 \/ slot \in Given)
  /\ defaultSpace \in Spaces
  /\ child \in [Slots -> {"none", "running", "put", "exited", "killed"}]
  /\ outcome \in [Slots -> {"none", "success", "failed"}]
  /\ results \in [Slots -> {"none", "success", "failed", "lost", "timeout"}]
  /\ touched \in [Arrays -> SUBSET Slots]
  /\ seen \in [Slots -> SUBSET Slots]

\* A kernel writes no array of the script that is not both a device array and
\* marked: the report says "Arrays: host copy (isolated per worker)"
\* (parallel_launcher.py:792), the help the same (pdb_commands.py:380).  Device
\* kernels in the debugger's own process are given the script's arrays as they are.
UnmarkedIsolated ==
  Mode # "device" =>
    \A i \in Given : \A a \in specs[i].args \ (specs[i].mutable \cap Cupy) : i \notin touched[a]

\* The report of a slot is about its own kernel: nothing is reported done that
\* did not finish, and nothing finished is reported lost.
ResultsAreTrue ==
  \A i \in Given :
    CASE results[i] \in {"success", "failed"} -> outcome[i] = results[i]
      [] results[i] = "lost" -> outcome[i] = "none"
      [] results[i] = "timeout" -> outcome[i] = "none" \/ Blocked(i)
      [] results[i] = "none" -> pc # "prompt"

\* Back at the prompt no worker is left to write the script's arrays.
NoWorkerLeft ==
  pc = "prompt" => \A i \in Slots : child[i] \in {"none", "exited", "killed"}

\* The prompt comes back, whatever the workers do.
CommandEnds == pc # "prompt" ~> pc = "prompt"
=============================================================================
