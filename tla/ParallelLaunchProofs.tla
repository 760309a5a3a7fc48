------------------------- MODULE ParallelLaunchProofs -------------------------
(***************************************************************************)
(* What parallel_launch guarantees for every command, every number of      *)
(* kernels and arrays, and workers that crash, hang or are killed.         *)
(***************************************************************************)
EXTENDS ParallelLaunch, TLAPS

Over == {"none", "exited", "killed"}
Steps == {"prompt", "slots", "start", "join"}

\* The parent is at a slot of the command.
ShapeInv ==
  /\ specs \in Seq(Kernels) /\ Len(specs) <= MaxSlots
  /\ pc \in Steps
  /\ slot \in Nat /\ (pc # "prompt" => slot \in Given)
  /\ child \in [Slots -> {"none", "running", "put", "exited", "killed"}]
  /\ outcome \in [Slots -> {"none", "success", "failed"}]
  /\ results \in [Slots -> {"none", "success", "failed", "lost", "timeout"}]
  /\ touched \in [Arrays -> SUBSET Slots]

\* Which workers there are is told by where the parent is.
WorkersInv ==
  /\ pc = "prompt" => \A i \in Slots : child[i] \in Over
  /\ pc = "slots" => \A i \in Slots : child[i] = "none"
  /\ pc = "start" => \A i \in Slots : i >= slot => child[i] = "none"
  /\ pc = "join" => \A i \in Slots : i < slot \/ i > Len(specs) => child[i] \in Over

\* A slot has its report when the parent is past it, and its kernel is over by then.
ReportsInv ==
  /\ \A i \in Slots : results[i] # "none" => child[i] \in Over
  /\ pc = "prompt" => \A i \in Given : results[i] # "none"
  /\ pc = "start" => \A i \in Slots : results[i] = "none"
  /\ pc \in {"slots", "join"} => \A i \in Given : i < slot => results[i] # "none"
  /\ \A i \in Given :
       /\ results[i] \in {"success", "failed"} => outcome[i] = results[i]
       /\ results[i] = "lost" => outcome[i] = "none"
       /\ results[i] = "timeout" => outcome[i] = "none" \/ Blocked(i)

\* What became of a kernel is known when it has ended, not before.
EndedInv ==
  \A i \in Slots : child[i] = "running" \/ (pc = "start" /\ child[i] = "none") => outcome[i] = "none"

\* A kernel touches only what it shares with the script.
TouchInv == \A a \in Arrays : \A i \in Given : i \in touched[a] => a \in Shared(i)

ParallelInv == ShapeInv /\ WorkersInv /\ ReportsInv /\ EndedInv /\ TouchInv
-----------------------------------------------------------------------------
USE MaxSlotsAssumption, CupyAssumption

LEMMA InitInv == Init => ParallelInv
BY DEF Init, ParallelInv, ShapeInv, WorkersInv, ReportsInv, EndedInv, TouchInv, Given, Slots, Over, Steps

\* What a slot shares is settled by the command.
LEMMA CommandSettles ==
  ASSUME specs' = specs, inProcess' = inProcess, NEW i
  PROVE  /\ Given' = Given
         /\ Shared(i)' = Shared(i)
         /\ outcome'[i] = outcome[i] => (Blocked(i)' <=> Blocked(i))
BY DEF Given, Shared, Unconverted, Ipc, Mode, NeedsDevice, Blocked

\* The parent goes to the next slot, or is done with the last.
LEMMA AdvanceInv ==
  ASSUME NEW to \in Steps \ {"slots"}, ShapeInv, pc # "prompt", Advance(to), specs' = specs
  PROVE  /\ pc' \in Steps
         /\ slot' \in Nat /\ slot' \in Given
         /\ \/ slot = Len(specs) /\ slot' = 1 /\ pc' = to
            \/ slot < Len(specs) /\ slot' = slot + 1 /\ pc' = pc
BY DEF Advance, ShapeInv, Given, Steps

LEMMA LaunchStep ==
  ASSUME ParallelInv, NEW n \in Slots, NEW command \in [1 .. n -> Kernels], Launch(n, command)
  PROVE  ParallelInv'
<1>1. specs' \in Seq(Kernels) /\ Len(specs') = n /\ pc' \in {"start", "slots"} /\ slot' = 1
  BY DEF Launch, Slots
<1>2. ShapeInv'
  BY <1>1 DEF ParallelInv, ShapeInv, Launch, Given, Slots, Steps
<1>3. WorkersInv'
  BY <1>1 DEF WorkersInv, Launch, Slots, Over
<1>4. ReportsInv'
  BY <1>1 DEF ReportsInv, Launch, Given, Slots
<1>5. TouchInv'
  BY DEF TouchInv, Launch, Given
<1>6. EndedInv'
  BY DEF EndedInv, Launch
<1> QED
  BY <1>2, <1>3, <1>4, <1>5, <1>6 DEF ParallelInv

\* A kernel touches what it shares.
LEMMA TouchStep ==
  ASSUME ParallelInv, NEW i \in Given, Touch(i), specs' = specs, inProcess' = inProcess
  PROVE  TouchInv' /\ touched' \in [Arrays -> SUBSET Slots]
<1>1. \A j : Given' = Given /\ Shared(j)' = Shared(j)
  BY CommandSettles
<1>2. i \in Slots
  BY DEF ParallelInv, ShapeInv, Given, Slots
<1>3. touched' \in [Arrays -> SUBSET Slots]
  BY <1>2 DEF ParallelInv, ShapeInv, Touch
<1>4. TouchInv'
  BY <1>1 DEF ParallelInv, TouchInv, Touch
<1> QED
  BY <1>3, <1>4

\* The arrays are left as they are.
LEMMA TouchedKept ==
  ASSUME ParallelInv, specs' = specs, inProcess' = inProcess, touched' = touched
  PROVE  TouchInv' /\ touched' \in [Arrays -> SUBSET Slots]
<1>1. \A j : Given' = Given /\ Shared(j)' = Shared(j)
  BY CommandSettles
<1> QED
  BY <1>1 DEF ParallelInv, ShapeInv, TouchInv

LEMMA RunSlotStep ==
  ASSUME ParallelInv, RunSlot
  PROVE  ParallelInv'
<1> DEFINE Move == \/ slot = Len(specs) /\ slot' = 1 /\ pc' = "prompt"
                   \/ slot < Len(specs) /\ slot' = slot + 1 /\ pc' = "slots"
<1>1. pc = "slots" /\ specs' = specs /\ inProcess' = inProcess /\ child' = child /\ slot \in Given /\ slot \in Slots
  BY DEF RunSlot, ParallelInv, ShapeInv, Given, Slots
<1>2. Move /\ pc' \in Steps /\ slot' \in Nat /\ slot' \in Given
  BY <1>1, AdvanceInv DEF RunSlot, ParallelInv, Steps
<1>3. PICK how \in {"success", "failed"} :
        /\ outcome' = [outcome EXCEPT ![slot] = how]
        /\ results' = [results EXCEPT ![slot] = how]
        /\ Touch(slot) \/ touched' = touched
  BY DEF RunSlot
<1>4. TouchInv' /\ touched' \in [Arrays -> SUBSET Slots]
  <2>1. CASE Touch(slot)
    BY <1>1, <2>1, TouchStep
  <2>2. CASE touched' = touched
    BY <1>1, <2>2, TouchedKept
  <2> QED
    BY <1>3, <2>1, <2>2
<1>5. ShapeInv'
  BY <1>1, <1>2, <1>3, <1>4, CommandSettles DEF ParallelInv, ShapeInv
<1>6. WorkersInv'
  BY <1>1, <1>2 DEF ParallelInv, WorkersInv, Over
<1>7. ReportsInv'
  <2>1. \A i \in Given : i # slot => outcome'[i] = outcome[i] /\ results'[i] = results[i] /\ (Blocked(i)' <=> Blocked(i))
    BY <1>1, <1>3, CommandSettles DEF ParallelInv, ShapeInv, Given, Slots
  <2>2. outcome'[slot] = how /\ results'[slot] = how
    BY <1>1, <1>3 DEF ParallelInv, ShapeInv
  <2>3. \A i \in Slots : child'[i] \in Over
    BY <1>1 DEF ParallelInv, WorkersInv, Over
  <2>4. Given' = Given
    BY <1>1, CommandSettles
  <2>5. \A i \in Given : i < slot \/ i = slot => results'[i] # "none"
    BY <1>1, <2>1, <2>2 DEF ParallelInv, ReportsInv
  <2>6. /\ pc' = "prompt" => \A i \in Given : results'[i] # "none"
        /\ pc' \in {"slots", "join"} => \A i \in Given : i < slot' => results'[i] # "none"
    BY <1>1, <1>2, <2>5 DEF Given, ParallelInv, ShapeInv
  <2> QED
    BY <1>1, <1>2, <2>1, <2>2, <2>3, <2>4, <2>6 DEF ParallelInv, ReportsInv
<1>8. EndedInv'
  BY <1>1, <1>2 DEF ParallelInv, WorkersInv, EndedInv
<1> QED
  BY <1>4, <1>5, <1>6, <1>7, <1>8 DEF ParallelInv

LEMMA StartChildStep ==
  ASSUME ParallelInv, StartChild
  PROVE  ParallelInv'
<1>1. /\ pc = "start" /\ specs' = specs /\ inProcess' = inProcess /\ slot \in Given /\ slot \in Slots
      /\ outcome' = outcome /\ results' = results /\ touched' = touched
  BY DEF StartChild, commandVars, ParallelInv, ShapeInv, Given, Slots
<1>2. /\ pc' \in Steps /\ slot' \in Nat /\ slot' \in Given
      /\ \/ slot = Len(specs) /\ slot' = 1 /\ pc' = "join"
         \/ slot < Len(specs) /\ slot' = slot + 1 /\ pc' = "start"
  BY <1>1, AdvanceInv DEF StartChild, ParallelInv, Steps
<1>3. ShapeInv'
  BY <1>1, <1>2, CommandSettles DEF ParallelInv, ShapeInv, StartChild
<1>4. WorkersInv'
  BY <1>1, <1>2 DEF ParallelInv, ShapeInv, WorkersInv, StartChild, Over, Given, Slots
<1>5. child[slot] = "none" /\ results[slot] = "none"
  BY <1>1 DEF ParallelInv, WorkersInv, ReportsInv, Given, Slots
<1>6. ReportsInv'
  <2>1. \A i \in Slots : results[i] = "none"
    BY <1>1 DEF ParallelInv, ReportsInv
  <2>2. Given' = Given /\ Given \subseteq Slots
    BY <1>1, CommandSettles DEF Given, Slots, ParallelInv, ShapeInv
  <2>3. pc' = "join" => slot' = 1
    BY <1>1, <1>2
  <2>4. ~ \E i \in Given : i < 1
    BY DEF Given
  <2> QED
    BY <1>1, <1>2, <2>1, <2>2, <2>3, <2>4 DEF ReportsInv
<1>7. TouchInv'
  BY <1>1, TouchedKept
<1>8. EndedInv'
  BY <1>1, <1>2, <1>5 DEF ParallelInv, ShapeInv, EndedInv, StartChild
<1> QED
  BY <1>3, <1>4, <1>6, <1>7, <1>8 DEF ParallelInv

\* What Join and Timeout have in common: the worker of the slot is over, what is
\* reported of it is true, and the parent is past it.
LEMMA ReportStep ==
  ASSUME ParallelInv, pc = "join", specs' = specs, inProcess' = inProcess, outcome' = outcome, touched' = touched,
         Advance("prompt"),
         NEW now \in {"exited", "killed"}, NEW how \in {"success", "failed", "lost", "timeout"},
         child' = [child EXCEPT ![slot] = now],
         results' = [results EXCEPT ![slot] = how],
         how \in {"success", "failed"} => outcome[slot] = how,
         how = "lost" => outcome[slot] = "none",
         how = "timeout" => outcome[slot] = "none" \/ Blocked(slot)
  PROVE  ParallelInv'
<1>1. slot \in Given /\ slot \in Slots
  BY DEF ParallelInv, ShapeInv, Given, Slots
<1>2. /\ pc' \in {"join", "prompt"} /\ slot' \in Nat /\ slot' \in Given
      /\ \/ slot = Len(specs) /\ slot' = 1 /\ pc' = "prompt"
         \/ slot < Len(specs) /\ slot' = slot + 1 /\ pc' = "join"
  BY AdvanceInv DEF ParallelInv, Steps
<1>3. \A i \in Slots : child'[i] = IF i = slot THEN now ELSE child[i]
  BY <1>1 DEF ParallelInv, ShapeInv
<1>4. \A i \in Slots : results'[i] = IF i = slot THEN how ELSE results[i]
  BY <1>1 DEF ParallelInv, ShapeInv
<1>5. ShapeInv'
  BY <1>1, <1>2, CommandSettles DEF ParallelInv, ShapeInv, Steps
<1>6. WorkersInv'
  BY <1>1, <1>2, <1>3 DEF ParallelInv, ShapeInv, WorkersInv, Over, Given, Slots
<1>7. ReportsInv'
  <2>1. \A i \in Slots : results'[i] # "none" => child'[i] \in Over
    BY <1>3, <1>4 DEF ParallelInv, ReportsInv, Over
  <2>2. \A i \in Given : i \in Slots /\ (i < slot \/ i = slot => results'[i] # "none")
    BY <1>1, <1>4 DEF ParallelInv, ShapeInv, ReportsInv, Given, Slots
  <2>3. /\ pc' = "prompt" => \A i \in Given : results'[i] # "none"
        /\ pc' = "join" => \A i \in Given : i < slot' => results'[i] # "none"
    BY <1>2, <2>2 DEF Given, ParallelInv, ShapeInv
  <2>4. \A i \in Given :
          /\ results'[i] \in {"success", "failed"} => outcome[i] = results'[i]
          /\ results'[i] = "lost" => outcome[i] = "none"
          /\ results'[i] = "timeout" => outcome[i] = "none" \/ Blocked(i)
    BY <1>4, <2>2 DEF ParallelInv, ReportsInv
  <2>5. Given' = Given /\ \A i \in Given : Blocked(i)' <=> Blocked(i)
    BY CommandSettles
  <2> QED
    BY <1>2, <2>1, <2>3, <2>4, <2>5 DEF ReportsInv
<1>8. TouchInv'
  BY CommandSettles DEF ParallelInv, TouchInv
<1>9. EndedInv'
  BY <1>2, <1>3 DEF ParallelInv, EndedInv
<1> QED
  BY <1>5, <1>6, <1>7, <1>8, <1>9 DEF ParallelInv

LEMMA JoinStep ==
  ASSUME ParallelInv, Join
  PROVE  ParallelInv'
<1> DEFINE how == IF outcome[slot] = "none" THEN "lost" ELSE outcome[slot]
<1>1. slot \in Slots
  BY DEF Join, ParallelInv, ShapeInv, Given, Slots
<1>2. how \in {"success", "failed", "lost", "timeout"}
  BY <1>1 DEF ParallelInv, ShapeInv
<1>3. child' = [child EXCEPT ![slot] = "exited"]
  BY <1>1 DEF Join, ParallelInv, ShapeInv
<1>4. how \in {"success", "failed"} => outcome[slot] = how
  OBVIOUS
<1>5. (how = "lost" => outcome[slot] = "none") /\ how # "timeout"
  BY <1>1 DEF ParallelInv, ShapeInv
<1> HIDE DEF how
<1> QED
  BY <1>2, <1>3, <1>4, <1>5, ReportStep DEF Join, how, commandVars

LEMMA TimeoutStep ==
  ASSUME ParallelInv, Timeout
  PROVE  ParallelInv'
<1>1. slot \in Slots
  BY DEF Timeout, ParallelInv, ShapeInv, Given, Slots
<1>2. outcome[slot] = "none" \/ Blocked(slot)
  BY <1>1 DEF Timeout, ParallelInv, EndedInv
<1> QED
  BY <1>2, ReportStep DEF Timeout, commandVars

\* A worker is of a kernel of the command, which has started.
LEMMA WorkerIsGiven ==
  ASSUME ParallelInv, NEW i \in Slots, child[i] \in {"running", "put"}
  PROVE  /\ i \in Given /\ results[i] = "none"
         /\ (pc = "start" /\ i < slot) \/ (pc = "join" /\ i >= slot)
<1>1. child[i] \notin Over /\ results[i] = "none" /\ i \in Nat
  BY DEF ParallelInv, ReportsInv, Over, Slots
<1>2. /\ pc \in {"start", "join"} /\ slot \in 1 .. Len(specs) /\ Len(specs) \in Nat
      /\ pc = "start" => i < slot
      /\ pc = "join" => i >= slot /\ i <= Len(specs)
  <2>1. pc \notin {"prompt", "slots"} /\ pc \in Steps
    BY <1>1 DEF ParallelInv, ShapeInv, WorkersInv, Over
  <2>2. slot \in 1 .. Len(specs) /\ Len(specs) \in Nat
    BY <2>1 DEF ParallelInv, ShapeInv, Given
  <2> QED
    BY <1>1, <2>1, <2>2 DEF ParallelInv, WorkersInv, Steps, Over
<1> QED
  BY <1>1, <1>2 DEF Given, Slots

\* A step of a worker: the parent waits, and the worker goes on or is over.
LEMMA WorkerStep ==
  ASSUME ParallelInv, NEW i \in Slots, child[i] \in {"running", "put"},
         specs' = specs, inProcess' = inProcess, pc' = pc, slot' = slot, results' = results,
         NEW now \in {"running", "put", "exited"}, child' = [child EXCEPT ![i] = now],
         NEW how \in {"none", "success", "failed"}, outcome' = [outcome EXCEPT ![i] = how],
         now = "running" => how = "none",
         TouchInv' /\ touched' \in [Arrays -> SUBSET Slots]
  PROVE  ParallelInv'
<1>1. i \in Given /\ results[i] = "none" /\ ((pc = "start" /\ i < slot) \/ (pc = "join" /\ i >= slot))
  BY WorkerIsGiven
<1>2. \A j \in Slots : child'[j] = IF j = i THEN now ELSE child[j]
  BY DEF ParallelInv, ShapeInv
<1>3. \A j \in Slots : outcome'[j] = IF j = i THEN how ELSE outcome[j]
  BY DEF ParallelInv, ShapeInv
<1>4. Given' = Given /\ \A j \in Given : j \in Slots
  BY DEF Given, Slots, ParallelInv, ShapeInv
<1>5. ShapeInv'
  BY <1>4 DEF ParallelInv, ShapeInv
<1>6. WorkersInv'
  BY <1>1, <1>2 DEF ParallelInv, ShapeInv, WorkersInv, Over, Given, Slots
<1>7. ReportsInv'
  <2>1. \A j \in Given : j # i => outcome'[j] = outcome[j] /\ (Blocked(j)' <=> Blocked(j))
    BY <1>3, <1>4, CommandSettles
  <2>2. \A j \in Given :
          /\ results[j] \in {"success", "failed"} => outcome'[j] = results[j]
          /\ results[j] = "lost" => outcome'[j] = "none"
          /\ results[j] = "timeout" => outcome'[j] = "none" \/ Blocked(j)'
    BY <1>1, <2>1 DEF ParallelInv, ReportsInv
  <2>3. \A j \in Slots : results[j] # "none" => child'[j] \in Over
    BY <1>1, <1>2 DEF ParallelInv, ReportsInv
  <2> QED
    BY <1>4, <2>2, <2>3 DEF ParallelInv, ReportsInv
<1>8. EndedInv'
  BY <1>1, <1>2, <1>3 DEF ParallelInv, EndedInv
<1> QED
  BY <1>5, <1>6, <1>7, <1>8 DEF ParallelInv

LEMMA KernelWritesStep ==
  ASSUME ParallelInv, NEW i \in Slots, KernelWrites(i)
  PROVE  ParallelInv'
<1>1. i \in Given
  BY WorkerIsGiven DEF KernelWrites
<1>2. TouchInv' /\ touched' \in [Arrays -> SUBSET Slots]
  BY <1>1, TouchStep DEF KernelWrites, commandVars
<1>3. child' = [child EXCEPT ![i] = "running"] /\ outcome' = [outcome EXCEPT ![i] = "none"]
  BY DEF KernelWrites, ParallelInv, ShapeInv, EndedInv
<1> QED
  BY <1>2, <1>3, WorkerStep DEF KernelWrites, commandVars

LEMMA KernelEndsStep ==
  ASSUME ParallelInv, NEW i \in Slots, KernelEnds(i)
  PROVE  ParallelInv'
<1>1. PICK how \in {"success", "failed"} : outcome' = [outcome EXCEPT ![i] = how]
  BY DEF KernelEnds
<1> QED
  BY <1>1, TouchedKept, WorkerStep DEF KernelEnds, commandVars

LEMMA ChildCrashesStep ==
  ASSUME ParallelInv, NEW i \in Slots, ChildCrashes(i)
  PROVE  ParallelInv'
<1>1. outcome' = [outcome EXCEPT ![i] = outcome[i]] /\ outcome[i] \in {"none", "success", "failed"}
  BY DEF ChildCrashes, ParallelInv, ShapeInv
<1> QED
  BY <1>1, TouchedKept, WorkerStep DEF ChildCrashes, commandVars

LEMMA ChildExitsStep ==
  ASSUME ParallelInv, NEW i \in Slots, ChildExits(i)
  PROVE  ParallelInv'
<1>1. outcome' = [outcome EXCEPT ![i] = outcome[i]] /\ outcome[i] \in {"none", "success", "failed"}
  BY DEF ChildExits, ParallelInv, ShapeInv
<1> QED
  BY <1>1, TouchedKept, WorkerStep DEF ChildExits, commandVars

LEMMA StutterStep ==
  ASSUME ParallelInv, UNCHANGED vars
  PROVE  ParallelInv'
<1>1. ShapeInv' /\ WorkersInv' /\ EndedInv'
  BY DEF vars, ParallelInv, ShapeInv, WorkersInv, EndedInv, Given
<1>2. ReportsInv'
  BY CommandSettles DEF vars, ParallelInv, ReportsInv
<1>3. TouchInv'
  BY TouchedKept DEF vars
<1> QED
  BY <1>1, <1>2, <1>3 DEF ParallelInv

LEMMA StepInv == ParallelInv /\ [Next]_vars => ParallelInv'
<1> SUFFICES ASSUME ParallelInv, [Next]_vars PROVE ParallelInv'
  OBVIOUS
<1>1. CASE \E n \in Slots : \E command \in [1 .. n -> Kernels] : Launch(n, command)
  BY <1>1, LaunchStep
<1>2. CASE RunSlot
  BY <1>2, RunSlotStep
<1>3. CASE StartChild
  BY <1>3, StartChildStep
<1>4. CASE Join
  BY <1>4, JoinStep
<1>5. CASE Timeout
  BY <1>5, TimeoutStep
<1>6. ASSUME NEW i \in Slots, KernelWrites(i) \/ KernelEnds(i) \/ ChildCrashes(i) \/ ChildExits(i)
      PROVE  ParallelInv'
  BY <1>6, KernelWritesStep, KernelEndsStep, ChildCrashesStep, ChildExitsStep
<1>7. CASE UNCHANGED vars
  BY <1>7, StutterStep
<1> QED
  BY <1>1, <1>2, <1>3, <1>4, <1>5, <1>6, <1>7 DEF Next
-----------------------------------------------------------------------------
\* The invariant of the command: where the parent is tells which workers there
\* are and what has been reported (parallel_launch's loops over the slots).
THEOREM CommandInvariant == Spec => []ParallelInv
<1> QED
  BY InitInv, StepInv, PTL DEF Spec

\* When the prompt is back every worker has ended or was killed: the parent
\* joins or terminates each one it started.
THEOREM NoWorkerSurvives == Spec => []NoWorkerLeft
<1>1. ParallelInv => NoWorkerLeft
  BY DEF ParallelInv, WorkersInv, NoWorkerLeft, Over
<1> QED
  BY <1>1, CommandInvariant, PTL

\* The report of every slot is true of its kernel, whatever the workers do: a
\* result is read from the queue of a process that has ended.
THEOREM ReportsAreTrue == Spec => []ResultsAreTrue
<1>1. ASSUME ParallelInv PROVE ResultsAreTrue
  <2> SUFFICES ASSUME NEW i \in Given
               PROVE  CASE results[i] \in {"success", "failed"} -> outcome[i] = results[i]
                        [] results[i] = "lost" -> outcome[i] = "none"
                        [] results[i] = "timeout" -> outcome[i] = "none" \/ Blocked(i)
                        [] results[i] = "none" -> pc # "prompt"
    BY DEF ResultsAreTrue
  <2>1. results[i] \in {"none", "success", "failed", "lost", "timeout"}
    BY <1>1 DEF ParallelInv, ShapeInv, Given, Slots
  <2> QED
    BY <1>1, <2>1 DEF ParallelInv, ReportsInv
<1> QED
  BY <1>1, CommandInvariant, PTL

\* Unless the debugger's own process runs device kernels, an array that is not a
\* marked device array is written by none of them.
THEOREM SpawnIsolates == Spec => []UnmarkedIsolated
<1>1. ASSUME ParallelInv, Mode # "device" PROVE UnmarkedIsolated
  <2> SUFFICES ASSUME NEW i \in Given, NEW a \in specs[i].args \ (specs[i].mutable \cap Cupy),
                      i \in touched[a]
               PROVE  FALSE
    BY DEF UnmarkedIsolated
  <2>1. specs[i] \in KernelSpec
    BY <1>1, KernelsAssumption DEF ParallelInv, ShapeInv, Given
  <2>2. a \in Arrays
    BY <2>1 DEF KernelSpec
  <2>3. a \in Shared(i)
    BY <1>1, <2>2 DEF ParallelInv, TouchInv
  <2>4. Shared(i) \subseteq specs[i].mutable \cap Cupy
    <3>1. Mode \in {"host", "spawn"}
      BY <1>1 DEF Mode
    <3>2. \A arrays : Unconverted(specs[i], arrays) \subseteq arrays
      BY <2>1 DEF Unconverted, KernelSpec, Spaces
    <3> QED
      BY <3>1, <3>2 DEF Shared, Ipc
  <2> QED
    BY <2>3, <2>4
<1>2. ParallelInv => UnmarkedIsolated
  BY <1>1 DEF UnmarkedIsolated
<1> QED
  BY <1>2, CommandInvariant, PTL
=============================================================================
