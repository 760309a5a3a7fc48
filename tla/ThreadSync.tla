------------------------------ MODULE ThreadSync ------------------------------
(***************************************************************************)
(* continue and step of the native helper: before the target is resumed,   *)
(* the chosen threads are brought to one program counter, the highest, by  *)
(* nexti under scheduler locking.  The kernel is a graph of addresses; gdb *)
(* is external: it takes one command at a time, so that a nexti is over    *)
(* when the next query is answered, and calls it done or running.          *)
(***************************************************************************)
EXTENDS Naturals, FiniteSetsExt

CONSTANTS
  Threads,     \* gdb's thread ids
  Ids,         \* ids a user may name, of no thread too
  Addresses,   \* of the kernel (functor.hpp), and Out
  Entry,
  Out,         \* anywhere else, where a thread without work spins
  Flow,        \* where an instruction may lead to
  Barriers,    \* instructions that wait for the other threads
  Breakpoints, \* addresses of the enabled breakpoints, in the order of their lines
  MaxTrips     \* bound on the jumps back of a thread

ASSUME ThreadsAssumption == Threads # {} /\ Threads \subseteq Ids /\ IsFiniteSet(Ids) /\ Ids \subseteq Nat
ASSUME AddressesAssumption == IsFiniteSet(Addresses) /\ Addresses \subseteq Nat /\ {Entry, Out} \subseteq Addresses
ASSUME FlowAssumption == Flow \in [Addresses -> SUBSET Addresses \ {{}}]
ASSUME BreakpointsAssumption == Breakpoints \subseteq Addresses \ {Out} /\ Breakpoints # {}
ASSUME MaxTripsAssumption == MaxTrips \in Nat

VARIABLES
  answer,   \* how this gdb answers a nexti: "done" or "running"
  pc,       \* of each thread
  trips,    \* the jumps back it has made
  at,       \* "running", "prompt", a step of _synchronize_and_continue, "blocked", "over"
  stopped,  \* the thread that hit the breakpoint
  line,     \* current_breakpoint_line, by its address
  chosen,   \* thread_ids
  initial,  \* initial_pc
  locked    \* scheduler-locking

targetVars == <<pc, trips>>
stopVars == <<stopped, line>>
syncVars == <<answer, targetVars, at, stopVars, chosen, initial, locked>>

SyncInit ==
  /\ answer \in {"done", "running"}
  /\ pc = [t \in Threads |-> Entry] /\ trips = [t \in Threads |-> 0]
  /\ at = "running"
  /\ stopped = Min(Threads) /\ line = Entry
  /\ chosen = {} /\ initial = Entry /\ locked = FALSE

-----------------------------------------------------------------------------
(* The target.                                                             *)

\* The threads ts take one instruction each, out of a loop sooner or later.
Move(ts) ==
  \E to \in [ts -> Addresses] :
    /\ \A t \in ts : to[t] \in Flow[pc[t]] /\ (to[t] < pc[t] => trips[t] < MaxTrips)
    /\ pc' = [t \in Threads |-> IF t \in ts THEN to[t] ELSE pc[t]]
    /\ trips' = [t \in Threads |-> IF t \in ts /\ to[t] < pc[t] THEN trips[t] + 1 ELSE trips[t]]

\* openmp_threads, taken at the stop.
InKernel == {t \in Threads : pc[t] # Out}

\* The target runs: a thread outside a barrier, or all of the kernel's through one; into a
\* breakpoint, it stops: _handle_workunit_breakpoint.
Run(ts) ==
  /\ at = "running"
  /\ \/ \E t \in InKernel : ts = {t} /\ pc[t] \notin Barriers
     \/ ts = InKernel /\ ts # {} /\ \A t \in ts : pc[t] \in Barriers
  /\ Move(ts)
  /\ \/ /\ \A t \in ts : pc'[t] \notin Breakpoints
        /\ UNCHANGED <<at, stopVars>>
     \/ \E t \in ts :
          /\ pc'[t] \in Breakpoints
          /\ at' = "prompt"
          /\ stopped' = t
          /\ line' = pc'[t]
  /\ UNCHANGED <<answer, chosen, initial, locked>>

-----------------------------------------------------------------------------
(* The commands.                                                           *)

\* Mutant of PCs: only the threads of the kernel count.
PCsInKernel == {pc[t] : t \in chosen \cap InKernel}

\* get_all_thread_pcs of the chosen: an id of no thread has none.
PCs == {pc[t] : t \in chosen \cap Threads}
Together == Cardinality(PCs) <= 1

\* continue or step, for the threads of the kernel or for a range: scheduler-locking on.
Command(ids) ==
  /\ at = "prompt"
  /\ chosen' = ids
  /\ locked' = TRUE
  /\ at' = "past"
  /\ UNCHANGED <<answer, targetVars, stopVars, initial>>

\* thread apply ids nexti; a thread at a barrier waits there for threads that are locked.
Nexti(ids, waiting) ==
  \/ /\ \E t \in ids : pc[t] \in Barriers
     /\ at' = "blocked"
     /\ UNCHANGED targetVars
  \/ /\ \A t \in ids : pc[t] \notin Barriers
     /\ at' = IF answer = "done" THEN waiting ELSE "behind"
     /\ Move(ids)

\* _step_all_threads_past_breakpoint, which does so when all are at one address.
StepPast ==
  /\ at = "past"
  /\ \/ /\ PCs # {} /\ Together
        /\ initial' \in PCs
        /\ Nexti(chosen \cap Threads, "left")
     \/ /\ PCs = {} \/ ~Together
        /\ at' = "behind"
        /\ UNCHANGED <<targetVars, initial>>
  /\ UNCHANGED <<answer, stopVars, chosen, locked>>

\* Its poll until all have left that address.
AllLeft ==
  /\ at = "left" /\ initial \notin PCs
  /\ at' = "wait"
  /\ UNCHANGED <<answer, targetVars, stopVars, chosen, initial, locked>>

\* _wait_for_threads_synchronized: a poll again, nothing is stepped.
Synchronized ==
  /\ at = "wait" /\ Together
  /\ at' = "behind"
  /\ UNCHANGED <<answer, targetVars, stopVars, chosen, initial, locked>>

\* Mutant of Behind: the threads ahead.
Ahead == {t \in chosen \cap Threads : \E address \in PCs : pc[t] > address}

\* behind_threads.
Behind == {t \in chosen \cap Threads : \E address \in PCs : pc[t] < address}

\* synchronize_threads_to_highest_pc: a round, or it returns.
StepBehind ==
  /\ at = "behind"
  /\ \/ Together /\ at' = "verify" /\ UNCHANGED targetVars
     \/ ~Together /\ Nexti(Behind, "wait")
  /\ UNCHANGED <<answer, stopVars, chosen, initial, locked>>

\* _verify_threads_synchronized, scheduler-locking off, and the target is resumed:
\* _at_last_active_breakpoint is False, as nothing sets _attached_mode.
Verify ==
  /\ at = "verify" /\ Together
  /\ locked' = FALSE
  /\ at' = "running"
  /\ UNCHANGED <<answer, targetVars, stopVars, chosen, initial>>

\* Ctrl-C is not an Exception: it leaves the prompt and ends the session.
KeyboardInterrupt ==
  /\ at \in {"past", "left", "wait", "behind", "verify", "blocked"}
  /\ at' = "over"
  /\ UNCHANGED <<answer, targetVars, stopVars, chosen, initial, locked>>

Ranges == {b .. e : b, e \in Ids} \ {{}}

Synchronize == StepPast \/ AllLeft \/ Synchronized \/ StepBehind \/ Verify

SyncNext ==
  \/ \E ts \in SUBSET Threads : Run(ts)
  \/ \E ids \in Ranges \cup {InKernel} : Command(ids)
  \/ Synchronize
  \/ KeyboardInterrupt

SyncSpec == SyncInit /\ [][SyncNext]_syncVars

\* A command goes on by itself.
FairSyncSpec == SyncSpec /\ WF_syncVars(Synchronize)

-----------------------------------------------------------------------------
(* Properties.                                                             *)

\* The target is resumed with the chosen threads at one address, not locked, and not before
\* the breakpoint that was hit, when the thread that hit it is among them and no loop led back.
ContinuedTogether ==
  [][at # "running" /\ at' = "running" =>
       /\ ~locked'
       /\ \A t, u \in chosen \cap Threads : pc[t] = pc[u]
       /\ stopped \in chosen => pc[stopped] >= line \/ \E u \in Threads : trips[u] > 0]_syncVars

\* A command ends, unless it steps into a barrier, or gdb answers done and one instruction
\* has not moved the threads on or not brought them together: then it polls without end.
CommandEnds ==
  (at = "past") ~>
    \/ at \in {"running", "blocked", "over"}
    \/ answer = "done" /\ at = "left" /\ initial \in PCs
    \/ answer = "done" /\ at = "wait" /\ ~Together
=============================================================================
