---------------------------- MODULE HelperProofs ----------------------------
(***************************************************************************)
(* The debugger helpers.  Breakpoints keeps BreakpointsInv, and loses no   *)
(* armed breakpoint but to the user's delete, for every set of files,      *)
(* lines, kernels and all_locs.  ThreadSync resumes threads together, for  *)
(* every control flow, number of threads and choice of breakpoints and     *)
(* barriers.  AcceleratorHelper resumes no hit the user has not seen and   *)
(* no fault on its own, for every number of hits, faults and messages      *)
(* after an attach that settles in one stop.                               *)
(***************************************************************************)
EXTENDS Breakpoints, ThreadSync, AcceleratorHelper, FiniteSetTheorems, SequenceTheorems, WellFoundedInduction, TLAPS

-----------------------------------------------------------------------------
(* Breakpoints.                                                            *)

LEMMA InitInv == Init => BreakpointsInv
  BY DEF Init, BreakpointsInv, TypeOK, ExpectedMatches, ArmedIsMapped

\* What get_cpp_locations returns is known.
LEMMA LocationsKnown ==
  /\ \A file \in Files, n \in Lines : LocationsIn(file, n) \subseteq mapping
  /\ \A n \in Lines : LocationsOf(n) \subseteq mapping
  BY DEF LocationsIn, LocationsOf

\* _update_cpp_breakpoints arms known locations only.
LEMMA UpdateMapped ==
  ASSUME ArmedIsMapped, NEW lines \in SUBSET Lines, Update(lines)
  PROVE  gdb \subseteq gdb' /\ gdb' \subseteq mapping
  BY DEF Update, ArmedIsMapped, LocationsOf

LEMMA InstallPreserves ==
  ASSUME BreakpointsInv, NEW known \in SUBSET Locations, NEW python \in SUBSET (Files \X Lines),
         InstallSpec(known, python)
  PROVE  BreakpointsInv' /\ gdb \subseteq gdb'
<1> USE DEF InstallSpec, Learn, Enabled, managerVars
<1>1. TypeOK'
  BY DEF BreakpointsInv, TypeOK
<1>2. ExpectedMatches'
  BY DEF BreakpointsInv, ExpectedMatches
<1>3. ArmedIsMapped'
  BY DEF BreakpointsInv, ArmedIsMapped
<1>4. gdb \subseteq gdb'
  OBVIOUS
<1> QED
  BY <1>1, <1>2, <1>3, <1>4 DEF BreakpointsInv

\* b arms and never disarms.
LEMMA BreakPreserves ==
  ASSUME BreakpointsInv, NEW n \in Lines, Break(n)
  PROVE  BreakpointsInv' /\ gdb \subseteq gdb'
<1> USE DEF Break
<1>1. LocationsIn(Script, n) \subseteq mapping
  BY ScriptAssumption, LocationsKnown
<1>2. TypeOK'
  BY <1>1 DEF BreakpointsInv, TypeOK
<1>3. ExpectedMatches'
  BY DEF BreakpointsInv, ExpectedMatches
<1>4. ArmedIsMapped'
  BY <1>1 DEF BreakpointsInv, ArmedIsMapped
<1>5. gdb \subseteq gdb'
  OBVIOUS
<1> QED
  BY <1>2, <1>3, <1>4, <1>5 DEF BreakpointsInv

\* d <line> disarms locations of that line only.
LEMMA DeletePreserves ==
  ASSUME BreakpointsInv, NEW n \in Lines, Delete(n)
  PROVE  BreakpointsInv' /\ \A l \in gdb \ gdb' : l.line \in continueActive \ continueActive'
<1> USE DEF Delete
<1>1. TypeOK'
  BY DEF BreakpointsInv, TypeOK
<1>2. ExpectedMatches'
  BY DEF BreakpointsInv, ExpectedMatches
<1>3. ArmedIsMapped'
  BY DEF BreakpointsInv, ArmedIsMapped
<1>4. \A l \in gdb \ gdb' : l.line = n
  BY DEF LocationsOf
<1> QED
  BY <1>1, <1>2, <1>3, <1>4 DEF BreakpointsInv

\* The commands that leave gdb's breakpoints alone or add to them.
LEMMA ModePreserves ==
  ASSUME BreakpointsInv, DeleteAll \/ Step \/ Continue
  PROVE  BreakpointsInv' /\ gdb \subseteq gdb'
<1>1. CASE DeleteAll
  BY <1>1 DEF DeleteAll, BreakpointsInv, TypeOK, ExpectedMatches, ArmedIsMapped
<1>2. CASE Step
  <2> USE <1>2 DEF Step
  <2>1. gdb \subseteq gdb' /\ gdb' \subseteq mapping
    BY AllLocsAssumption, UpdateMapped DEF BreakpointsInv
  <2>2. TypeOK'
    BY <2>1, AllLocsAssumption DEF BreakpointsInv, TypeOK
  <2>3. ExpectedMatches' /\ ArmedIsMapped'
    BY <2>1 DEF BreakpointsInv, ExpectedMatches, ArmedIsMapped
  <2> QED
    BY <2>1, <2>2, <2>3 DEF BreakpointsInv
<1>3. CASE Continue
  <2> USE <1>3 DEF Continue
  <2>1. gdb \subseteq gdb' /\ gdb' \subseteq mapping
    BY UpdateMapped DEF BreakpointsInv, TypeOK
  <2>2. TypeOK'
    BY <2>1 DEF BreakpointsInv, TypeOK
  <2>3. ExpectedMatches' /\ ArmedIsMapped'
    BY <2>1 DEF BreakpointsInv, ExpectedMatches, ArmedIsMapped
  <2> QED
    BY <2>1, <2>2, <2>3 DEF BreakpointsInv
<1> QED
  BY <1>1, <1>2, <1>3

LEMMA NextPreserves ==
  ASSUME BreakpointsInv, [Next]_vars
  PROVE  /\ BreakpointsInv'
         /\ \A l \in gdb \ gdb' : l.line \in continueActive \ continueActive'
<1>1. CASE Next
  BY <1>1, InstallPreserves, BreakPreserves, DeletePreserves, ModePreserves DEF Next, Handoff
<1>2. CASE UNCHANGED vars
  BY <1>2 DEF vars, managerVars, BreakpointsInv, TypeOK, ExpectedMatches, ArmedIsMapped
<1> QED
  BY <1>1, <1>2

\* The list always is what the mode calls for, and gdb's breakpoints are known lines.
THEOREM BreakpointsInvariance == Spec => []BreakpointsInv
  BY InitInv, NextPreserves, PTL DEF Spec

\* The manager's own check finds no difference, after any sequence of commands.
THEOREM ExpectedCorrect == Spec => []ExpectedMatches
<1>1. BreakpointsInv => ExpectedMatches
  BY DEF BreakpointsInv
<1> QED
  BY <1>1, BreakpointsInvariance, PTL

\* Every armed location can be shown as a Python line.
THEOREM MappedCorrect == Spec => []ArmedIsMapped
<1>1. BreakpointsInv => ArmedIsMapped
  BY DEF BreakpointsInv
<1> QED
  BY <1>1, BreakpointsInvariance, PTL

\* No update, step or continue disarms a breakpoint.
THEOREM LossCorrect == Spec => LostOnlyToDelete
<1>1. ASSUME BreakpointsInv, [Next]_vars
      PROVE  [\A l \in gdb \ gdb' : l.line \in continueActive \ continueActive']_vars
  BY <1>1, NextPreserves
<1> QED
  BY <1>1, BreakpointsInvariance, PTL DEF Spec, LostOnlyToDelete

-----------------------------------------------------------------------------
(* ThreadSync.                                                             *)

SyncTypeOK ==
  /\ pc \in [Threads -> Addresses] /\ trips \in [Threads -> Nat]
  /\ stopped \in Threads /\ line \in Addresses

LoopedBack == \E u \in Threads : trips[u] > 0

\* From its stop on, the thread that hit the breakpoint is not before it, unless a loop led
\* a thread back; a command under way holds the lock.
SyncInv ==
  /\ SyncTypeOK
  /\ at \notin {"running", "over"} => pc[stopped] >= line \/ LoopedBack
  /\ at \in {"past", "left", "wait", "behind", "verify", "blocked"} => locked

LEMMA LeastNat ==
  ASSUME NEW S, S \subseteq Nat, S # {}
  PROVE  Min(S) \in S /\ \A y \in S : Min(S) <= y
<1>1. \E x \in S : \A y \in S : ~(<<y, x>> \in OpToRel(<, Nat))
  BY WFMin, NatLessThanWellFounded, Zenon
<1>2. PICK x \in S : \A y \in S : ~(y < x)
  BY <1>1, Zenon DEF OpToRel
<1>3. \A y \in S : x <= y
  BY <1>2
<1> QED
  BY <1>3 DEF Min

LEMMA AtMostOne ==
  ASSUME NEW S, IsFiniteSet(S), Cardinality(S) <= 1, NEW x \in S, NEW y \in S
  PROVE  x = y
<1> SUFFICES ASSUME x # y PROVE FALSE
  OBVIOUS
<1>1. IsFiniteSet({x}) /\ Cardinality({x}) = 1
  BY FS_Singleton
<1>2. Cardinality({x} \cup {y}) = 2
  BY <1>1, FS_AddElement
<1>3. Cardinality({x} \cup {y}) <= Cardinality(S) /\ Cardinality(S) \in Nat
  BY FS_Subset, FS_CardinalityType
<1> QED
  BY <1>2, <1>3

\* An instruction leads on, or back and is counted.
LEMMA MoveOn ==
  ASSUME SyncTypeOK, NEW ts \in SUBSET Threads, Move(ts)
  PROVE  /\ pc' \in [Threads -> Addresses] /\ trips' \in [Threads -> Nat]
         /\ \A t \in Threads : pc'[t] >= pc[t] \/ LoopedBack'
         /\ LoopedBack => LoopedBack'
<1>1. PICK to \in [ts -> Addresses] :
        /\ pc' = [t \in Threads |-> IF t \in ts THEN to[t] ELSE pc[t]]
        /\ trips' = [t \in Threads |-> IF t \in ts /\ to[t] < pc[t] THEN trips[t] + 1 ELSE trips[t]]
  BY DEF Move
<1>2. \A t \in Threads : trips[t] \in Nat /\ pc[t] \in Nat /\ (t \in ts => to[t] \in Nat)
  BY AddressesAssumption DEF SyncTypeOK
<1>3. pc' \in [Threads -> Addresses] /\ trips' \in [Threads -> Nat]
  <2>1. \A t \in Threads : (IF t \in ts THEN to[t] ELSE pc[t]) \in Addresses
    BY DEF SyncTypeOK
  <2>2. \A t \in Threads : (IF t \in ts /\ to[t] < pc[t] THEN trips[t] + 1 ELSE trips[t]) \in Nat
    BY <1>2
  <2> QED
    BY <1>1, <2>1, <2>2
<1>4. ASSUME NEW t \in Threads
      PROVE  /\ pc'[t] >= pc[t] \/ trips'[t] > 0
             /\ trips[t] > 0 => trips'[t] > 0
  BY <1>1, <1>2
<1> QED
  BY <1>3, <1>4 DEF LoopedBack

\* The invariant holds while the target or the threads move, with at set to any other place.
LEMMA MovePreserves ==
  ASSUME SyncInv, at \notin {"running", "over"}, NEW ts \in SUBSET Threads, Move(ts) \/ UNCHANGED targetVars,
         UNCHANGED <<answer, stopVars, chosen, locked>>
  PROVE  SyncTypeOK' /\ (pc'[stopped'] >= line' \/ LoopedBack')
<1>1. SyncTypeOK /\ (pc[stopped] >= line \/ LoopedBack)
  BY DEF SyncInv
<1>2. CASE Move(ts)
  <2>1. /\ pc' \in [Threads -> Addresses] /\ trips' \in [Threads -> Nat]
        /\ \A t \in Threads : pc'[t] >= pc[t] \/ LoopedBack'
        /\ LoopedBack => LoopedBack'
    BY <1>1, <1>2, MoveOn
  <2>2. SyncTypeOK' /\ UNCHANGED <<stopped, line>>
    BY <1>1, <2>1 DEF SyncTypeOK, stopVars
  <2>3. pc[stopped] \in Nat /\ pc'[stopped] \in Nat /\ line \in Nat /\ stopped \in Threads
    BY <1>1, <2>1, AddressesAssumption DEF SyncTypeOK
  <2> QED
    BY <1>1, <2>1, <2>2, <2>3
<1>3. CASE UNCHANGED targetVars
  BY <1>1, <1>3 DEF SyncTypeOK, stopVars, targetVars, LoopedBack
<1> QED
  BY <1>2, <1>3

LEMMA SyncInvInit == SyncInit => SyncInv
<1> SUFFICES ASSUME SyncInit PROVE SyncInv
  OBVIOUS
<1>1. Min(Threads) \in Threads
  BY ThreadsAssumption, LeastNat
<1> QED
  BY <1>1, AddressesAssumption DEF SyncInit, SyncInv, SyncTypeOK

LEMMA RunPreserves ==
  ASSUME SyncInv, NEW ts \in SUBSET Threads, Run(ts)
  PROVE  SyncInv'
<1>1. SyncTypeOK /\ at = "running" /\ Move(ts) /\ UNCHANGED <<chosen, locked>>
  BY DEF Run, SyncInv
<1>2. pc' \in [Threads -> Addresses] /\ trips' \in [Threads -> Nat]
  BY <1>1, MoveOn
<1>3. CASE UNCHANGED <<at, stopVars>>
  BY <1>1, <1>2, <1>3 DEF SyncInv, SyncTypeOK, stopVars
<1>4. CASE \E t \in ts : at' = "prompt" /\ stopped' = t /\ line' = pc'[t]
  <2>1. PICK t \in ts : at' = "prompt" /\ stopped' = t /\ line' = pc'[t]
    BY <1>4
  <2>2. pc'[t] \in Addresses /\ pc'[t] \in Nat
    BY <1>2, AddressesAssumption
  <2>3. SyncTypeOK'
    BY <1>1, <1>2, <2>1, <2>2 DEF SyncTypeOK
  <2>4. pc'[stopped'] >= line'
    BY <2>1, <2>2
  <2> QED
    BY <2>1, <2>3, <2>4 DEF SyncInv
<1> QED
  BY <1>3, <1>4 DEF Run

LEMMA SyncInvStep ==
  ASSUME SyncInv, [SyncNext]_syncVars
  PROVE  SyncInv'
<1>1. ASSUME NEW ts \in SUBSET Threads, Run(ts)
      PROVE  SyncInv'
  BY <1>1, RunPreserves
<1>2. ASSUME NEW ids, Command(ids)
      PROVE  SyncInv'
  <2>1. /\ at = "prompt" /\ at' = "past" /\ locked' = TRUE
        /\ UNCHANGED <<pc, trips, stopped, line>>
    BY <1>2 DEF Command, targetVars, stopVars
  <2> QED
    BY <2>1 DEF SyncInv, SyncTypeOK, LoopedBack
<1>3. CASE StepPast
  <2>1. /\ at = "past" /\ at' \in {"left", "behind", "blocked"} /\ UNCHANGED <<answer, stopVars, chosen, locked>>
        /\ Move(chosen \cap Threads) \/ UNCHANGED targetVars
    BY <1>3 DEF StepPast, Nexti
  <2>2. SyncTypeOK' /\ (pc'[stopped'] >= line' \/ LoopedBack')
    BY <2>1, MovePreserves
  <2> QED
    BY <2>1, <2>2 DEF SyncInv
<1>4. CASE AllLeft \/ Synchronized
  <2>1. /\ at \in {"left", "wait"} /\ at' \in {"wait", "behind"}
        /\ UNCHANGED <<pc, trips, stopped, line, locked>>
    BY <1>4 DEF AllLeft, Synchronized, targetVars, stopVars
  <2> QED
    BY <2>1 DEF SyncInv, SyncTypeOK, LoopedBack
<1>5. CASE StepBehind
  <2>1. /\ at = "behind" /\ at' \in {"verify", "wait", "behind", "blocked"}
        /\ UNCHANGED <<answer, stopVars, chosen, locked>>
        /\ Move(Behind) \/ UNCHANGED targetVars
    BY <1>5 DEF StepBehind, Nexti
  <2>2. Behind \in SUBSET Threads
    BY DEF Behind
  <2>3. SyncTypeOK' /\ (pc'[stopped'] >= line' \/ LoopedBack')
    BY <2>1, <2>2, MovePreserves
  <2> QED
    BY <2>1, <2>3 DEF SyncInv
<1>6. CASE Verify \/ KeyboardInterrupt
  <2>1. /\ at' \in {"over", "running"}
        /\ UNCHANGED <<pc, trips, stopped, line>>
    BY <1>6 DEF Verify, KeyboardInterrupt, targetVars, stopVars
  <2> QED
    BY <2>1 DEF SyncInv, SyncTypeOK
<1>7. CASE UNCHANGED syncVars
  BY <1>7 DEF syncVars, targetVars, stopVars, SyncInv, SyncTypeOK, LoopedBack
<1> QED
  BY <1>1, <1>2, <1>3, <1>4, <1>5, <1>6, <1>7 DEF SyncNext, Synchronize

\* The threads that _verify_threads_synchronized lets through are at one address.
LEMMA AtOneAddress ==
  ASSUME SyncTypeOK, Together, NEW t \in chosen \cap Threads, NEW u \in chosen \cap Threads
  PROVE  pc[t] = pc[u]
<1>1. PCs \subseteq Addresses /\ pc[t] \in PCs /\ pc[u] \in PCs
  BY DEF PCs, SyncTypeOK
<1>2. IsFiniteSet(PCs)
  BY <1>1, AddressesAssumption, FS_Subset
<1> QED
  BY <1>1, <1>2, AtMostOne DEF Together

LEMMA ResumedTogether ==
  ASSUME SyncInv, [SyncNext]_syncVars, at # "running", at' = "running"
  PROVE  /\ ~locked'
         /\ \A t, u \in chosen \cap Threads : pc[t] = pc[u]
         /\ stopped \in chosen => pc[stopped] >= line \/ \E u \in Threads : trips[u] > 0
<1>1. Verify
  BY DEF SyncNext, Synchronize, Run, Command, StepPast, Nexti, AllLeft, Synchronized, StepBehind,
         KeyboardInterrupt, syncVars
<1>2. SyncTypeOK /\ Together /\ ~locked' /\ (pc[stopped] >= line \/ LoopedBack)
  BY <1>1 DEF Verify, SyncInv
<1> QED
  BY <1>2, AtOneAddress DEF LoopedBack

\* While a command synchronises, the thread that hit the breakpoint is not before it unless
\* a loop led a thread back, and the scheduler is locked (_synchronize_and_continue).
THEOREM SyncInvariance == SyncSpec => []SyncInv
<1> QED
  BY SyncInvInit, SyncInvStep, PTL DEF SyncSpec

\* The target is resumed with the chosen threads at one address, unlocked, and not before
\* the breakpoint that was hit.
THEOREM ResumesTogether == SyncSpec => ContinuedTogether
<1>1. ASSUME SyncInv, [SyncNext]_syncVars
      PROVE  [at # "running" /\ at' = "running" =>
               /\ ~locked'
               /\ \A t, u \in chosen \cap Threads : pc[t] = pc[u]
               /\ stopped \in chosen => pc[stopped] >= line \/ \E u \in Threads : trips[u] > 0]_syncVars
  BY <1>1, ResumedTogether
<1> QED
  BY <1>1, SyncInvariance, PTL DEF SyncSpec, ContinuedTogether

-----------------------------------------------------------------------------
(* AcceleratorHelper.                                                      *)

Output == {"stopped", "result", "prompt", "accepted", "refused", "signal", "hit", "fault", "exit"}
Commands == {Sending("attach", "attach"), Sending("echo", "none"), Sending("ask", "none")}
            \cup {Sending("continue", by) : by \in {"resume", "user", "update"}}
            \cup {Sending("detach", by) : by \in {"detach", "quit"}}

\* Typing, and an answer is waited for only in an exchange.
AccTypeOK ==
  /\ target \in {"free", "settling", "stopped", "running", "exited"}
  /\ todo \in Seq(Commands) /\ out \in Seq(Output)
  /\ settles \in Nat
  /\ pending \in BOOLEAN /\ faultSeen \in BOOLEAN /\ signalSeen \in BOOLEAN /\ stopSeen \in BOOLEAN
  /\ phase \in {"loop", "prompt", "interrupt", "ended"} => lacks = {}

\* How many exec-continue a queue of commands holds.
NoContinue(q) == \A c \in ToSet(q) : c.name # "continue"
OneContinue(q) == \A i, j \in DOMAIN q : q[i].name = "continue" /\ q[j].name = "continue" => i = j

\* What the loop makes of lines it has not read: of a stop that comes after one of these
\* it does not resume.
Decisive == {"accepted", "fault", "hit", "exit"}
Ready(lines) == \E i \in DOMAIN lines : lines[i] = "stopped" /\ \A j \in 1..(i - 1) : lines[j] \notin Decisive
Over(lines) == ~Ready(lines) /\ \E i \in DOMAIN lines : lines[i] \in Decisive

\* The attach: what is under way before it is done, before the loop, and before its first
\* stop by a signal.
AttachInv ==
  /\ \A c \in ToSet(todo) : c.name = "attach" => target = "free" /\ phase = "attach"
  /\ phase = "attach" => update = "none"
  /\ phase = "attach" /\ target = "free" =>
       /\ todo = <<Sending("attach", "attach")>> /\ out = <<>> /\ lacks # {}
       /\ settles = 0 /\ ~signalSeen /\ ~stopSeen /\ why = "attach" /\ ~interrupted
  /\ phase \in {"attach", "install"} /\ update = "none" =>
       /\ NoContinue(todo) /\ target # "running" /\ why \in {"attach", "settle", "early"}
       /\ "hit" \notin ToSet(out)
  /\ update = "install" => target # "settling"
  /\ target = "settling" /\ settles = 0 =>
       /\ NoContinue(todo) /\ ~signalSeen /\ ~stopSeen /\ "signal" \notin ToSet(out)
       /\ phase # "attach" => "stopped" \notin ToSet(out)

\* Who has an exec-continue under way, and where the target is meanwhile.
SentInv ==
  /\ OneContinue(todo)
  /\ target = "running" => NoContinue(todo)
  /\ phase \in {"install", "show", "prompt"} \/ (phase = "interrupt" /\ update = "install") => NoContinue(todo)
  /\ \A c \in ToSet(todo) : c.name = "detach" => phase \in {"detach", "ended"}
  /\ phase = "install" /\ target = "running" => "result" \in lacks /\ "result" \notin ToSet(out)
  /\ \A c \in ToSet(todo) : c = Sending("continue", "resume") => why \notin {"hit", "fault"}
  /\ \A c \in ToSet(todo) : c = Sending("continue", "user") => shown /\ why = "hit" /\ target # "settling"

\* A hit the helper is about to show, or shows.
HitInv ==
  /\ phase \in {"show", "prompt"} => target = "stopped" /\ why = "hit" /\ ~pending
  /\ phase = "prompt" => shown
  /\ phase = "loop" /\ "hit" \in ToSet(out) => target = "stopped" /\ why = "hit" /\ NoContinue(todo)

\* The resume after the attach.
ResumeInv ==
  phase = "loop" /\ pending /\ ~faultSeen =>
    /\ Ready(out) => NoContinue(todo) /\ why \notin {"hit", "fault"}
    /\ target = "running" => Over(out)

AccInv == AccTypeOK /\ (settles <= 1 => AttachInv /\ SentInv /\ HitInv /\ ResumeInv)

-----------------------------------------------------------------------------
(* Sequences of commands and lines.                                        *)

LEMMA Joined ==
  ASSUME NEW S, NEW s \in Seq(S), NEW t \in Seq(S)
  PROVE  s \o t \in Seq(S) /\ ToSet(s \o t) = ToSet(s) \cup ToSet(t)
<1>1. s \o t \in Seq(S) /\ Len(s \o t) = Len(s) + Len(t)
      /\ \A i \in 1..(Len(s) + Len(t)) : (s \o t)[i] = IF i <= Len(s) THEN s[i] ELSE t[i - Len(s)]
  BY ConcatProperties
<1>2. DOMAIN (s \o t) = 1..(Len(s) + Len(t)) /\ DOMAIN s = 1..Len(s) /\ DOMAIN t = 1..Len(t)
      /\ Len(s) \in Nat /\ Len(t) \in Nat
  BY <1>1
<1>3. ASSUME NEW i \in DOMAIN (s \o t) PROVE (s \o t)[i] \in ToSet(s) \cup ToSet(t)
  <2>1. CASE i <= Len(s)
    BY <1>1, <1>2, <2>1 DEF ToSet
  <2>2. CASE i > Len(s)
    <3>1. i - Len(s) \in DOMAIN t /\ (s \o t)[i] = t[i - Len(s)]
      BY <1>1, <1>2, <2>2
    <3> QED
      BY <3>1 DEF ToSet
  <2> QED
    BY <1>2, <2>1, <2>2
<1>4. ASSUME NEW i \in DOMAIN s PROVE s[i] \in ToSet(s \o t)
  <2>1. i \in DOMAIN (s \o t) /\ (s \o t)[i] = s[i]
    BY <1>1, <1>2
  <2> QED
    BY <2>1 DEF ToSet
<1>5. ASSUME NEW i \in DOMAIN t PROVE t[i] \in ToSet(s \o t)
  <2>1. Len(s) + i \in DOMAIN (s \o t) /\ (s \o t)[Len(s) + i] = t[i]
    BY <1>1, <1>2
  <2> QED
    BY <2>1 DEF ToSet
<1>6. ToSet(s \o t) \subseteq ToSet(s) \cup ToSet(t)
  BY <1>3 DEF ToSet
<1>7. ToSet(s) \subseteq ToSet(s \o t) /\ ToSet(t) \subseteq ToSet(s \o t)
  BY <1>4, <1>5 DEF ToSet
<1> QED
  BY <1>1, <1>6, <1>7

LEMMA Taken ==
  ASSUME NEW S, NEW s \in Seq(S), s # <<>>
  PROVE  Head(s) \in S /\ Tail(s) \in Seq(S) /\ ToSet(s) = {Head(s)} \cup ToSet(Tail(s))
<1>1. /\ Head(s) = s[1] /\ Head(s) \in S /\ Tail(s) \in Seq(S) /\ Len(Tail(s)) = Len(s) - 1
      /\ \A i \in 1..Len(Tail(s)) : Tail(s)[i] = s[i + 1]
  BY HeadTailProperties
<1>2. DOMAIN s = 1..Len(s) /\ DOMAIN Tail(s) = 1..(Len(s) - 1) /\ Len(s) \in Nat /\ Len(s) >= 1
  BY <1>1
<1>3. ASSUME NEW i \in DOMAIN s PROVE s[i] \in {Head(s)} \cup ToSet(Tail(s))
  <2>1. CASE i = 1
    BY <1>1, <2>1
  <2>2. CASE i # 1
    <3>1. i - 1 \in DOMAIN Tail(s) /\ Tail(s)[i - 1] = s[i]
      BY <1>1, <1>2, <2>2
    <3> QED
      BY <3>1 DEF ToSet
  <2> QED
    BY <2>1, <2>2
<1>4. ASSUME NEW i \in DOMAIN Tail(s) PROVE Tail(s)[i] \in ToSet(s)
  <2>1. i + 1 \in DOMAIN s /\ Tail(s)[i] = s[i + 1]
    BY <1>1, <1>2
  <2> QED
    BY <2>1 DEF ToSet
<1>5. Head(s) \in ToSet(s)
  BY <1>1, <1>2 DEF ToSet
<1> QED
  BY <1>1, <1>3, <1>4, <1>5 DEF ToSet

LEMMA Typed ==
  ASSUME NEW S, NEW s \in Seq(S)
  PROVE  ToSet(s) \subseteq S
BY DEF ToSet

LEMMA Literals ==
  /\ ToSet(<<>>) = {}
  /\ \A x : ToSet(<<x>>) = {x}
  /\ \A x, y : ToSet(<<x, y>>) = {x, y}
  /\ \A x, y, z : ToSet(<<x, y, z>>) = {x, y, z}
  /\ \A w, x, y, z : ToSet(<<w, x, y, z>>) = {w, x, y, z}
BY DEF ToSet

\* A command is taken: at most one exec-continue stays at most one, and if it was taken
\* none is left.
LEMMA TakeOne ==
  ASSUME NEW q \in Seq(Commands), q # <<>>, OneContinue(q)
  PROVE  OneContinue(Tail(q)) /\ (Head(q).name = "continue" => NoContinue(Tail(q)))
<1>1. /\ Head(q) = q[1] /\ Len(Tail(q)) = Len(q) - 1
      /\ \A i \in 1..Len(Tail(q)) : Tail(q)[i] = q[i + 1]
  BY HeadTailProperties
<1>2. Tail(q) \in Seq(Commands)
  BY HeadTailProperties
<1>3. DOMAIN q = 1..Len(q) /\ DOMAIN Tail(q) = 1..(Len(q) - 1) /\ Len(q) \in Nat /\ Len(q) >= 1
  BY <1>1, <1>2
<1>4. \A i \in DOMAIN Tail(q) : i + 1 \in DOMAIN q /\ i + 1 # 1 /\ Tail(q)[i] = q[i + 1] /\ i \in Nat
  BY <1>1, <1>3
<1>5. 1 \in DOMAIN q
  BY <1>3
<1>6. OneContinue(Tail(q))
  <2> SUFFICES ASSUME NEW i \in DOMAIN Tail(q), NEW j \in DOMAIN Tail(q),
                      Tail(q)[i].name = "continue", Tail(q)[j].name = "continue"
               PROVE  i = j
    BY DEF OneContinue
  <2>1. i + 1 = j + 1
    BY <1>4 DEF OneContinue
  <2> QED
    BY <1>4, <2>1
<1>7. ASSUME Head(q).name = "continue", NEW i \in DOMAIN Tail(q)
      PROVE  Tail(q)[i].name # "continue"
  BY <1>1, <1>4, <1>5, <1>7 DEF OneContinue
<1> QED
  BY <1>6, <1>7 DEF NoContinue, ToSet

\* A command is sent.
LEMMA SendOne ==
  ASSUME NEW q \in Seq(Commands), NEW c \in Commands
  PROVE  /\ q \o <<c>> \in Seq(Commands)
         /\ ToSet(q \o <<c>>) = ToSet(q) \cup {c}
         /\ Append(q, c) = q \o <<c>>
         /\ OneContinue(q) /\ (NoContinue(q) \/ c.name # "continue") => OneContinue(q \o <<c>>)
<1>2. q \o <<c>> \in Seq(Commands) /\ ToSet(q \o <<c>>) = ToSet(q) \cup {c}
  <2> DEFINE r == <<c>>
  <2>1. r \in Seq(Commands) /\ ToSet(r) = {c}
    BY Literals
  <2> HIDE DEF r
  <2>2. q \o r \in Seq(Commands) /\ ToSet(q \o r) = ToSet(q) \cup {c}
    BY <2>1, Joined
  <2> QED
    BY <2>2 DEF r
<1>3. Append(q, c) = q \o <<c>>
  BY AppendIsConcat
<1>4. /\ Len(q) \in Nat /\ DOMAIN q = 1..Len(q) /\ DOMAIN Append(q, c) = 1..(Len(q) + 1)
      /\ \A i \in 1..Len(q) : Append(q, c)[i] = q[i]
      /\ Append(q, c)[Len(q) + 1] = c
  BY AppendProperties
<1>5. ASSUME OneContinue(q), NoContinue(q) \/ c.name # "continue",
             NEW i \in DOMAIN Append(q, c), NEW j \in DOMAIN Append(q, c),
             Append(q, c)[i].name = "continue", Append(q, c)[j].name = "continue"
      PROVE  i = j
  <2>1. CASE i \in DOMAIN q /\ j \in DOMAIN q
    BY <1>4, <1>5, <2>1 DEF OneContinue
  <2>2. CASE i \notin DOMAIN q /\ j \notin DOMAIN q
    BY <1>4, <2>2
  <2>3. CASE (i \in DOMAIN q) # (j \in DOMAIN q)
    <3>1. (i = Len(q) + 1 /\ j \in DOMAIN q) \/ (j = Len(q) + 1 /\ i \in DOMAIN q)
      BY <1>4, <2>3
    <3>2. c.name = "continue" /\ \E k \in DOMAIN q : q[k].name = "continue"
      BY <1>4, <1>5, <3>1
    <3> QED
      BY <1>5, <3>2 DEF NoContinue, ToSet
  <2> QED
    BY <2>1, <2>2, <2>3
<1> QED
  BY <1>2, <1>3, <1>5 DEF OneContinue

\* Lines are printed behind others.
LEMMA Printed ==
  ASSUME NEW s \in Seq(Output), NEW t \in Seq(Output)
  PROVE  /\ Ready(s \o t) => Ready(s) \/ Ready(t)
         /\ Over(s) => Over(s \o t)
         /\ ~Ready(s) /\ ~Ready(t) /\ ToSet(t) \cap Decisive # {} => Over(s \o t)
<1>1. s \o t \in Seq(Output) /\ Len(s \o t) = Len(s) + Len(t)
      /\ \A i \in 1..(Len(s) + Len(t)) : (s \o t)[i] = IF i <= Len(s) THEN s[i] ELSE t[i - Len(s)]
  BY ConcatProperties
<1>2. DOMAIN (s \o t) = 1..(Len(s) + Len(t)) /\ DOMAIN s = 1..Len(s) /\ DOMAIN t = 1..Len(t)
      /\ Len(s) \in Nat /\ Len(t) \in Nat
  BY <1>1
<1>3. ASSUME NEW i \in DOMAIN (s \o t), (s \o t)[i] = "stopped", \A j \in 1..(i - 1) : (s \o t)[j] \notin Decisive
      PROVE  Ready(s) \/ (Ready(t) /\ \A j \in DOMAIN s : s[j] \notin Decisive)
  <2>1. CASE i <= Len(s)
    <3>1. i \in DOMAIN s /\ s[i] = "stopped"
      BY <1>1, <1>2, <1>3, <2>1
    <3>2. \A j \in 1..(i - 1) : s[j] \notin Decisive
      BY <1>1, <1>2, <1>3, <2>1
    <3> QED
      BY <3>1, <3>2 DEF Ready
  <2>2. CASE i > Len(s)
    <3>1. i - Len(s) \in DOMAIN t /\ t[i - Len(s)] = "stopped"
      BY <1>1, <1>2, <1>3, <2>2
    <3>2. ASSUME NEW j \in 1..(i - Len(s) - 1) PROVE t[j] \notin Decisive
      <4>1. j + Len(s) \in 1..(i - 1) /\ j + Len(s) \in 1..(Len(s) + Len(t)) /\ j + Len(s) > Len(s)
            /\ (j + Len(s)) - Len(s) = j
        BY <1>2, <2>2
      <4>2. (s \o t)[j + Len(s)] = t[j]
        BY <1>1, <1>2, <4>1
      <4> QED
        BY <1>3, <4>1, <4>2
    <3>3. ASSUME NEW j \in DOMAIN s PROVE s[j] \notin Decisive
      <4>1. j \in 1..(i - 1) /\ (s \o t)[j] = s[j]
        BY <1>1, <1>2, <2>2
      <4> QED
        BY <1>3, <4>1
    <3> QED
      BY <3>1, <3>2, <3>3 DEF Ready
  <2> QED
    BY <1>2, <2>1, <2>2
<1>4. Ready(s \o t) => Ready(s) \/ (Ready(t) /\ \A j \in DOMAIN s : s[j] \notin Decisive)
  BY <1>3 DEF Ready
<1>5. ASSUME NEW i \in DOMAIN s PROVE i \in DOMAIN (s \o t) /\ (s \o t)[i] = s[i]
  BY <1>1, <1>2
<1>6. ASSUME NEW i \in DOMAIN t PROVE \E j \in DOMAIN (s \o t) : (s \o t)[j] = t[i]
  <2>1. Len(s) + i \in DOMAIN (s \o t) /\ (s \o t)[Len(s) + i] = t[i]
    BY <1>1, <1>2
  <2> QED
    BY <2>1
<1> QED
  BY <1>4, <1>5, <1>6 DEF Over, ToSet

\* The line the loop reads first.
LEMMA FirstLine ==
  ASSUME NEW s \in Seq(Output), s # <<>>
  PROVE  /\ Head(s) = "stopped" => Ready(s)
         /\ Head(s) \notin Decisive => (Ready(Tail(s)) => Ready(s))
         /\ Head(s) \notin Decisive => (Over(s) => Over(Tail(s)))
<1>1. /\ Head(s) = s[1] /\ Len(Tail(s)) = Len(s) - 1 /\ Tail(s) \in Seq(Output)
      /\ \A i \in 1..Len(Tail(s)) : Tail(s)[i] = s[i + 1]
  BY HeadTailProperties
<1>2. DOMAIN s = 1..Len(s) /\ DOMAIN Tail(s) = 1..(Len(s) - 1) /\ Len(s) \in Nat /\ Len(s) >= 1
  BY <1>1
<1>3. \A i \in DOMAIN Tail(s) : i + 1 \in DOMAIN s /\ Tail(s)[i] = s[i + 1]
  BY <1>1, <1>2
<1>4. Head(s) = "stopped" => Ready(s)
  <2> SUFFICES ASSUME Head(s) = "stopped" PROVE Ready(s)
    OBVIOUS
  <2>1. 1 \in DOMAIN s /\ s[1] = "stopped" /\ 1..(1 - 1) = {}
    BY <1>1, <1>2
  <2> QED
    BY <2>1 DEF Ready
<1>5. ASSUME Head(s) \notin Decisive, NEW i \in DOMAIN Tail(s), Tail(s)[i] = "stopped",
             \A j \in 1..(i - 1) : Tail(s)[j] \notin Decisive
      PROVE  Ready(s)
  <2>1. i + 1 \in DOMAIN s /\ s[i + 1] = "stopped"
    BY <1>3, <1>5
  <2>2. ASSUME NEW j \in 1..((i + 1) - 1) PROVE s[j] \notin Decisive
    <3>1. CASE j = 1
      BY <1>1, <1>5, <3>1
    <3>2. CASE j # 1
      <4>1. j - 1 \in 1..(i - 1) /\ j - 1 \in 1..Len(Tail(s)) /\ (j - 1) + 1 = j
        BY <1>1, <1>2, <3>2
      <4> QED
        BY <1>1, <1>5, <4>1
    <3> QED
      BY <3>1, <3>2
  <2> QED
    BY <2>1, <2>2 DEF Ready
<1>6. Head(s) \notin Decisive => (Ready(Tail(s)) => Ready(s))
  BY <1>5 DEF Ready
<1>7. ASSUME Head(s) \notin Decisive, NEW i \in DOMAIN s, s[i] \in Decisive
      PROVE  \E j \in DOMAIN Tail(s) : Tail(s)[j] \in Decisive
  <2>1. i - 1 \in DOMAIN Tail(s) /\ (i - 1) + 1 = i
    BY <1>1, <1>2, <1>7
  <2> QED
    BY <1>1, <1>2, <1>7, <2>1
<1> QED
  BY <1>4, <1>6, <1>7 DEF Over

\* What is printed, and how it adds to lines that wait.
Adds(s, t) ==
  /\ s \o t \in Seq(Output)
  /\ ToSet(s \o t) = ToSet(s) \cup ToSet(t)
  /\ Ready(s \o t) => Ready(s) \/ Ready(t)
  /\ Over(s) => Over(s \o t)
  /\ ~Ready(s) /\ ~Ready(t) /\ ToSet(t) \cap Decisive # {} => Over(s \o t)

LEMMA LinesAdd ==
  ASSUME NEW s \in Seq(Output), NEW t \in Seq(Output)
  PROVE  Adds(s, t)
BY Joined, Printed DEF Adds

LEMMA LinesReady ==
  /\ ~Ready(<<>>) /\ ~Ready(<<"accepted">>) /\ ~Ready(<<"refused", "prompt">>) /\ ~Ready(<<"result">>)
  /\ ~Ready(<<"prompt">>) /\ ~Ready(<<"result", "prompt">>) /\ ~Ready(<<"hit", "stopped", "prompt">>)
  /\ ~Ready(<<"signal", "fault", "stopped", "prompt">>) /\ ~Ready(<<"exit", "prompt">>)
<1>1. ~Ready(<<>>) /\ ~Ready(<<"accepted">>) /\ ~Ready(<<"result">>) /\ ~Ready(<<"prompt">>)
  BY DEF Ready
<1>2. ~Ready(<<"refused", "prompt">>) /\ ~Ready(<<"result", "prompt">>) /\ ~Ready(<<"exit", "prompt">>)
  BY DEF Ready
<1>3. ~Ready(<<"hit", "stopped", "prompt">>)
  BY DEF Ready, Decisive
<1>4. ~Ready(<<"signal", "fault", "stopped", "prompt">>)
  BY DEF Ready, Decisive
<1> QED
  BY <1>1, <1>2, <1>3, <1>4

LEMMA Prints ==
  ASSUME AccTypeOK
  PROVE  /\ Adds(out, <<>>) /\ Adds(out, <<"accepted">>) /\ Adds(out, <<"refused", "prompt">>)
         /\ Adds(out, <<"result">>) /\ Adds(out, <<"prompt">>) /\ Adds(out, <<"result", "prompt">>)
         /\ Adds(out, <<"stopped", "result", "prompt">>) /\ Adds(out, <<"signal", "stopped", "prompt">>)
         /\ Adds(out, <<"hit", "stopped", "prompt">>) /\ Adds(out, <<"signal", "fault", "stopped", "prompt">>)
         /\ Adds(out, <<"exit", "prompt">>)
<1>1. out \in Seq(Output)
  BY DEF AccTypeOK
<1>2. /\ <<>> \in Seq(Output) /\ <<"accepted">> \in Seq(Output) /\ <<"refused", "prompt">> \in Seq(Output)
      /\ <<"result">> \in Seq(Output) /\ <<"prompt">> \in Seq(Output) /\ <<"result", "prompt">> \in Seq(Output)
      /\ <<"stopped", "result", "prompt">> \in Seq(Output) /\ <<"signal", "stopped", "prompt">> \in Seq(Output)
  BY DEF Output
<1>3. /\ <<"hit", "stopped", "prompt">> \in Seq(Output) /\ <<"signal", "fault", "stopped", "prompt">> \in Seq(Output)
      /\ <<"exit", "prompt">> \in Seq(Output)
  BY DEF Output
<1> QED
  BY <1>1, <1>2, <1>3, LinesAdd

LEMMA AccInvInit == AccInit => AccInv
<1> SUFFICES ASSUME AccInit PROVE AccInv
  OBVIOUS
<1> DEFINE c == Sending("attach", "attach")
<1>1. todo = <<c>> /\ todo \in Seq(Commands) /\ ToSet(todo) = {c} /\ DOMAIN todo = {1} /\ c.name = "attach"
  BY Literals DEF AccInit, Commands, Sending
<1>2. out = <<>> /\ out \in Seq(Output) /\ ToSet(out) = {}
  BY Literals DEF AccInit
<1>3. AccTypeOK
  BY <1>1, <1>2 DEF AccInit, AccTypeOK
<1>4. NoContinue(todo) /\ OneContinue(todo)
  BY <1>1 DEF NoContinue, OneContinue
<1>5. AttachInv
  BY <1>1, <1>2, <1>4 DEF AccInit, AttachInv
<1>6. SentInv
  <2>1. c # Sending("continue", "resume") /\ c # Sending("continue", "user")
    BY <1>1 DEF Sending
  <2> QED
    BY <1>1, <1>2, <1>4, <2>1 DEF AccInit, SentInv
<1>7. HitInv /\ ResumeInv
  BY DEF AccInit, HitInv, ResumeInv
<1> QED
  BY <1>3, <1>5, <1>6, <1>7 DEF AccInv

\* A line is read.
LEMMA ReadFacts ==
  ASSUME AccTypeOK, out # <<>>
  PROVE  /\ Tail(out) \in Seq(Output) /\ Head(out) \in Output
         /\ ToSet(out) = {Head(out)} \cup ToSet(Tail(out))
         /\ ToSet(<<Head(out)>>) = {Head(out)}
BY Taken, Literals DEF AccTypeOK

\* Tracking keeps the flags of the attach off while no line tells of a signal.
LEMMA TrackFacts ==
  ASSUME AccTypeOK, NEW lines \in Seq(Output), Track(lines)
  PROVE  /\ signalSeen' \in BOOLEAN /\ stopSeen' \in BOOLEAN
         /\ ~signalSeen /\ "signal" \notin ToSet(lines) => ~signalSeen' /\ (~stopSeen => ~stopSeen')
<1>1. signalSeen' \in BOOLEAN /\ stopSeen' \in BOOLEAN
  BY DEF Track, AccTypeOK
<1>2. ASSUME ~signalSeen, "signal" \notin ToSet(lines)
      PROVE  ~signalSeen' /\ (~stopSeen => ~stopSeen')
  <2>1. \A i \in DOMAIN lines : \A j \in 1..i : j \in DOMAIN lines
    OBVIOUS
  <2>2. \A j \in DOMAIN lines : lines[j] # "signal"
    BY <1>2 DEF ToSet
  <2> QED
    BY <1>2, <2>1, <2>2 DEF Track
<1> QED
  BY <1>1, <1>2

-----------------------------------------------------------------------------
(* Each action preserves the invariant: the debugger and its target.       *)

\* The attach is taken: nothing else is under way.
LEMMA AttachTaken ==
  ASSUME AccInv, TakeCommand, Head(todo).name = "attach", Stop("settling", "attach", <<"stopped", "result", "prompt">>)
  PROVE  AccInv'
<1>1. AccTypeOK /\ todo # <<>> /\ todo' = Tail(todo) /\ settles' = settles
      /\ UNCHANGED <<interrupted, pushes, phase, lacks, pending, faultSeen, signalSeen, stopSeen, update>>
      /\ target' = "settling" /\ why' = "attach" /\ shown' = FALSE /\ out' = out \o <<"stopped", "result", "prompt">>
  BY DEF TakeCommand, Stop, AccInv, helperVars, resumeVars, attachVars
<1>2. Head(todo) \in ToSet(todo) /\ todo' \in Seq(Commands)
  BY <1>1, Taken DEF AccTypeOK
<1>3. out' \in Seq(Output) /\ ToSet(out') = ToSet(out) \cup {"stopped", "result", "prompt"}
  BY <1>1, Prints, Literals DEF Adds
<1>4. AccTypeOK'
  BY <1>1, <1>2, <1>3 DEF AccTypeOK
<1>5. ASSUME settles <= 1
      PROVE  AttachInv' /\ SentInv' /\ HitInv' /\ ResumeInv'
  <2>1. AttachInv
    BY <1>5 DEF AccInv
  <2>2. phase = "attach" /\ target = "free"
    BY <1>2, <2>1 DEF AttachInv
  <2>3. todo = <<Sending("attach", "attach")>> /\ ToSet(out) = {} /\ ~signalSeen /\ ~stopSeen /\ update = "none" /\ lacks # {}
    BY <2>1, <2>2, Literals DEF AttachInv
  <2>4. todo' = <<>> /\ ToSet(todo') = {} /\ DOMAIN todo' = {}
    BY <1>1, <2>3, Literals
  <2>5. NoContinue(todo') /\ OneContinue(todo')
    BY <2>4 DEF NoContinue, OneContinue
  <2> QED
    BY <1>1, <1>3, <2>2, <2>3, <2>4, <2>5 DEF AttachInv, SentInv, HitInv, ResumeInv
<1> QED
  BY <1>1, <1>4, <1>5 DEF AccInv

LEMMA TakenFacts ==
  ASSUME AccTypeOK, TakeCommand
  PROVE  /\ todo # <<>> /\ todo' = Tail(todo) /\ todo' \in Seq(Commands) /\ Head(todo) \in Commands
         /\ ToSet(todo) = {Head(todo)} \cup ToSet(todo')
         /\ NoContinue(todo) => NoContinue(todo') /\ Head(todo).name # "continue"
         /\ OneContinue(todo) => OneContinue(todo')
         /\ OneContinue(todo) /\ Head(todo).name = "continue" => NoContinue(todo')
         /\ target # "running" /\ phase # "ended"
         /\ UNCHANGED <<interrupted, settles, pushes, phase, lacks, pending, faultSeen, signalSeen, stopSeen, update>>
<1>1. todo \in Seq(Commands) /\ todo # <<>> /\ todo' = Tail(todo)
      /\ target # "running" /\ phase # "ended"
      /\ UNCHANGED <<interrupted, settles, pushes, phase, lacks, pending, faultSeen, signalSeen, stopSeen, update>>
  BY DEF TakeCommand, AccTypeOK, helperVars, resumeVars, attachVars
<1>2. todo' \in Seq(Commands) /\ Head(todo) \in Commands /\ ToSet(todo) = {Head(todo)} \cup ToSet(todo')
  BY <1>1, Taken
<1>3. NoContinue(todo) => NoContinue(todo') /\ Head(todo).name # "continue"
  BY <1>2 DEF NoContinue
<1> QED
  BY <1>1, <1>2, <1>3, TakeOne

\* The continue is accepted: the loop, if it is in it, makes nothing of what was printed.
LEMMA ContinueAccepted ==
  ASSUME AccInv, TakeCommand, Head(todo).name = "continue", target = "stopped", Answer("running", <<"accepted">>)
  PROVE  AccInv'
<1>1. AccTypeOK /\ target' = "running" /\ out' = out \o <<"accepted">> /\ UNCHANGED <<why, shown>>
  BY DEF AccInv, Answer
<1>2. out' \in Seq(Output) /\ ToSet(out') = ToSet(out) \cup {"accepted"} /\ (~Ready(out) => Over(out'))
  <2> DEFINE lines == <<"accepted">>
  <2>1. Adds(out, lines) /\ ~Ready(lines) /\ ToSet(lines) = {"accepted"} /\ out' = out \o lines
    BY <1>1, Prints, Literals, LinesReady
  <2> HIDE DEF lines
  <2> QED
    BY <2>1 DEF Adds, Decisive
<1>3. AccTypeOK'
  BY <1>1, <1>2, TakenFacts DEF AccTypeOK
<1>4. ASSUME settles <= 1
      PROVE  AttachInv' /\ SentInv' /\ HitInv' /\ ResumeInv'
  <2>1. AttachInv /\ SentInv /\ HitInv /\ ResumeInv
    BY <1>4 DEF AccInv
  <2>2. ~NoContinue(todo)
    BY <1>1, TakenFacts DEF NoContinue
  <2>3. NoContinue(todo') /\ OneContinue(todo') /\ ToSet(todo') \subseteq ToSet(todo)
    BY <1>1, <2>1, TakenFacts DEF SentInv
  <2>4. phase \notin {"attach", "install", "show", "prompt"} \/ (phase = "install" /\ update # "none")
    BY <2>1, <2>2 DEF AttachInv, SentInv
  <2>5. phase \notin {"install", "show", "prompt"} /\ ~(phase = "interrupt" /\ update = "install")
        /\ (phase = "loop" => "hit" \notin ToSet(out))
    BY <2>1, <2>2 DEF SentInv, HitInv
  <2>6. phase = "loop" /\ pending /\ ~faultSeen => Over(out')
    BY <1>2, <2>1, <2>2 DEF ResumeInv
  <2>7. AttachInv' /\ SentInv'
    BY <1>1, <1>2, <2>1, <2>3, <2>4, <2>5, TakenFacts DEF AttachInv, SentInv
  <2>8. HitInv' /\ ResumeInv'
    BY <1>1, <1>2, <2>3, <2>5, <2>6, TakenFacts DEF HitInv, ResumeInv, Over
  <2> QED
    BY <2>7, <2>8
<1> QED
  BY <1>1, <1>3, <1>4, TakenFacts DEF AccInv

\* Another answer: no line of it is a stop, a hit or a signal, and the target does not start.
LEMMA Answered ==
  ASSUME AccInv, TakeCommand, Head(todo).name # "attach", NEW place, NEW lines,
         Answer(place, lines), Adds(out, lines), ~Ready(lines),
         ToSet(lines) \cap {"stopped", "hit", "signal"} = {},
         place = target \/ (place = "free" /\ Head(todo).name = "detach")
  PROVE  AccInv'
<1>1. AccTypeOK /\ target' = place /\ out' = out \o lines /\ UNCHANGED <<why, shown>> /\ place # "running"
  BY TakenFacts DEF AccInv, Answer
<1>2. out' \in Seq(Output) /\ ToSet(out') = ToSet(out) \cup ToSet(lines) /\ (Ready(out') => Ready(out))
  BY <1>1 DEF Adds
<1>3. AccTypeOK'
  BY <1>1, <1>2, TakenFacts DEF AccTypeOK
<1>4. ASSUME settles <= 1
      PROVE  AttachInv' /\ SentInv' /\ HitInv' /\ ResumeInv'
  <2>1. AttachInv /\ SentInv /\ HitInv /\ ResumeInv
    BY <1>4 DEF AccInv
  <2>2. ToSet(todo') \subseteq ToSet(todo) /\ Head(todo) \in ToSet(todo)
    BY <1>1, TakenFacts
  <2>3. Head(todo).name = "detach" => phase \in {"detach", "ended"}
    BY <2>1, <2>2 DEF SentInv
  <2>4. ~(phase = "attach" /\ target = "free")
    <3> SUFFICES ASSUME phase = "attach", target = "free" PROVE FALSE
      OBVIOUS
    <3>1. todo = <<Sending("attach", "attach")>>
      BY <2>1 DEF AttachInv
    <3>2. Head(todo) = Sending("attach", "attach")
      BY <3>1
    <3> QED
      BY <3>2 DEF Sending
  <2>5. AttachInv'
    BY <1>1, <1>2, <2>1, <2>2, <2>3, <2>4, TakenFacts DEF AttachInv, NoContinue
  <2>6. SentInv'
    BY <1>1, <1>2, <2>1, <2>2, <2>3, TakenFacts DEF SentInv, NoContinue
  <2>7. HitInv' /\ ResumeInv'
    BY <1>1, <1>2, <2>1, <2>2, <2>3, TakenFacts DEF HitInv, ResumeInv, NoContinue
  <2> QED
    BY <2>5, <2>6, <2>7
<1> QED
  BY <1>1, <1>3, <1>4, TakenFacts DEF AccInv

LEMMA TakePreserves ==
  ASSUME AccInv, TakeCommand
  PROVE  AccInv'
<1> DEFINE name == Head(todo).name
<1>1. AccTypeOK
  BY DEF AccInv
<1>2. CASE name = "attach" /\ Stop("settling", "attach", <<"stopped", "result", "prompt">>)
  BY <1>2, AttachTaken
<1>3. CASE name = "continue" /\ target = "stopped" /\ Answer("running", <<"accepted">>)
  BY <1>3, ContinueAccepted
<1>4. CASE name = "continue" /\ target # "stopped" /\ Answer(target, <<"refused", "prompt">>)
  <2>1. ToSet(<<"refused", "prompt">>) \cap {"stopped", "hit", "signal"} = {}
    BY Literals
  <2> QED
    BY <1>1, <1>4, <2>1, Prints, LinesReady, Answered
<1>5. CASE name = "detach" /\ Answer(IF target = "exited" THEN target ELSE "free", <<"result">>)
  <2>1. ToSet(<<"result">>) \cap {"stopped", "hit", "signal"} = {}
    BY Literals
  <2>2. CASE target = "exited"
    BY <1>1, <1>5, <2>1, <2>2, Prints, LinesReady, Answered
  <2>3. CASE target # "exited"
    BY <1>1, <1>5, <2>1, <2>3, Prints, LinesReady, Answered
  <2> QED
    BY <2>2, <2>3
<1>6. CASE name = "echo" /\ Answer(target, <<"prompt">>)
  <2>1. ToSet(<<"prompt">>) \cap {"stopped", "hit", "signal"} = {}
    BY Literals
  <2> QED
    BY <1>1, <1>6, <2>1, Prints, LinesReady, Answered
<1>7. CASE name = "ask" /\ Answer(target, <<"result", "prompt">>)
  <2>1. ToSet(<<"result", "prompt">>) \cap {"stopped", "hit", "signal"} = {}
    BY Literals
  <2> QED
    BY <1>1, <1>7, <2>1, Prints, LinesReady, Answered
<1> QED
  BY <1>2, <1>3, <1>4, <1>5, <1>6, <1>7 DEF TakeCommand

\* A stop of the target, and its exit: nothing of this is a command.
LEMMA StopFacts ==
  ASSUME AccTypeOK, NEW place, NEW reason, NEW lines, Stop(place, reason, lines), Adds(out, lines),
         place \in {"free", "settling", "stopped", "exited"}, UNCHANGED <<todo, helperVars>>, settles' \in Nat
  PROVE  /\ AccTypeOK'
         /\ target' = place /\ why' = reason /\ shown' = FALSE /\ ToSet(out') = ToSet(out) \cup ToSet(lines)
         /\ Ready(out') => Ready(out) \/ Ready(lines)
         /\ Over(out) => Over(out')
         /\ UNCHANGED <<todo, pushes, phase, lacks, pending, faultSeen, signalSeen, stopSeen, update>>
<1>1. /\ target' = place /\ why' = reason /\ shown' = FALSE /\ out' = out \o lines
      /\ UNCHANGED <<todo, pushes, phase, lacks, pending, faultSeen, signalSeen, stopSeen, update>>
  BY DEF Stop, helperVars, resumeVars, attachVars
<1>2. out' \in Seq(Output) /\ ToSet(out') = ToSet(out) \cup ToSet(lines)
      /\ (Ready(out') => Ready(out) \/ Ready(lines)) /\ (Over(out) => Over(out'))
  BY <1>1 DEF Adds
<1> QED
  BY <1>1, <1>2 DEF AccTypeOK

LEMMA SettlePreserves ==
  ASSUME AccInv, NEW last \in BOOLEAN, Settle(last)
  PROVE  AccInv'
<1> DEFINE lines == <<"signal", "stopped", "prompt">>
           place == IF last THEN "stopped" ELSE "settling"
<1>1. AccTypeOK /\ settles' = settles + 1 /\ settles' \in Nat /\ settles \in Nat /\ target = "settling"
      /\ Stop(place, "settle", lines) /\ UNCHANGED <<todo, interrupted, helperVars>>
  BY DEF Settle, AccInv, AccTypeOK
<1>2. Adds(out, lines) /\ ToSet(lines) = {"signal", "stopped", "prompt"}
  BY <1>1, Prints, Literals
<1>3. place \in {"stopped", "settling"} /\ place \in {"free", "settling", "stopped", "exited"}
  OBVIOUS
<1> HIDE DEF lines, place
<1>4. /\ AccTypeOK' /\ target' = place /\ why' = "settle" /\ ToSet(out') = ToSet(out) \cup ToSet(lines)
      /\ UNCHANGED <<todo, pushes, phase, lacks, pending, faultSeen, signalSeen, stopSeen, update, interrupted>>
  <2>1. UNCHANGED <<todo, helperVars>> /\ UNCHANGED interrupted
    BY <1>1
  <2> QED
    BY <1>1, <1>2, <1>3, <2>1, StopFacts
<1>5. ASSUME settles' <= 1
      PROVE  AttachInv' /\ SentInv' /\ HitInv' /\ ResumeInv'
  <2>1. settles = 0 /\ AttachInv /\ SentInv /\ HitInv /\ ResumeInv
    BY <1>1, <1>5 DEF AccInv
  <2>2. NoContinue(todo)
    BY <1>1, <2>1 DEF AttachInv
  <2>3. AttachInv'
    BY <1>1, <1>2, <1>3, <1>4, <2>1, <2>2 DEF AttachInv
  <2>4. SentInv'
    <3>1. \A c \in ToSet(todo) : c # Sending("continue", "user")
      BY <2>2 DEF NoContinue, Sending
    <3> QED
      BY <1>1, <1>2, <1>3, <1>4, <2>1, <2>2, <3>1 DEF SentInv
  <2>5. HitInv' /\ ResumeInv'
    BY <1>1, <1>2, <1>3, <1>4, <2>1, <2>2 DEF HitInv, ResumeInv
  <2> QED
    BY <2>3, <2>4, <2>5
<1> QED
  BY <1>1, <1>4, <1>5 DEF AccInv

\* The target stops or ends while it runs.
LEMMA RunStopped ==
  ASSUME AccInv, target = "running", NEW place, NEW reason, NEW lines, Stop(place, reason, lines), Adds(out, lines),
         place \in {"stopped", "exited"}, UNCHANGED <<todo, settles, helperVars>>,
         "hit" \in ToSet(lines) => place = "stopped" /\ reason = "hit",
         "result" \notin ToSet(lines)
  PROVE  AccInv'
<1>1. AccTypeOK /\ settles' \in Nat /\ place \in {"free", "settling", "stopped", "exited"} /\ UNCHANGED <<todo, helperVars>>
  BY DEF AccInv, AccTypeOK
<1>2. /\ AccTypeOK' /\ target' = place /\ why' = reason /\ ToSet(out') = ToSet(out) \cup ToSet(lines)
      /\ Over(out) => Over(out')
      /\ UNCHANGED <<todo, pushes, phase, lacks, pending, faultSeen, signalSeen, stopSeen, update>>
  BY <1>1, StopFacts
<1>3. ASSUME settles <= 1
      PROVE  AttachInv' /\ SentInv' /\ HitInv' /\ ResumeInv'
  <2>1. AttachInv /\ SentInv /\ HitInv /\ ResumeInv
    BY <1>3 DEF AccInv
  <2>2. NoContinue(todo)
    BY <2>1 DEF SentInv
  <2>3. \A c \in ToSet(todo) : c # Sending("continue", "user") /\ c # Sending("continue", "resume")
    BY <2>2 DEF NoContinue, Sending
  <2>4. AttachInv'
    BY <1>2, <2>1, <2>2 DEF AttachInv
  <2>5. SentInv'
    BY <1>2, <2>1, <2>2, <2>3 DEF SentInv
  <2>6. HitInv' /\ ResumeInv'
    BY <1>2, <2>1, <2>2 DEF HitInv, ResumeInv, Over
  <2> QED
    BY <2>4, <2>5, <2>6
<1> QED
  BY <1>2, <1>3 DEF AccInv

LEMMA HitPreserves ==
  ASSUME AccInv, Hit
  PROVE  AccInv'
<1> DEFINE lines == <<"hit", "stopped", "prompt">>
<1>1. Adds(out, lines) /\ ToSet(lines) = {"hit", "stopped", "prompt"}
  BY Prints, Literals DEF AccInv
<1>2. target = "running" /\ Stop("stopped", "hit", lines) /\ UNCHANGED <<todo, settles, helperVars>>
  BY DEF Hit
<1> HIDE DEF lines
<1> QED
  BY <1>1, <1>2, RunStopped

LEMMA ExitPreserves ==
  ASSUME AccInv, Exit
  PROVE  AccInv'
<1> DEFINE lines == <<"exit", "prompt">>
<1>1. Adds(out, lines) /\ ToSet(lines) = {"exit", "prompt"}
  BY Prints, Literals DEF AccInv
<1>2. target = "running" /\ Stop("exited", "exit", lines) /\ UNCHANGED <<todo, settles, helperVars>>
  BY DEF Exit
<1> HIDE DEF lines
<1> QED
  BY <1>1, <1>2, RunStopped

\* A fault while the attach settles: before its first stop by a signal nothing the loop
\* reads makes it resume, and after that the fault is an early one.
LEMMA FaultPreserves ==
  ASSUME AccInv, Fault
  PROVE  AccInv'
<1> DEFINE lines == <<"signal", "fault", "stopped", "prompt">>
           reason == IF Early THEN "early" ELSE "fault"
<1>1. Adds(out, lines) /\ ToSet(lines) = {"signal", "fault", "stopped", "prompt"} /\ ~Ready(lines)
  BY Prints, Literals, LinesReady DEF AccInv
<1>2. AccTypeOK /\ settles \in Nat /\ target \in {"settling", "running"} /\ Stop("stopped", reason, lines)
      /\ UNCHANGED <<todo, interrupted, settles, helperVars>>
  BY DEF Fault, AccInv, AccTypeOK
<1>3. reason \in {"early", "fault"} /\ (reason = "early" <=> Early)
  OBVIOUS
<1> HIDE DEF lines, reason
<1>4. CASE target = "running"
  BY <1>1, <1>2, <1>4, RunStopped
<1>5. CASE target = "settling"
  <2>1. settles' \in Nat /\ UNCHANGED <<todo, helperVars>>
    BY <1>2
  <2>2. /\ AccTypeOK' /\ target' = "stopped" /\ why' = reason /\ ToSet(out') = ToSet(out) \cup ToSet(lines)
        /\ Ready(out') => Ready(out)
        /\ UNCHANGED <<todo, interrupted, phase, lacks, pending, faultSeen, signalSeen, stopSeen, update>>
    BY <1>1, <1>2, <2>1, StopFacts
  <2>3. ASSUME settles <= 1
        PROVE  AttachInv' /\ SentInv' /\ HitInv' /\ ResumeInv'
    <3>1. AttachInv /\ SentInv /\ HitInv /\ ResumeInv
      BY <2>3 DEF AccInv
    <3>2. settles = 0 => NoContinue(todo) /\ (phase # "attach" => "stopped" \notin ToSet(out))
      BY <1>5, <3>1 DEF AttachInv
    <3>3. \A c \in ToSet(todo) : c # Sending("continue", "user")
      BY <1>5, <3>1 DEF SentInv
    <3>4. NoContinue(todo) => \A c \in ToSet(todo) : c # Sending("continue", "resume")
      BY DEF NoContinue, Sending
    <3>5. reason = "fault" => settles = 0 /\ phase \notin {"attach", "install"}
      BY <1>2, <1>3, <1>5 DEF Early
    <3>6. "stopped" \notin ToSet(out) => ~Ready(out)
      BY DEF Ready, ToSet
    <3>7. AttachInv'
      BY <1>1, <1>2, <1>3, <1>5, <2>2, <3>1, <3>5 DEF AttachInv
    <3>8. SentInv'
      BY <1>1, <1>2, <1>3, <1>5, <2>2, <3>1, <3>2, <3>3, <3>4, <3>5 DEF SentInv
    <3>9. HitInv' /\ ResumeInv'
      BY <1>1, <1>2, <1>3, <1>5, <2>2, <3>1, <3>2, <3>5, <3>6 DEF HitInv, ResumeInv
    <3> QED
      BY <3>7, <3>8, <3>9
  <2> QED
    BY <1>2, <2>2, <2>3 DEF AccInv
<1> QED
  BY <1>2, <1>4, <1>5

LEMMA InterruptPreserves ==
  ASSUME AccInv, Interrupt
  PROVE  AccInv'
<1>1. AccTypeOK /\ UNCHANGED <<todo, settles, helperVars>> /\ interrupted
  BY DEF Interrupt, AccInv
<1>2. CASE target = "running" /\ Stop("stopped", "interrupt", <<"signal", "stopped", "prompt">>)
  <2>1. ToSet(<<"signal", "stopped", "prompt">>) = {"signal", "stopped", "prompt"}
    BY Literals
  <2> QED
    BY <1>1, <1>2, <2>1, Prints, RunStopped
<1>3. CASE target # "running" /\ \E lines \in {<<>>, <<"prompt">>} : Answer(target, lines)
  <2>1. PICK lines \in {<<>>, <<"prompt">>} : Answer(target, lines)
    BY <1>3
  <2>2. Adds(out, lines) /\ ~Ready(lines) /\ ToSet(lines) \subseteq {"prompt"}
    BY <1>1, Prints, Literals, LinesReady
  <2>3. target' = target /\ out' = out \o lines /\ UNCHANGED <<why, shown>>
    BY <2>1 DEF Answer
  <2>4. out' \in Seq(Output) /\ ToSet(out') \subseteq ToSet(out) \cup {"prompt"} /\ ToSet(out) \subseteq ToSet(out')
        /\ (Ready(out') => Ready(out))
    BY <2>2, <2>3 DEF Adds
  <2>5. UNCHANGED <<todo, settles, pushes, phase, lacks, pending, faultSeen, signalSeen, stopSeen, update>>
    BY <1>1 DEF helperVars, resumeVars, attachVars
  <2>6. AccTypeOK'
    BY <1>1, <2>3, <2>4, <2>5 DEF AccTypeOK
  <2>7. ASSUME settles <= 1
        PROVE  AttachInv' /\ SentInv' /\ HitInv' /\ ResumeInv'
    <3>1. AttachInv /\ SentInv /\ HitInv /\ ResumeInv
      BY <2>7 DEF AccInv
    <3>2. AttachInv'
      BY <1>1, <1>3, <2>3, <2>4, <2>5, <3>1 DEF AttachInv
    <3>3. SentInv'
      BY <1>3, <2>3, <2>4, <2>5, <3>1 DEF SentInv
    <3>4. HitInv' /\ ResumeInv'
      BY <1>3, <2>3, <2>4, <2>5, <3>1 DEF HitInv, ResumeInv
    <3> QED
      BY <3>2, <3>3, <3>4
  <2> QED
    BY <2>5, <2>6, <2>7 DEF AccInv
<1> QED
  BY <1>2, <1>3 DEF Interrupt

-----------------------------------------------------------------------------
(* Each action preserves the invariant: the helper.                        *)

\* A command is written: what was printed is read away.
LEMMA SendFacts ==
  ASSUME AccTypeOK, NEW c \in Commands, NEW read \in Seq(Output), SendCommands(<<c>>, read)
  PROVE  /\ todo' \in Seq(Commands) /\ ToSet(todo') = ToSet(todo) \cup {c}
         /\ OneContinue(todo) /\ (NoContinue(todo) \/ c.name # "continue") => OneContinue(todo')
         /\ NoContinue(todo) /\ c.name # "continue" => NoContinue(todo')
         /\ out' = <<>> /\ out' \in Seq(Output) /\ ToSet(out') = {} /\ ~Ready(out')
         /\ signalSeen' \in BOOLEAN /\ stopSeen' \in BOOLEAN
         /\ ~signalSeen /\ "signal" \notin ToSet(read) => ~signalSeen' /\ (~stopSeen => ~stopSeen')
<1>1. todo \in Seq(Commands) /\ Track(read) /\ out' = <<>> /\ todo' = todo \o <<c>>
  BY DEF SendCommands, AccTypeOK
<1>2. /\ todo' \in Seq(Commands) /\ ToSet(todo') = ToSet(todo) \cup {c}
      /\ OneContinue(todo) /\ (NoContinue(todo) \/ c.name # "continue") => OneContinue(todo')
  BY <1>1, SendOne
<1>3. NoContinue(todo) /\ c.name # "continue" => NoContinue(todo')
  BY <1>2 DEF NoContinue
<1>4. out' \in Seq(Output) /\ ToSet(out') = {} /\ ~Ready(out')
  BY <1>1, Literals, LinesReady
<1> QED
  BY <1>1, <1>2, <1>3, <1>4, TrackFacts

LEMMA CommandFacts ==
  /\ Sending("ask", "none") \in Commands /\ Sending("ask", "none").name = "ask"
  /\ Sending("echo", "none") \in Commands /\ Sending("echo", "none").name = "echo"
  /\ \A by \in {"resume", "user", "update"} :
       Sending("continue", by) \in Commands /\ Sending("continue", by).name = "continue"
       /\ Sending("continue", by).by = by
  /\ \A by \in {"detach", "quit"} :
       Sending("detach", by) \in Commands /\ Sending("detach", by).name = "detach"
       /\ Sending("detach", by).by = by
BY DEF Commands, Sending

LEMMA ReadAnswerPreserves ==
  ASSUME AccInv, ReadAnswer
  PROVE  AccInv'
<1>1. /\ AccTypeOK /\ out # <<>> /\ out' = Tail(out) /\ Track(<<Head(out)>>) /\ lacks' = lacks \ {Head(out)}
      /\ lacks # {}
      /\ UNCHANGED <<target, why, settles, todo, interrupted, shown, phase, pending, faultSeen, update>>
  BY DEF ReadAnswer, AccInv, stateVars, resumeVars
<1>2. out' \in Seq(Output) /\ Head(out) \in Output /\ ToSet(out) = {Head(out)} \cup ToSet(out')
      /\ ToSet(<<Head(out)>>) = {Head(out)}
  BY <1>1, ReadFacts
<1>3. <<Head(out)>> \in Seq(Output)
  BY <1>2
<1>4. signalSeen' \in BOOLEAN /\ stopSeen' \in BOOLEAN
      /\ (~signalSeen /\ Head(out) # "signal" => ~signalSeen' /\ (~stopSeen => ~stopSeen'))
  BY <1>1, <1>2, <1>3, TrackFacts
<1>5. AccTypeOK'
  BY <1>1, <1>2, <1>4 DEF AccTypeOK
<1>6. ASSUME settles <= 1
      PROVE  AttachInv' /\ SentInv' /\ HitInv' /\ ResumeInv'
  <2>1. AttachInv /\ SentInv /\ HitInv /\ phase \notin {"loop", "prompt", "interrupt", "ended"}
    BY <1>1, <1>6 DEF AccInv, AccTypeOK
  <2>2. ToSet(out') \subseteq ToSet(out) /\ Head(out) \in ToSet(out)
    BY <1>2
  <2>3. AttachInv'
    BY <1>1, <1>4, <2>1, <2>2 DEF AttachInv
  <2>4. SentInv'
    BY <1>1, <2>1, <2>2 DEF SentInv
  <2> QED
    BY <1>1, <2>1, <2>3, <2>4 DEF HitInv, ResumeInv
<1> QED
  BY <1>1, <1>5, <1>6 DEF AccInv

LEMMA InstallAfterAttachPreserves ==
  ASSUME AccInv, InstallBreakpoints
  PROVE  AccInv'
<1> DEFINE c == Sending("ask", "none")
<1>1. /\ AccTypeOK /\ phase = "attach" /\ lacks = {} /\ SendCommands(<<c>>, out)
      /\ lacks' = {"result", "prompt"} /\ phase' = "install"
      /\ UNCHANGED <<target, why, settles, interrupted, shown, pending, faultSeen, update>>
  BY DEF InstallBreakpoints, Ask, AccInv, stateVars, resumeVars
<1>2. c \in Commands /\ c.name = "ask" /\ c # Sending("continue", "resume") /\ c # Sending("continue", "user")
  BY CommandFacts DEF Sending
<1>3. out \in Seq(Output)
  BY <1>1 DEF AccTypeOK
<1> HIDE DEF c
<1>4. /\ todo' \in Seq(Commands) /\ ToSet(todo') = ToSet(todo) \cup {c}
      /\ OneContinue(todo) => OneContinue(todo')
      /\ NoContinue(todo) => NoContinue(todo')
      /\ out' \in Seq(Output) /\ ToSet(out') = {} /\ ~Ready(out')
      /\ signalSeen' \in BOOLEAN /\ stopSeen' \in BOOLEAN
      /\ ~signalSeen /\ "signal" \notin ToSet(out) => ~signalSeen' /\ (~stopSeen => ~stopSeen')
  BY <1>1, <1>2, <1>3, SendFacts
<1>5. AccTypeOK'
  BY <1>1, <1>4 DEF AccTypeOK
<1>6. ASSUME settles <= 1
      PROVE  AttachInv' /\ SentInv' /\ HitInv' /\ ResumeInv'
  <2>1. AttachInv /\ SentInv
    BY <1>6 DEF AccInv
  <2>2. update = "none" /\ target # "free" /\ NoContinue(todo)
    BY <1>1, <2>1 DEF AttachInv
  <2>3. AttachInv'
    BY <1>1, <1>2, <1>4, <2>1, <2>2 DEF AttachInv
  <2>4. SentInv'
    BY <1>1, <1>2, <1>4, <2>1, <2>2 DEF SentInv, AttachInv
  <2> QED
    BY <1>1, <2>3, <2>4 DEF HitInv, ResumeInv
<1> QED
  BY <1>1, <1>5, <1>6 DEF AccInv

\* The helper sends exec-continue and goes to the loop: nothing else is under way, the
\* target does not run, and the resume after the attach leaves hits and faults alone.
LEMMA ContinueSent ==
  ASSUME AccInv, NEW by \in {"resume", "user", "update"}, NEW read \in Seq(Output), ExecContinue(by, read),
         UNCHANGED <<target, why, settles, shown>>, pending' \in BOOLEAN, faultSeen' \in BOOLEAN, lacks = {},
         phase \in {"install", "loop", "prompt"},
         settles <= 1 =>
           /\ NoContinue(todo) /\ target # "running" /\ ~(target = "settling" /\ settles = 0)
           /\ update' = "install" => target # "settling"
           /\ by = "resume" => why \notin {"hit", "fault"}
           /\ by = "user" => shown /\ why = "hit" /\ target # "settling"
  PROVE  AccInv'
<1> DEFINE c == Sending("continue", by)
<1>1. AccTypeOK /\ SendCommands(<<c>>, read) /\ phase' = "loop" /\ lacks' = {}
  BY DEF ExecContinue, AccInv
<1>2. /\ c \in Commands /\ c.name = "continue"
      /\ c = Sending("continue", "resume") => by = "resume"
      /\ c = Sending("continue", "user") => by = "user"
  BY CommandFacts
<1> HIDE DEF c
<1>3. /\ todo' \in Seq(Commands) /\ ToSet(todo') = ToSet(todo) \cup {c}
      /\ OneContinue(todo) /\ NoContinue(todo) => OneContinue(todo')
      /\ out' \in Seq(Output) /\ ToSet(out') = {} /\ ~Ready(out')
      /\ signalSeen' \in BOOLEAN /\ stopSeen' \in BOOLEAN
  BY <1>1, <1>2, SendFacts
<1>4. AccTypeOK'
  BY <1>1, <1>3 DEF AccTypeOK
<1>5. ASSUME settles <= 1
      PROVE  AttachInv' /\ SentInv' /\ HitInv' /\ ResumeInv'
  <2>1. AttachInv /\ SentInv
    BY <1>5 DEF AccInv
  <2>2. \A d \in ToSet(todo) : d.name \notin {"continue", "attach", "detach"}
    BY <1>5, <2>1 DEF AttachInv, SentInv, NoContinue
  <2>3. \A d \in ToSet(todo) : d # Sending("continue", "user") /\ d # Sending("continue", "resume")
    BY <2>2 DEF Sending
  <2>4. AttachInv'
    BY <1>1, <1>2, <1>3, <1>5, <2>2 DEF AttachInv
  <2>5. SentInv'
    BY <1>1, <1>2, <1>3, <1>5, <2>1, <2>2, <2>3 DEF SentInv
  <2> QED
    BY <1>1, <1>3, <1>5, <2>4, <2>5 DEF HitInv, ResumeInv
<1> QED
  BY <1>4, <1>5 DEF AccInv

LEMMA ContinueAfterAttachPreserves ==
  ASSUME AccInv, ContinueAfterAttach
  PROVE  AccInv'
<1>1. /\ AccTypeOK /\ phase = "install" /\ lacks = {} /\ update = "none" /\ pending' = TRUE /\ faultSeen' = FALSE
      /\ UNCHANGED <<target, why, settles, interrupted, shown, update>>
  BY DEF ContinueAfterAttach, AccInv, stateVars
<1>2. CASE stopSeen /\ ExecContinue("resume", out)
  <2>1. ASSUME settles <= 1
        PROVE  /\ NoContinue(todo) /\ target # "running" /\ ~(target = "settling" /\ settles = 0)
               /\ why \notin {"hit", "fault"} /\ update' # "install"
    BY <1>1, <1>2, <2>1 DEF AccInv, AttachInv
  <2>2. out \in Seq(Output) /\ "resume" \in {"resume", "user", "update"}
    BY <1>1 DEF AccTypeOK
  <2> QED
    BY <1>1, <1>2, <2>1, <2>2, ContinueSent
<1>3. CASE phase' = "loop" /\ UNCHANGED <<todo, out, lacks, attachVars>>
  <2>1. UNCHANGED <<todo, out, lacks, signalSeen, stopSeen>>
    BY <1>3 DEF attachVars
  <2>2. AccTypeOK'
    BY <1>1, <1>3, <2>1 DEF AccTypeOK
  <2>3. ASSUME settles <= 1
        PROVE  AttachInv' /\ SentInv' /\ HitInv' /\ ResumeInv'
    <3>1. AttachInv /\ SentInv
      BY <2>3 DEF AccInv
    <3>2. NoContinue(todo) /\ target # "running" /\ why \in {"attach", "settle", "early"} /\ "hit" \notin ToSet(out)
      BY <1>1, <3>1 DEF AttachInv
    <3>3. AttachInv' /\ SentInv'
      BY <1>1, <1>3, <2>1, <3>1, <3>2 DEF AttachInv, SentInv
    <3> QED
      BY <1>1, <1>3, <2>1, <3>2, <3>3 DEF HitInv, ResumeInv
  <2> QED
    BY <1>1, <2>2, <2>3 DEF AccInv
<1> QED
  BY <1>2, <1>3 DEF ContinueAfterAttach

LEMMA ContinueAfterUpdatePreserves ==
  ASSUME AccInv, ContinueAfterUpdate
  PROVE  AccInv'
<1>1. /\ AccTypeOK /\ phase = "install" /\ lacks = {} /\ update = "install" /\ update' = "none"
      /\ ExecContinue("update", out) /\ out \in Seq(Output)
      /\ UNCHANGED <<target, why, settles, shown, pending, faultSeen>>
  BY DEF ContinueAfterUpdate, AccInv, AccTypeOK, stateVars, resumeVars
<1>2. ASSUME settles <= 1
      PROVE  NoContinue(todo) /\ target # "running" /\ ~(target = "settling" /\ settles = 0)
  BY <1>1, <1>2 DEF AccInv, AttachInv, SentInv
<1>3. pending' \in BOOLEAN /\ faultSeen' \in BOOLEAN /\ update' # "install" /\ "update" \in {"resume", "user", "update"}
  BY <1>1 DEF AccTypeOK
<1> QED
  BY <1>1, <1>2, <1>3, ContinueSent

LEMMA UserContinuePreserves ==
  ASSUME AccInv, UserContinue
  PROVE  AccInv'
<1>1. /\ AccTypeOK /\ phase = "prompt" /\ lacks = {} /\ ExecContinue("user", out) /\ out \in Seq(Output)
      /\ UNCHANGED <<target, why, settles, shown, pending, faultSeen, update>>
  BY DEF UserContinue, AccInv, AccTypeOK, stateVars, resumeVars
<1>2. ASSUME settles <= 1
      PROVE  NoContinue(todo) /\ target = "stopped" /\ why = "hit" /\ shown
  BY <1>1, <1>2 DEF AccInv, HitInv, SentInv
<1>3. pending' \in BOOLEAN /\ faultSeen' \in BOOLEAN /\ "user" \in {"resume", "user", "update"}
  BY <1>1 DEF AccTypeOK
<1> QED
  BY <1>1, <1>2, <1>3, ContinueSent

-----------------------------------------------------------------------------
(* Each action preserves the invariant: the loop, the user and messages.   *)

LEMMA LoopExitPreserves ==
  ASSUME AccInv, LoopExit
  PROVE  AccInv'
<1>1. /\ AccTypeOK /\ phase = "loop" /\ phase' = "ended"
      /\ UNCHANGED <<target, why, settles, todo, interrupted, out, shown, lacks, pending, faultSeen, signalSeen, stopSeen, update>>
  BY DEF LoopExit, ReadLine, AccInv, stateVars, resumeVars, attachVars
<1>2. AccTypeOK'
  BY <1>1 DEF AccTypeOK
<1>3. ASSUME settles <= 1
      PROVE  AttachInv' /\ SentInv' /\ HitInv' /\ ResumeInv'
  BY <1>1, <1>3 DEF AccInv, AttachInv, SentInv, HitInv, ResumeInv
<1> QED
  BY <1>1, <1>2, <1>3 DEF AccInv

\* The loop reads a line that it does not answer; "pending" and "faultSeen" go off or tell
\* that the line was decisive.
LEMMA LineRead ==
  ASSUME AccInv, phase = "loop", out # <<>>, JustRead(Head(out)),
         UNCHANGED <<target, why, settles, interrupted, shown, update>>,
         pending' \in BOOLEAN, faultSeen' \in BOOLEAN,
         pending' /\ ~faultSeen' => pending /\ ~faultSeen /\ Head(out) \notin Decisive
  PROVE  AccInv'
<1>1. AccTypeOK /\ out' = Tail(out) /\ Track(<<Head(out)>>) /\ UNCHANGED <<todo, phase, lacks>>
  BY DEF JustRead, AccInv
<1>2. out' \in Seq(Output) /\ Head(out) \in Output /\ ToSet(out) = {Head(out)} \cup ToSet(out')
      /\ ToSet(<<Head(out)>>) = {Head(out)}
  BY <1>1, ReadFacts
<1>3. <<Head(out)>> \in Seq(Output)
  BY <1>2
<1>4. signalSeen' \in BOOLEAN /\ stopSeen' \in BOOLEAN
      /\ (~signalSeen /\ Head(out) # "signal" => ~signalSeen' /\ (~stopSeen => ~stopSeen'))
  BY <1>1, <1>2, <1>3, TrackFacts
<1>5. AccTypeOK'
  BY <1>1, <1>2, <1>4 DEF AccTypeOK
<1>6. pending' /\ ~faultSeen' => (Ready(out') => Ready(out)) /\ (Over(out) => Over(out'))
  BY <1>1, FirstLine DEF AccTypeOK
<1>7. ASSUME settles <= 1
      PROVE  AttachInv' /\ SentInv' /\ HitInv' /\ ResumeInv'
  <2>1. AttachInv /\ SentInv /\ HitInv /\ ResumeInv
    BY <1>7 DEF AccInv
  <2>2. ToSet(out') \subseteq ToSet(out) /\ Head(out) \in ToSet(out)
    BY <1>2
  <2>3. AttachInv'
    BY <1>1, <1>4, <2>1, <2>2 DEF AttachInv
  <2>4. SentInv'
    BY <1>1, <2>1, <2>2 DEF SentInv
  <2>5. HitInv' /\ ResumeInv'
    BY <1>1, <1>6, <2>1, <2>2 DEF HitInv, ResumeInv
  <2> QED
    BY <2>3, <2>4, <2>5
<1> QED
  BY <1>1, <1>5, <1>7 DEF AccInv

LEMMA LoopLinePreserves ==
  ASSUME AccInv, LoopLine
  PROVE  AccInv'
<1>1. PICK first \in {"accepted", "refused", "fault", "signal", "prompt", "result"} :
        /\ ReadLine(first) /\ JustRead(first)
        /\ pending' = (pending /\ first # "accepted")
        /\ faultSeen' = (pending' /\ (faultSeen \/ first = "fault"))
  BY DEF LoopLine
<1>2. UNCHANGED <<target, why, settles, interrupted, shown, update>> /\ AccTypeOK
  BY DEF LoopLine, AccInv, stateVars
<1>3. phase = "loop" /\ out # <<>> /\ Head(out) = first /\ JustRead(Head(out))
  BY <1>1 DEF ReadLine
<1>4. pending' \in BOOLEAN /\ faultSeen' \in BOOLEAN
  BY <1>1, <1>2 DEF AccTypeOK
<1>5. pending' /\ ~faultSeen' => pending /\ ~faultSeen /\ Head(out) \notin Decisive
  BY <1>1, <1>3 DEF Decisive
<1> QED
  BY <1>2, <1>3, <1>4, <1>5, LineRead

\* A stop: with a resume to make and no fault seen the loop has nothing under way and the
\* target does not run, as a stop it still has to read says.
LEMMA LoopStoppedPreserves ==
  ASSUME AccInv, LoopStopped
  PROVE  AccInv'
<1> DEFINE settled == pending /\ (stopSeen \/ signalSeen)
<1>1. /\ AccTypeOK /\ phase = "loop" /\ out # <<>> /\ Head(out) = "stopped" /\ lacks = {}
      /\ UNCHANGED <<target, why, settles, interrupted, shown, update>>
  BY DEF LoopStopped, ReadLine, AccInv, AccTypeOK, stateVars
<1>2. Head(out) \notin Decisive
  BY <1>1 DEF Decisive
<1>3. CASE ~settled /\ JustRead("stopped") /\ UNCHANGED resumeVars
  <2>1. pending' = pending /\ faultSeen' = faultSeen
    BY <1>3 DEF resumeVars
  <2> QED
    BY <1>1, <1>2, <1>3, <2>1, LineRead DEF AccTypeOK
<1>4. CASE settled /\ faultSeen /\ JustRead("stopped") /\ Disarm
  BY <1>1, <1>4, LineRead DEF Disarm
<1>5. CASE settled /\ ~faultSeen /\ ExecContinue("resume", out) /\ UNCHANGED resumeVars
  <2>1. pending' = pending /\ faultSeen' = faultSeen /\ pending' \in BOOLEAN /\ faultSeen' \in BOOLEAN
    BY <1>1, <1>5 DEF resumeVars, AccTypeOK
  <2>2. Ready(out) /\ out \in Seq(Output)
    BY <1>1, FirstLine DEF AccTypeOK
  <2>3. ASSUME settles <= 1
        PROVE  /\ NoContinue(todo) /\ target # "running" /\ ~(target = "settling" /\ settles = 0)
               /\ update' = "install" => target # "settling"
               /\ why \notin {"hit", "fault"}
    <3>1. AttachInv /\ ResumeInv
      BY <2>3 DEF AccInv
    <3>2. NoContinue(todo) /\ why \notin {"hit", "fault"} /\ target # "running"
      BY <1>1, <1>5, <2>2, <3>1 DEF ResumeInv, Over
    <3> QED
      BY <1>1, <1>5, <3>1, <3>2 DEF AttachInv
  <2>4. "resume" \in {"resume", "user", "update"}
    OBVIOUS
  <2> QED
    BY <1>1, <1>5, <2>1, <2>2, <2>3, <2>4, ContinueSent
<1> QED
  BY <1>3, <1>4, <1>5 DEF LoopStopped

LEMMA LoopHitPreserves ==
  ASSUME AccInv, LoopHit
  PROVE  AccInv'
<1> DEFINE c == Sending("ask", "none")
<1>1. /\ AccTypeOK /\ phase = "loop" /\ out # <<>> /\ Head(out) = "hit" /\ SendCommands(<<c>>, out)
      /\ lacks' = {"result", "prompt"} /\ phase' = "show" /\ pending' = FALSE /\ faultSeen' = FALSE
      /\ UNCHANGED <<target, why, settles, interrupted, shown, update>>
  BY DEF LoopHit, ReadLine, Disarm, Ask, AccInv, stateVars
<1>2. c \in Commands /\ c.name = "ask" /\ c # Sending("continue", "resume") /\ c # Sending("continue", "user")
  BY CommandFacts DEF Sending
<1>3. out \in Seq(Output) /\ "hit" \in ToSet(out)
  BY <1>1, ReadFacts DEF AccTypeOK
<1> HIDE DEF c
<1>4. /\ todo' \in Seq(Commands) /\ ToSet(todo') = ToSet(todo) \cup {c}
      /\ OneContinue(todo) => OneContinue(todo')
      /\ NoContinue(todo) => NoContinue(todo')
      /\ out' \in Seq(Output) /\ ToSet(out') = {}
      /\ signalSeen' \in BOOLEAN /\ stopSeen' \in BOOLEAN
  BY <1>1, <1>2, <1>3, SendFacts
<1>5. AccTypeOK'
  BY <1>1, <1>4 DEF AccTypeOK
<1>6. ASSUME settles <= 1
      PROVE  AttachInv' /\ SentInv' /\ HitInv' /\ ResumeInv'
  <2>1. AttachInv /\ SentInv /\ HitInv
    BY <1>6 DEF AccInv
  <2>2. target = "stopped" /\ why = "hit" /\ NoContinue(todo)
    BY <1>1, <1>3, <2>1 DEF HitInv
  <2>3. \A d \in ToSet(todo) : d.name \notin {"attach", "continue", "detach"}
    BY <1>1, <2>1, <2>2 DEF AttachInv, SentInv, NoContinue
  <2>4. \A d \in ToSet(todo) : d # Sending("continue", "resume") /\ d # Sending("continue", "user")
    BY <2>3 DEF Sending
  <2>5. AttachInv' /\ SentInv'
    BY <1>1, <1>2, <1>4, <2>1, <2>2, <2>3, <2>4 DEF AttachInv, SentInv
  <2> QED
    BY <1>1, <1>4, <2>2, <2>5 DEF HitInv, ResumeInv
<1> QED
  BY <1>1, <1>5, <1>6 DEF AccInv

LEMMA PromptPreserves ==
  ASSUME AccInv, Prompt
  PROVE  AccInv'
<1>1. /\ AccTypeOK /\ phase = "show" /\ lacks = {} /\ phase' = "prompt" /\ shown' = TRUE
      /\ UNCHANGED <<target, why, settles, todo, interrupted, out, lacks, pending, faultSeen, signalSeen, stopSeen, update>>
  BY DEF Prompt, AccInv, stateVars, resumeVars, attachVars
<1>2. AccTypeOK'
  BY <1>1 DEF AccTypeOK
<1>3. ASSUME settles <= 1
      PROVE  AttachInv' /\ SentInv' /\ HitInv' /\ ResumeInv'
  BY <1>1, <1>3 DEF AccInv, AttachInv, SentInv, HitInv, ResumeInv
<1> QED
  BY <1>1, <1>2, <1>3 DEF AccInv

LEMMA LeavePromptPreserves ==
  ASSUME AccInv, LeavePrompt
  PROVE  AccInv'
<1>1. /\ AccTypeOK /\ phase = "prompt" /\ phase' = "loop"
      /\ UNCHANGED <<target, why, settles, todo, interrupted, out, shown, lacks, pending, faultSeen, signalSeen, stopSeen, update>>
  BY DEF LeavePrompt, AccInv, stateVars, resumeVars, attachVars
<1>2. AccTypeOK'
  BY <1>1 DEF AccTypeOK
<1>3. ASSUME settles <= 1
      PROVE  AttachInv' /\ SentInv' /\ HitInv' /\ ResumeInv'
  BY <1>1, <1>3 DEF AccInv, AttachInv, SentInv, HitInv, ResumeInv
<1> QED
  BY <1>1, <1>2, <1>3 DEF AccInv

LEMMA DetachedPreserves ==
  ASSUME AccInv, Detached
  PROVE  AccInv'
<1>1. /\ AccTypeOK /\ phase = "detach" /\ lacks = {} /\ phase' = "ended"
      /\ UNCHANGED <<target, why, settles, todo, interrupted, out, shown, lacks, pending, faultSeen, signalSeen, stopSeen, update>>
  BY DEF Detached, AccInv, stateVars, resumeVars, attachVars
<1>2. AccTypeOK'
  BY <1>1 DEF AccTypeOK
<1>3. ASSUME settles <= 1
      PROVE  AttachInv' /\ SentInv' /\ HitInv' /\ ResumeInv'
  BY <1>1, <1>3 DEF AccInv, AttachInv, SentInv, HitInv, ResumeInv
<1> QED
  BY <1>1, <1>2, <1>3 DEF AccInv

LEMMA SkipPreserves ==
  ASSUME AccInv, SkipLine
  PROVE  AccInv'
<1>1. /\ AccTypeOK /\ phase = "interrupt" /\ out # <<>> /\ out' = Tail(out)
      /\ UNCHANGED <<target, why, settles, todo, interrupted, shown, phase, lacks, pending, faultSeen, signalSeen, stopSeen, update>>
  BY DEF SkipLine, AccInv, stateVars, resumeVars, attachVars
<1>2. out' \in Seq(Output) /\ ToSet(out') \subseteq ToSet(out)
  BY <1>1, ReadFacts
<1>3. AccTypeOK'
  BY <1>1, <1>2 DEF AccTypeOK
<1>4. ASSUME settles <= 1
      PROVE  AttachInv' /\ SentInv' /\ HitInv' /\ ResumeInv'
  BY <1>1, <1>2, <1>4 DEF AccInv, AttachInv, SentInv, HitInv, ResumeInv
<1> QED
  BY <1>1, <1>3, <1>4 DEF AccInv

LEMMA QuitPreserves ==
  ASSUME AccInv, Quit
  PROVE  AccInv'
<1> DEFINE c == Sending("echo", "none")
<1>1. /\ AccTypeOK /\ phase \in {"prompt", "loop"} /\ phase' = "interrupt" /\ update' = "quit" /\ todo' = Append(todo, c)
      /\ UNCHANGED <<target, why, settles, out, shown, lacks, pending, faultSeen, signalSeen, stopSeen>>
  BY DEF Quit, AccInv, stateVars, resumeVars, attachVars
<1>2. c \in Commands /\ c.name = "echo" /\ c # Sending("continue", "resume") /\ c # Sending("continue", "user")
  BY CommandFacts DEF Sending
<1> HIDE DEF c
<1>3. /\ todo' \in Seq(Commands) /\ ToSet(todo') = ToSet(todo) \cup {c}
      /\ OneContinue(todo) => OneContinue(todo')
      /\ NoContinue(todo) => NoContinue(todo')
  <2>1. todo \in Seq(Commands)
    BY <1>1 DEF AccTypeOK
  <2>2. /\ todo' \in Seq(Commands) /\ ToSet(todo') = ToSet(todo) \cup {c}
        /\ OneContinue(todo) => OneContinue(todo')
    BY <1>1, <1>2, <2>1, SendOne
  <2> QED
    BY <1>2, <2>2 DEF NoContinue
<1>4. AccTypeOK'
  BY <1>1, <1>3 DEF AccTypeOK
<1>5. ASSUME settles <= 1
      PROVE  AttachInv' /\ SentInv' /\ HitInv' /\ ResumeInv'
  <2>1. AttachInv' /\ SentInv'
    BY <1>1, <1>2, <1>3, <1>5 DEF AccInv, AttachInv, SentInv
  <2> QED
    BY <1>1, <2>1 DEF HitInv, ResumeInv
<1> QED
  BY <1>1, <1>4, <1>5 DEF AccInv

LEMMA PushPreserves ==
  ASSUME AccInv, NEW message \in {"install", "detach"}, Push(message)
  PROVE  AccInv'
<1> DEFINE c == Sending("echo", "none")
<1>1. /\ AccTypeOK /\ target = "running" /\ phase' = "interrupt" /\ lacks' = {} /\ update' = message
      /\ todo' \in {todo, Append(todo, c)} /\ out' \in {out, IF out = <<>> THEN out ELSE Tail(out)}
      /\ pending' = (pending /\ message # "detach") /\ phase \in {"loop", "show", "prompt"}
      /\ UNCHANGED <<target, why, settles, shown, faultSeen, signalSeen, stopSeen>>
  BY DEF Push, AccInv, stateVars, attachVars
<1>2. c \in Commands /\ c.name = "echo" /\ c # Sending("continue", "resume") /\ c # Sending("continue", "user")
  BY CommandFacts DEF Sending
<1> HIDE DEF c
<1>3. /\ todo' \in Seq(Commands) /\ ToSet(todo') \subseteq ToSet(todo) \cup {c}
      /\ OneContinue(todo) => OneContinue(todo')
      /\ NoContinue(todo) => NoContinue(todo')
  <2>1. todo \in Seq(Commands)
    BY <1>1 DEF AccTypeOK
  <2>2. CASE todo' = todo
    BY <2>1, <2>2
  <2>3. CASE todo' = Append(todo, c)
    <3>1. /\ todo' \in Seq(Commands) /\ ToSet(todo') = ToSet(todo) \cup {c}
          /\ OneContinue(todo) => OneContinue(todo')
      BY <1>2, <2>1, <2>3, SendOne
    <3> QED
      BY <1>2, <3>1 DEF NoContinue
  <2> QED
    BY <1>1, <2>2, <2>3
<1>4. out' \in Seq(Output)
  BY <1>1, ReadFacts DEF AccTypeOK
<1>5. AccTypeOK'
  BY <1>1, <1>3, <1>4 DEF AccTypeOK
<1>6. ASSUME settles <= 1
      PROVE  AttachInv' /\ SentInv' /\ HitInv' /\ ResumeInv'
  <2>1. AttachInv /\ SentInv
    BY <1>6 DEF AccInv
  <2>2. NoContinue(todo)
    BY <1>1, <2>1 DEF SentInv
  <2>3. AttachInv'
    BY <1>1, <1>2, <1>3, <2>1, <2>2 DEF AttachInv
  <2>4. SentInv'
    BY <1>1, <1>2, <1>3, <2>1, <2>2 DEF SentInv
  <2> QED
    BY <1>1, <2>3, <2>4 DEF HitInv, ResumeInv
<1> QED
  BY <1>1, <1>5, <1>6 DEF AccInv

\* The prompt after an interrupt: an update goes to install its breakpoints with nothing
\* under way, anything else detaches.
LEMMA AfterInterruptPreserves ==
  ASSUME AccInv, PromptAfterInterrupt
  PROVE  AccInv'
<1>1. /\ AccTypeOK /\ phase = "interrupt" /\ out # <<>> /\ Tail(out) \in Seq(Output) /\ ToSet(Tail(out)) \subseteq ToSet(out)
      /\ UNCHANGED <<target, why, settles, shown, pending, faultSeen, update>>
  <2>1. AccTypeOK /\ phase = "interrupt" /\ out # <<>>
        /\ UNCHANGED <<target, why, settles, shown, pending, faultSeen, update>>
    BY DEF PromptAfterInterrupt, AccInv, stateVars, resumeVars
  <2> QED
    BY <2>1, ReadFacts
<1>2. CASE update = "install" /\ Ask("install", Tail(out))
  <2> DEFINE c == Sending("ask", "none")
  <2>1. SendCommands(<<c>>, Tail(out)) /\ lacks' = {"result", "prompt"} /\ phase' = "install"
    BY <1>2 DEF Ask
  <2>2. c \in Commands /\ c.name = "ask" /\ c # Sending("continue", "resume") /\ c # Sending("continue", "user")
    BY CommandFacts DEF Sending
  <2> HIDE DEF c
  <2>3. /\ todo' \in Seq(Commands) /\ ToSet(todo') = ToSet(todo) \cup {c}
        /\ OneContinue(todo) => OneContinue(todo')
        /\ NoContinue(todo) => NoContinue(todo')
        /\ out' \in Seq(Output) /\ ToSet(out') = {}
        /\ signalSeen' \in BOOLEAN /\ stopSeen' \in BOOLEAN
    BY <1>1, <2>1, <2>2, SendFacts
  <2>4. AccTypeOK'
    BY <1>1, <2>1, <2>3 DEF AccTypeOK
  <2>5. ASSUME settles <= 1
        PROVE  AttachInv' /\ SentInv' /\ HitInv' /\ ResumeInv'
    <3>1. AttachInv /\ SentInv
      BY <2>5 DEF AccInv
    <3>2. AttachInv' /\ SentInv'
      BY <1>1, <1>2, <2>1, <2>2, <2>3, <3>1 DEF AttachInv, SentInv
    <3> QED
      BY <2>1, <3>2 DEF HitInv, ResumeInv
  <2> QED
    BY <1>1, <2>4, <2>5 DEF AccInv
<1>3. CASE /\ update \in {"detach", "quit"} /\ SendCommands(<<Sending("detach", update)>>, Tail(out))
           /\ lacks' = {"result"} /\ phase' = "detach"
  <2> DEFINE c == Sending("detach", update)
  <2>1. SendCommands(<<c>>, Tail(out)) /\ lacks' = {"result"} /\ phase' = "detach"
    BY <1>3
  <2>2. c \in Commands /\ c.name = "detach" /\ c # Sending("continue", "resume") /\ c # Sending("continue", "user")
    BY <1>3, CommandFacts
  <2> HIDE DEF c
  <2>3. /\ todo' \in Seq(Commands) /\ ToSet(todo') = ToSet(todo) \cup {c}
        /\ OneContinue(todo) => OneContinue(todo')
        /\ NoContinue(todo) => NoContinue(todo')
        /\ out' \in Seq(Output) /\ ToSet(out') = {}
        /\ signalSeen' \in BOOLEAN /\ stopSeen' \in BOOLEAN
        /\ ~signalSeen /\ "signal" \notin ToSet(Tail(out)) => ~signalSeen' /\ (~stopSeen => ~stopSeen')
    BY <1>1, <2>1, <2>2, SendFacts
  <2>4. AccTypeOK'
    BY <1>1, <2>1, <2>3 DEF AccTypeOK
  <2>5. ASSUME settles <= 1
        PROVE  AttachInv' /\ SentInv' /\ HitInv' /\ ResumeInv'
    <3>1. AttachInv /\ SentInv
      BY <2>5 DEF AccInv
    <3>2. AttachInv' /\ SentInv'
      BY <1>1, <1>3, <2>1, <2>2, <2>3, <3>1 DEF AttachInv, SentInv
    <3> QED
      BY <2>1, <3>2 DEF HitInv, ResumeInv
  <2> QED
    BY <1>1, <2>4, <2>5 DEF AccInv
<1> QED
  BY <1>2, <1>3 DEF PromptAfterInterrupt

LEMMA AccInvStep ==
  ASSUME AccInv, [AccNext]_accVars
  PROVE  AccInv'
<1>1. CASE UNCHANGED accVars
  <2>1. UNCHANGED <<target, why, settles, todo, interrupted, out, shown, phase, lacks, pending, faultSeen, signalSeen,
                    stopSeen, update>>
    BY <1>1 DEF accVars, stateVars, resumeVars, attachVars
  <2> QED
    BY <2>1 DEF AccInv, AccTypeOK, AttachInv, SentInv, HitInv, ResumeInv
<1>2. CASE Debugger
  BY <1>2, TakePreserves, SettlePreserves, InterruptPreserves DEF Debugger
<1>3. CASE Target
  BY <1>3, HitPreserves, FaultPreserves, ExitPreserves, PushPreserves DEF Target
<1>4. CASE Read
  BY <1>4, ReadAnswerPreserves, InstallAfterAttachPreserves, ContinueAfterAttachPreserves, LoopExitPreserves, LoopHitPreserves,
     LoopLinePreserves, LoopStoppedPreserves, PromptPreserves, SkipPreserves, AfterInterruptPreserves,
     ContinueAfterUpdatePreserves, DetachedPreserves DEF Read
<1>5. CASE User
  BY <1>5, UserContinuePreserves, LeavePromptPreserves, QuitPreserves DEF User
<1> QED
  BY <1>1, <1>2, <1>3, <1>4, <1>5 DEF AccNext

-----------------------------------------------------------------------------
(* Theorems.                                                               *)

\* What resumes the target is a command the debugger takes: an exec-continue of a target
\* that is stopped, or the detach.
LEMMA ResumedBy ==
  ASSUME AccInv, [AccNext]_accVars, Resumes
  PROVE  Head(todo) \in ToSet(todo) /\ Head(todo) \in Commands /\ Head(todo).name \in {"continue", "detach"}
<1>1. target = "stopped" /\ target' \in {"running", "free"}
  BY DEF Resumes
<1>2. CASE TakeCommand
  <2>1. Head(todo) \in ToSet(todo) /\ Head(todo) \in Commands
    BY <1>2, TakenFacts DEF AccInv
  <2>2. CASE Stop("settling", "attach", <<"stopped", "result", "prompt">>)
    BY <1>1, <2>2 DEF Stop
  <2>3. CASE Answer(target, <<"prompt">>) \/ Answer(target, <<"result", "prompt">>)
    BY <1>1, <2>3 DEF Answer
  <2> QED
    BY <1>2, <2>1, <2>2, <2>3 DEF TakeCommand
<1>3. CASE Interrupt
  BY <1>1, <1>3 DEF Interrupt, Answer
<1>4. CASE Settle(TRUE) \/ Settle(FALSE) \/ Hit \/ Fault \/ Exit \/ \E message \in {"install", "detach"} : Push(message)
  BY <1>1, <1>4 DEF Settle, Hit, Fault, Exit, Push
<1>5. CASE Read \/ User \/ UNCHANGED accVars
  <2>1. UNCHANGED target
    BY <1>5 DEF Read, User, accVars, stateVars, ReadAnswer, InstallBreakpoints, ContinueAfterAttach, LoopExit, LoopHit,
       LoopLine, LoopStopped, Prompt, SkipLine, PromptAfterInterrupt, ContinueAfterUpdate, Detached, UserContinue,
       LeavePrompt, Quit
  <2> QED
    BY <1>1, <2>1
<1> QED
  BY <1>2, <1>3, <1>4, <1>5 DEF AccNext, Debugger, Target

LEMMA ResumedByUser ==
  ASSUME AccInv, settles <= 1, Head(todo) \in ToSet(todo), Head(todo) \in Commands,
         Head(todo).name \in {"continue", "detach"}
  PROVE  /\ why = "hit" /\ ~shown => Head(todo).by \in {"update", "detach", "quit"}
         /\ why = "fault" => Head(todo).by # "resume"
<1>1. SentInv
  BY DEF AccInv
<1>2. Head(todo) \in {Sending("continue", by) : by \in {"resume", "user", "update"}}
                     \cup {Sending("detach", by) : by \in {"detach", "quit"}}
  BY DEF Commands, Sending
<1>3. \/ Head(todo) = Sending("continue", "resume") \/ Head(todo) = Sending("continue", "user")
      \/ Head(todo).by \in {"update", "detach", "quit"}
  BY <1>2 DEF Sending
<1> QED
  BY <1>1, <1>3 DEF SentInv, Sending

\* The invariant of a session of the accelerator's debugger.
THEOREM AccInvariance == AccSpec => []AccInv
<1>1. AccInit => AccInv
  BY AccInvInit
<1>2. AccInv /\ [AccNext]_accVars => AccInv'
  BY AccInvStep
<1> QED
  BY <1>1, <1>2, PTL DEF AccSpec

\* A hit the user has not seen is resumed only by a message or by the end of the session,
\* unless the attach took several stops to settle (_handle_post_attach_resume,
\* _enter_user_code_mode).
THEOREM ShowsHits == AccSpec => HitsAreShown
<1>1. AccInv /\ [AccNext]_accVars =>
        [Resumes /\ why = "hit" /\ ~shown /\ settles <= 1 => Head(todo).by \in {"update", "detach", "quit"}]_accVars
  BY ResumedBy, ResumedByUser
<1> QED
  BY <1>1, AccInvariance, PTL DEF AccSpec, HitsAreShown

\* The resume after the attach leaves a fault it can have seen stopped
\* (_pending_resume_fault_seen of _handle_post_attach_resume).
THEOREM LeavesFaultsStopped == AccSpec => FaultIsLeftStopped
<1>1. AccInv /\ [AccNext]_accVars =>
        [Resumes /\ why = "fault" /\ settles <= 1 => Head(todo).by # "resume"]_accVars
  BY ResumedBy, ResumedByUser
<1> QED
  BY <1>1, AccInvariance, PTL DEF AccSpec, FaultIsLeftStopped
=============================================================================
