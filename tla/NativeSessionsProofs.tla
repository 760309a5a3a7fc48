------------------------ MODULE NativeSessionsProofs ------------------------
(***************************************************************************)
(* NativeSessions keeps SessionsInv for every set of kinds, breakpoints    *)
(* and every number of helpers, failures and launches; OneAttachedSession  *)
(* and TracerIsActive follow. DebugInv, below, follows the payload of a    *)
(* launch to its helper; KernelIsDebugged and RefusedOnlyAfterFailure      *)
(* follow from it.                                                         *)
(***************************************************************************)
EXTENDS NativeSessions, TLAPS

LEMMA InitSessionsInv ==
  ASSUME Init
  PROVE  SessionsInv
<1> USE DEF Init
<1>1. TypeOK
  <2>1. (CHOOSE k \in Kinds : TRUE) \in Kinds
    OBVIOUS
  <2> QED
    BY <2>1, MaxHelpersAssumption DEF TypeOK, Helpers, Pushes
<1>2. ActiveInv
  BY DEF ActiveInv, OneAttachedSession, ActiveKinds, Alive
<1>3. HelperInv
  BY MaxHelpersAssumption DEF HelperInv, Helpers
<1>4. TracerInv
  BY DEF TracerInv
<1> QED
  BY <1>1, <1>2, <1>3, <1>4 DEF SessionsInv

-----------------------------------------------------------------------------
(* The debuggee outside a handoff.                                         *)

\* A step that touches neither sessions, helpers nor a call.
QuietStep ==
  /\ UNCHANGED <<callVars, sessionVars, processVars>>
  /\ pc \notin Pushes \cup {"attach", "launch"}
  /\ pc' \in {"python", "route", "kernel", "ending", "ended"}
  /\ userBreakpoints' \subseteq Breakpoints
  /\ enabledUnion' \subseteq Breakpoints
  /\ payload' \subseteq Breakpoints
  /\ launchKind' \in Kinds
  /\ pc' = "route" => launched < MaxHelpers

LEMMA QuietPreserves ==
  ASSUME SessionsInv, QuietStep
  PROVE  SessionsInv'
<1> USE DEF QuietStep, callVars, sessionVars, processVars
<1>1. TypeOK'
  BY DEF SessionsInv, TypeOK, Pushes
<1>2. ActiveKinds' = ActiveKinds
  BY DEF ActiveKinds, Alive
<1>3. ActiveInv'
  BY <1>2 DEF SessionsInv, ActiveInv, OneAttachedSession
<1>4. HelperInv'
  BY DEF SessionsInv, HelperInv, Pushes
<1>5. TracerInv'
  BY <1>2 DEF SessionsInv, TracerInv, Pushes
<1> QED
  BY <1>1, <1>3, <1>4, <1>5 DEF SessionsInv

DebuggeeStep ==
  \/ \E b \in Breakpoints : SetBreak(b) \/ ClearBreak(b)
  \/ \E k \in Kinds, overlap \in SUBSET userBreakpoints : ReachLaunch(k, overlap)
  \/ SkipUpdate
  \/ KernelEnds
  \/ EndRun
  \/ Ended

LEMMA DebuggeePreserves ==
  ASSUME SessionsInv, DebuggeeStep
  PROVE  SessionsInv'
<1> USE DEF callVars, sessionVars, processVars, launchVars, userVars, Pushes
<1>1. TypeOK
  BY DEF SessionsInv
<1>2. ASSUME NEW b \in Breakpoints, SetBreak(b) \/ ClearBreak(b)
      PROVE  QuietStep
  BY <1>1, <1>2 DEF SetBreak, ClearBreak, QuietStep, TypeOK
<1>3. ASSUME NEW k \in Kinds, NEW overlap \in SUBSET userBreakpoints, ReachLaunch(k, overlap)
      PROVE  QuietStep
  BY <1>1, <1>3 DEF ReachLaunch, QuietStep, TypeOK
<1>4. CASE SkipUpdate \/ KernelEnds \/ EndRun \/ Ended
  <2>1. QuietStep
    BY <1>1, <1>4 DEF SkipUpdate, KernelEnds, EndRun, Ended, Goes, QuietStep, TypeOK
  <2> QED
    BY <2>1, QuietPreserves
<1> QED
  BY <1>2, <1>3, <1>4, QuietPreserves DEF DebuggeeStep

\* A session whose helper is gone was not active.
LEMMA ReapPreserves ==
  ASSUME SessionsInv, NEW k \in Kinds, Reap(k)
  PROVE  SessionsInv'
<1> USE DEF Reap, callVars, processVars, launchVars, userVars
<1>1. TypeOK'
  BY DEF SessionsInv, TypeOK, Pushes
<1>2. ActiveKinds' = ActiveKinds /\ \A j \in ActiveKinds : session'[j] = session[j]
  BY DEF SessionsInv, TypeOK, ActiveKinds, Alive
<1>3. ActiveInv'
  BY <1>2 DEF SessionsInv, ActiveInv, OneAttachedSession
<1>4. HelperInv'
  BY MaxHelpersAssumption DEF SessionsInv, TypeOK, HelperInv, Helpers, Pushes
<1>5. TracerInv'
  BY <1>2 DEF SessionsInv, TracerInv
<1> QED
  BY <1>1, <1>3, <1>4, <1>5 DEF SessionsInv

-----------------------------------------------------------------------------
(* The handoff.                                                            *)

\* The opening of a call moves no session and no helper.
LEMMA CallPreserves ==
  ASSUME SessionsInv, BeginUpdate \/ BeginDetach \/ BeginReattach
  PROVE  SessionsInv'
<1> USE DEF Call, Goes, callVars, sessionVars, processVars, launchVars, userVars
<1>1. ActiveKinds' = ActiveKinds /\ served' = FALSE
  BY DEF BeginUpdate, BeginDetach, BeginReattach, ActiveKinds, Alive
<1>2. TypeOK'
  <2>1. CASE BeginUpdate
    BY <2>1 DEF BeginUpdate, SessionsInv, TypeOK, ActiveKinds, Alive, Pushes
  <2>2. CASE BeginDetach
    BY <2>2 DEF BeginDetach, SessionsInv, TypeOK, ActiveKinds, Alive, Pushes
  <2>3. CASE BeginReattach
    BY <2>3 DEF BeginReattach, SessionsInv, TypeOK, Alive, Pushes
  <2> QED
    BY <2>1, <2>2, <2>3
<1>3. ActiveInv'
  <2>1. CASE BeginUpdate
    BY <1>1, <2>1 DEF BeginUpdate, SessionsInv, ActiveInv, OneAttachedSession
  <2>2. CASE BeginDetach
    BY <1>1, <2>2 DEF BeginDetach, SessionsInv, ActiveInv, OneAttachedSession
  <2>3. CASE BeginReattach
    BY <1>1, <2>3 DEF BeginReattach, SessionsInv, ActiveInv, OneAttachedSession
  <2> QED
    BY <2>1, <2>2, <2>3
<1>4. HelperInv'
  BY DEF BeginUpdate, BeginDetach, BeginReattach, SessionsInv, HelperInv, Pushes
<1>5. TracerInv'
  BY <1>1 DEF BeginUpdate, BeginDetach, BeginReattach, SessionsInv, TracerInv
<1> QED
  BY <1>2, <1>3, <1>4, <1>5 DEF SessionsInv

LEMMA NoActivePreserves ==
  ASSUME SessionsInv, NoActive
  PROVE  SessionsInv'
<1> USE DEF NoActive, Goes, callVars, sessionVars, processVars, launchVars, userVars
<1>1. TypeOK'
  BY DEF SessionsInv, TypeOK, Pushes
<1>2. ActiveKinds' = {}
  BY DEF ActiveKinds, Alive
<1>3. ActiveInv'
  BY <1>2 DEF SessionsInv, ActiveInv, OneAttachedSession
<1>4. HelperInv'
  BY DEF SessionsInv, HelperInv, Pushes
<1>5. TracerInv'
  BY DEF SessionsInv, TracerInv
<1> QED
  BY <1>1, <1>3, <1>4, <1>5 DEF SessionsInv

\* The detached helper either served the detach, or is gone.
LEMMA EndDetachPreserves ==
  ASSUME SessionsInv, EndDetach
  PROVE  SessionsInv'
<1> USE DEF EndDetach, EndCall, Goes, Returned, processVars, launchVars, userVars
<1>1. TypeOK'
  BY DEF SessionsInv, TypeOK, Pushes
<1>2. ActiveKinds' = {}
  BY DEF SessionsInv, TypeOK, ActiveInv, ActiveKinds, Alive
<1>3. ActiveInv'
  BY <1>2 DEF ActiveInv, OneAttachedSession
<1>4. HelperInv'
  BY DEF SessionsInv, HelperInv, Pushes
<1>5. TracerInv'
  BY DEF SessionsInv, TypeOK, ActiveInv, TracerInv
<1> QED
  BY <1>1, <1>3, <1>4, <1>5 DEF SessionsInv

\* The session the call went to is the only one attached after it.
LEMMA EndUpdatePreserves ==
  ASSUME SessionsInv, EndUpdate
  PROVE  SessionsInv'
<1> USE DEF EndUpdate, EndCall, Goes, processVars, launchVars, userVars
<1>1. TypeOK'
  BY DEF SessionsInv, TypeOK, Pushes
<1>2. ActiveKinds \subseteq {launchKind} /\ ActiveKinds' \subseteq {launchKind}
  BY DEF SessionsInv, TypeOK, ActiveInv, ActiveKinds, Alive
<1>3. ActiveKinds \subseteq ActiveKinds'
  BY DEF SessionsInv, TypeOK, ActiveKinds, Alive
<1>4. ActiveInv'
  BY <1>2 DEF ActiveInv, OneAttachedSession
<1>5. HelperInv'
  BY DEF SessionsInv, HelperInv, Pushes
<1>6. TracerInv'
  <2>1. ASSUME pc = "reattach", tracer # 0, tracer = peer, helper[tracer] # "dead"
        PROVE  launchKind \in ActiveKinds' /\ session'[launchKind] = tracer
    BY <2>1 DEF SessionsInv, TypeOK, ActiveInv, ActiveKinds, Alive
  <2> QED
    BY <1>3, <2>1 DEF SessionsInv, TracerInv
<1> QED
  BY <1>1, <1>4, <1>5, <1>6 DEF SessionsInv

\* The new helper belongs to no session yet.
LEMMA BeginLaunchPreserves ==
  ASSUME SessionsInv, BeginLaunch
  PROVE  SessionsInv'
<1> USE DEF BeginLaunch, callVars, sessionVars, launchVars, userVars
<1>1. launched' \in Helpers
  BY MaxHelpersAssumption DEF SessionsInv, TypeOK, HelperInv, Helpers
<1>2. TypeOK'
  BY <1>1 DEF SessionsInv, TypeOK, Pushes
<1>3. ActiveKinds' = {}
  BY <1>1 DEF SessionsInv, TypeOK, ActiveInv, HelperInv, ActiveKinds, Alive, Helpers
<1>4. ActiveInv'
  BY <1>3 DEF ActiveInv, OneAttachedSession
<1>5. HelperInv'
  <2>1. \A h \in Helpers : helper'[h] = "none" <=> h > launched'
    BY <1>1 DEF SessionsInv, TypeOK, HelperInv, Helpers
  <2>2. \A h \in Helpers : helper'[h] = "starting" => h = launched'
    BY <1>1 DEF SessionsInv, TypeOK, HelperInv
  <2>3. launched' > 0 /\ tracer' <= launched' /\ \A k \in Kinds : session'[k] <= launched'
    <3>1. launched \in Nat /\ tracer \in Nat /\ \A k \in Kinds : session[k] \in Nat
      BY MaxHelpersAssumption DEF SessionsInv, TypeOK, Helpers
    <3>2. tracer <= launched /\ \A k \in Kinds : session[k] <= launched
      BY DEF SessionsInv, HelperInv
    <3> QED
      BY <3>1, <3>2
  <2> QED
    BY <2>1, <2>2, <2>3 DEF HelperInv, Pushes
<1>6. TracerInv'
  BY <1>1 DEF SessionsInv, TypeOK, ActiveInv, HelperInv, TracerInv, Helpers
<1> QED
  BY <1>2, <1>4, <1>5, <1>6 DEF SessionsInv

\* The new session replaces one whose helper is gone.
LEMMA EndLaunchPreserves ==
  ASSUME SessionsInv, EndLaunch
  PROVE  SessionsInv'
<1> USE DEF EndLaunch, Goes, callVars, processVars, launchVars, userVars
<1>1. launched \in Helpers
  BY MaxHelpersAssumption DEF SessionsInv, TypeOK, HelperInv, Helpers
<1>2. TypeOK'
  BY <1>1 DEF SessionsInv, TypeOK, Pushes
<1>3. ActiveKinds' \subseteq {launchKind}
  BY DEF SessionsInv, TypeOK, ActiveInv, ActiveKinds, Alive
<1>4. ActiveInv'
  BY <1>3 DEF ActiveInv, OneAttachedSession
<1>5. HelperInv'
  BY <1>1, MaxHelpersAssumption DEF SessionsInv, TypeOK, HelperInv, Helpers, Pushes
<1>6. TracerInv'
  <2>1. ASSUME tracer # 0, helper[tracer] # "dead"
        PROVE  tracer = launched
    BY <2>1 DEF SessionsInv, ActiveInv, TracerInv
  <2>2. ASSUME tracer # 0, helper[tracer] # "dead"
        PROVE  launchKind \in ActiveKinds' /\ session'[launchKind] = tracer
    BY <1>1, <2>1, <2>2 DEF SessionsInv, TypeOK, ActiveKinds, Alive, Helpers
  <2> QED
    BY <2>2 DEF TracerInv
<1> QED
  BY <1>2, <1>4, <1>5, <1>6 DEF SessionsInv

-----------------------------------------------------------------------------
(* The helpers.                                                            *)

\* What any step of a helper may do: sessions stay, a helper only starts up or
\* ends, and ptrace changes hands only to the helper that is to attach.
HelperMoves ==
  /\ UNCHANGED debuggeeVars
  /\ \A h \in Helpers :
       \/ helper'[h] = helper[h]
       \/ helper[h] # "none" /\ helper'[h] = "dead"
       \/ helper[h] = "starting" /\ helper'[h] = "up"
  /\ \/ tracer' \in {0, tracer}
     \/ pc = "launch" /\ tracer' = launched
     \/ pc = "reattach" /\ tracer' = peer

\* Sessions only lose their helper while the debuggee stays where it is.
LEMMA HelperMovesPreserve ==
  ASSUME SessionsInv, HelperMoves, TypeOK',
         pc = "detach" /\ served' => served \/ tracer' # peer
  PROVE  SessionsInv'
<1> USE DEF HelperMoves, debuggeeVars, sessionVars, launchVars, userVars
<1>1. ActiveKinds' \subseteq ActiveKinds
  BY DEF SessionsInv, TypeOK, ActiveKinds, Alive
<1>2. ActiveInv'
  BY <1>1 DEF SessionsInv, ActiveInv, OneAttachedSession
<1>3. HelperInv'
  <2>1. pc = "reattach" => peer \in Helpers /\ peer <= launched /\ launchKind \in Kinds
    BY DEF SessionsInv, TypeOK, ActiveInv, HelperInv, Pushes, Helpers
  <2> QED
    BY <2>1 DEF SessionsInv, TypeOK, HelperInv, Helpers, Pushes
<1>4. TracerInv'
  <2>1. ASSUME tracer' # 0, helper'[tracer'] # "dead", tracer' = tracer,
               NEW k \in ActiveKinds, session[k] = tracer
        PROVE  k \in ActiveKinds' /\ session'[k] = tracer'
    BY <2>1 DEF ActiveKinds, Alive
  <2>2. tracer' # 0 /\ helper'[tracer'] # "dead" /\ tracer' = tracer => helper[tracer] # "dead"
    BY DEF SessionsInv, TypeOK, Helpers
  <2>3. pc = "detach" /\ served' => tracer' # peer
    BY DEF SessionsInv, TypeOK, TracerInv, Helpers, Pushes
  <2> QED
    BY <2>1, <2>2, <2>3 DEF SessionsInv, TracerInv
<1> QED
  BY <1>2, <1>3, <1>4 DEF SessionsInv

LEMMA HelperStepPreserves ==
  ASSUME SessionsInv, NEW h \in Helpers, HelperStep(h) \/ Quit(h) \/ HelperDies(h) \/ GdbDies(h)
  PROVE  SessionsInv'
<1> USE DEF debuggeeVars, sessionVars, launchVars, userVars
<1>1. TypeOK /\ ActiveInv /\ HelperInv /\ TracerInv
  BY DEF SessionsInv
<1>2. CASE Attach(h)
  <2> USE <1>1, <1>2 DEF Attach, TargetAttach
  <2>1. TypeOK'
    BY DEF TypeOK
  <2>2. HelperMoves
    BY DEF HelperMoves, TypeOK, HelperInv
  <2>3. pc = "detach" /\ served' => served \/ tracer' # peer
    BY DEF TypeOK, Pushes, Helpers
  <2> QED
    BY <2>1, <2>2, <2>3, HelperMovesPreserve
<1>3. CASE SignalReady(h)
  <2> USE <1>1, <1>3 DEF SignalReady
  <2>1. TypeOK'
    BY DEF TypeOK
  <2>2. HelperMoves
    BY DEF HelperMoves, TypeOK, HelperInv
  <2>3. pc = "detach" /\ served' => served \/ tracer' # peer
    BY DEF TypeOK, Pushes, Helpers
  <2> QED
    BY <2>1, <2>2, <2>3, HelperMovesPreserve
<1>4. CASE ApplyUpdate(h)
  <2> USE <1>1, <1>4 DEF ApplyUpdate, Serve
  <2>1. TypeOK'
    BY DEF TypeOK
  <2>2. HelperMoves
    BY DEF HelperMoves, TypeOK, HelperInv
  <2>3. pc = "detach" /\ served' => served \/ tracer' # peer
    BY DEF TypeOK, Pushes, Helpers
  <2> QED
    BY <2>1, <2>2, <2>3, HelperMovesPreserve
<1>5. CASE ApplyDetach(h)
  <2> USE <1>1, <1>5 DEF ApplyDetach, Serve
  <2>1. TypeOK'
    BY DEF TypeOK
  <2>2. HelperMoves
    BY DEF HelperMoves, TypeOK, HelperInv
  <2>3. pc = "detach" /\ served' => served \/ tracer' # peer
    BY DEF TypeOK, Pushes, Helpers
  <2> QED
    BY <2>1, <2>2, <2>3, HelperMovesPreserve
<1>6. CASE ApplyReattach(h)
  <2> USE <1>1, <1>6 DEF ApplyReattach, Serve, TargetAttach
  <2>1. TypeOK'
    BY DEF TypeOK
  <2>2. HelperMoves
    BY DEF HelperMoves, TypeOK, HelperInv
  <2>3. pc = "detach" /\ served' => served \/ tracer' # peer
    BY DEF TypeOK, Pushes, Helpers
  <2> QED
    BY <2>1, <2>2, <2>3, HelperMovesPreserve
<1>7. CASE GdbExits(h)
  <2> USE <1>1, <1>7 DEF GdbExits
  <2>1. TypeOK'
    BY DEF TypeOK
  <2>2. HelperMoves
    BY DEF HelperMoves, TypeOK, HelperInv
  <2>3. pc = "detach" /\ served' => served \/ tracer' # peer
    BY DEF TypeOK, Pushes, Helpers
  <2> QED
    BY <2>1, <2>2, <2>3, HelperMovesPreserve
<1>8. CASE LoopEnds(h)
  <2> USE <1>1, <1>8 DEF LoopEnds
  <2>1. TypeOK'
    BY DEF TypeOK
  <2>2. HelperMoves
    BY DEF HelperMoves, TypeOK, HelperInv
  <2>3. pc = "detach" /\ served' => served \/ tracer' # peer
    BY DEF TypeOK, Pushes, Helpers
  <2> QED
    BY <2>1, <2>2, <2>3, HelperMovesPreserve
<1>9. CASE Interrupted(h)
  <2> USE <1>1, <1>9 DEF Interrupted, Stop
  <2>1. TypeOK'
    BY DEF TypeOK
  <2>2. HelperMoves
    BY DEF HelperMoves, TypeOK, HelperInv
  <2>3. pc = "detach" /\ served' => served \/ tracer' # peer
    BY DEF TypeOK, Pushes, Helpers
  <2> QED
    BY <2>1, <2>2, <2>3, HelperMovesPreserve
<1>10. CASE Quit(h)
  <2> USE <1>1, <1>10 DEF Quit, Stop
  <2>1. TypeOK'
    BY DEF TypeOK
  <2>2. HelperMoves
    BY DEF HelperMoves, TypeOK, HelperInv
  <2>3. pc = "detach" /\ served' => served \/ tracer' # peer
    BY DEF TypeOK, Pushes, Helpers
  <2> QED
    BY <2>1, <2>2, <2>3, HelperMovesPreserve
<1>11. CASE HelperDies(h)
  <2> USE <1>1, <1>11 DEF HelperDies
  <2>1. TypeOK'
    BY DEF TypeOK
  <2>2. HelperMoves
    BY DEF HelperMoves, TypeOK, HelperInv
  <2>3. pc = "detach" /\ served' => served \/ tracer' # peer
    BY DEF TypeOK, Pushes, Helpers
  <2> QED
    BY <2>1, <2>2, <2>3, HelperMovesPreserve
<1>12. CASE GdbDies(h)
  <2> USE <1>1, <1>12 DEF GdbDies
  <2>1. TypeOK'
    BY DEF TypeOK
  <2>2. HelperMoves
    BY DEF HelperMoves, TypeOK, HelperInv
  <2>3. pc = "detach" /\ served' => served \/ tracer' # peer
    BY DEF TypeOK, Pushes, Helpers
  <2> QED
    BY <2>1, <2>2, <2>3, HelperMovesPreserve
<1> QED
  BY <1>2, <1>3, <1>4, <1>5, <1>6, <1>7, <1>8, <1>9, <1>10, <1>11, <1>12 DEF HelperStep

-----------------------------------------------------------------------------
(* The theorems.                                                           *)

\* A stop, its end and the loss of a push change nothing else.
HoldStep == TargetStops \/ UserContinues \/ Released \/ DropPush

LEMMA HoldPreserves ==
  ASSUME SessionsInv, HoldStep
  PROVE  SessionsInv'
<1> USE DEF sessionVars, launchVars, userVars, processVars
<1>1. UNCHANGED <<userVars, pc, launchVars, peer, served, sessionVars, processVars>>
      /\ hold' \in {"no", "dropped", "stopped"}
  BY DEF HoldStep, TargetStops, UserContinues, Released, Resumes, DropPush
<1>2. TypeOK'
  BY <1>1 DEF SessionsInv, TypeOK
<1>3. ActiveInv'
  BY <1>1 DEF SessionsInv, ActiveInv, OneAttachedSession, ActiveKinds, Alive
<1>4. HelperInv'
  BY <1>1 DEF SessionsInv, HelperInv
<1>5. TracerInv'
  BY <1>1 DEF SessionsInv, TracerInv, ActiveKinds, Alive
<1> QED
  BY <1>2, <1>3, <1>4, <1>5 DEF SessionsInv

LEMMA NextPreserves ==
  ASSUME SessionsInv, [Next]_vars
  PROVE  SessionsInv'
<1>1. CASE DebuggeeStep
  BY <1>1, DebuggeePreserves
<1>2. CASE BeginUpdate \/ BeginDetach \/ BeginReattach
  BY <1>2, CallPreserves
<1>3. CASE NoActive
  BY <1>3, NoActivePreserves
<1>4. CASE EndDetach
  BY <1>4, EndDetachPreserves
<1>5. CASE EndUpdate
  BY <1>5, EndUpdatePreserves
<1>6. CASE BeginLaunch
  BY <1>6, BeginLaunchPreserves
<1>7. CASE EndLaunch
  BY <1>7, EndLaunchPreserves
<1>8. ASSUME NEW k \in Kinds, Reap(k)
      PROVE  SessionsInv'
  BY <1>8, ReapPreserves
<1>9. ASSUME NEW h \in Helpers, HelperStep(h) \/ Quit(h) \/ HelperDies(h) \/ GdbDies(h)
      PROVE  SessionsInv'
  BY <1>9, HelperStepPreserves
<1>10. CASE UNCHANGED vars
  <2> USE <1>10 DEF vars, userVars, launchVars, callVars, sessionVars, processVars
  <2>1. TypeOK'
    BY DEF SessionsInv, TypeOK
  <2>2. ActiveInv'
    BY DEF SessionsInv, ActiveInv, OneAttachedSession, ActiveKinds, Alive
  <2>3. HelperInv'
    BY DEF SessionsInv, HelperInv
  <2>4. TracerInv'
    BY DEF SessionsInv, TracerInv, ActiveKinds, Alive
  <2> QED
    BY <2>1, <2>2, <2>3, <2>4 DEF SessionsInv
<1>11. CASE HoldStep
  BY <1>11, HoldPreserves
<1> QED
  BY <1>1, <1>2, <1>3, <1>4, <1>5, <1>6, <1>7, <1>8, <1>9, <1>10, <1>11
  DEF Next, Handoff, DebuggeeStep, HoldStep

\* The inductive invariant: what was attached lets go before anything else is
\* attached, and ptrace changes hands only in the call or launch under way.
THEOREM SessionsInvariance == Spec => []SessionsInv
  BY InitSessionsInv, NextPreserves, PTL DEF Spec

\* Every variable keeps its type; a push always has a helper to go to.
THEOREM SessionTypes == Spec => []TypeOK
<1>1. SessionsInv => TypeOK
  BY DEF SessionsInv
<1> QED
  BY <1>1, SessionsInvariance, PTL

\* No two sessions with a live helper are attached at the same time.
THEOREM OneAttached == Spec => []OneAttachedSession
<1>1. SessionsInv => OneAttachedSession
  BY DEF SessionsInv, ActiveInv
<1> QED
  BY <1>1, SessionsInvariance, PTL

\* Outside a handoff, a live helper holds the debuggee only for the attached session.
THEOREM TracerCorrect == Spec => []TracerIsActive
<1>1. SessionsInv => TracerIsActive
  BY DEF SessionsInv, TracerInv, TracerIsActive
<1> QED
  BY <1>1, SessionsInvariance, PTL

-----------------------------------------------------------------------------
(* What a session is attached for: KernelIsDebugged.                       *)

\* The gdb of helper h is on the debuggee with these breakpoints, or is gone, or
\* was refused.
Debugs(h, enabled) ==
  \/ tracer = h /\ enabled \subseteq armed[h]
  \/ gdb[h] \in {"eof", "gone"}
  \/ h \in refused

\* Helpers and their gdbs start and end together, and without a failure a helper
\* lets go of the debuggee before it ends.
GdbInv ==
  /\ \A h \in Helpers : helper[h] = "none" => gdb[h] = "none"
  /\ \A h \in Helpers : helper[h] = "up" => gdb[h] # "none"
  /\ tracer # 0 => gdb[tracer] \in {"up", "eof"}
  /\ lost = {} => refused = {} /\ (tracer # 0 => helper[tracer] # "dead")

\* The payload, from the launch that makes it to last_payload: what an attached session
\* was last given is armed, except while a detach is under way.
CarriedInv ==
  /\ pc # "detach" => \A k \in ActiveKinds : Debugs(session[k], lastPayload[k])
  /\ pc \in {"update", "reattach"} /\ served => Debugs(peer, payload)
  /\ pc = "launch" /\ gdb[launched] # "none" => Debugs(launched, payload)
  /\ pc = "update" => session[launchKind] = peer /\ attached[launchKind]
  /\ pc = "kernel" /\ Alive(launchKind) => attached[launchKind] /\ payload = lastPayload[launchKind]

DebugInv == SessionsInv /\ GdbInv /\ CarriedInv

LEMMA InitDebugInv ==
  ASSUME Init
  PROVE  DebugInv
<1>1. SessionsInv
  BY InitSessionsInv
<1>2. GdbInv
  BY DEF Init, GdbInv
<1>3. CarriedInv
  BY DEF Init, CarriedInv, ActiveKinds
<1> QED
  BY <1>1, <1>2, <1>3 DEF DebugInv

\* The debuggee's steps leave the helpers alone.
LEMMA GdbKept ==
  ASSUME GdbInv, UNCHANGED <<helper, gdb, tracer, refused, lost>>
  PROVE  GdbInv'
BY DEF GdbInv

\* Outside a handoff; the payload of a launch that needs no push is that of the session.
LEMMA DebuggeeCarries ==
  ASSUME DebugInv, SessionsInv', DebuggeeStep
  PROVE  DebugInv'
<1> USE DEF callVars, sessionVars, processVars, launchVars, userVars, Pushes
<1>1. /\ UNCHANGED <<callVars, sessionVars, processVars>>
      /\ pc # "detach" /\ pc' \notin {"update", "reattach", "launch", "detach"}
      /\ pc' = "kernel" => SkipUpdate
  BY DEF DebuggeeStep, SetBreak, ClearBreak, ReachLaunch, SkipUpdate, KernelEnds, EndRun, Ended, Goes
<1>2. ActiveKinds' = ActiveKinds
  BY <1>1 DEF ActiveKinds, Alive
<1>3. \A k \in ActiveKinds' : Debugs(session[k], lastPayload[k])'
  BY <1>1, <1>2 DEF DebugInv, CarriedInv, Debugs
<1>4. SkipUpdate => attached'[launchKind'] /\ payload' = lastPayload'[launchKind']
  BY DEF SkipUpdate, Goes, ActiveKinds
<1>5. CarriedInv'
  BY <1>1, <1>3, <1>4 DEF CarriedInv
<1> QED
  BY <1>1, <1>5, GdbKept DEF DebugInv

LEMMA ReapCarries ==
  ASSUME DebugInv, SessionsInv', NEW k \in Kinds, Reap(k)
  PROVE  DebugInv'
<1> USE DEF Reap, callVars, processVars, launchVars, userVars
<1>1. ActiveKinds' = ActiveKinds /\ \A j \in ActiveKinds : session'[j] = session[j]
  BY DEF DebugInv, SessionsInv, TypeOK, ActiveKinds, Alive
<1>2. CarriedInv'
  BY <1>1 DEF DebugInv, CarriedInv, Debugs
<1> QED
  BY <1>2, GdbKept DEF DebugInv

\* A call opens unserved; an update goes to the attached session of the launch's kind.
LEMMA CallCarries ==
  ASSUME DebugInv, SessionsInv', BeginUpdate \/ BeginDetach \/ BeginReattach \/ NoActive
  PROVE  DebugInv'
<1> USE DEF Call, Goes, callVars, sessionVars, processVars, launchVars, userVars
<1>1. /\ UNCHANGED <<sessionVars, processVars, launchVars>>
      /\ pc \in {"route", "attach"} /\ pc' \in {"update", "detach", "reattach", "attach"}
      /\ pc' # "attach" => ~served'
  BY DEF BeginUpdate, BeginDetach, BeginReattach, NoActive
<1>2. ActiveKinds' = ActiveKinds
  BY <1>1 DEF ActiveKinds, Alive
<1>3. \A k \in ActiveKinds' : Debugs(session[k], lastPayload[k])'
  BY <1>1, <1>2 DEF DebugInv, CarriedInv, Debugs
<1>4. pc' = "update" => session'[launchKind'] = peer' /\ attached'[launchKind']
  BY DEF BeginUpdate, BeginDetach, BeginReattach, NoActive, ActiveKinds
<1>5. CarriedInv'
  BY <1>1, <1>3, <1>4 DEF CarriedInv
<1> QED
  BY <1>1, <1>5, GdbKept DEF DebugInv

LEMMA EndDetachCarries ==
  ASSUME DebugInv, SessionsInv', EndDetach
  PROVE  DebugInv'
<1> USE DEF EndDetach, EndCall, Goes, processVars, launchVars, userVars
<1>1. ActiveKinds' = {}
  BY DEF SessionsInv, ActiveInv
<1>2. CarriedInv'
  BY <1>1 DEF CarriedInv
<1> QED
  BY <1>2, GdbKept DEF DebugInv

\* A call that was served left the payload armed; one that was not has lost its helper.
LEMMA EndUpdateCarries ==
  ASSUME DebugInv, SessionsInv', EndUpdate
  PROVE  DebugInv'
<1> USE DEF EndUpdate, EndCall, Goes, processVars, launchVars, userVars
<1>1. /\ session[launchKind] = peer /\ launchKind \in Kinds /\ peer \in Helpers
      /\ ActiveKinds \subseteq {launchKind}
  BY DEF DebugInv, SessionsInv, TypeOK, ActiveInv, CarriedInv, Pushes
<1>2. ActiveKinds' \subseteq {launchKind}
  BY <1>1 DEF DebugInv, SessionsInv, TypeOK, ActiveKinds, Alive
<1>3. launchKind \in ActiveKinds' => Debugs(peer, payload)
  BY <1>1 DEF DebugInv, CarriedInv, Returned, ActiveKinds, Alive
<1>4. attached'[launchKind] /\ lastPayload'[launchKind] = payload
  BY <1>1 DEF DebugInv, SessionsInv, TypeOK
<1>5. \A k \in ActiveKinds' : Debugs(session[k], lastPayload[k])'
  BY <1>1, <1>2, <1>3, <1>4 DEF Debugs
<1>6. CarriedInv'
  BY <1>4, <1>5 DEF CarriedInv
<1> QED
  BY <1>6, GdbKept DEF DebugInv

\* The new helper has no gdb yet.
LEMMA BeginLaunchCarries ==
  ASSUME DebugInv, SessionsInv', BeginLaunch
  PROVE  DebugInv'
<1> USE DEF BeginLaunch, callVars, sessionVars, launchVars, userVars
<1>1. launched' \in Helpers /\ helper[launched'] = "none" /\ tracer # launched'
  BY MaxHelpersAssumption DEF DebugInv, SessionsInv, TypeOK, HelperInv, Helpers
<1>2. gdb[launched'] = "none"
  BY <1>1 DEF DebugInv, GdbInv
<1>3. \A h \in Helpers : helper'[h] = IF h = launched' THEN "starting" ELSE helper[h]
  BY <1>1 DEF DebugInv, SessionsInv, TypeOK
<1>4. GdbInv'
  <2>1. tracer' # 0 => helper'[tracer'] = helper[tracer]
    BY <1>1, <1>3 DEF DebugInv, SessionsInv, TypeOK
  <2> QED
    BY <1>3, <2>1 DEF DebugInv, GdbInv
<1>5. ActiveKinds' = {}
  BY DEF SessionsInv, ActiveInv
<1>6. CarriedInv'
  BY <1>2, <1>5 DEF CarriedInv
<1> QED
  BY <1>4, <1>6 DEF DebugInv

\* A helper that is up has attached with the payload.
LEMMA EndLaunchCarries ==
  ASSUME DebugInv, SessionsInv', EndLaunch
  PROVE  DebugInv'
<1> USE DEF EndLaunch, Goes, callVars, processVars, launchVars, userVars
<1>1. launched \in Helpers /\ launchKind \in Kinds /\ ActiveKinds = {}
  BY MaxHelpersAssumption DEF DebugInv, SessionsInv, TypeOK, ActiveInv, HelperInv, Helpers
<1>2. /\ session'[launchKind] = launched /\ attached'[launchKind]
      /\ lastPayload'[launchKind] = payload
  BY <1>1 DEF DebugInv, SessionsInv, TypeOK
<1>3. ActiveKinds' \subseteq {launchKind}
  BY <1>1 DEF DebugInv, SessionsInv, TypeOK, ActiveKinds, Alive
<1>4. launchKind \in ActiveKinds' => Debugs(launched, payload)
  <2>1. launchKind \in ActiveKinds' => helper[launched] = "up"
    BY <1>2 DEF ActiveKinds, Alive
  <2> QED
    BY <1>1, <2>1 DEF DebugInv, GdbInv, CarriedInv
<1>5. \A k \in ActiveKinds' : Debugs(session[k], lastPayload[k])'
  BY <1>2, <1>3, <1>4 DEF Debugs
<1>6. CarriedInv'
  BY <1>2, <1>5 DEF CarriedInv
<1> QED
  BY <1>6, GdbKept DEF DebugInv

\* A step of a helper leaves the debuggee where it is.
LEMMA HelperCarries ==
  ASSUME DebugInv, HelperMoves,
         pc # "detach" => \A k \in ActiveKinds : Debugs(session[k], lastPayload[k])',
         pc \in {"update", "reattach"} /\ served' => Debugs(peer, payload)',
         pc = "launch" /\ gdb'[launched] # "none" => Debugs(launched, payload)'
  PROVE  CarriedInv'
<1> USE DEF HelperMoves, debuggeeVars, sessionVars, launchVars, userVars
<1>1. ActiveKinds' \subseteq ActiveKinds
  BY DEF DebugInv, SessionsInv, TypeOK, ActiveKinds, Alive
<1>2. launchKind \in Kinds /\ (Alive(launchKind)' => Alive(launchKind))
  BY DEF DebugInv, SessionsInv, TypeOK, Alive
<1>3. pc # "detach" => \A k \in ActiveKinds' : Debugs(session[k], lastPayload[k])'
  BY <1>1
<1> QED
  BY <1>2, <1>3 DEF DebugInv, CarriedInv

\* A gdb that only goes on to its end, and lets go of the debuggee as it ends, leaves
\* every session as well debugged as it was.
LEMMA EndingCarries ==
  ASSUME DebugInv, HelperMoves, UNCHANGED <<served, armed, refused>>,
         \A h \in Helpers :
           /\ gdb'[h] = gdb[h] \/ gdb'[h] \in {"eof", "gone"}
           /\ gdb[h] = "none" => gdb'[h] = "none"
           /\ gdb[h] \in {"eof", "gone"} => gdb'[h] \in {"eof", "gone"}
           /\ tracer = h => tracer' = h \/ gdb'[h] \in {"eof", "gone"}
  PROVE  CarriedInv'
<1> USE DEF HelperMoves, debuggeeVars, sessionVars, launchVars, userVars
<1>1. ASSUME NEW h \in Helpers, NEW enabled, Debugs(h, enabled)
      PROVE  /\ \/ tracer' = h /\ enabled \subseteq armed'[h]
                \/ gdb'[h] \in {"eof", "gone"}
                \/ h \in refused'
  BY <1>1 DEF Debugs
<1>2. \A k \in ActiveKinds : session[k] \in Helpers
  BY DEF DebugInv, SessionsInv, TypeOK, ActiveKinds, Alive
<1>3. pc # "detach" => \A k \in ActiveKinds : Debugs(session[k], lastPayload[k])'
  BY <1>1, <1>2 DEF DebugInv, CarriedInv, Debugs
<1>4. pc \in {"update", "reattach"} => peer \in Helpers
  BY DEF DebugInv, SessionsInv, TypeOK, Pushes
<1>5. pc \in {"update", "reattach"} /\ served' => Debugs(peer, payload)'
  BY <1>1, <1>4 DEF DebugInv, CarriedInv, Debugs
<1>6. pc = "launch" => launched \in Helpers
  BY MaxHelpersAssumption DEF DebugInv, SessionsInv, TypeOK, HelperInv, Helpers
<1>7. pc = "launch" /\ gdb'[launched] # "none" => Debugs(launched, payload)'
  BY <1>1, <1>6 DEF DebugInv, CarriedInv, Debugs
<1> QED
  BY <1>3, <1>5, <1>7, HelperCarries

\* Without a failure no other gdb is in the way of an attach.
LEMMA AttachSucceeds ==
  ASSUME DebugInv, lost = {}, pc \in {"launch", "reattach"}, tracer # 0
  PROVE  tracer = IF pc = "launch" THEN launched ELSE peer
<1>1. helper[tracer] # "dead" /\ ActiveKinds = {}
  BY DEF DebugInv, GdbInv, SessionsInv, ActiveInv
<1> QED
  BY <1>1 DEF DebugInv, SessionsInv, TracerInv

LEMMA AttachCarries ==
  ASSUME DebugInv, SessionsInv', NEW h \in Helpers, Attach(h)
  PROVE  DebugInv'
<1> USE DEF Attach, debuggeeVars, sessionVars, launchVars, userVars
<1>1. pc = "launch" /\ h = launched /\ ActiveKinds = {} /\ TypeOK
  BY DEF DebugInv, SessionsInv, HelperInv, ActiveInv
<1>2. HelperMoves
  BY <1>1 DEF HelperMoves, TargetAttach
<1>3. Debugs(launched, payload)'
  BY <1>1 DEF Debugs, TargetAttach, TypeOK
<1>4. CarriedInv'
  BY <1>1, <1>2, <1>3, HelperCarries
<1>5. GdbInv'
  <2>1. tracer' # 0 => gdb'[tracer'] \in {"up", "eof"} /\ tracer' \in {tracer, h}
    BY <1>1 DEF DebugInv, GdbInv, TargetAttach, TypeOK
  <2>2. lost = {} => refused' = {} /\ tracer' = h
    BY <1>1, AttachSucceeds DEF DebugInv, GdbInv, TargetAttach
  <2> QED
    BY <1>1, <2>1, <2>2 DEF DebugInv, GdbInv, TypeOK
<1> QED
  BY <1>4, <1>5 DEF DebugInv

LEMMA SignalReadyCarries ==
  ASSUME DebugInv, SessionsInv', NEW h \in Helpers, SignalReady(h)
  PROVE  DebugInv'
<1> USE DEF SignalReady, debuggeeVars, sessionVars, launchVars, userVars
<1>1. TypeOK
  BY DEF DebugInv, SessionsInv
<1>2. HelperMoves
  BY <1>1 DEF HelperMoves, TypeOK
<1>3. CarriedInv'
  BY <1>2, EndingCarries
<1>4. GdbInv'
  BY <1>1 DEF DebugInv, GdbInv, TypeOK
<1> QED
  BY <1>3, <1>4 DEF DebugInv

\* The update adds the payload to a gdb that is on the debuggee, or is gone, or refused.
LEMMA ApplyUpdateCarries ==
  ASSUME DebugInv, SessionsInv', NEW h \in Helpers, ApplyUpdate(h)
  PROVE  DebugInv'
<1> USE DEF ApplyUpdate, Serve, debuggeeVars, sessionVars, launchVars, userVars
<1>1. TypeOK /\ pc = "update" /\ peer = h /\ session[launchKind] = h /\ attached[launchKind]
  BY DEF DebugInv, SessionsInv, CarriedInv
<1>2. HelperMoves
  BY DEF HelperMoves
<1>3. launchKind \in ActiveKinds
  BY <1>1 DEF ActiveKinds, Alive, TypeOK, Helpers
<1>4. \A j \in Helpers : armed[j] \subseteq armed'[j]
  BY <1>1 DEF TypeOK
<1>5. \A k \in ActiveKinds : Debugs(session[k], lastPayload[k])'
  <2>1. \A k \in ActiveKinds : session[k] \in Helpers
    BY <1>1 DEF TypeOK, ActiveKinds, Alive
  <2> QED
    BY <1>1, <1>4, <2>1 DEF DebugInv, CarriedInv, Debugs
<1>6. Debugs(peer, payload)'
  <2>1. Debugs(h, lastPayload[launchKind])
    BY <1>1, <1>3 DEF DebugInv, CarriedInv
  <2>2. CASE gdb[h] = "up"
    BY <1>1, <2>1, <2>2 DEF Debugs, TypeOK
  <2>3. CASE gdb[h] # "up"
    BY <1>1, <2>3 DEF DebugInv, GdbInv, Debugs, TypeOK
  <2> QED
    BY <2>2, <2>3
<1>7. CarriedInv'
  BY <1>1, <1>2, <1>5, <1>6, HelperCarries
<1> QED
  BY <1>7, GdbKept DEF DebugInv

LEMMA ApplyDetachCarries ==
  ASSUME DebugInv, SessionsInv', NEW h \in Helpers, ApplyDetach(h)
  PROVE  DebugInv'
<1> USE DEF ApplyDetach, Serve, debuggeeVars, sessionVars, launchVars, userVars
<1>1. TypeOK /\ pc = "detach"
  BY DEF DebugInv, SessionsInv
<1>2. HelperMoves
  BY DEF HelperMoves
<1>3. CarriedInv'
  BY <1>1, <1>2, HelperCarries
<1>4. GdbInv'
  BY <1>1 DEF DebugInv, GdbInv, TypeOK, Helpers
<1> QED
  BY <1>3, <1>4 DEF DebugInv

LEMMA ApplyReattachCarries ==
  ASSUME DebugInv, SessionsInv', NEW h \in Helpers, ApplyReattach(h)
  PROVE  DebugInv'
<1> USE DEF ApplyReattach, Serve, debuggeeVars, sessionVars, launchVars, userVars
<1>1. TypeOK /\ pc = "reattach" /\ peer = h /\ ActiveKinds = {} /\ gdb[h] # "none"
  BY DEF DebugInv, SessionsInv, ActiveInv, GdbInv
<1>2. HelperMoves
  BY <1>1 DEF HelperMoves, TargetAttach
<1>3. Debugs(peer, payload)'
  BY <1>1 DEF Debugs, TargetAttach, TypeOK
<1>4. CarriedInv'
  BY <1>1, <1>2, <1>3, HelperCarries
<1>5. GdbInv'
  <2>1. tracer' # 0 => gdb[tracer'] \in {"up", "eof"} /\ tracer' \in {tracer, h}
    BY <1>1 DEF DebugInv, GdbInv, TargetAttach
  <2>2. lost = {} => refused' = {} /\ tracer' \in {tracer, h}
    BY <1>1, AttachSucceeds DEF DebugInv, GdbInv, TargetAttach
  <2> QED
    BY <1>1, <2>1, <2>2 DEF DebugInv, GdbInv
<1> QED
  BY <1>4, <1>5 DEF DebugInv

\* The ends of gdbs and helpers, and the failures.
LEMMA EndsCarry ==
  ASSUME DebugInv, SessionsInv', NEW h \in Helpers,
         GdbExits(h) \/ LoopEnds(h) \/ Interrupted(h) \/ Quit(h) \/ HelperDies(h) \/ GdbDies(h)
  PROVE  DebugInv'
<1> USE DEF debuggeeVars, sessionVars, launchVars, userVars
<1>1. TypeOK /\ GdbInv
  BY DEF DebugInv, SessionsInv
<1>2. HelperMoves /\ UNCHANGED <<served, armed, refused>>
  BY <1>1 DEF HelperMoves, TypeOK, GdbExits, LoopEnds, Interrupted, Quit, Stop, HelperDies, GdbDies
<1>3. \A j \in Helpers :
        /\ gdb'[j] = gdb[j] \/ gdb'[j] \in {"eof", "gone"}
        /\ gdb[j] = "none" => gdb'[j] = "none"
        /\ gdb[j] \in {"eof", "gone"} => gdb'[j] \in {"eof", "gone"}
        /\ tracer = j => tracer' = j \/ gdb'[j] \in {"eof", "gone"}
  <2>1. helper[h] = "up" => gdb[h] # "none"
    BY <1>1 DEF GdbInv
  <2> QED
    BY <1>1, <2>1 DEF TypeOK, GdbExits, LoopEnds, Interrupted, Quit, Stop, HelperDies, GdbDies
<1>4. CarriedInv'
  BY <1>2, <1>3, EndingCarries
<1>5. GdbInv'
  <2> USE <1>1 DEF GdbInv, TypeOK, Helpers
  <2>1. CASE GdbExits(h)
    BY <2>1 DEF GdbExits
  <2>2. CASE LoopEnds(h)
    BY <2>2 DEF LoopEnds
  <2>3. CASE Interrupted(h)
    BY <2>3 DEF Interrupted, Stop
  <2>4. CASE Quit(h)
    BY <2>4 DEF Quit, Stop
  <2>5. CASE HelperDies(h)
    BY <2>5 DEF HelperDies
  <2>6. CASE GdbDies(h)
    <3>1. lost' # {} /\ helper' = helper /\ gdb' = [gdb EXCEPT ![h] = "gone"] /\ gdb[h] = "up"
      BY <2>6 DEF GdbDies
    <3>2. tracer' # 0 => tracer' = tracer /\ tracer # h
      BY <2>6 DEF GdbDies
    <3> QED
      BY <3>1, <3>2
  <2> QED
    BY <2>1, <2>2, <2>3, <2>4, <2>5, <2>6
<1> QED
  BY <1>4, <1>5 DEF DebugInv

LEMMA HoldCarries ==
  ASSUME DebugInv, SessionsInv', HoldStep
  PROVE  DebugInv'
<1>1. UNCHANGED <<userVars, pc, launchVars, peer, served, sessionVars, processVars>>
  BY DEF HoldStep, TargetStops, UserContinues, Released, Resumes, DropPush
<1>2. GdbInv'
  BY <1>1, GdbKept DEF DebugInv, processVars
<1>3. CarriedInv'
  BY <1>1 DEF DebugInv, CarriedInv, Debugs, ActiveKinds, Alive,
              userVars, launchVars, sessionVars, processVars
<1> QED
  BY <1>2, <1>3 DEF DebugInv

LEMMA NextCarries ==
  ASSUME DebugInv, [Next]_vars
  PROVE  DebugInv'
<1>1. SessionsInv'
  BY NextPreserves DEF DebugInv
<1>2. CASE DebuggeeStep
  BY <1>1, <1>2, DebuggeeCarries
<1>3. CASE BeginUpdate \/ BeginDetach \/ BeginReattach \/ NoActive
  BY <1>1, <1>3, CallCarries
<1>4. CASE EndDetach
  BY <1>1, <1>4, EndDetachCarries
<1>5. CASE EndUpdate
  BY <1>1, <1>5, EndUpdateCarries
<1>6. CASE BeginLaunch
  BY <1>1, <1>6, BeginLaunchCarries
<1>7. CASE EndLaunch
  BY <1>1, <1>7, EndLaunchCarries
<1>8. ASSUME NEW k \in Kinds, Reap(k)
      PROVE  DebugInv'
  BY <1>1, <1>8, ReapCarries
<1>9. ASSUME NEW h \in Helpers, HelperStep(h) \/ Quit(h) \/ HelperDies(h) \/ GdbDies(h)
      PROVE  DebugInv'
  BY <1>1, <1>9, AttachCarries, SignalReadyCarries, ApplyUpdateCarries, ApplyDetachCarries,
     ApplyReattachCarries, EndsCarry DEF HelperStep
<1>10. CASE UNCHANGED vars
  <2>1. GdbInv'
    BY <1>10, GdbKept DEF DebugInv, vars, processVars
  <2>2. CarriedInv'
    BY <1>10 DEF DebugInv, CarriedInv, Debugs, ActiveKinds, Alive,
                 vars, userVars, launchVars, callVars, sessionVars, processVars
  <2> QED
    BY <1>1, <2>1, <2>2 DEF DebugInv
<1>11. CASE HoldStep
  BY <1>1, <1>11, HoldCarries
<1> QED
  BY <1>2, <1>3, <1>4, <1>5, <1>6, <1>7, <1>8, <1>9, <1>10, <1>11
  DEF Next, Handoff, DebuggeeStep, HoldStep

\* The inductive invariant: the breakpoints of a launch on their way into the gdb that
\* holds the debuggee when its kernel starts.
THEOREM DebugInvariance == Spec => []DebugInv
  BY InitDebugInv, NextCarries, PTL DEF Spec

\* A kernel whose helper lives starts with its breakpoints armed on a gdb that holds the
\* debuggee, unless that gdb is gone or was refused; also when nothing was pushed.
THEOREM KernelsAreDebugged == Spec => []KernelIsDebugged
<1>1. ASSUME DebugInv PROVE KernelIsDebugged
  <2> SUFFICES ASSUME pc = "kernel", Alive(launchKind)
               PROVE  Debugs(session[launchKind], payload)
    BY DEF KernelIsDebugged, Debugs
  <2>1. launchKind \in ActiveKinds
    BY <1>1 DEF DebugInv, CarriedInv, SessionsInv, TypeOK, ActiveKinds
  <2> QED
    BY <1>1, <2>1 DEF DebugInv, CarriedInv
<1> QED
  BY <1>1, DebugInvariance, PTL

\* An attach is refused only after a failure or the user's quit.
THEOREM RefusalNeedsFailure == Spec => []RefusedOnlyAfterFailure
<1>1. DebugInv => RefusedOnlyAfterFailure
  BY DEF DebugInv, GdbInv, RefusedOnlyAfterFailure
<1> QED
  BY <1>1, DebugInvariance, PTL
=============================================================================
