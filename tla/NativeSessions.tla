--------------------------- MODULE NativeSessions ---------------------------
(***************************************************************************)
(* The native debugger sessions of one program run.  At every parallel_*   *)
(* launch PyKokkosDebugger brings the helper of the launch's kind ("cpu",  *)
(* "cuda", "hip") to attach, with the user's breakpoints, before the       *)
(* kernel starts; at most one gdb may hold ptrace on the debuggee.         *)
(*                                                                         *)
(* A push is the call of ControlService: issued by the debuggee, served by *)
(* the helper, returned when served or when the helper is gone; a message  *)
(* that the helper's drain unlinks unread is never served.                 *)
(* Helpers are numbered in launch order; number 0 stands for none.         *)
(***************************************************************************)
EXTENDS Naturals, FiniteSets

CONSTANTS
  Kinds,         \* the debugger kinds
  Accelerators,  \* those whose helper is an AcceleratorGDBController
  Breakpoints,   \* the Python lines of workunits a user may break at
  MaxHelpers,    \* bound on helper launches
  MaxLost        \* bound on helpers ended by a failure or by the user

ASSUME AcceleratorsAssumption == Accelerators \subseteq Kinds
ASSUME MaxHelpersAssumption == MaxHelpers \in Nat \ {0}
ASSUME MaxLostAssumption == MaxLost \in Nat

Helpers == 1 .. MaxHelpers

VARIABLES
  userBreakpoints, \* PyKokkosDebugger.user_breakpoints
  enabledUnion,    \* _pk_enabled_python_union
  pc,              \* where the debuggee is
  launchKind,      \* kind of the launch under way
  payload,         \* enabled_python of its payload
  peer,            \* the helper of the push under way, or 0
  served,          \* that helper has served it
  hold,            \* the push is "dropped", the debuggee "stopped" at a prompt, or "no"
  session,         \* _native_sessions: the helper of each kind, or 0
  attached,        \* NativeDebuggerSession.attached
  lastPayload,     \* NativeDebuggerSession.last_payload
  launched,        \* number of helpers launched
  ofKind,          \* the kind each helper was launched for
  helper,          \* "none", "starting", "up" or "dead"
  gdb,             \* its gdb: "none", "up", "eof" (its input is closed), "gone"
  armed,           \* the breakpoints of its gdb
  tracer,          \* the helper whose gdb holds ptrace on the debuggee, or 0
  refused,         \* helpers whose latest target-attach the kernel refused
  lost             \* helpers ended by a failure or by the user

userVars == <<userBreakpoints, enabledUnion>>
launchVars == <<launchKind, payload>>
sessionVars == <<session, attached, lastPayload>>
processVars == <<launched, ofKind, helper, gdb, armed, tracer, refused, lost>>
callVars == <<peer, served, hold>>
vars == <<userVars, pc, launchVars, callVars, sessionVars, processVars>>

Pushes == {"update", "detach", "reattach"}
InHandoff == pc \in Pushes \cup {"route", "attach", "launch"}

Init ==
  /\ userBreakpoints = {}
  /\ enabledUnion = {}
  /\ pc = "python"
  /\ launchKind \in Kinds
  /\ payload = {}
  /\ peer = 0
  /\ served = FALSE
  /\ hold = "no"
  /\ session = [k \in Kinds |-> 0]
  /\ attached = [k \in Kinds |-> FALSE]
  /\ lastPayload = [k \in Kinds |-> {}]
  /\ launched = 0
  /\ ofKind = [h \in Helpers |-> CHOOSE k \in Kinds : TRUE]
  /\ helper = [h \in Helpers |-> "none"]
  /\ gdb = [h \in Helpers |-> "none"]
  /\ armed = [h \in Helpers |-> {}]
  /\ tracer = 0
  /\ refused = {}
  /\ lost = {}

Alive(k) == session[k] # 0 /\ helper[session[k]] # "dead"

\* The sessions that `active` of _launch_native_handoff ranges over.
ActiveKinds == {k \in Kinds : attached[k] /\ Alive(k)}

-----------------------------------------------------------------------------
(* The debuggee: breakpoints, launches, and _launch_native_handoff.        *)

SetBreak(b) ==
  /\ pc = "python"
  /\ userBreakpoints' = userBreakpoints \cup {b}
  /\ UNCHANGED <<enabledUnion, pc, launchVars, callVars, sessionVars, processVars>>

\* Nothing is pushed: a helper's gdb keeps what it has.
ClearBreak(b) ==
  /\ pc = "python"
  /\ userBreakpoints' = userBreakpoints \ {b}
  /\ UNCHANGED <<enabledUnion, pc, launchVars, callVars, sessionVars, processVars>>

\* The anchors of a launch whose workunit contains the user breakpoints overlap.
ReachLaunch(k, overlap) ==
  /\ pc = "python"
  /\ launched < MaxHelpers
  /\ enabledUnion' = enabledUnion \cup overlap
  /\ payload' = (enabledUnion \cup overlap) \cap userBreakpoints
  /\ launchKind' = k
  /\ pc' = "route"
  /\ UNCHANGED <<userBreakpoints, callVars, sessionVars, processVars>>

Goes(from, to) ==
  /\ hold # "stopped"
  /\ pc = from
  /\ pc' = to
  /\ UNCHANGED <<userVars, launchVars, processVars>>

\* Mutant of SkipUpdate: the payloads are not compared.
SkipUpdateAlways ==
  /\ Goes("route", "kernel")
  /\ launchKind \in ActiveKinds
  /\ UNCHANGED <<callVars, sessionVars>>

\* The active session has this kind and this payload: nothing is pushed.
SkipUpdate ==
  /\ Goes("route", "kernel")
  /\ launchKind \in ActiveKinds
  /\ payload = lastPayload[launchKind]
  /\ UNCHANGED <<callVars, sessionVars>>

\* _push_control_message: the call is open.
Call(to, h) ==
  /\ Goes(IF to = "reattach" THEN "attach" ELSE "route", to)
  /\ peer' = h
  /\ served' = FALSE
  /\ UNCHANGED <<hold, sessionVars>>

BeginUpdate ==
  /\ launchKind \in ActiveKinds
  /\ payload # lastPayload[launchKind]
  /\ Call("update", session[launchKind])

\* Another kind is attached: it must let go first.
BeginDetach ==
  /\ launchKind \notin ActiveKinds
  /\ \E k \in ActiveKinds : Call("detach", session[k])

\* Mutant of NoActive: only a session of this kind counts as active.
NoActiveOfKind ==
  /\ Goes("route", "attach")
  /\ launchKind \notin ActiveKinds
  /\ UNCHANGED <<callVars, sessionVars>>

\* No session is attached.
NoActive ==
  /\ Goes("route", "attach")
  /\ ActiveKinds = {}
  /\ UNCHANGED <<callVars, sessionVars>>

\* This kind was launched before and its helper lives.
BeginReattach ==
  /\ Alive(launchKind)
  /\ Call("reattach", session[launchKind])

\* Mutant of Returned: the pipe's end of file does not wake the debuggee.
ReturnedOnAckOnly == pc \in Pushes /\ served

\* The call returns: one byte of ack, or end of file because the helper is gone.
Returned ==
  /\ pc \in Pushes
  /\ served \/ helper[peer] = "dead"

EndCall(to) ==
  /\ Returned
  /\ Goes(pc, to)
  /\ peer' = 0
  /\ served' = FALSE
  /\ hold' = "no"

\* Mutant of EndDetach: the session keeps its attached flag.
EndDetachKeepsFlag ==
  /\ pc = "detach"
  /\ EndCall("attach")
  /\ UNCHANGED sessionVars

EndDetach ==
  /\ pc = "detach"
  /\ EndCall("attach")
  /\ attached' = [k \in Kinds |-> attached[k] /\ session[k] # peer]
  /\ UNCHANGED <<session, lastPayload>>

EndUpdate ==
  /\ pc \in {"update", "reattach"}
  /\ EndCall("kernel")
  /\ attached' = [attached EXCEPT ![launchKind] = TRUE]
  /\ lastPayload' = [lastPayload EXCEPT ![launchKind] = payload]
  /\ UNCHANGED session

\* launch_attached_debugger: the helper process and its ack pipe.
BeginLaunch ==
  /\ hold # "stopped"
  /\ pc = "attach"
  /\ ~Alive(launchKind)
  /\ pc' = "launch"
  /\ launched' = launched + 1
  /\ ofKind' = [ofKind EXCEPT ![launched'] = launchKind]
  /\ helper' = [helper EXCEPT ![launched'] = "starting"]
  /\ UNCHANGED <<userVars, launchVars, callVars, sessionVars, gdb, armed, tracer, refused, lost>>

\* The ready file appeared, or the helper is dead and the debuggee is not left
\* stopped by its gdb: a session either way.
EndLaunch ==
  /\ Goes("launch", "kernel")
  /\ helper[launched] = "up" \/ (helper[launched] = "dead" /\ tracer # launched)
  /\ session' = [session EXCEPT ![launchKind] = launched]
  /\ attached' = [attached EXCEPT ![launchKind] = TRUE]
  /\ lastPayload' = [lastPayload EXCEPT ![launchKind] = payload]
  /\ UNCHANGED callVars

KernelEnds ==
  /\ Goes("kernel", "python")
  /\ UNCHANGED <<callVars, sessionVars>>

\* terminate_native_sessions, from the finally of run_script_with_debugger.
EndRun ==
  /\ Goes("python", "ending")
  /\ UNCHANGED <<callVars, sessionVars>>

\* Session by session: SIGINT, wait, close the ack pipe.
Reap(k) ==
  /\ pc = "ending"
  /\ session[k] # 0
  /\ ~Alive(k)
  /\ session' = [session EXCEPT ![k] = 0]
  /\ UNCHANGED <<userVars, pc, launchVars, callVars, attached, lastPayload, processVars>>

Ended ==
  /\ Goes("ending", "ended")
  /\ \A k \in Kinds : session[k] = 0
  /\ UNCHANGED <<callVars, sessionVars>>

\* The debuggee stops in a handoff and the helper that traces it prompts: the debuggee
\* stands still until the user resumes it ...
TargetStops ==
  /\ InHandoff
  /\ hold = "no"
  /\ tracer # 0 /\ helper[tracer] = "up"
  /\ hold' = "stopped"
  /\ UNCHANGED <<userVars, pc, launchVars, peer, served, sessionVars, processVars>>

Resumes ==
  /\ hold = "stopped"
  /\ hold' = "no"
  /\ UNCHANGED <<userVars, pc, launchVars, peer, served, sessionVars, processVars>>

UserContinues == tracer # 0 /\ Resumes

\* ... or the gdb lets go of it.
Released == tracer = 0 /\ Resumes

Handoff ==
  \/ SkipUpdate
  \/ BeginUpdate
  \/ BeginDetach
  \/ NoActive
  \/ BeginReattach
  \/ EndDetach
  \/ EndUpdate
  \/ BeginLaunch
  \/ EndLaunch
  \/ Released

-----------------------------------------------------------------------------
(* The helpers and their gdbs.                                             *)

debuggeeVars == <<userVars, pc, launchVars, peer, hold, sessionVars, launched, ofKind>>

IsAccelerator(h) == ofKind[h] \in Accelerators

\* target-attach succeeds unless another gdb still traces the debuggee; its
\* result is not looked at and the breakpoints are inserted in any case.
TargetAttach(h) ==
  IF tracer \in {0, h}
    THEN tracer' = h /\ refused' = refused \ {h}
    ELSE tracer' = tracer /\ refused' = refused \cup {h}

\* start_attached starts gdb, attaches, and inserts the breakpoints ...
Attach(h) ==
  /\ helper[h] = "starting"
  /\ gdb[h] = "none"
  /\ gdb' = [gdb EXCEPT ![h] = "up"]
  /\ TargetAttach(h)
  /\ armed' = [armed EXCEPT ![h] = payload]
  /\ UNCHANGED <<debuggeeVars, served, helper, lost>>

\* ... then writes the ready file and lets the debuggee run.
SignalReady(h) ==
  /\ helper[h] = "starting"
  /\ gdb[h] # "none"
  /\ helper' = [helper EXCEPT ![h] = "up"]
  /\ UNCHANGED <<debuggeeVars, served, gdb, armed, tracer, refused, lost>>

\* The drain of the helper takes the message under push, applies and acknowledges it.
Serve(h, push) ==
  /\ pc = push
  /\ peer = h
  /\ ~served
  /\ hold # "dropped"
  /\ helper[h] = "up"
  /\ served' = TRUE
  /\ UNCHANGED <<debuggeeVars, helper, lost>>

\* DropMessage of ControlChannel: a segment that is still empty, or too large for the
\* read, is unlinked unread.  The helper lives on and the call stays open.
DropPush ==
  /\ pc \in Pushes
  /\ ~served
  /\ hold = "no"
  /\ helper[peer] = "up"
  /\ hold' = "dropped"
  /\ UNCHANGED <<userVars, pc, launchVars, peer, served, sessionVars, processVars>>

\* _install_breakpoint_spec only adds; without a gdb it does nothing.
ApplyUpdate(h) ==
  /\ Serve(h, "update")
  /\ armed' = IF gdb[h] = "up" THEN [armed EXCEPT ![h] = @ \cup payload] ELSE armed
  /\ UNCHANGED <<gdb, tracer, refused>>

\* An accelerator helper closes its gdb's streams with the detach; a second one
\* fails on the closed streams and is never acknowledged.
ApplyDetach(h) ==
  /\ Serve(h, "detach")
  /\ gdb[h] # "eof"
  /\ tracer' = IF tracer = h THEN 0 ELSE tracer
  /\ gdb' = IF IsAccelerator(h) /\ gdb[h] = "up" THEN [gdb EXCEPT ![h] = "eof"] ELSE gdb
  /\ UNCHANGED <<armed, refused>>

\* Nothing reaches a gdb whose input is closed, and the message is acknowledged.
ApplyReattach(h) ==
  /\ Serve(h, "reattach")
  /\ IF gdb[h] = "up"
       THEN TargetAttach(h) /\ armed' = [armed EXCEPT ![h] = @ \cup payload]
       ELSE UNCHANGED <<armed, tracer, refused>>
  /\ UNCHANGED gdb

\* gdb reads end of file: it detaches and exits.
GdbExits(h) ==
  /\ gdb[h] = "eof"
  /\ gdb' = [gdb EXCEPT ![h] = "gone"]
  /\ tracer' = IF tracer = h THEN 0 ELSE tracer
  /\ UNCHANGED <<debuggeeVars, served, helper, armed, refused, lost>>

\* _transparent_loop ends with its gdb: process.poll() or end of file.
LoopEnds(h) ==
  /\ helper[h] = "up"
  /\ gdb[h] = "gone"
  /\ helper' = [helper EXCEPT ![h] = "dead"]
  /\ UNCHANGED <<debuggeeVars, served, gdb, armed, tracer, refused, lost>>

\* stop(): detach, end gdb, exit.
Stop(h) ==
  /\ helper[h] = "up"
  /\ helper' = [helper EXCEPT ![h] = "dead"]
  /\ gdb' = [gdb EXCEPT ![h] = "gone"]
  /\ tracer' = IF tracer = h THEN 0 ELSE tracer
  /\ UNCHANGED <<debuggeeVars, served, armed, refused>>

\* Mutant of Interrupted: sessions kept detached are not ended.
InterruptedIfAttached(h) ==
  /\ pc = "ending"
  /\ \E k \in Kinds : session[k] = h /\ attached[k]
  /\ Stop(h)
  /\ UNCHANGED lost

\* terminate's SIGINT breaks out of the loop.
Interrupted(h) ==
  /\ pc = "ending"
  /\ \E k \in Kinds : session[k] = h
  /\ Stop(h)
  /\ UNCHANGED lost

\* The user's quit, at the prompt of a helper whose gdb holds the debuggee stopped.
Quit(h) ==
  /\ tracer = h
  /\ pc \notin {"ending", "ended"}
  /\ Cardinality(lost) < MaxLost
  /\ Stop(h)
  /\ lost' = lost \cup {h}

\* The helper process dies; its gdb reads end of file, sooner or later.
HelperDies(h) ==
  /\ helper[h] \in {"starting", "up"}
  /\ Cardinality(lost) < MaxLost
  /\ helper' = [helper EXCEPT ![h] = "dead"]
  /\ gdb' = [gdb EXCEPT ![h] = IF @ = "up" THEN "eof" ELSE @]
  /\ lost' = lost \cup {h}
  /\ UNCHANGED <<debuggeeVars, served, armed, tracer, refused>>

\* gdb itself dies.
GdbDies(h) ==
  /\ gdb[h] = "up"
  /\ Cardinality(lost) < MaxLost
  /\ gdb' = [gdb EXCEPT ![h] = "gone"]
  /\ tracer' = IF tracer = h THEN 0 ELSE tracer
  /\ lost' = lost \cup {h}
  /\ UNCHANGED <<debuggeeVars, served, helper, armed, refused>>

HelperStep(h) ==
  \/ Attach(h)
  \/ SignalReady(h)
  \/ ApplyUpdate(h)
  \/ ApplyDetach(h)
  \/ ApplyReattach(h)
  \/ GdbExits(h)
  \/ LoopEnds(h)
  \/ Interrupted(h)

Next ==
  \/ \E b \in Breakpoints : SetBreak(b) \/ ClearBreak(b)
  \/ \E k \in Kinds, overlap \in SUBSET userBreakpoints : ReachLaunch(k, overlap)
  \/ Handoff
  \/ TargetStops
  \/ UserContinues
  \/ DropPush
  \/ KernelEnds
  \/ EndRun
  \/ \E k \in Kinds : Reap(k)
  \/ Ended
  \/ \E h \in Helpers : HelperStep(h) \/ Quit(h) \/ HelperDies(h) \/ GdbDies(h)

Spec == Init /\ [][Next]_vars

\* Every process keeps running: a push that is not dropped is served, a gdb whose input
\* is closed exits.  Nothing is assumed of the script, the user, the drops or the failures.
Fairness ==
  /\ WF_vars(Handoff)
  /\ \A k \in Kinds : WF_vars(Reap(k))
  /\ WF_vars(Ended)
  /\ \A h \in Helpers : WF_vars(HelperStep(h))

FairSpec == Spec /\ Fairness

-----------------------------------------------------------------------------
(* Properties *)

TypeOK ==
  /\ userBreakpoints \subseteq Breakpoints
  /\ enabledUnion \subseteq Breakpoints
  /\ pc \in Pushes \cup {"python", "route", "attach", "launch", "kernel", "ending", "ended"}
  /\ launchKind \in Kinds
  /\ payload \subseteq Breakpoints
  /\ peer \in IF pc \in Pushes THEN Helpers ELSE {0}
  /\ served \in BOOLEAN
  /\ hold \in {"no", "dropped", "stopped"}
  /\ session \in [Kinds -> Helpers \cup {0}]
  /\ attached \in [Kinds -> BOOLEAN]
  /\ lastPayload \in [Kinds -> SUBSET Breakpoints]
  /\ launched \in Helpers \cup {0}
  /\ ofKind \in [Helpers -> Kinds]
  /\ helper \in [Helpers -> {"none", "starting", "up", "dead"}]
  /\ gdb \in [Helpers -> {"none", "up", "eof", "gone"}]
  /\ armed \in [Helpers -> SUBSET Breakpoints]
  /\ tracer \in Helpers \cup {0}
  /\ refused \subseteq Helpers
  /\ lost \subseteq Helpers

\* "At most one session across the whole run is ever attached at a time"
\* (debugger.py:88-90), counting the sessions whose helper lives.
OneAttachedSession == \A j, k \in ActiveKinds : j = k

\* Between launches a live helper that holds the debuggee is the one of the
\* attached session: no detached or forgotten helper stops the program.
TracerIsActive ==
  pc \in {"python", "kernel"} /\ tracer # 0 /\ helper[tracer] # "dead" =>
    \E k \in ActiveKinds : session[k] = tracer

\* A kernel starts with its helper's gdb on the debuggee and every enabled
\* breakpoint armed, also when no update was pushed for it; the exceptions are
\* a helper or gdb that is gone, and a gdb that was refused.
KernelIsDebugged ==
  pc = "kernel" /\ Alive(launchKind) =>
    LET h == session[launchKind] IN
    \/ tracer = h /\ payload \subseteq armed[h]
    \/ gdb[h] \in {"eof", "gone"}
    \/ h \in refused

\* A kernel is left undebugged by a refused attach only after a failure.
RefusedOnlyAfterFailure == refused # {} => lost # {}

\* The debuggee waits for what only a failure or the user can bring: the death of a
\* helper whose drain dropped the push (the exception of PushReturns), or a resume.
Waiting ==
  \/ hold = "dropped" /\ helper[peer] # "dead"
  \/ hold = "stopped" /\ tracer # 0

\* Every launch gets to its kernel, over updates, detaches, reattaches, start-ups and
\* deaths, unless it comes to wait; when the wait is over it must again get there.
HandoffEnds == InHandoff ~> (pc = "kernel" \/ Waiting)

\* "End every attach-helper subprocess launched this run" (debugger.py:570),
\* those of replaced sessions included, and without hanging.
RunEnds == pc = "ending" ~> (pc = "ended" /\ \A h \in Helpers : helper[h] \in {"none", "dead"})

-----------------------------------------------------------------------------
(* The inductive invariant behind OneAttachedSession and TracerIsActive.   *)

\* Before anything is attached for a launch, what was attached has let go.
ActiveInv ==
  /\ OneAttachedSession
  /\ pc \in {"attach", "launch", "reattach"} => ActiveKinds = {}
  /\ pc = "update" => ActiveKinds \subseteq {launchKind}
  /\ pc = "detach" => \A k \in ActiveKinds : session[k] = peer
  /\ pc = "reattach" => session[launchKind] = peer

\* Only helpers that exist trace or are pushed to, and only the latest starts.
HelperInv ==
  /\ \A h \in Helpers : helper[h] = "none" <=> h > launched
  /\ \A h \in Helpers : helper[h] = "starting" => pc = "launch" /\ h = launched
  /\ pc = "launch" => launched > 0
  /\ pc \in Pushes \cup {"route", "attach"} => launched < MaxHelpers
  /\ tracer <= launched
  /\ \A k \in Kinds : session[k] <= launched

\* The live helper that traces is active, or about to be when its call returns.
TracerInv ==
  /\ tracer # 0 /\ helper[tracer] # "dead" =>
       \/ \E k \in ActiveKinds : session[k] = tracer
       \/ pc = "launch" /\ tracer = launched
       \/ pc = "reattach" /\ tracer = peer
  /\ pc = "detach" /\ served => tracer # peer

SessionsInv == TypeOK /\ ActiveInv /\ HelperInv /\ TracerInv
=============================================================================
