----------------------------- MODULE LaunchTrace -----------------------------
(***************************************************************************)
(* One parallel_* launch as the pdb side sees it, from the call to the     *)
(* kernel: the promotion to a Debug execution space on entry, the metadata *)
(* anchor (kind of debugger and launch trace) and the execute anchor        *)
(* (handoff).  The launch may end by an exception at any point, and the    *)
(* next one starts.                                                        *)
(*                                                                         *)
(* The policies of a script refer to ExecutionSpaceInstance objects. Those *)
(* of a RangePolicy are shared, one per execution space, and identified    *)
(* here with the space they were made for; a TeamPolicy has one of its own.*)
(***************************************************************************)
EXTENDS FiniteSets

CONSTANTS
  Backends,      \* OpenMP, Cuda, Serial, ...
  Promoted,      \* those with a Debug space
  Accelerators,  \* those debugged by an accelerator gdb
  Teams,         \* instances of TeamPolicy objects
  Int,           \* an integer instead of a policy
  Workunits,
  None           \* no workunit

ASSUME BackendsAssumption == Promoted \subseteq Backends /\ Accelerators \subseteq Backends
ASSUME NoneAssumption == None \notin Workunits

Spaces == [backend : Backends, debug : BOOLEAN]
Instances == Spaces \cup Teams
Anchors == {"metadata", "execute"}

ASSUME PoliciesAssumption == Int \notin Instances /\ Teams \cap Spaces = {}

VARIABLES
  pc,            \* "script", "entered", "traced" (past the metadata anchor), "kernel"
  defaultSpace,  \* km.get_default_space()
  space,         \* ExecutionSpaceInstance.space
  policy,        \* of the launch: an instance, or Int
  workunit,      \* of the launch
  breakpoints,   \* workunits with a line in user_breakpoints
  userAnchors,   \* anchor lines in user_breakpoints
  trace,         \* _pk_parallel_launch_trace: workunit, overlap, completed
  kind,          \* native_handoff.accelerator_info
  union,         \* _pk_enabled_python_union
  handed         \* what was handed to the native debugger for this launch

launchVars == <<policy, workunit>>
spaceVars == <<defaultSpace, space>>
userVars == <<breakpoints, userAnchors>>
traceVars == <<trace, kind, union, handed>>
vars == <<pc, launchVars, spaceVars, userVars, traceVars>>

NoTrace == [workunit |-> None, overlap |-> {}, completed |-> TRUE]
NoHandoff == [workunit |-> None, kind |-> "cpu", enabled |-> {}]
Production == {s \in Spaces : ~s.debug}

Init ==
  /\ pc = "script"
  /\ defaultSpace \in Production
  /\ space \in {f \in [Instances -> Spaces] :
       (\A s \in Spaces : f[s] = s) /\ (\A t \in Teams : f[t] \in Production)}
  /\ policy = Int
  /\ workunit \in Workunits
  /\ breakpoints = {} /\ userAnchors = {}
  /\ trace = NoTrace /\ kind = "cpu" /\ union = {} /\ handed = NoHandoff

-----------------------------------------------------------------------------
(* The script, and the user at a prompt in it.                             *)

SetDefaultSpace(s) ==
  /\ pc = "script"
  /\ defaultSpace' = s
  /\ UNCHANGED <<pc, launchVars, space, userVars, traceVars>>

SetBreak(w) ==
  /\ pc = "script"
  /\ breakpoints' = breakpoints \cup {w}
  /\ UNCHANGED <<pc, launchVars, spaceVars, userAnchors, traceVars>>

ClearBreak(w) ==
  /\ pc = "script"
  /\ breakpoints' = breakpoints \ {w}
  /\ UNCHANGED <<pc, launchVars, spaceVars, userAnchors, traceVars>>

\* clear_break refuses an anchor line: the user cannot take it back.
BreakAtAnchor(anchor) ==
  /\ pc = "script"
  /\ userAnchors' = userAnchors \cup {anchor}
  /\ UNCHANGED <<pc, launchVars, spaceVars, breakpoints, traceVars>>

-----------------------------------------------------------------------------
(* The launch.                                                             *)

\* _effective_execution_space_from_policy_arg.
Effective(p) == IF p = Int THEN defaultSpace ELSE space[p]

\* accelerator_info_from_parallel_invocation: no accelerator is None in the code.
Kind(s) == IF s.backend \in Accelerators THEN s.backend ELSE "cpu"

\* Mutant of Promote: explicit policies are left as they are.
PromoteDefaultOnly(p) ==
  /\ defaultSpace' = [Effective(p) EXCEPT !.debug = TRUE]
  /\ UNCHANGED space

\* jit_promote_execution_space_for_parallel_invocation: the Debug space becomes the
\* default, and the space of the policy's instance, shared or not.
Promote(p) ==
  LET effective == Effective(p) IN
  IF effective.debug \/ effective.backend \notin Promoted
    THEN UNCHANGED spaceVars
    ELSE /\ defaultSpace' = [effective EXCEPT !.debug = TRUE]
         /\ space' = IF p = Int THEN space ELSE [space EXCEPT ![p] = [effective EXCEPT !.debug = TRUE]]

Enter(w, p) ==
  /\ pc = "script"
  /\ pc' = "entered"
  /\ workunit' = w
  /\ policy' = p
  /\ Promote(p)
  /\ UNCHANGED <<userVars, traceVars>>

\* An integer is made a RangePolicy of the default space, with its shared instance.
RunSpace == space[IF policy = Int THEN defaultSpace ELSE policy]

HookOk(anchor) == anchor \notin userAnchors

\* Mutant of FreshTrace: an unfinished trace is kept.
FreshTraceIfDone(hooked) ==
  IF ~trace.completed THEN trace
  ELSE [workunit |-> IF hooked THEN workunit ELSE None,
        overlap |-> IF hooked THEN {workunit} \cap breakpoints ELSE {},
        completed |-> FALSE]

\* The trace of this launch, with its metadata if the hook is not switched off.
FreshTrace(hooked) ==
  [workunit |-> IF hooked THEN workunit ELSE None,
   overlap |-> IF hooked THEN {workunit} \cap breakpoints ELSE {},
   completed |-> FALSE]

\* Mutant of MetadataAnchor: the kind of debugger is taken from the default space.
MetadataAnchorDefaultKind ==
  /\ pc = "entered"
  /\ pc' = "traced"
  /\ kind' = Kind(defaultSpace)
  /\ trace' = FreshTrace(HookOk("metadata"))
  /\ UNCHANGED <<launchVars, spaceVars, userVars, union, handed>>

\* user_line at the metadata anchor.
MetadataAnchor ==
  /\ pc = "entered"
  /\ pc' = "traced"
  /\ kind' = Kind(Effective(policy))
  /\ trace' = FreshTrace(HookOk("metadata"))
  /\ UNCHANGED <<launchVars, spaceVars, userVars, union, handed>>

\* user_line at the execute anchor: _pk_parallel_trace_report_execute.
ExecuteAnchor ==
  /\ pc = "traced"
  /\ pc' = "kernel"
  /\ IF HookOk("execute") /\ ~trace.completed /\ trace.workunit # None
       THEN /\ union' = union \cup trace.overlap
            /\ handed' = [workunit |-> trace.workunit, kind |-> kind,
                          enabled |-> union' \cap breakpoints]
            /\ trace' = [trace EXCEPT !.completed = TRUE]
       ELSE UNCHANGED <<trace, union, handed>>
  /\ UNCHANGED <<launchVars, spaceVars, userVars, kind>>

BackToScript ==
  /\ pc' = "script"
  /\ policy' = Int
  /\ handed' = NoHandoff
  /\ UNCHANGED <<workunit, spaceVars, userVars, trace, kind, union>>

\* An argument is refused, or the kernel does not compile, and the script goes on.
LaunchFails == pc \in {"entered", "traced"} /\ BackToScript

KernelEnds == pc = "kernel" /\ BackToScript

Next ==
  \/ \E s \in Production : SetDefaultSpace(s)
  \/ \E w \in Workunits : SetBreak(w) \/ ClearBreak(w)
  \/ \E anchor \in Anchors : BreakAtAnchor(anchor)
  \/ \E w \in Workunits, p \in Instances \cup {Int} : Enter(w, p)
  \/ MetadataAnchor
  \/ ExecuteAnchor
  \/ LaunchFails
  \/ KernelEnds

Spec == Init /\ [][Next]_vars

-----------------------------------------------------------------------------
(* Properties *)

TypeOK ==
  /\ pc \in {"script", "entered", "traced", "kernel"}
  /\ defaultSpace \in Spaces
  /\ space \in [Instances -> Spaces]
  /\ policy \in Instances \cup {Int}
  /\ workunit \in Workunits
  /\ breakpoints \subseteq Workunits
  /\ userAnchors \subseteq Anchors
  /\ trace \in [workunit : Workunits \cup {None}, overlap : SUBSET Workunits, completed : BOOLEAN]
  /\ kind \in Accelerators \cup {"cpu"}
  /\ union \subseteq Workunits
  /\ handed \in [workunit : Workunits \cup {None}, kind : Accelerators \cup {"cpu"}, enabled : SUBSET Workunits]

\* Every kernel of a backend that has one is built for its Debug space, whatever
\* instances its policy shares with launches before it, finished or not.
KernelsAreDebug ==
  pc # "script" /\ RunSpace.backend \in Promoted => RunSpace.debug

\* A policy never runs on another backend than it was made for: promotion changes
\* the space of shared instances, and the default, in place.
BackendKept ==
  /\ \A s \in Spaces : space[s].backend = s.backend
  /\ pc # "script" /\ policy \in Spaces => RunSpace.backend = policy.backend

\* The debugger handed over is the one for the space the kernel runs in.
KindMatches ==
  pc = "kernel" /\ handed # NoHandoff => handed.kind = Kind(RunSpace)

\* What is handed over is about this launch, with its own breakpoint, although
\* earlier launches may have been abandoned between the anchors.
HandedIsThisLaunch ==
  pc = "kernel" =>
    IF userAnchors = {}
      THEN /\ handed.workunit = workunit
           /\ workunit \in breakpoints => workunit \in handed.enabled
           /\ handed.enabled \subseteq breakpoints
      ELSE handed = NoHandoff

\* Why these hold: an instance only ever changes to the Debug space of its own
\* backend, the launch's space is promoted until it is over, and the trace and the
\* kind of debugger are those of the launch from the metadata anchor on.
LaunchInv ==
  /\ TypeOK
  /\ \A s \in Spaces : space[s].backend = s.backend /\ (s.debug => space[s].debug)
  /\ pc # "script" => Effective(policy).debug \/ Effective(policy).backend \notin Promoted
  /\ pc \in {"traced", "kernel"} => kind = Kind(Effective(policy))
  /\ pc = "traced" => trace = FreshTrace(HookOk("metadata"))
  /\ pc # "kernel" => handed = NoHandoff
  /\ pc = "kernel" => handed = NoHandoff \/ handed.kind = kind
  /\ HandedIsThisLaunch
=============================================================================
