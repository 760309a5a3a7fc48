--------------------------- MODULE DebuggeeProofs ---------------------------
(***************************************************************************)
(* What a launch leaves in the debuggee: LaunchTrace, proved for all       *)
(* backends, Debug spaces, accelerators, team policies and workunits, and  *)
(* IpcHandles, for all names, arrays and calls, however many of them share *)
(* a line.  LaunchInv and IpcInv are inductive, and the properties follow  *)
(* from them.                                                              *)
(***************************************************************************)
EXTENDS LaunchTrace, IpcHandles, TLAPS

\* The space of a launch, and the kind of its debugger.
LEMMA EffectiveType ==
  ASSUME defaultSpace \in Spaces, space \in [Instances -> Spaces],
         NEW p \in Instances \cup {Int}
  PROVE  Effective(p) \in Spaces
BY DEF Effective

LEMMA KindType ==
  ASSUME NEW s \in Spaces
  PROVE  Kind(s) \in Accelerators \cup {"cpu"}
BY DEF Kind, Spaces

\* The Debug space of a space is one of the same backend.
LEMMA DebugOf ==
  ASSUME NEW s \in Spaces
  PROVE  /\ [s EXCEPT !.debug = TRUE] \in Spaces
         /\ [s EXCEPT !.debug = TRUE].backend = s.backend
         /\ [s EXCEPT !.debug = TRUE].debug
BY DEF Spaces

\* Promotion leaves the launch with the Debug space of its backend, if there is one,
\* and every shared instance with the backend it was made for.
LEMMA PromoteInv ==
  ASSUME LaunchInv, NEW p \in Instances \cup {Int}, Promote(p)
  PROVE  /\ defaultSpace' \in Spaces
         /\ space' \in [Instances -> Spaces]
         /\ \A s \in Spaces : space'[s].backend = s.backend /\ (s.debug => space'[s].debug)
         /\ LET e == IF p = Int THEN defaultSpace' ELSE space'[p]
            IN e.debug \/ e.backend \notin Promoted
<1> DEFINE e == Effective(p)
           d == [e EXCEPT !.debug = TRUE]
<1>1. e \in Spaces
  BY EffectiveType DEF LaunchInv, TypeOK
<1>2. d \in Spaces /\ d.backend = e.backend /\ d.debug
  BY <1>1, DebugOf
<1>3. CASE e.debug \/ e.backend \notin Promoted
  <2>1. UNCHANGED spaceVars
    BY <1>3 DEF Promote
  <2> QED
    BY <2>1, <1>3 DEF spaceVars, Effective, LaunchInv, TypeOK
<1>4. CASE ~(e.debug \/ e.backend \notin Promoted)
  <2>1. defaultSpace' = d
    BY <1>4 DEF Promote
  <2>2. space' = IF p = Int THEN space ELSE [space EXCEPT ![p] = d]
    BY <1>4 DEF Promote
  <2>3. CASE p = Int
    BY <2>1, <2>2, <2>3, <1>2 DEF LaunchInv, TypeOK
  <2>4. CASE p # Int
    <3>1. p \in Instances
      BY <2>4
    <3>2. space' = [space EXCEPT ![p] = d] /\ space'[p] = d
      BY <2>2, <2>4, <3>1 DEF LaunchInv, TypeOK
    <3>3. space' \in [Instances -> Spaces]
      BY <3>2, <1>2 DEF LaunchInv, TypeOK
    <3>4. ASSUME NEW s \in Spaces
          PROVE  space'[s].backend = s.backend /\ (s.debug => space'[s].debug)
      <4>1. CASE s = p
        <5>1. e = space[s]
          BY <4>1, <2>4 DEF Effective
        <5>2. space[s].backend = s.backend
          BY DEF LaunchInv
        <5> QED
          BY <4>1, <5>1, <5>2, <3>2, <1>2
      <4>2. CASE s # p
        <5>1. space'[s] = space[s]
          BY <4>2, <3>2, <3>1 DEF LaunchInv, TypeOK, Instances
        <5> QED
          BY <5>1 DEF LaunchInv
      <4> QED
        BY <4>1, <4>2
    <3> QED
      BY <2>1, <2>4, <3>2, <3>3, <3>4, <1>2
  <2> QED
    BY <2>3, <2>4
<1> QED
  BY <1>3, <1>4

LEMMA LaunchInvInit == Init => LaunchInv
<1> SUFFICES ASSUME Init PROVE LaunchInv
  OBVIOUS
<1>1. TypeOK
  BY DEF Init, TypeOK, Production, NoTrace, NoHandoff, Instances
<1>2. \A s \in Spaces : space[s] = s
  BY DEF Init
<1> QED
  BY <1>1, <1>2 DEF Init, LaunchInv, HandedIsThisLaunch

LEMMA LaunchInvStep == LaunchInv /\ [Next]_vars => LaunchInv'
<1> SUFFICES ASSUME LaunchInv, [Next]_vars PROVE LaunchInv'
  OBVIOUS
<1> USE DEF launchVars, spaceVars, userVars, traceVars
<1>1. ASSUME NEW s \in Production, SetDefaultSpace(s) PROVE LaunchInv'
  BY <1>1 DEF SetDefaultSpace, Production, LaunchInv, TypeOK, HandedIsThisLaunch
<1>2. ASSUME NEW w \in Workunits, SetBreak(w) \/ ClearBreak(w) PROVE LaunchInv'
  BY <1>2 DEF SetBreak, ClearBreak, LaunchInv, TypeOK, HandedIsThisLaunch
<1>3. ASSUME NEW anchor \in Anchors, BreakAtAnchor(anchor) PROVE LaunchInv'
  BY <1>3 DEF BreakAtAnchor, LaunchInv, TypeOK, HandedIsThisLaunch
<1>4. ASSUME NEW w \in Workunits, NEW p \in Instances \cup {Int}, Enter(w, p) PROVE LaunchInv'
  <2>1. /\ defaultSpace' \in Spaces
        /\ space' \in [Instances -> Spaces]
        /\ \A s \in Spaces : space'[s].backend = s.backend /\ (s.debug => space'[s].debug)
        /\ LET e == IF p = Int THEN defaultSpace' ELSE space'[p]
           IN e.debug \/ e.backend \notin Promoted
    BY <1>4, PromoteInv DEF Enter
  <2>2. pc = "script" /\ pc' = "entered" /\ workunit' = w /\ policy' = p /\ UNCHANGED <<userVars, traceVars>>
    BY <1>4 DEF Enter
  <2>3. TypeOK'
    BY <2>1, <2>2 DEF LaunchInv, TypeOK
  <2> QED
    BY <2>1, <2>2, <2>3 DEF LaunchInv, Effective, HandedIsThisLaunch
<1>5. CASE MetadataAnchor
  <2>1. Effective(policy) \in Spaces
    BY EffectiveType DEF LaunchInv, TypeOK
  <2>2. Kind(Effective(policy)) \in Accelerators \cup {"cpu"}
    BY <2>1, KindType
  <2>3. FreshTrace(HookOk("metadata")) \in
          [workunit : Workunits \cup {None}, overlap : SUBSET Workunits, completed : BOOLEAN]
    BY DEF FreshTrace, LaunchInv, TypeOK
  <2>4. /\ pc = "entered" /\ pc' = "traced"
        /\ kind' = Kind(Effective(policy)) /\ trace' = FreshTrace(HookOk("metadata"))
        /\ UNCHANGED <<launchVars, spaceVars, userVars, union, handed>>
    BY <1>5 DEF MetadataAnchor
  <2>5. TypeOK'
    BY <2>2, <2>3, <2>4 DEF LaunchInv, TypeOK
  <2>6. Effective(policy)' = Effective(policy)
    BY <2>4 DEF Effective
  <2>7. Kind(Effective(policy))' = Kind(Effective(policy))
    BY <2>6 DEF Kind
  <2>8. FreshTrace(HookOk("metadata"))' = FreshTrace(HookOk("metadata"))
    BY <2>4 DEF FreshTrace, HookOk
  <2> QED
    BY <2>4, <2>5, <2>6, <2>7, <2>8 DEF LaunchInv, HandedIsThisLaunch
<1>6. CASE ExecuteAnchor
  <2> DEFINE reports == HookOk("execute") /\ ~trace.completed /\ trace.workunit # None
  <2>1. pc = "traced" /\ pc' = "kernel" /\ UNCHANGED <<launchVars, spaceVars, userVars, kind>>
    BY <1>6 DEF ExecuteAnchor
  <2>2. trace = FreshTrace(HookOk("metadata")) /\ handed = NoHandoff
    BY <2>1 DEF LaunchInv
  <2>3. workunit # None
    BY NoneAssumption DEF LaunchInv, TypeOK
  <2>4. CASE reports
    <3>1. /\ union' = union \cup trace.overlap
          /\ handed' = [workunit |-> trace.workunit, kind |-> kind, enabled |-> union' \cap breakpoints]
          /\ trace' = [trace EXCEPT !.completed = TRUE]
      BY <2>4, <1>6 DEF ExecuteAnchor
    <3>2. HookOk("metadata") /\ HookOk("execute")
      BY <2>2, <2>4 DEF FreshTrace
    <3>3. trace.workunit = workunit /\ trace.overlap = {workunit} \cap breakpoints
      BY <2>2, <3>2 DEF FreshTrace
    <3>4. handed'.workunit = workunit /\ handed'.kind = kind /\ handed'.enabled = union' \cap breakpoints
      BY <3>1, <3>3
    <3>5. userAnchors = {}
      BY <3>2 DEF HookOk, Anchors, LaunchInv, TypeOK
    <3>6. HandedIsThisLaunch'
      BY <2>1, <3>1, <3>3, <3>4, <3>5 DEF HandedIsThisLaunch
    <3>7. TypeOK'
      BY <2>1, <3>1, <3>3 DEF LaunchInv, TypeOK
    <3> QED
      BY <2>1, <3>4, <3>6, <3>7 DEF LaunchInv, Effective, Kind
  <2>5. CASE ~reports
    <3>1. UNCHANGED <<trace, union, handed>>
      BY <2>5, <1>6 DEF ExecuteAnchor
    <3>2. userAnchors # {}
      BY <2>5, <2>2, <2>3 DEF FreshTrace, HookOk
    <3>3. HandedIsThisLaunch'
      BY <2>1, <2>2, <3>1, <3>2 DEF HandedIsThisLaunch, NoHandoff
    <3>4. TypeOK'
      BY <2>1, <3>1 DEF LaunchInv, TypeOK
    <3>5. handed' = NoHandoff'
      BY <2>2, <3>1 DEF NoHandoff
    <3> QED
      BY <2>1, <3>3, <3>4, <3>5 DEF LaunchInv, Effective, Kind
  <2> QED
    BY <2>4, <2>5
<1>7. CASE LaunchFails \/ KernelEnds
  <2>1. pc' = "script" /\ policy' = Int /\ handed' = NoHandoff
        /\ UNCHANGED <<workunit, spaceVars, userVars, trace, kind, union>>
    BY <1>7 DEF LaunchFails, KernelEnds, BackToScript
  <2>2. TypeOK'
    BY <2>1 DEF LaunchInv, TypeOK, NoHandoff
  <2> QED
    BY <2>1, <2>2 DEF LaunchInv, HandedIsThisLaunch, NoHandoff
<1>8. CASE UNCHANGED vars
  BY <1>8 DEF vars, LaunchInv, TypeOK, HandedIsThisLaunch, Effective, Kind, FreshTrace, HookOk, NoHandoff
<1> QED
  BY <1>1, <1>2, <1>3, <1>4, <1>5, <1>6, <1>7, <1>8 DEF Next

\* The bookkeeping of a launch is consistent at every moment of every run.
THEOREM LaunchInvariant == Spec => []LaunchInv
<1> QED
  BY LaunchInvInit, LaunchInvStep, PTL DEF Spec

\* An integer runs in the default space, whose instance is of the same backend.
LEMMA RunSpaceOf ==
  ASSUME LaunchInv
  PROVE  /\ RunSpace.backend = Effective(policy).backend
         /\ Effective(policy).debug => RunSpace.debug
<1>1. CASE policy = Int
  <2>1. RunSpace = space[defaultSpace] /\ Effective(policy) = defaultSpace
    BY <1>1 DEF RunSpace, Effective
  <2>2. defaultSpace \in Spaces
    BY DEF LaunchInv, TypeOK
  <2> QED
    BY <2>1, <2>2 DEF LaunchInv
<1>2. CASE policy # Int
  BY <1>2 DEF RunSpace, Effective
<1> QED
  BY <1>1, <1>2

\* The state of a launch keeps its types, through promotion, anchors and failures.
THEOREM TypeCorrect == Spec => []TypeOK
<1>1. LaunchInv => TypeOK
  BY DEF LaunchInv
<1> QED
  BY <1>1, LaunchInvariant, PTL

\* Every kernel of a backend that has one is built for its Debug space.
THEOREM KernelsAlwaysDebug == Spec => []KernelsAreDebug
<1>1. LaunchInv => KernelsAreDebug
  BY RunSpaceOf DEF LaunchInv, KernelsAreDebug
<1> QED
  BY <1>1, LaunchInvariant, PTL

\* No policy runs on another backend than it was made for.
THEOREM BackendsKept == Spec => []BackendKept
<1>1. LaunchInv => BackendKept
  <2> SUFFICES ASSUME LaunchInv, policy \in Spaces PROVE RunSpace.backend = policy.backend
    BY DEF LaunchInv, BackendKept
  <2>1. policy # Int
    BY PoliciesAssumption DEF Instances
  <2> QED
    BY <2>1 DEF RunSpace, LaunchInv
<1> QED
  BY <1>1, LaunchInvariant, PTL

\* The debugger handed over is the one for the space the kernel runs in.
THEOREM KindsMatch == Spec => []KindMatches
<1>1. LaunchInv => KindMatches
  <2> SUFFICES ASSUME LaunchInv, pc = "kernel", handed # NoHandoff
               PROVE  handed.kind = Kind(RunSpace)
    BY DEF KindMatches
  <2>1. handed.kind = Kind(Effective(policy))
    BY DEF LaunchInv
  <2>2. RunSpace.backend = Effective(policy).backend
    BY RunSpaceOf
  <2> QED
    BY <2>1, <2>2 DEF Kind
<1> QED
  BY <1>1, LaunchInvariant, PTL

\* What is handed over is about this launch, whatever was abandoned before it.
THEOREM HandedIsAlwaysThisLaunch == Spec => []HandedIsThisLaunch
<1>1. LaunchInv => HandedIsThisLaunch
  BY DEF LaunchInv
<1> QED
  BY <1>1, LaunchInvariant, PTL

-----------------------------------------------------------------------------
(* IpcHandles.                                                             *)

\* While the kernel runs, the file has what its launch took, and no name of a
\* parameter stands for another array than its argument.
IpcInv ==
  /\ IpcTypeOK
  /\ at = "kernel" => \A n \in taken : entries[n] = locals[n]
  /\ at = "kernel" /\ taken # {} => paramMap = ParsedMap(call)
  /\ at = "kernel" => given \in Given(call, locals)

\* The map that is read off a line has a name of the caller, or none, for each name.
LEMMA ParsedMapType ==
  ASSUME NEW c \in Calls
  PROVE  ParsedMap(c) \in ParamMaps
BY DEF ParsedMap, ParamMaps

\* The file after a launch.
LEMMA CollectInv ==
  ASSUME NEW c \in Calls, NEW arrays \in [Names -> ArraysOrNone],
         NEW names \in SUBSET {n \in Names : arrays[n] # NoArray},
         IpcTypeOK, Collect(c, arrays, names)
  PROVE  /\ entries' \in [Names -> ArraysOrNone]
         /\ paramMap' \in ParamMaps
         /\ \A n \in names : entries'[n] = arrays[n]
         /\ names # {} => paramMap' = ParsedMap(c)
<1>1. CASE names = {}
  BY <1>1 DEF Collect, fileVars, IpcTypeOK
<1>2. CASE names # {}
  <2>1. /\ entries' = [n \in Names |-> IF n \in names THEN arrays[n] ELSE entries[n]]
        /\ paramMap' = ParsedMap(c)
    BY <1>2 DEF Collect
  <2> QED
    BY <2>1, ParsedMapType DEF IpcTypeOK
<1> QED
  BY <1>1, <1>2

LEMMA IpcInvInit == IpcInit => IpcInv
BY DEF IpcInit, IpcInv, IpcTypeOK, NoArrays, NoMap, ArraysOrNone, ParamMaps

LEMMA IpcInvStep == IpcInv /\ [IpcNext]_ipcVars => IpcInv'
<1> SUFFICES ASSUME IpcInv, [IpcNext]_ipcVars PROVE IpcInv'
  OBVIOUS
<1>1. ASSUME NEW c \in Calls, NEW arrays \in [Names -> ArraysOrNone],
             NEW names \in SUBSET {n \in Names : arrays[n] # NoArray},
             Launch(c, arrays, names)
      PROVE  IpcInv'
  <2>1. /\ at' = "kernel" /\ call' = c /\ locals' = arrays /\ taken' = names
        /\ given' \in Given(c, arrays)
    BY <1>1 DEF Launch
  <2>2. /\ entries' \in [Names -> ArraysOrNone]
        /\ paramMap' \in ParamMaps
        /\ \A n \in names : entries'[n] = arrays[n]
        /\ names # {} => paramMap' = ParsedMap(c)
    BY <1>1, CollectInv DEF IpcInv, Launch
  <2>3. given' \in [Names -> ArraysOrNone]
    BY <2>1 DEF Given
  <2>4. IpcTypeOK'
    BY <2>1, <2>2, <2>3 DEF IpcTypeOK
  <2> QED
    BY <2>1, <2>2, <2>4 DEF IpcInv, ParsedMap, FoundOnLine, Given
<1>2. CASE Damaged
  <2>1. at = "script" /\ at' = "script"
        /\ entries' = NoArrays /\ paramMap' = NoMap /\ UNCHANGED callVars
    BY <1>2 DEF Damaged
  <2>2. IpcTypeOK'
    BY <2>1 DEF IpcInv, IpcTypeOK, callVars, NoArrays, NoMap, ArraysOrNone, ParamMaps
  <2> QED
    BY <2>1, <2>2 DEF IpcInv
<1>3. CASE LaunchEnds
  <2>1. at' = "script" /\ locals' = NoArrays /\ given' = NoArrays /\ taken' = {}
        /\ UNCHANGED <<call, fileVars>>
    BY <1>3 DEF LaunchEnds
  <2>2. IpcTypeOK'
    BY <2>1 DEF IpcInv, IpcTypeOK, fileVars, NoArrays, ArraysOrNone
  <2> QED
    BY <2>1, <2>2 DEF IpcInv
<1>4. CASE UNCHANGED ipcVars
  BY <1>4 DEF ipcVars, callVars, fileVars, IpcInv, IpcTypeOK, ParsedMap, FoundOnLine, Given
<1> QED
  BY <1>1, <1>2, <1>3, <1>4 DEF IpcNext

\* While a kernel runs, what its launch took into the file is in it, and the map of the
\* parameters is the one parsed off its line (load_ipc_json reads both).
THEOREM IpcInvariant == IpcSpec => []IpcInv
<1> QED
  BY IpcInvInit, IpcInvStep, PTL DEF IpcSpec

\* The file, the calls and the launch under way keep their types.
THEOREM IpcTypeCorrect == IpcSpec => []IpcTypeOK
<1>1. IpcInv => IpcTypeOK
  BY DEF IpcInv
<1> QED
  BY <1>1, IpcInvariant, PTL

\* A name of the caller whose handle was taken at this launch is that array.
THEOREM LocalsAreFresh == IpcSpec => []LocalIsFresh
<1>1. IpcInv => LocalIsFresh
  <2> SUFFICES ASSUME IpcInv, at = "kernel", NEW n \in taken
               PROVE  Resolved(n) = locals[n]
    BY DEF LocalIsFresh
  <2>1. entries[n] = locals[n] /\ locals[n] # NoArray
    BY DEF IpcInv, IpcTypeOK
  <2> QED
    BY <2>1 DEF Resolved
<1> QED
  BY <1>1, IpcInvariant, PTL

\* The map of a call that is alone on its line is read off that call.
LEMMA AloneParsed ==
  ASSUME NEW c \in Calls, Alone(c)
  PROVE  ParsedMap(c) = [p \in Names |-> IF c.args[p] \in Names THEN c.args[p] ELSE NoArray]
<1>1. \A e \in Calls : line[e] = line[c] => e = c
  BY DEF Alone
<1>2. line[c] = line[c] /\ \A e \in Calls : line[e] = line[c] => c.place <= e.place
  BY <1>1, CallsAssumption
<1>3. FoundOnLine(c) = c
  BY <1>1, <1>2 DEF FoundOnLine
<1> QED
  BY <1>3 DEF ParsedMap

\* A parameter that no variable ever had the name of is the array it was given.
THEOREM ParametersAreGiven == IpcSpec => []ParameterIsGiven
<1>1. IpcInv => ParameterIsGiven
  <2> SUFFICES ASSUME IpcInv, at = "kernel", taken # {}, Alone(call),
                      NEW p \in Names, entries[p] = NoArray
               PROVE  /\ call.args[p] \in taken => Resolved(p) = given[p]
                      /\ call.args[p] \in {NoArray, Expr} => Resolved(p) = NoArray
    BY DEF ParameterIsGiven
  <2>1. call \in Calls /\ taken \subseteq Names
    BY DEF IpcInv, IpcTypeOK
  <2>2. paramMap = [q \in Names |-> IF call.args[q] \in Names THEN call.args[q] ELSE NoArray]
    BY <2>1, AloneParsed DEF IpcInv
  <2>3. Resolved(p) = IF paramMap[p] # NoArray THEN entries[paramMap[p]] ELSE NoArray
    BY DEF Resolved
  <2>4. ASSUME call.args[p] \in taken
        PROVE  Resolved(p) = given[p]
    <3>1. call.args[p] \in Names /\ call.args[p] # NoArray
      BY <2>1, <2>4, NoArrayAssumption
    <3>2. Resolved(p) = entries[call.args[p]]
      BY <2>2, <2>3, <3>1
    <3>3. given[p] = locals[call.args[p]]
      BY <3>1 DEF IpcInv, Given
    <3> QED
      BY <2>4, <3>2, <3>3 DEF IpcInv
  <2>5. ASSUME call.args[p] \in {NoArray, Expr}
        PROVE  Resolved(p) = NoArray
    BY <2>2, <2>3, <2>5, NoArrayAssumption
  <2> QED
    BY <2>4, <2>5
<1> QED
  BY <1>1, IpcInvariant, PTL

=============================================================================
