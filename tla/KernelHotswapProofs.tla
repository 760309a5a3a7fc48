------------------------- MODULE KernelHotswapProofs -------------------------
(***************************************************************************)
(* What holds of the hotswap rules for every program: any files, calls of  *)
(* any number of lines, any depth of the stack, rules given at any prompt. *)
(***************************************************************************)
EXTENDS KernelHotswap, WellFoundedInduction, TLAPS

Idle == {"running", "prompt", "atReturn"}

\* Some rule replaces kernel k everywhere, or at the first line of call c.
Ruled(c, global, local) ==
  global[c.kernel] # None \/ local[<<c.file, c.first>>][c.kernel] # None

\* What a call under way has launched came from swaps that kept it, one each, and from
\* swaps that raised; a call that is over has launched one more.
LaunchesInv ==
  /\ pc \notin Idle => Len(ran) \in kept .. kept + failures
  /\ pc \in Idle /\ call # None => Len(ran) \in kept + 1 .. kept + 1 + failures
  /\ kept > 0 /\ call # None => ~call.skippable \/ pc = "atReturn"

\* A traced call that no swap has tried, and no jump has led to, and that is left to the
\* program or waits at the prompt to be, has no rule that the line event or the hotswap
\* command would have followed.
UnruledInv ==
  pc \in {"original", "atCall"} /\ Top.traced /\ failures = 0 /\ kept = 0 /\ ~missed =>
    ~Ruled(call, swaps, swapsLoc)

HotswapInv == TypeOK /\ LaunchesInv /\ UnruledInv
-----------------------------------------------------------------------------
USE NoneAssumption

\* Of some lines up to a last one there is a greatest.
LEMMA GreatestLine ==
  ASSUME NEW ruled, NEW last \in Nat, ruled \subseteq 0 .. last, ruled # {}
  PROVE  Max(ruled) \in ruled
<1> DEFINE below == {last - n : n \in ruled}
<1>1. below \subseteq Nat /\ below # {}
  <2>1. \A n \in ruled : n \in Nat /\ n <= last
    OBVIOUS
  <2>2. \A n \in ruled : last - n \in Nat
    BY <2>1
  <2> QED
    BY <2>2
<1>2. \E x \in below : \A y \in below : ~(<<y, x>> \in OpToRel(<, Nat))
  <2> HIDE DEF below
  <2> QED
    BY <1>1, WFMin, NatLessThanWellFounded, Zenon
<1>3. PICK x \in below : \A y \in below : ~(y < x)
  <2> HIDE DEF below
  <2> QED
    BY <1>1, <1>2, Zenon DEF OpToRel
<1>4. PICK n \in ruled : x = last - n
  OBVIOUS
<1>5. \A m \in ruled : n >= m
  <2> SUFFICES ASSUME NEW m \in ruled PROVE n >= m
    OBVIOUS
  <2>1. last - m \in below /\ n \in Nat /\ m \in Nat
    OBVIOUS
  <2> QED
    BY <1>3, <1>4, <2>1
<1> QED
  BY <1>5 DEF Max

\* The target of a call is a kernel, when a rule applies; a rule for every place or for the
\* first line of the call applies.
LEMMA RuleApplies ==
  ASSUME NEW c \in Calls, NEW global \in Rules, NEW local \in [Locations -> Rules]
  PROVE  /\ Applies(c, global, local) => Target(c, global, local) \in Kernels
         /\ Ruled(c, global, local) => Applies(c, global, local)
<1> DEFINE ruled == {n \in Lines \cap (c.first .. c.last) : local[<<c.file, n>>][c.kernel] # None}
<1>1. /\ c.file \in Files /\ c.kernel \in Kernels /\ c.first \in Lines /\ c.last \in Nat
      /\ c.first \in Nat /\ c.first <= c.last
  BY CallsAssumption, LinesAssumption
<1>2. ruled # {} => Max(ruled) \in ruled
  <2>1. ruled \subseteq 0 .. c.last
    BY <1>1, LinesAssumption
  <2> HIDE DEF ruled
  <2> QED
    BY <1>1, <2>1, GreatestLine
<1>3. Target(c, global, local) =
        IF ruled = {} THEN global[c.kernel] ELSE local[<<c.file, Max(ruled)>>][c.kernel]
  BY DEF Target
<1>4. ruled # {} => Target(c, global, local) \in Kernels
  <2>1. \A n \in ruled : local[<<c.file, n>>][c.kernel] # None /\ <<c.file, n>> \in Locations
    BY <1>1 DEF Locations
  <2>2. \A n \in ruled : local[<<c.file, n>>][c.kernel] \in Kernels
    BY <1>1, <2>1 DEF Rules
  <2> HIDE DEF ruled
  <2> QED
    BY <1>2, <1>3, <2>2
<1>5. ruled = {} => Target(c, global, local) = global[c.kernel]
  BY <1>3
<1>6. global[c.kernel] \in Kernels \cup {None}
  BY <1>1 DEF Rules
<1>7. Applies(c, global, local) => Target(c, global, local) \in Kernels
  BY <1>4, <1>5, <1>6 DEF Applies
<1>8. Ruled(c, global, local) => Considered(c, global, local)
  BY <1>1 DEF Ruled, Considered, NoRules
<1>9. Ruled(c, global, local) => Target(c, global, local) # None
  <2>1. local[<<c.file, c.first>>][c.kernel] # None => c.first \in ruled
    BY <1>1
  <2> HIDE DEF ruled
  <2> QED
    BY <1>4, <1>5, <2>1 DEF Ruled
<1> QED
  BY <1>7, <1>8, <1>9 DEF Applies

LEMMA InitInv == Init => HotswapInv
<1> SUFFICES ASSUME Init PROVE HotswapInv
  OBVIOUS
<1>1. stack \in Seq([file : Files, traced : BOOLEAN]) /\ stack # <<>>
  BY MainAssumption DEF Init
<1>2. swaps \in Rules /\ swapsLoc \in [Locations -> Rules]
  BY DEF Init, Rules, NoRules
<1>3. TypeOK
  <2>1. pc = "prompt" /\ call = None /\ ran = <<>> /\ kept = 0 /\ failures = 0
    BY DEF Init
  <2>2. ran \in Seq(Kernels) /\ failures \in 0 .. MaxFailures /\ kept \in Nat
    BY <2>1, BoundsAssumption
  <2>3. breaks \subseteq Files /\ argsDone \in BOOLEAN /\ missed \in BOOLEAN /\ jumped \in BOOLEAN
    BY MainAssumption DEF Init
  <2> QED
    BY <1>1, <1>2, <2>1, <2>2, <2>3 DEF TypeOK
<1> QED
  BY <1>3 DEF Init, HotswapInv, LaunchesInv, UnruledInv, Idle

\* The swap of a call: it skips the call, keeps it, or raises, with the number of launches
\* that this allows.
LEMMA SwapStep ==
  ASSUME HotswapInv, pc \in {"line", "atCall", "atReturn"}, NEW then,
         NEW global \in Rules, NEW local \in [Locations -> Rules],
         \/ SwapSkips(call, global, local, then) /\ then \in {"running", "prompt"}
         \/ SwapKeeps(call, global, local, then)
         \/ SwapFails(call, global, local, then),
         ~SwapSkips(call, global, local, then) =>
           IF pc = "atReturn" THEN then = "atReturn" ELSE then \in {"original", "args", "atCall"},
         UNCHANGED <<breaks, stack>>,
         swaps' \in Rules, swapsLoc' \in [Locations -> Rules]
  PROVE  HotswapInv'
<1>1. /\ call \in Calls /\ call' = call /\ argsDone' = argsDone /\ missed' = missed
      /\ pc' = then /\ Applies(call, global, local) /\ jumped' \in BOOLEAN
  BY DEF HotswapInv, TypeOK, SwapSkips, SwapKeeps, SwapFails, Execute
<1>2. Target(call, global, local) \in Kernels
  BY <1>1, RuleApplies
<1>3. /\ Len(ran) \in Nat /\ ran \in Seq(Kernels) /\ kept \in Nat
      /\ failures \in 0 .. MaxFailures /\ MaxFailures \in Nat /\ failures \in Nat
  BY BoundsAssumption DEF HotswapInv, TypeOK
<1> DEFINE after == Append(ran, Target(call, global, local))
<1>4. after \in Seq(Kernels) /\ Len(after) = Len(ran) + 1
  BY <1>2, <1>3
<1>5. \/ /\ ran' = after /\ failures' = failures /\ kept' = kept
         /\ pc # "atReturn" /\ then \in {"running", "prompt"} /\ call.skippable
      \/ /\ ran' = after /\ failures' = failures /\ kept' = kept + 1
         /\ ~call.skippable \/ pc = "atReturn"
         /\ IF pc = "atReturn" THEN then = "atReturn" ELSE then \in {"original", "args", "atCall"}
      \/ /\ ran' \in {ran, after} /\ failures < MaxFailures /\ failures' = failures + 1 /\ kept' = kept
         /\ IF pc = "atReturn" THEN then = "atReturn" ELSE then \in {"original", "args", "atCall"}
  <2>1. CASE SwapSkips(call, global, local, then) /\ then \in {"running", "prompt"}
    BY <2>1 DEF SwapSkips, Execute
  <2>2. CASE ~SwapSkips(call, global, local, then)
    <3>1. IF pc = "atReturn" THEN then = "atReturn" ELSE then \in {"original", "args", "atCall"}
      BY <2>2
    <3>2. CASE SwapKeeps(call, global, local, then)
      BY <3>1, <3>2 DEF SwapKeeps, Execute
    <3>3. CASE SwapFails(call, global, local, then)
      BY <3>1, <3>3 DEF SwapFails
    <3> QED
      BY <2>2, <3>2, <3>3
  <2>3. CASE SwapSkips(call, global, local, then) /\ then \notin {"running", "prompt"}
    <3>1. call.skippable /\ pc # "atReturn" /\ kept' = kept /\ failures' = failures
      BY <2>3 DEF SwapSkips, Execute
    <3>2. ~SwapKeeps(call, global, local, then)
      BY <3>1 DEF SwapKeeps
    <3>3. ~SwapFails(call, global, local, then)
      BY <3>1, <1>3 DEF SwapFails
    <3> QED
      BY <2>3, <3>2, <3>3
  <2> QED
    BY <2>1, <2>2, <2>3
<1> HIDE DEF after
<1>6. ran' \in Seq(Kernels) /\ failures' \in 0 .. MaxFailures /\ kept' \in Nat
  BY <1>3, <1>4, <1>5
<1>7. pc = "atReturn" <=> then = "atReturn"
  BY <1>5
<1>8. TypeOK'
  BY <1>1, <1>5, <1>6, <1>7 DEF HotswapInv, TypeOK
<1>9. LaunchesInv'
  <2>1. call # None
    BY <1>1
  <2>2. CASE pc = "atReturn"
    BY <1>1, <1>3, <1>4, <1>5, <2>1, <2>2 DEF HotswapInv, LaunchesInv, Idle
  <2>3. CASE pc # "atReturn"
    BY <1>1, <1>3, <1>4, <1>5, <2>1, <2>3 DEF HotswapInv, LaunchesInv, Idle
  <2> QED
    BY <2>2, <2>3
<1>10. UnruledInv'
  BY <1>1, <1>3, <1>5 DEF UnruledInv
<1> QED
  BY <1>8, <1>9, <1>10 DEF HotswapInv

\* Without a rule that applies, a call at its line event or at the prompt stays as it is.
LEMMA NoSwapStep ==
  ASSUME HotswapInv, pc \in {"line", "atCall"}, pc' \in {"original", "args", "atCall"},
         UNCHANGED <<breaks, stack, callVars>>,
         swaps' \in Rules, swapsLoc' \in [Locations -> Rules],
         ~Applies(call, swaps', swapsLoc')
  PROVE  HotswapInv'
<1>1. call \in Calls
  BY DEF HotswapInv, TypeOK
<1>2. ~Ruled(call, swaps', swapsLoc')
  BY <1>1, RuleApplies
<1>3. ~Ruled(call, swaps, swapsLoc)'
  BY <1>2 DEF Ruled, callVars
<1>4. TypeOK'
  BY <1>1 DEF HotswapInv, TypeOK, callVars
<1>5. LaunchesInv'
  BY DEF HotswapInv, LaunchesInv, Idle, callVars
<1>6. UnruledInv'
  BY <1>3 DEF UnruledInv
<1> QED
  BY <1>4, <1>5, <1>6 DEF HotswapInv

\* The rules and the launches of the call are left alone, and the call is not handed to
\* the program: no claim about it is made.
LEMMA OtherStep ==
  ASSUME HotswapInv, UNCHANGED <<ruleVars, call, ran, failures, kept>>, argsDone' \in BOOLEAN,
         missed' \in BOOLEAN, jumped' \in BOOLEAN,
         breaks' \subseteq Files,
         stack' \in Seq([file : Files, traced : BOOLEAN]), stack' # <<>>,
         pc # "atReturn", pc' \in {"running", "prompt", "line", "args", "atArgs"},
         (pc \in Idle) <=> (pc' \in Idle)
  PROVE  HotswapInv'
<1>1. TypeOK'
  BY DEF HotswapInv, TypeOK, ruleVars, Idle
<1>2. LaunchesInv'
  BY DEF HotswapInv, LaunchesInv, ruleVars
<1>3. UnruledInv'
  BY DEF UnruledInv
<1> QED
  BY <1>1, <1>2, <1>3 DEF HotswapInv

\* The frame below the innermost becomes the innermost.
LEMMA PopStack ==
  ASSUME TypeOK, Len(stack) > 1
  PROVE  /\ SubSeq(stack, 1, Len(stack) - 1) \in Seq([file : Files, traced : BOOLEAN])
         /\ SubSeq(stack, 1, Len(stack) - 1) # <<>>
<1> DEFINE Frame == [file : Files, traced : BOOLEAN]
           rest == SubSeq(stack, 1, Len(stack) - 1)
<1>1. stack \in Seq(Frame) /\ Len(stack) \in Nat
  BY DEF TypeOK
<1> HIDE DEF Frame
<1>2. rest \in Seq(Frame) /\ Len(rest) = Len(stack) - 1
  BY <1>1
<1>3. \A n \in Nat : n > 1 => n - 1 # 0
  OBVIOUS
<1>4. Len(rest) # 0
  BY <1>1, <1>2, <1>3, Zenon
<1>5. rest # <<>>
  <2> HIDE DEF rest
  <2> QED
    BY <1>4
<1> QED
  BY <1>2, <1>5 DEF Frame

LEMMA FrameStep ==
  ASSUME HotswapInv, NEW file \in Files, Enter(file) \/ Leave
  PROVE  HotswapInv'
<1>1. stack' \in Seq([file : Files, traced : BOOLEAN]) /\ stack' # <<>>
  <2> DEFINE Frame == [file : Files, traced : BOOLEAN]
  <2>1. stack \in Seq(Frame) /\ stack # <<>> /\ TypeOK
    BY DEF HotswapInv, TypeOK
  <2>2. CASE Enter(file)
    <3>1. PICK traced \in BOOLEAN : stack' = Append(stack, [file |-> file, traced |-> traced])
      BY <2>2 DEF Enter, Traced
    <3>2. [file |-> file, traced |-> traced] \in Frame
      OBVIOUS
    <3> HIDE DEF Frame
    <3>3. stack' \in Seq(Frame) /\ stack' # <<>>
      BY <2>1, <3>1, <3>2
    <3> QED
      BY <3>3 DEF Frame
  <2>3. CASE Leave
    BY <2>1, <2>3, PopStack DEF Leave
  <2> QED
    BY <2>2, <2>3
<1> QED
  BY <1>1, OtherStep DEF Enter, Leave, GoesOn, HotswapInv, TypeOK, Idle

LEMMA ReachStep ==
  ASSUME HotswapInv, NEW c \in Calls, ReachByLine(c) \/ ReachByJump(c)
  PROVE  HotswapInv'
<1>1. /\ Reach(c) /\ pc' \in {"line", "original", "args", "atCall"} /\ missed' \in BOOLEAN
      /\ pc' \in {"original", "atCall"} => missed' \/ ~Top.traced
  BY DEF ReachByLine, ReachByJump, Proceed
<1>2. TypeOK'
  <2>1. /\ call' = c /\ ran' = <<>> /\ failures' = 0 /\ kept' = 0 /\ jumped' = FALSE
        /\ argsDone' \in BOOLEAN /\ UNCHANGED <<ruleVars, breaks, stack>>
    BY <1>1 DEF Reach
  <2>2. ran' \in Seq(Kernels) /\ failures' \in 0 .. MaxFailures /\ kept' \in Nat
    BY <2>1, BoundsAssumption
  <2> QED
    BY <1>1, <2>1, <2>2 DEF HotswapInv, TypeOK, ruleVars
<1>3. LaunchesInv'
  BY <1>1 DEF Reach, LaunchesInv, Idle
<1>4. UnruledInv'
  BY <1>1 DEF Reach, UnruledInv, Top
<1> QED
  BY <1>2, <1>3, <1>4 DEF HotswapInv

LEMMA LineEventStep ==
  ASSUME HotswapInv, LineEvent
  PROVE  HotswapInv'
<1>1. /\ swaps \in Rules /\ swapsLoc \in [Locations -> Rules]
      /\ swaps' = swaps /\ swapsLoc' = swapsLoc /\ pc = "line" /\ UNCHANGED <<breaks, stack>>
  BY DEF LineEvent, HotswapInv, TypeOK, ruleVars
<1>2. CASE SwapSkips(call, swaps, swapsLoc, "running")
  BY <1>1, <1>2, SwapStep
<1>3. CASE SwapKeeps(call, swaps, swapsLoc, Proceed)
  BY <1>1, <1>3, SwapStep DEF Proceed
<1>4. ASSUME NEW then \in {Proceed, "atCall"}, SwapFails(call, swaps, swapsLoc, then)
      PROVE  HotswapInv'
  BY <1>1, <1>4, SwapStep DEF Proceed
<1>5. ASSUME NEW then \in {Proceed, "atCall"}, ~Applies(call, swaps, swapsLoc), pc' = then,
             UNCHANGED callVars
      PROVE  HotswapInv'
  BY <1>1, <1>5, NoSwapStep DEF Proceed
<1> QED
  BY <1>2, <1>3, <1>4, <1>5 DEF LineEvent

LEMMA EvaluateArgsStep ==
  ASSUME HotswapInv, EvaluateArgs
  PROVE  HotswapInv'
<1>1. argsDone' \in BOOLEAN /\ missed' \in BOOLEAN /\ jumped' \in BOOLEAN
  BY DEF EvaluateArgs, HotswapInv, TypeOK
<1> QED
  BY <1>1, OtherStep DEF EvaluateArgs, HotswapInv, TypeOK, Idle

LEMMA RunOriginalStep ==
  ASSUME HotswapInv, RunOriginal
  PROVE  HotswapInv'
<1>1. /\ call \in Calls /\ call.kernel \in Kernels /\ ran \in Seq(Kernels)
      /\ failures \in Nat /\ kept \in Nat
  BY CallsAssumption, BoundsAssumption DEF RunOriginal, HotswapInv, TypeOK
<1>2. ran' \in Seq(Kernels) /\ Len(ran') = Len(ran) + 1 /\ Len(ran) \in Nat
  BY <1>1 DEF RunOriginal
<1>3. /\ pc = "original" /\ pc' \in {"running", "atReturn"} /\ (pc' = "atReturn" => Len(stack) > 1)
      /\ UNCHANGED <<ruleVars, breaks, stack, call, argsDone, failures, kept, missed, jumped>>
  BY DEF RunOriginal
<1>4. TypeOK'
  BY <1>1, <1>2, <1>3 DEF HotswapInv, TypeOK, ruleVars
<1>5. LaunchesInv'
  <2>1. Len(ran) \in kept .. kept + failures
    BY <1>3 DEF HotswapInv, LaunchesInv, Idle
  <2>2. Len(ran') \in kept + 1 .. kept + 1 + failures
    BY <1>1, <1>2, <2>1
  <2> QED
    BY <1>3, <2>2 DEF HotswapInv, LaunchesInv, Idle
<1>6. UnruledInv'
  BY <1>3 DEF UnruledInv
<1> QED
  BY <1>4, <1>5, <1>6 DEF HotswapInv

\* A rule given at the prompt of the call, or of the return after it, acts at once, one
\* given elsewhere later.
LEMMA HotswapStep ==
  ASSUME HotswapInv, AtPrompt, UNCHANGED <<breaks, stack>>,
         swaps' \in Rules, swapsLoc' \in [Locations -> Rules], ApplyNow(swaps', swapsLoc')
  PROVE  HotswapInv'
<1>1. CASE pc \in {"atCall", "atReturn"} /\ Applies(call, swaps', swapsLoc')
  <2>1. \/ SwapSkips(call, swaps', swapsLoc', "prompt")
        \/ SwapKeeps(call, swaps', swapsLoc', pc)
        \/ SwapFails(call, swaps', swapsLoc', pc)
    BY <1>1 DEF ApplyNow
  <2> QED
    BY <1>1, <2>1, SwapStep
<1>2. CASE pc = "atCall" /\ ~Applies(call, swaps', swapsLoc')
  BY <1>2, NoSwapStep DEF ApplyNow
<1>3. CASE pc # "atCall" /\ (pc = "atReturn" => ~Applies(call, swaps', swapsLoc'))
  <2>1. pc \in {"atArgs", "atReturn", "prompt"} /\ pc' = pc /\ UNCHANGED callVars
    BY <1>3 DEF AtPrompt, ApplyNow
  <2>2. TypeOK'
    BY <2>1 DEF HotswapInv, TypeOK, callVars
  <2>3. LaunchesInv'
    BY <2>1 DEF HotswapInv, LaunchesInv, callVars
  <2>4. UnruledInv'
    BY <2>1 DEF UnruledInv
  <2> QED
    BY <2>2, <2>3, <2>4 DEF HotswapInv
<1> QED
  BY <1>1, <1>2, <1>3

LEMMA HotswapEverywhereStep ==
  ASSUME HotswapInv, NEW source \in Kernels, NEW target \in Kernels, HotswapEverywhere(source, target)
  PROVE  HotswapInv'
<1>1. swaps' \in Rules /\ swapsLoc' = swapsLoc /\ swapsLoc \in [Locations -> Rules]
  BY DEF HotswapEverywhere, HotswapInv, TypeOK, Rules
<1>2. ApplyNow(swaps', swapsLoc')
  BY <1>1 DEF HotswapEverywhere
<1> QED
  BY <1>1, <1>2, HotswapStep DEF HotswapEverywhere

LEMMA HotswapAtStep ==
  ASSUME HotswapInv, NEW source \in Kernels, NEW target \in Kernels, NEW location \in Locations,
         HotswapAt(source, target, location)
  PROVE  HotswapInv'
<1>1. swapsLoc' \in [Locations -> Rules]
  <2>1. swapsLoc \in [Locations -> Rules] /\ swapsLoc[location] \in Rules
    BY DEF HotswapInv, TypeOK
  <2>2. [swapsLoc[location] EXCEPT ![source] = target] \in Rules
    BY <2>1 DEF Rules
  <2>3. swapsLoc' = [swapsLoc EXCEPT ![location] = [swapsLoc[location] EXCEPT ![source] = target]]
    BY DEF HotswapAt
  <2> QED
    BY <2>1, <2>2, <2>3
<1>2. swaps' = swaps /\ swaps \in Rules
  BY DEF HotswapAt, HotswapInv, TypeOK
<1>3. ApplyNow(swaps', swapsLoc')
  BY <1>2 DEF HotswapAt
<1> QED
  BY <1>1, <1>2, <1>3, HotswapStep DEF HotswapAt

LEMMA SetBreakStep ==
  ASSUME HotswapInv, NEW file \in Files, SetBreak(file)
  PROVE  HotswapInv'
<1>1. TypeOK'
  BY DEF SetBreak, HotswapInv, TypeOK, ruleVars, callVars
<1>2. LaunchesInv'
  BY DEF SetBreak, HotswapInv, LaunchesInv, callVars
<1>3. UnruledInv'
  BY DEF SetBreak, HotswapInv, UnruledInv, Ruled, Top, ruleVars, callVars
<1> QED
  BY <1>1, <1>2, <1>3 DEF HotswapInv

\* A call left at the prompt goes to the program as it was.
LEMMA ResumeStep ==
  ASSUME HotswapInv, Resume
  PROVE  HotswapInv'
<1>1. /\ pc = "atCall" => pc' \in {"original", "args", "line"}
      /\ pc = "atArgs" => pc' = "args"
      /\ pc = "prompt" => pc' = "running"
      /\ pc \in {"atCall", "atArgs", "prompt"}
      /\ missed' \in {missed, FALSE} /\ (pc' = "original" => missed' = missed)
      /\ UNCHANGED <<ruleVars, breaks, stack, call, argsDone, ran, failures, kept, jumped>>
  BY DEF Resume, Proceed
<1>2. TypeOK'
  BY <1>1 DEF HotswapInv, TypeOK, ruleVars
<1>3. LaunchesInv'
  BY <1>1 DEF HotswapInv, LaunchesInv, Idle
<1>4. UnruledInv'
  BY <1>1 DEF HotswapInv, UnruledInv, Ruled, Top, ruleVars
<1> QED
  BY <1>2, <1>3, <1>4 DEF HotswapInv

LEMMA ResumeAtReturnStep ==
  ASSUME HotswapInv, ResumeAtReturn
  PROVE  HotswapInv'
<1>1. stack' \in Seq([file : Files, traced : BOOLEAN]) /\ stack' # <<>>
  BY PopStack DEF ResumeAtReturn, HotswapInv, TypeOK
<1>2. TypeOK'
  BY <1>1 DEF ResumeAtReturn, HotswapInv, TypeOK, ruleVars
<1>3. LaunchesInv'
  BY DEF ResumeAtReturn, LaunchesInv, Idle
<1>4. UnruledInv'
  BY DEF ResumeAtReturn, UnruledInv
<1> QED
  BY <1>2, <1>3, <1>4 DEF HotswapInv

LEMMA StepInv == HotswapInv /\ [Next]_vars => HotswapInv'
<1> SUFFICES ASSUME HotswapInv, [Next]_vars PROVE HotswapInv'
  OBVIOUS
<1>1. ASSUME NEW file \in Files, Enter(file) \/ SetBreak(file) PROVE HotswapInv'
  BY <1>1, FrameStep, SetBreakStep
<1>2. CASE Leave
  BY <1>2, FrameStep, MainAssumption
<1>3. ASSUME NEW c \in Calls, ReachByLine(c) \/ ReachByJump(c) PROVE HotswapInv'
  BY <1>3, ReachStep
<1>4. CASE LineEvent
  BY <1>4, LineEventStep
<1>5. CASE EvaluateArgs
  BY <1>5, EvaluateArgsStep
<1>6. CASE RunOriginal
  BY <1>6, RunOriginalStep
<1>7. CASE Stop
  BY <1>7, OtherStep DEF Stop, GoesOn, HotswapInv, TypeOK, Idle
<1>8. ASSUME NEW source \in Kernels, NEW target \in Kernels,
             HotswapEverywhere(source, target) \/ \E location \in Locations : HotswapAt(source, target, location)
      PROVE  HotswapInv'
  BY <1>8, HotswapEverywhereStep, HotswapAtStep
<1>9. CASE Resume
  BY <1>9, ResumeStep
<1>10. CASE UNCHANGED vars
  BY <1>10 DEF vars, ruleVars, callVars, HotswapInv, TypeOK, LaunchesInv, UnruledInv, Ruled, Top
<1>11. CASE ResumeAtReturn
  BY <1>11, ResumeAtReturnStep
<1> QED
  BY <1>1, <1>2, <1>3, <1>4, <1>5, <1>6, <1>7, <1>8, <1>9, <1>10, <1>11 DEF Next
-----------------------------------------------------------------------------
\* The inductive invariant of the rules and the calls of the traced program
\* (dispatch_line, user_line and do_hotswap).
THEOREM HotswapInvariant == Spec => []HotswapInv
<1> QED
  BY InitInv, StepInv, PTL DEF Spec

\* Type correctness: what is launched is a kernel, of any rules.
THEOREM TypeCorrect == Spec => []TypeOK
<1>1. HotswapInv => TypeOK
  BY DEF HotswapInv
<1> QED
  BY <1>1, HotswapInvariant, PTL

\* A call that is over has launched one kernel, one more for each swap that raised nothing
\* and left the call in place, which only a call that no jump can skip or a rule given at
\* its return brings about, and at most one more for each swap that raised.
THEOREM OneLaunch == Spec => []OneLaunchPerCall
<1>1. HotswapInv => OneLaunchPerCall
  BY DEF HotswapInv, LaunchesInv, OneLaunchPerCall, Idle
<1> QED
  BY <1>1, HotswapInvariant, PTL

\* In a traced frame the original runs only where no rule replaces it, a swap raised or
\* could not skip the call, or a swap had jumped to it.
THEOREM RulesAreObeyed == Spec => TracedCallsSwapped
<1>1. ASSUME HotswapInv, [Next]_vars
      PROVE  [pc = "original" /\ pc' # "original" /\ Top.traced =>
                \/ failures > 0
                \/ kept > 0 /\ ~call.skippable
                \/ missed
                \/ /\ swaps[call.kernel] = None
                   /\ swapsLoc[<<call.file, call.first>>][call.kernel] = None]_vars
  <2>1. pc = "original" /\ Top.traced /\ failures = 0 /\ kept = 0 /\ ~missed => ~Ruled(call, swaps, swapsLoc)
    BY <1>1 DEF HotswapInv, UnruledInv
  <2>2. failures \in Nat /\ kept \in Nat
    BY <1>1, BoundsAssumption DEF HotswapInv, TypeOK
  <2>3. pc = "original" /\ kept > 0 => ~call.skippable
    BY <1>1, CallsAssumption DEF HotswapInv, LaunchesInv, TypeOK
  <2> QED
    BY <2>1, <2>2, <2>3 DEF Ruled
<1> QED
  BY <1>1, HotswapInvariant, PTL DEF Spec, TracedCallsSwapped
=============================================================================
