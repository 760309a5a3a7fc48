---------------------------- MODULE KernelHotswap ----------------------------
(***************************************************************************)
(* The hotswap command of the pdb side: the rules, the line events of the  *)
(* traced program, and what is executed at each parallel_* call.           *)
(*                                                                         *)
(* The program is any: it enters and leaves functions of any file and      *)
(* reaches any call of the file it is in.  A call is its file, its first   *)
(* and last line, the kernel it names, and whether a jump can skip it: not *)
(* when no line of bytecode follows it in its function, nor when Python    *)
(* refuses the jump to the one that does, as to an except clause.  For a   *)
(* call of several lines Python reports its first line twice: before the   *)
(* arguments, and again for the call itself.                               *)
(***************************************************************************)
EXTENDS Naturals, Sequences, FiniteSetsExt

CONSTANTS
  Files,
  Main,        \* the script: it always has an entry in Bdb.breaks
  Lines,       \* line numbers
  Kernels,     \* workunit names
  None,        \* no rule
  Calls,       \* the parallel_* calls of the program
  MaxDepth,    \* bound on the stack
  MaxFailures, \* bound on the failures of one call's swaps
  MaxKept      \* bound on the rules given at a call that each run its target again

ASSUME MainAssumption == Main \in Files
ASSUME LinesAssumption == Lines \subseteq Nat
ASSUME NoneAssumption == None \notin Kernels /\ None \notin Calls
ASSUME CallsAssumption ==
  /\ Calls \subseteq [file : Files, first : Lines, last : Lines, kernel : Kernels, skippable : BOOLEAN]
  /\ \A c \in Calls : c.first <= c.last
ASSUME BoundsAssumption == MaxDepth \in Nat \ {0} /\ MaxFailures \in Nat /\ MaxKept \in Nat

Rules == [Kernels -> Kernels \cup {None}]
Locations == Files \X Lines

VARIABLES
  swaps,     \* _kernel_swaps
  swapsLoc,  \* _kernel_swaps_loc
  breaks,    \* the files with breakpoints
  stack,     \* the frames: file, and whether they have a trace function
  pc,        \* "running", "line" (event), "args", "original", or a prompt
  call,      \* the call reached last, or None
  argsDone,  \* its arguments, on lines of their own, have been evaluated
  ran,       \* the kernels executed for it
  failures,  \* how many swaps of it raised
  kept,      \* how many swaps raised nothing and did not skip it
  missed,    \* it was jumped to, and no line event of it has been seen
  jumped     \* the program is where a swap has jumped to

ruleVars == <<swaps, swapsLoc>>
callVars == <<call, argsDone, ran, failures, kept, missed, jumped>>
vars == <<ruleVars, breaks, stack, pc, callVars>>

NoRules == [k \in Kernels |-> None]

Init ==
  /\ swaps = NoRules
  /\ swapsLoc = [l \in Locations |-> NoRules]
  /\ breaks = {Main}
  /\ stack = <<[file |-> Main, traced |-> TRUE]>>
  /\ pc = "prompt"
  /\ call = None
  /\ argsDone = TRUE
  /\ ran = <<>>
  /\ failures = 0
  /\ kept = 0
  /\ missed = FALSE
  /\ jumped = FALSE

Top == stack[Len(stack)]

\* _effective_kernel_swaps_for_range, for the kernel of call c: the last line wins.
Target(c, global, local) ==
  LET ruled == {n \in Lines \cap (c.first .. c.last) : local[<<c.file, n>>][c.kernel] # None}
  IN IF ruled = {} THEN global[c.kernel] ELSE local[<<c.file, Max(ruled)>>][c.kernel]

\* With location rules only, there must be one at the first line of the call.
Considered(c, global, local) ==
  global # NoRules \/ local[<<c.file, c.first>>] # NoRules

Applies(c, global, local) ==
  Considered(c, global, local) /\ Target(c, global, local) # None

\* exec of the block with the target in place of the source.
Execute(c, global, local) ==
  /\ Applies(c, global, local)
  /\ ran' = Append(ran, Target(c, global, local))
  /\ UNCHANGED <<call, argsDone, failures, missed>>

\* _set_frame_lineno_after_parallel: a jump to the next line of bytecode ...
SwapSkips(c, global, local, then) ==
  /\ Execute(c, global, local)
  /\ c.skippable /\ pc # "atReturn"
  /\ pc' = then
  /\ jumped' = TRUE
  /\ UNCHANGED kept

\* ... or none, and nothing is said of it: the call is still to be made, or made already.
SwapKeeps(c, global, local, then) ==
  /\ Execute(c, global, local)
  /\ ~c.skippable \/ pc = "atReturn"
  /\ pc' = then
  /\ kept' = kept + 1
  /\ UNCHANGED jumped

\* It raises, before or after the target has run.
SwapFails(c, global, local, then) ==
  /\ Applies(c, global, local)
  /\ failures < MaxFailures
  /\ failures' = failures + 1
  /\ ran' \in {ran, Append(ran, Target(c, global, local))}
  /\ pc' = then
  /\ UNCHANGED <<call, argsDone, kept, missed, jumped>>

-----------------------------------------------------------------------------
(* The program under trace.                                                *)

\* break_anywhere: breakpoints in the file, or any rule at all; the user's
\* stepping traces every frame.
Traced(file) ==
  \/ file \in breaks
  \/ swaps # NoRules
  \/ \E l \in Locations : swapsLoc[l] # NoRules

\* The program goes on: a line that was jumped to is behind it.
GoesOn == jumped' = FALSE /\ UNCHANGED <<call, argsDone, ran, failures, kept, missed>>

Enter(file) ==
  /\ pc = "running"
  /\ Len(stack) < MaxDepth
  /\ \E traced \in {Traced(file), TRUE} :
       stack' = Append(stack, [file |-> file, traced |-> traced])
  /\ GoesOn
  /\ UNCHANGED <<ruleVars, breaks, pc>>

Leave ==
  /\ pc = "running"
  /\ Len(stack) > 1
  /\ stack' = SubSeq(stack, 1, Len(stack) - 1)
  /\ GoesOn
  /\ UNCHANGED <<ruleVars, breaks, pc>>

\* The call c is the next to be made.
Reach(c) ==
  /\ c.file = Top.file
  /\ call' = c
  /\ argsDone' = (c.first = c.last)
  /\ ran' = <<>>
  /\ failures' = 0
  /\ kept' = 0
  /\ jumped' = FALSE
  /\ UNCHANGED <<ruleVars, breaks, stack>>

\* What follows a line event of the call, or a stop at it, without a swap.
Proceed == IF argsDone THEN "original" ELSE "args"

\* The program comes to a call; there is a line event only in a traced frame.
ReachByLine(c) ==
  /\ pc = "running"
  /\ Reach(c)
  /\ pc' = IF Top.traced THEN "line" ELSE "original"
  /\ missed' = FALSE

\* The call is where a swap of the line before has jumped to: CPython up to 3.11 reports no
\* line event for it.  The jump was made at a line event, or at the prompt, now at this call.
ReachByJump(c) ==
  /\ pc \in {"running", "prompt"}
  /\ jumped
  /\ Reach(c)
  /\ pc' = IF pc = "running" THEN Proceed' ELSE "atCall"
  /\ missed' = TRUE

\* Mutant of LineEvent: after a swap the call is not skipped.
LineEventNoSkip ==
  /\ pc = "line"
  /\ \/ SwapSkips(call, swaps, swapsLoc, Proceed)
     \/ SwapKeeps(call, swaps, swapsLoc, Proceed)
     \/ SwapFails(call, swaps, swapsLoc, Proceed)
     \/ /\ ~Applies(call, swaps, swapsLoc)
        /\ pc' \in {Proceed, "atCall"}
        /\ UNCHANGED callVars
  /\ UNCHANGED <<ruleVars, breaks, stack>>

\* dispatch_line and user_line: swap, else stop if the debugger is to stop here.
LineEvent ==
  /\ pc = "line"
  /\ \/ SwapSkips(call, swaps, swapsLoc, "running")
     \/ SwapKeeps(call, swaps, swapsLoc, Proceed)
     \/ \E then \in {Proceed, "atCall"} :
          \/ SwapFails(call, swaps, swapsLoc, then)
          \/ /\ ~Applies(call, swaps, swapsLoc)
             /\ pc' = then
             /\ UNCHANGED callVars
  /\ UNCHANGED <<ruleVars, breaks, stack>>

\* The other lines of the call: the debugger may stop at one, and swaps at none.
EvaluateArgs ==
  /\ pc = "args"
  /\ \/ pc' = "atArgs" /\ UNCHANGED <<argsDone, missed>>
     \/ pc' = "line" /\ argsDone' = TRUE /\ missed' = FALSE
  /\ UNCHANGED <<ruleVars, breaks, stack, call, ran, failures, kept, jumped>>

\* If the function ends with the call, the debugger may stop at its return, on that line.
RunOriginal ==
  /\ pc = "original"
  /\ ran' = Append(ran, call.kernel)
  /\ \/ pc' = "running"
     \/ pc' = "atReturn" /\ Top.traced /\ Len(stack) > 1
  /\ UNCHANGED <<ruleVars, breaks, stack, call, argsDone, failures, kept, missed, jumped>>

-----------------------------------------------------------------------------
(* The user at the prompt: at a call, among its arguments, at the return   *)
(* of a function that a call ends, or elsewhere.                           *)

Stop ==
  /\ pc = "running"
  /\ Top.traced
  /\ pc' = "prompt"
  /\ GoesOn
  /\ UNCHANGED <<ruleVars, breaks, stack>>

\* Mutant of ApplyNow: the rule waits for the next line event.
ApplyLater(global, local) == UNCHANGED <<pc, callVars>>

\* do_hotswap tries the rules at the line it is stopped at.
ApplyNow(global, local) ==
  IF pc \in {"atCall", "atReturn"} /\ Applies(call, global, local)
    THEN \/ SwapSkips(call, global, local, "prompt")
         \/ kept < MaxKept /\ SwapKeeps(call, global, local, pc)
         \/ SwapFails(call, global, local, pc)
    ELSE UNCHANGED <<pc, callVars>>

AtPrompt == pc \in {"atCall", "atArgs", "atReturn", "prompt"}

HotswapEverywhere(source, target) ==
  /\ AtPrompt
  /\ swaps' = [swaps EXCEPT ![source] = target]
  /\ ApplyNow(swaps', swapsLoc)
  /\ UNCHANGED <<swapsLoc, breaks, stack>>

HotswapAt(source, target, location) ==
  /\ AtPrompt
  /\ swapsLoc' = [swapsLoc EXCEPT ![location][source] = target]
  /\ ApplyNow(swaps, swapsLoc')
  /\ UNCHANGED <<swaps, breaks, stack>>

SetBreak(file) ==
  /\ AtPrompt
  /\ breaks' = breaks \cup {file}
  /\ UNCHANGED <<ruleVars, stack, pc, callVars>>

\* At a call that was jumped to, CPython from 3.12 on then reports its line after all.
Resume ==
  /\ \/ pc = "atCall" /\ pc' = Proceed /\ UNCHANGED missed
     \/ pc = "atCall" /\ missed /\ pc' = "line" /\ missed' = FALSE
     \/ pc = "atArgs" /\ pc' = "args" /\ UNCHANGED missed
     \/ pc = "prompt" /\ pc' = "running" /\ UNCHANGED missed
  /\ UNCHANGED <<ruleVars, breaks, stack, call, argsDone, ran, failures, kept, jumped>>

ResumeAtReturn ==
  /\ pc = "atReturn"
  /\ pc' = "running"
  /\ stack' = SubSeq(stack, 1, Len(stack) - 1)
  /\ call' = None
  /\ UNCHANGED <<ruleVars, breaks, argsDone, ran, failures, kept, missed, jumped>>

Next ==
  \/ \E file \in Files : Enter(file) \/ SetBreak(file)
  \/ Leave
  \/ \E c \in Calls : ReachByLine(c) \/ ReachByJump(c)
  \/ LineEvent
  \/ EvaluateArgs
  \/ RunOriginal
  \/ Stop
  \/ \E source, target \in Kernels : source # target /\
       (HotswapEverywhere(source, target)
        \/ \E location \in Locations : HotswapAt(source, target, location))
  \/ Resume
  \/ ResumeAtReturn

Spec == Init /\ [][Next]_vars

-----------------------------------------------------------------------------
(* Properties *)

TypeOK ==
  /\ swaps \in Rules
  /\ swapsLoc \in [Locations -> Rules]
  /\ breaks \subseteq Files
  /\ stack \in Seq([file : Files, traced : BOOLEAN]) /\ stack # <<>>
  /\ pc \in {"running", "line", "args", "original", "atCall", "atArgs", "atReturn", "prompt"}
  /\ call \in Calls \cup {None}
  /\ call = None => pc \in {"running", "prompt"}
  /\ argsDone \in BOOLEAN
  /\ ran \in Seq(Kernels)
  /\ failures \in 0 .. MaxFailures
  /\ kept \in Nat
  /\ missed \in BOOLEAN /\ jumped \in BOOLEAN
  /\ pc = "atReturn" => Len(stack) > 1

\* A call that is over has launched one kernel, the original or a target, and at most one
\* for each swap of it that raised.  The target runs beside them only where the call cannot
\* be skipped, or for a rule given at the return of the function it ends.
OneLaunchPerCall ==
  pc \in {"running", "prompt", "atReturn"} /\ call # None =>
    /\ Len(ran) \in kept + 1 .. kept + 1 + failures
    /\ kept > 0 => ~call.skippable \/ pc = "atReturn"

\* In a frame that is traced the source is never launched once a rule replaces it everywhere
\* or at the first line of the call, not even by a rule given while stopped at the call or
\* among its arguments.  The exceptions: a swap raised; the target was launched and the call
\* cannot be skipped; a swap had jumped to the line of the call.
TracedCallsSwapped ==
  [][pc = "original" /\ pc' # "original" /\ Top.traced =>
       \/ failures > 0
       \/ kept > 0 /\ ~call.skippable
       \/ missed
       \/ /\ swaps[call.kernel] = None
          /\ swapsLoc[<<call.file, call.first>>][call.kernel] = None]_vars
=============================================================================
