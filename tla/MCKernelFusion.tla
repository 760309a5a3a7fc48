---------------------------- MODULE MCKernelFusion ----------------------------
(***************************************************************************)
(* Two arrays, a subview of the first, two threads.  The kernels write     *)
(* blind, update, copy at the same, at a shifted, at a mirrored and at a   *)
(* constant index, reduce over a range of their own, take the result, and  *)
(* store at the index another array holds (scatter: y[x[i]] = v).          *)
(***************************************************************************)
EXTENDS KernelFusion

CONSTANTS
  x, y, sub,
  zero, inc, bump, copy, mirror, first, scale, scatter, part, sum, fill

MCBase == [v \in {x, y, sub} |-> IF v = y THEN y ELSE x]

MCClass == [i |-> TID, next |-> TIDFunc, back |-> TIDFunc, held |-> TIDFunc, const |-> Constant]
MCTouches ==
  [i |-> [t \in {0, 1} |-> {t}], next |-> [t \in {0, 1} |-> {t + 1}],
   back |-> [t \in {0, 1} |-> {1 - t}], held |-> [t \in {0, 1} |-> {0, 1}], const |-> [t \in {0, 1} |-> {0}]]

Load(v, index) == [view |-> v, store |-> FALSE, index |-> index, recorded |-> {"Read"}]
Store(v, index) == [view |-> v, store |-> TRUE, index |-> index, recorded |-> {"Write"}]
IndexOfTarget(v, index) == [Load(v, index) EXCEPT !.recorded = {"Write"}]
ByScript(v, index) == [Store(v, index) EXCEPT !.recorded = {}]

MCAccesses ==
  (zero :> <<Store(x, "i")>>) @@
  (inc :> <<Store(x, "i"), Load(x, "i")>>) @@
  (bump :> <<Store(x, "next"), Load(x, "next")>>) @@
  (copy :> <<Store(y, "i"), Load(x, "i")>>) @@
  (mirror :> <<Store(y, "i"), Load(x, "back")>>) @@
  (first :> <<Store(y, "i"), Load(x, "const")>>) @@
  (scale :> <<Store(y, "i"), Load(y, "i")>>) @@
  (scatter :> <<IndexOfTarget(x, "i"), Store(y, "held")>>) @@
  (part :> <<Store(sub, "i"), Load(sub, "i")>>) @@
  (sum :> <<Load(x, "i")>>) @@
  (fill :> <<ByScript(x, "i")>>)

MCKind == [k \in Kernels |-> CASE k = sum -> "reduce" [] k = fill -> "fill" [] OTHER -> "for"]
MCPolicy == [k \in Kernels |-> IF k = sum THEN 1 ELSE 2]
=============================================================================
