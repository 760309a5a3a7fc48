---------------------------- MODULE MCIpcHandles ----------------------------
(***************************************************************************)
(* A parameter x given the caller's y, two calls on one line with the      *)
(* names exchanged, and a parameter z given an expression.                 *)
(***************************************************************************)
EXTENDS IpcHandles, TLC

CONSTANTS x, y, z, a1, a2

MCNames == {x, y, z}
MCArrays == {a1, a2}

Args(forX, forY, forZ) == (x :> forX @@ y :> forY @@ z :> forZ)
MCCalls ==
  {[place |-> 1, args |-> Args(y, NoArray, NoArray)],
   [place |-> 2, args |-> Args(NoArray, x, y)],
   [place |-> 3, args |-> Args(y, NoArray, x)],
   [place |-> 4, args |-> Args(y, NoArray, Expr)]}
MCLine == [c \in MCCalls |-> IF c.place = 3 THEN 2 ELSE c.place]

MCSymmetry == Permutations(MCArrays)
=============================================================================
