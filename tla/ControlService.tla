--------------------------- MODULE ControlService ---------------------------
(***************************************************************************)
(* What pkdb promises for a control message ("install these breakpoints",  *)
(* "detach", "reattach") that the debuggee sends to an attach helper: a    *)
(* call that the helper serves at most once, in call order, and that       *)
(* returns to the debuggee either after it was served or because the       *)
(* helper is gone.  gdb_controller.py:141-146 states it as the contract of *)
(* _push_control_message.                                                  *)
(***************************************************************************)
EXTENDS Naturals, Sequences

CONSTANT Messages

VARIABLES
  call,    \* "none", "open" (issued, not served) or "served"
  request, \* the message of the latest call
  served,  \* the messages served so far, oldest first
  up       \* the helper exists

vars == <<call, request, served, up>>

Init ==
  /\ call = "none"
  /\ request \in Messages
  /\ served = <<>>
  /\ up = TRUE

Request(m) ==
  /\ call = "none"
  /\ up
  /\ call' = "open"
  /\ request' = m
  /\ UNCHANGED <<served, up>>

Serve ==
  /\ call = "open"
  /\ up
  /\ call' = "served"
  /\ served' = Append(served, request)
  /\ UNCHANGED <<request, up>>

Return ==
  /\ call = "served" \/ (call = "open" /\ ~up)
  /\ call' = "none"
  /\ UNCHANGED <<request, served, up>>

Crash ==
  /\ up' = FALSE
  /\ UNCHANGED <<call, request, served>>

Next ==
  \/ \E m \in Messages : Request(m)
  \/ Serve
  \/ Return
  \/ Crash

Spec == Init /\ [][Next]_vars
=============================================================================
