--------------------------- MODULE ControlChannel ---------------------------
(***************************************************************************)
(* The channel between the debuggee, which is also the process that pushes *)
(* control messages (PyKokkosDebugger calls push_* from its own main       *)
(* thread), and one attach helper that drives gdb on that debuggee.        *)
(*                                                                         *)
(*   debuggee                              helper                          *)
(*   --------                              ------                          *)
(*   shm "pkdb-bpupdate-<pid>-<seq>"  ---> read and unlinked by name       *)
(*   SIGUSR1                          ---> _bp_update_pending, exception   *)
(*   blocking read of one byte        <--- one byte per applied message    *)
(*                                                                         *)
(* One helper incarnation is modelled, from the ready file to its end.     *)
(* Every step is one Python-level effect visible to the other process.     *)
(***************************************************************************)
EXTENDS Naturals, Sequences

CONSTANTS
  Messages,  \* the control messages
  Oversize,  \* those whose segment exceeds _BP_UPDATE_MAX_BYTES
  MaxPush    \* bound on the number of pushes of one behaviour

ASSUME MessagesAssumption == Messages # {}
ASSUME OversizeAssumption == Oversize \subseteq Messages
ASSUME MaxPushAssumption == MaxPush \in Nat \ {0}

VARIABLES
  pusher,        \* where the debuggee is in _push_control_message
  updateSeq,     \* NativeDebuggerSession.update_seq
  segment,       \* the shared memory segment of each sequence number
  acks,          \* bytes in the ack pipe
  target,        \* whether gdb holds the debuggee stopped
  stopNote,      \* a *stopped record waits unread in gdb's output
  helper,        \* where the helper is
  sigusr1,       \* SIGUSR1 sent and not yet delivered to the Python handler
  updatePending, \* GDBController._bp_update_pending
  nextSeq,       \* GDBController._next_bp_update_seq
  pushed,        \* history: the messages pushed, in order
  applied,       \* history: the messages the helper applied, in order
  dropped        \* history: how a segment was consumed and not applied

pusherVars == <<pusher, updateSeq, pushed>>
gdbVars == <<target, stopNote>>
workVars == <<updatePending, nextSeq, applied, dropped>>
vars == <<pusherVars, segment, acks, gdbVars, sigusr1, helper, workVars>>

Seqs == 1 .. MaxPush + 1

PusherPoints == {"idle", "create", "size", "fill", "signal", "wait"}

HelperPoints ==
  {"starting", "top", "clear", "mask", "read", "apply", "ack", "unmask",
   "readline", "parse", "parseStop", "command", "resuming", "stopping", "dead"}

SegmentStates == {"absent", "unsized", "zeroed", "full"}

Init ==
  /\ pusher = "idle"
  /\ updateSeq = 0
  /\ pushed = <<>>
  /\ segment = [s \in Seqs |-> "absent"]
  /\ acks = 0
  /\ target = "running"
  /\ stopNote = FALSE
  /\ sigusr1 = FALSE
  /\ helper = "starting"
  /\ updatePending = FALSE
  /\ nextSeq = 1
  /\ applied = <<>>
  /\ dropped = "none"

Alive == helper # "dead"

-----------------------------------------------------------------------------
(* The debuggee.  It runs only while gdb lets it.                          *)

PusherGoes(from, to) ==
  /\ pusher = from
  /\ target = "running"
  /\ pusher' = to
  /\ UNCHANGED <<gdbVars, helper, workVars>>

\* session.alive() was true, update_seq is incremented, push_* is called.
Push(m) ==
  /\ PusherGoes("idle", "create")
  /\ Alive
  /\ updateSeq < MaxPush
  /\ updateSeq' = updateSeq + 1
  /\ pushed' = Append(pushed, m)
  /\ UNCHANGED <<segment, acks, sigusr1>>

\* SharedMemory(create=True): shm_open, then ftruncate, then the copy of blob.
CreateSegment ==
  /\ PusherGoes("create", "size")
  /\ segment' = [segment EXCEPT ![updateSeq] = "unsized"]
  /\ UNCHANGED <<updateSeq, pushed, acks, sigusr1>>

SizeSegment ==
  /\ PusherGoes("size", "fill")
  /\ segment' = [segment EXCEPT ![updateSeq] = "zeroed"]
  /\ UNCHANGED <<updateSeq, pushed, acks, sigusr1>>

\* Filling a segment the reader has unlinked meanwhile reaches nobody.
FillSegment ==
  /\ PusherGoes("fill", "signal")
  /\ segment' = [segment EXCEPT ![updateSeq] = IF @ = "absent" THEN @ ELSE "full"]
  /\ UNCHANGED <<updateSeq, pushed, acks, sigusr1>>

\* Mutant of SendSignal: the pusher does not wait for the ack.
SendSignalNoWait ==
  /\ PusherGoes("signal", "idle")
  /\ sigusr1' = Alive
  /\ UNCHANGED <<updateSeq, pushed, segment, acks>>

\* os.kill; SIGUSR1 is not queued, and a dead unreaped helper takes it silently.
SendSignal ==
  /\ PusherGoes("signal", "wait")
  /\ sigusr1' = Alive
  /\ UNCHANGED <<updateSeq, pushed, segment, acks>>

\* os.read(ack_fd, 1) returns a byte.
ReadAck ==
  /\ PusherGoes("wait", "idle")
  /\ acks > 0
  /\ acks' = acks - 1
  /\ UNCHANGED <<updateSeq, pushed, segment, sigusr1>>

\* os.read(ack_fd, 1) returns b"": the only write end died with the helper.
ReadEOF ==
  /\ PusherGoes("wait", "idle")
  /\ acks = 0
  /\ ~Alive
  /\ UNCHANGED <<updateSeq, pushed, segment, acks, sigusr1>>

PusherStep ==
  \/ CreateSegment
  \/ SizeSegment
  \/ FillSegment
  \/ SendSignal
  \/ ReadAck
  \/ ReadEOF

-----------------------------------------------------------------------------
(* The helper: _transparent_loop and, at its top,                          *)
(* _drain_pending_breakpoint_updates.                                      *)

HelperGoes(from, to) ==
  /\ helper = from
  /\ helper' = to
  /\ UNCHANGED <<pusherVars, target>>

\* A step of control alone.
Goto(from, to) ==
  /\ HelperGoes(from, to)
  /\ UNCHANGED <<segment, acks, stopNote, sigusr1, workVars>>

\* ^running for the first exec-continue arrived: start_attached enters the loop.
EnterLoop == Goto("starting", "top")

TestPending == Goto("top", IF updatePending THEN "clear" ELSE "readline")

ClearPending ==
  /\ HelperGoes("clear", "mask")
  /\ updatePending' = FALSE
  /\ UNCHANGED <<segment, acks, stopNote, sigusr1, nextSeq, applied, dropped>>

MaskSignal == Goto("mask", "read")

\* Mutant of ReadMessage: the message is acknowledged before it is applied.
ReadMessageAckFirst ==
  /\ segment[nextSeq] = "full"
  /\ pushed[nextSeq] \notin Oversize
  /\ HelperGoes("read", "apply")
  /\ segment' = [segment EXCEPT ![nextSeq] = "absent"]
  /\ acks' = 1
  /\ UNCHANGED <<stopNote, sigusr1, workVars>>

\* A complete segment of at most _BP_UPDATE_MAX_BYTES: unlinked and decoded.
ReadMessage ==
  /\ HelperGoes("read", "apply")
  /\ segment[nextSeq] = "full"
  /\ pushed[nextSeq] \notin Oversize
  /\ segment' = [segment EXCEPT ![nextSeq] = "absent"]
  /\ UNCHANGED <<acks, stopNote, sigusr1, workVars>>

Undecodable(how) ==
  \/ how = "oversize" /\ segment[nextSeq] = "full" /\ pushed[nextSeq] \in Oversize
  \/ how = "torn" /\ segment[nextSeq] = "zeroed"

\* Mutant of DropMessage: an undecodable message is skipped and acknowledged.
DropMessageAcked ==
  /\ HelperGoes("read", "read")
  /\ \E how \in {"torn", "oversize"} : Undecodable(how) /\ dropped' = how
  /\ segment' = [segment EXCEPT ![nextSeq] = "absent"]
  /\ nextSeq' = nextSeq + 1
  /\ acks' = acks + 1
  /\ UNCHANGED <<stopNote, sigusr1, updatePending, applied>>

\* Unlinked although it cannot be decoded: it is too long, or still zeroes.
DropMessage ==
  /\ HelperGoes("read", "unmask")
  /\ \E how \in {"torn", "oversize"} : Undecodable(how) /\ dropped' = how
  /\ segment' = [segment EXCEPT ![nextSeq] = "absent"]
  /\ UNCHANGED <<acks, stopNote, sigusr1, updatePending, nextSeq, applied>>

\* FileNotFoundError ends the drain; mapping an empty file raises and leaves it.
NoMessage ==
  /\ segment[nextSeq] \in {"absent", "unsized"}
  /\ Goto("read", "unmask")

\* The MI commands it sends swallow a *stopped record that precedes their result.
ApplyMessage ==
  /\ HelperGoes("apply", "ack")
  /\ applied' = Append(applied, pushed[nextSeq])
  /\ stopNote' \in {stopNote, FALSE}
  /\ UNCHANGED <<segment, acks, sigusr1, updatePending, nextSeq, dropped>>

\* Mutant of AckMessage: the sequence number is not advanced.
AckMessageNoAdvance ==
  /\ HelperGoes("ack", "read")
  /\ acks' = acks + 1
  /\ UNCHANGED <<segment, stopNote, sigusr1, workVars>>

\* Mutant of AckMessage: no byte is written.
AckMessageSilent ==
  /\ HelperGoes("ack", "read")
  /\ nextSeq' = nextSeq + 1
  /\ UNCHANGED <<segment, acks, stopNote, sigusr1, updatePending, applied, dropped>>

\* The next sequence number is expected before the byte that lets it be pushed.
AckMessage ==
  /\ HelperGoes("ack", "read")
  /\ nextSeq' = nextSeq + 1
  /\ acks' = acks + 1
  /\ UNCHANGED <<segment, stopNote, sigusr1, updatePending, applied, dropped>>

\* Mutant of UnmaskSignal: the flag is cleared after the drain, not before it.
UnmaskSignalForgets ==
  /\ HelperGoes("unmask", IF sigusr1 THEN "top" ELSE "readline")
  /\ updatePending' = FALSE
  /\ sigusr1' = FALSE
  /\ UNCHANGED <<segment, acks, stopNote, nextSeq, applied, dropped>>

\* SIG_UNBLOCK runs the handler at once when a SIGUSR1 came during the drain.
UnmaskSignal ==
  /\ HelperGoes("unmask", IF sigusr1 THEN "top" ELSE "readline")
  /\ updatePending' = (updatePending \/ sigusr1)
  /\ sigusr1' = FALSE
  /\ UNCHANGED <<segment, acks, stopNote, nextSeq, applied, dropped>>

\* One line of gdb's output, a *stopped record or another one.
ReadLine ==
  \/ Goto("readline", "parse")
  \/ /\ stopNote
     /\ HelperGoes("readline", "parseStop")
     /\ stopNote' = FALSE
     /\ UNCHANGED <<segment, acks, sigusr1, workVars>>

HandleLine == Goto("parse", "top") \/ Goto("parseStop", "command")

\* ^running for the continue command: StopIteration leaves command mode.
LeaveCommandMode == Goto("resuming", "top")

\* The end of the helper for any reason; gdb then detaches and exits.
HelperEnds ==
  /\ helper' = "dead"
  /\ target' = "running"
  /\ stopNote' = FALSE
  /\ UNCHANGED <<pusherVars, segment, acks, sigusr1, workVars>>

\* stop(): detach, quit gdb, exit.
Stop == helper = "stopping" /\ HelperEnds

HelperStep ==
  \/ EnterLoop
  \/ TestPending
  \/ ClearPending
  \/ MaskSignal
  \/ ReadMessage
  \/ DropMessage
  \/ NoMessage
  \/ ApplyMessage
  \/ AckMessage
  \/ UnmaskSignal
  \/ HandleLine
  \/ LeaveCommandMode
  \/ Stop

-----------------------------------------------------------------------------
(* _on_breakpoint_update_signal: where the exception it raises surfaces.   *)

\* The handlers between the interrupted code and the top of the loop decide.
AfterException(point) ==
  CASE point \in {"top", "clear", "mask", "readline"} -> {"top"}
    [] point \in {"parse", "parseStop"} -> {"top", "stopping"}
    [] point \in {"command", "resuming"} -> {"top", "command"}
    [] point = "starting" -> {"top", "dead"}
    [] point = "stopping" -> {"stopping"}

Masked == helper \in {"read", "apply", "ack", "unmask"}

Interrupt ==
  /\ sigusr1
  /\ Alive
  /\ ~Masked
  /\ sigusr1' = FALSE
  /\ updatePending' = TRUE
  /\ helper' \in AfterException(helper)
  /\ IF helper' = "dead"
       THEN target' = "running" /\ stopNote' = FALSE
       ELSE UNCHANGED gdbVars
  /\ UNCHANGED <<pusherVars, segment, acks, nextSeq, applied, dropped>>

-----------------------------------------------------------------------------
(* gdb, the user at the helper's prompt, and failures.                     *)

\* A breakpoint of another thread or a signal such as Ctrl-C stops the debuggee.
TargetStops ==
  /\ target = "running"
  /\ helper \notin {"stopping", "dead"}
  /\ target' = "stopped"
  /\ stopNote' = TRUE
  /\ UNCHANGED <<pusherVars, segment, acks, sigusr1, helper, workVars>>

\* gdb closed its output: gdb died or the debuggee is gone.
EndOfGdb ==
  /\ helper = "readline"
  /\ helper' = "stopping"
  /\ target' = "running"
  /\ stopNote' = FALSE
  /\ UNCHANGED <<pusherVars, segment, acks, sigusr1, workVars>>

\* The continue command sends exec-continue and reads its result.
Continue ==
  /\ helper = "command"
  /\ helper' = "resuming"
  /\ target' = "running"
  /\ UNCHANGED <<pusherVars, segment, acks, stopNote, sigusr1, workVars>>

\* Ctrl-D leaves command mode without resuming the debuggee.
EndOfInput == Goto("command", "top")

Quit == Goto("command", "stopping")

\* Killed, or an exception or sys.exit nothing in the loop catches.
Crash == Alive /\ HelperEnds

Environment ==
  \/ \E m \in Messages : Push(m)
  \/ ReadLine
  \/ TargetStops
  \/ EndOfGdb
  \/ Continue
  \/ EndOfInput
  \/ Quit
  \/ Crash

Next == PusherStep \/ HelperStep \/ Interrupt \/ Environment

Spec == Init /\ [][Next]_vars

\* The debuggee and the helper keep running and Linux delivers signals; nothing
\* is assumed of the program's next launch, of gdb's output, or of the user.
Fairness ==
  /\ WF_vars(PusherStep)
  /\ WF_vars(HelperStep)
  /\ WF_vars(Interrupt)

FairSpec == Spec /\ Fairness

-----------------------------------------------------------------------------
(* Properties *)

TypeOK ==
  /\ pusher \in PusherPoints
  /\ updateSeq \in 0 .. MaxPush
  /\ segment \in [Seqs -> SegmentStates]
  /\ acks \in {0, 1}
  /\ target \in {"running", "stopped"}
  /\ stopNote \in BOOLEAN
  /\ helper \in HelperPoints
  /\ sigusr1 \in BOOLEAN
  /\ updatePending \in BOOLEAN
  /\ nextSeq \in Seqs
  /\ pushed \in Seq(Messages)
  /\ applied \in Seq(Messages)
  /\ dropped \in {"none", "torn", "oversize"}

\* The helper applies the messages in the order they were pushed, each at most
\* once and none skipped, whatever wake-ups are merged, repeated or spurious.
AppliedInOrder ==
  /\ Len(applied) <= Len(pushed)
  /\ \A i \in 1 .. Len(applied) : applied[i] = pushed[i]

\* A byte in the ack pipe stands for the message being pushed, already applied:
\* the debuggee never takes an old message's byte for a new one.
AckMeansApplied ==
  acks = 1 => /\ pusher \in {"signal", "wait"}
              /\ Len(applied) = updateSeq

\* Between two pushes to a live helper both ends agree on the next segment name
\* and no segment is left behind.
SequenceAgreement ==
  pusher = "idle" /\ Alive =>
    /\ nextSeq = updateSeq + 1
    /\ \A s \in Seqs : segment[s] = "absent"

\* A complete segment whose pusher waits is never forgotten by a live helper: a
\* signal, the flag or the drain in progress still leads to it.
NoLostWakeup ==
  pusher = "wait" /\ segment[updateSeq] = "full" /\ Alive =>
    \/ sigusr1
    \/ updatePending
    \/ helper \in {"mask", "read"}

\* _push_control_message returns, with the helper still there, only after the
\* message was applied (gdb_controller.py:141-146).
ReturnMeansApplied ==
  [][pusher = "wait" /\ pusher' = "idle" /\ Alive => Len(applied) = updateSeq]_vars

\* A blocked debuggee is released unless its segment was dropped, or gdb or the
\* user at the prompt holds the debuggee: there is no other way to hang.
PushReturns ==
  pusher = "wait" ~>
    \/ pusher = "idle"
    \/ dropped # "none"
    \/ target = "stopped"
    \/ helper = "command"

\* A pushed message is answered as long as the debuggee is free to run:
\* "Send a control message to an attached helper, then block until it acks".
EveryPushIsAnswered ==
  pusher = "wait" ~>
    \/ pusher = "idle"
    \/ target = "stopped"
    \/ helper = "command"

-----------------------------------------------------------------------------
(* The inductive invariant behind the safety properties.                   *)

\* The histories agree with the two counters, also when the helper died between
\* applying a message and counting it.
HistoryInv ==
  /\ Len(pushed) = updateSeq
  /\ AppliedInOrder
  /\ Len(applied) \in {nextSeq - 1, nextSeq}
  /\ helper = "ack" => Len(applied) = nextSeq
  /\ Alive /\ helper # "ack" => Len(applied) = nextSeq - 1

\* Only the segment under push exists, in the state its pusher has brought it to.
SegmentInv ==
  /\ \A s \in Seqs : s # updateSeq => segment[s] = "absent"
  /\ pusher = "idle" /\ Alive /\ updateSeq > 0 => segment[updateSeq] = "absent"
  /\ pusher # "idle" => updateSeq > 0
  /\ pusher = "create" => segment[updateSeq] = "absent"
  /\ pusher = "size" => segment[updateSeq] = "unsized"
  /\ pusher = "fill" => segment[updateSeq] \in {"zeroed", "absent"}
  /\ pusher \in {"signal", "wait"} => segment[updateSeq] \in {"full", "absent"}

\* The helper is at the message under push, or one past it with its ack sent.
PhaseInv ==
  /\ pusher = "idle" => acks = 0 /\ nextSeq \in {updateSeq, updateSeq + 1}
  /\ pusher = "idle" /\ Alive => nextSeq = updateSeq + 1
  /\ pusher \in {"create", "size", "fill"} => acks = 0 /\ nextSeq = updateSeq
  /\ pusher \in {"signal", "wait"} =>
       \/ acks = 0 /\ nextSeq = updateSeq
       \/ acks = 1 /\ nextSeq = updateSeq + 1 /\ segment[updateSeq] = "absent"
  /\ helper \in {"apply", "ack"} =>
       /\ pusher \in {"signal", "wait"}
       /\ acks = 0
       /\ nextSeq = updateSeq
       /\ segment[updateSeq] = "absent"

ChannelInv ==
  /\ TypeOK
  /\ HistoryInv
  /\ SegmentInv
  /\ PhaseInv
  /\ NoLostWakeup

-----------------------------------------------------------------------------
\* The channel implements the call that ControlService promises.
Service == INSTANCE ControlService WITH
  call <- IF pusher = "idle" THEN "none"
          ELSE IF Len(applied) = updateSeq THEN "served" ELSE "open",
  request <- IF pushed = <<>> THEN CHOOSE m \in Messages : TRUE ELSE pushed[Len(pushed)],
  served <- applied,
  up <- Alive

ServiceSpec == Service!Spec
=============================================================================
