------------------------ MODULE ControlChannelProofs ------------------------
(***************************************************************************)
(* Proofs about ControlChannel, for every set of messages, every set of    *)
(* oversized ones and every number of pushes.                              *)
(***************************************************************************)
EXTENDS ControlChannel, TLAPS

LEMMA InitChannelInv == Init => ChannelInv
<1> SUFFICES ASSUME Init PROVE ChannelInv
  OBVIOUS
<1>1. TypeOK
  <2>1. 0 \in 0 .. MaxPush /\ 1 \in Seqs
    BY MaxPushAssumption DEF Seqs
  <2>2. segment \in [Seqs -> SegmentStates]
    BY DEF Init, SegmentStates
  <2>3. <<>> \in Seq(Messages)
    OBVIOUS
  <2> QED
    BY <2>1, <2>2, <2>3 DEF Init, TypeOK, PusherPoints, HelperPoints
<1>2. HistoryInv
  BY DEF Init, HistoryInv, AppliedInOrder, Alive
<1>3. SegmentInv
  BY DEF Init, SegmentInv, Alive
<1>4. PhaseInv
  BY DEF Init, PhaseInv, Alive
<1>5. NoLostWakeup
  BY DEF Init, NoLostWakeup
<1> QED
  BY <1>1, <1>2, <1>3, <1>4, <1>5 DEF ChannelInv

\* A push writes only the pusher's own counters and history.
LEMMA PushPreserves ==
  ASSUME ChannelInv, NEW m \in Messages, Push(m)
  PROVE  ChannelInv'
<1> USE DEF Push, PusherGoes, HelperGoes, Goto, pusherVars, gdbVars, workVars
<1>1. /\ Len(pushed') = updateSeq + 1
      /\ pushed' \in Seq(Messages)
      /\ \A i \in 1 .. Len(pushed) : pushed'[i] = pushed[i]
  BY DEF ChannelInv, TypeOK, HistoryInv
<1>2. TypeOK'
  BY <1>1, MaxPushAssumption DEF ChannelInv, TypeOK, PusherPoints, Seqs
<1>3. HistoryInv'
  BY <1>1, MaxPushAssumption DEF ChannelInv, TypeOK, HistoryInv, AppliedInOrder, Alive, Seqs
<1>4. SegmentInv'
  BY MaxPushAssumption DEF ChannelInv, TypeOK, SegmentInv, Alive, Seqs
<1>5. PhaseInv'
  BY MaxPushAssumption DEF ChannelInv, TypeOK, PhaseInv, Alive, Seqs
<1>6. NoLostWakeup'
  BY DEF NoLostWakeup
<1> QED
  BY <1>2, <1>3, <1>4, <1>5, <1>6 DEF ChannelInv

\* The steps of a push keep its segment in the state the pusher has brought it to.
LEMMA PusherPreserves ==
  ASSUME ChannelInv, PusherStep
  PROVE  ChannelInv'
<1>1. CASE CreateSegment
  <2> USE <1>1 DEF CreateSegment, PusherGoes, HelperGoes, Goto, pusherVars, gdbVars, workVars
  <2>1. TypeOK'
    BY MaxPushAssumption DEF ChannelInv, TypeOK, Seqs, PusherPoints, HelperPoints, SegmentStates, PhaseInv
  <2>2. HistoryInv'
    BY MaxPushAssumption DEF ChannelInv, TypeOK, HistoryInv, PhaseInv, AppliedInOrder, Alive, Seqs
  <2>3. SegmentInv'
    BY MaxPushAssumption DEF ChannelInv, TypeOK, SegmentInv, PhaseInv, Alive, Seqs
  <2>4. PhaseInv'
    BY MaxPushAssumption DEF ChannelInv, TypeOK, SegmentInv, PhaseInv, Alive, Seqs
  <2>5. NoLostWakeup'
    BY MaxPushAssumption DEF ChannelInv, TypeOK, SegmentInv, PhaseInv, NoLostWakeup, Alive, Seqs
  <2> QED
    BY <2>1, <2>2, <2>3, <2>4, <2>5 DEF ChannelInv
<1>2. CASE SizeSegment
  <2> USE <1>2 DEF SizeSegment, PusherGoes, HelperGoes, Goto, pusherVars, gdbVars, workVars
  <2>1. TypeOK'
    BY MaxPushAssumption DEF ChannelInv, TypeOK, Seqs, PusherPoints, HelperPoints, SegmentStates, PhaseInv
  <2>2. HistoryInv'
    BY MaxPushAssumption DEF ChannelInv, TypeOK, HistoryInv, PhaseInv, AppliedInOrder, Alive, Seqs
  <2>3. SegmentInv'
    BY MaxPushAssumption DEF ChannelInv, TypeOK, SegmentInv, PhaseInv, Alive, Seqs
  <2>4. PhaseInv'
    BY MaxPushAssumption DEF ChannelInv, TypeOK, SegmentInv, PhaseInv, Alive, Seqs
  <2>5. NoLostWakeup'
    BY MaxPushAssumption DEF ChannelInv, TypeOK, SegmentInv, PhaseInv, NoLostWakeup, Alive, Seqs
  <2> QED
    BY <2>1, <2>2, <2>3, <2>4, <2>5 DEF ChannelInv
<1>3. CASE FillSegment
  <2> USE <1>3 DEF FillSegment, PusherGoes, HelperGoes, Goto, pusherVars, gdbVars, workVars
  <2>1. TypeOK'
    BY MaxPushAssumption DEF ChannelInv, TypeOK, Seqs, PusherPoints, HelperPoints, SegmentStates, PhaseInv
  <2>2. HistoryInv'
    BY MaxPushAssumption DEF ChannelInv, TypeOK, HistoryInv, PhaseInv, AppliedInOrder, Alive, Seqs
  <2>3. SegmentInv'
    BY MaxPushAssumption DEF ChannelInv, TypeOK, SegmentInv, PhaseInv, Alive, Seqs
  <2>4. PhaseInv'
    BY MaxPushAssumption DEF ChannelInv, TypeOK, SegmentInv, PhaseInv, Alive, Seqs
  <2>5. NoLostWakeup'
    BY MaxPushAssumption DEF ChannelInv, TypeOK, SegmentInv, PhaseInv, NoLostWakeup, Alive, Seqs
  <2> QED
    BY <2>1, <2>2, <2>3, <2>4, <2>5 DEF ChannelInv
<1>4. CASE SendSignal
  <2> USE <1>4 DEF SendSignal, PusherGoes, HelperGoes, Goto, pusherVars, gdbVars, workVars
  <2>1. TypeOK'
    <3>1. sigusr1' \in BOOLEAN
      BY DEF Alive
    <3> QED
      BY <3>1 DEF ChannelInv, TypeOK, PusherPoints
  <2>2. HistoryInv'
    BY DEF ChannelInv, HistoryInv, AppliedInOrder, Alive
  <2>3. SegmentInv'
    BY DEF ChannelInv, SegmentInv, PhaseInv, Alive
  <2>4. PhaseInv'
    BY DEF ChannelInv, PhaseInv, Alive
  <2>5. NoLostWakeup'
    BY DEF NoLostWakeup, Alive
  <2> QED
    BY <2>1, <2>2, <2>3, <2>4, <2>5 DEF ChannelInv
<1>5. CASE ReadAck
  <2> USE <1>5 DEF ReadAck, PusherGoes, HelperGoes, Goto, pusherVars, gdbVars, workVars
  <2>1. TypeOK'
    BY MaxPushAssumption DEF ChannelInv, TypeOK, Seqs, PusherPoints, HelperPoints, SegmentStates, PhaseInv
  <2>2. HistoryInv'
    BY MaxPushAssumption DEF ChannelInv, TypeOK, HistoryInv, PhaseInv, AppliedInOrder, Alive, Seqs
  <2>3. SegmentInv'
    BY MaxPushAssumption DEF ChannelInv, TypeOK, SegmentInv, PhaseInv, Alive, Seqs
  <2>4. PhaseInv'
    BY MaxPushAssumption DEF ChannelInv, TypeOK, SegmentInv, PhaseInv, Alive, Seqs
  <2>5. NoLostWakeup'
    BY MaxPushAssumption DEF ChannelInv, TypeOK, SegmentInv, PhaseInv, NoLostWakeup, Alive, Seqs
  <2> QED
    BY <2>1, <2>2, <2>3, <2>4, <2>5 DEF ChannelInv
<1>6. CASE ReadEOF
  <2> USE <1>6 DEF ReadEOF, PusherGoes, HelperGoes, Goto, pusherVars, gdbVars, workVars
  <2>1. TypeOK'
    BY MaxPushAssumption DEF ChannelInv, TypeOK, Seqs, PusherPoints, HelperPoints, SegmentStates, PhaseInv
  <2>2. HistoryInv'
    BY MaxPushAssumption DEF ChannelInv, TypeOK, HistoryInv, PhaseInv, AppliedInOrder, Alive, Seqs
  <2>3. SegmentInv'
    BY MaxPushAssumption DEF ChannelInv, TypeOK, SegmentInv, PhaseInv, Alive, Seqs
  <2>4. PhaseInv'
    BY MaxPushAssumption DEF ChannelInv, TypeOK, SegmentInv, PhaseInv, Alive, Seqs
  <2>5. NoLostWakeup'
    BY MaxPushAssumption DEF ChannelInv, TypeOK, SegmentInv, PhaseInv, NoLostWakeup, Alive, Seqs
  <2> QED
    BY <2>1, <2>2, <2>3, <2>4, <2>5 DEF ChannelInv
<1> QED
  BY <1>1, <1>2, <1>3, <1>4, <1>5, <1>6 DEF PusherStep

\* The steps of the drain that take, apply, acknowledge or drop a message.
DrainStep == ReadMessage \/ DropMessage \/ ApplyMessage \/ AckMessage

LEMMA DrainPreserves ==
  ASSUME ChannelInv, DrainStep
  PROVE  ChannelInv'
<1>1. CASE ReadMessage
  <2> USE <1>1 DEF ReadMessage, HelperGoes, pusherVars, gdbVars, workVars
  \* Only the message under push has a segment, and it is not acknowledged yet.
  <2>1. /\ nextSeq = updateSeq
        /\ pusher \in {"signal", "wait"}
        /\ acks = 0
    BY DEF ChannelInv, TypeOK, SegmentInv, PhaseInv, Alive, PusherPoints
  <2>2. TypeOK'
    BY DEF ChannelInv, TypeOK, HelperPoints, SegmentStates
  <2>3. HistoryInv'
    BY DEF ChannelInv, HistoryInv, AppliedInOrder, Alive
  <2>4. SegmentInv'
    BY <2>1 DEF ChannelInv, TypeOK, SegmentInv, Alive
  <2>5. PhaseInv'
    BY <2>1 DEF ChannelInv, TypeOK, PhaseInv, Alive
  <2>6. NoLostWakeup'
    BY <2>1 DEF ChannelInv, TypeOK, NoLostWakeup
  <2> QED
    BY <2>2, <2>3, <2>4, <2>5, <2>6 DEF ChannelInv
<1>2. CASE DropMessage
  <2> USE <1>2 DEF DropMessage, Undecodable, PusherGoes, HelperGoes, Goto, pusherVars, gdbVars, workVars
  <2>1. TypeOK'
    BY MaxPushAssumption DEF ChannelInv, TypeOK, Seqs, PusherPoints, HelperPoints, SegmentStates, PhaseInv
  <2>2. HistoryInv'
    BY MaxPushAssumption DEF ChannelInv, TypeOK, HistoryInv, PhaseInv, AppliedInOrder, Alive, Seqs
  <2>3. SegmentInv'
    BY MaxPushAssumption DEF ChannelInv, TypeOK, SegmentInv, PhaseInv, Alive, Seqs
  <2>4. PhaseInv'
    BY MaxPushAssumption DEF ChannelInv, TypeOK, SegmentInv, PhaseInv, Alive, Seqs
  <2>5. NoLostWakeup'
    BY MaxPushAssumption DEF ChannelInv, TypeOK, SegmentInv, PhaseInv, NoLostWakeup, Alive, Seqs
  <2> QED
    BY <2>1, <2>2, <2>3, <2>4, <2>5 DEF ChannelInv
<1>3. CASE ApplyMessage
  <2> USE <1>3 DEF ApplyMessage, HelperGoes, pusherVars, workVars
  \* The message taken is the last one pushed, and the first not yet applied.
  <2>1. /\ nextSeq = updateSeq
        /\ nextSeq \in 1 .. Len(pushed)
        /\ Len(applied) = nextSeq - 1
        /\ pushed[nextSeq] \in Messages
    BY DEF ChannelInv, TypeOK, HistoryInv, PhaseInv, Alive, Seqs
  <2>2. /\ applied' \in Seq(Messages)
        /\ Len(applied') = nextSeq
        /\ applied'[nextSeq] = pushed[nextSeq]
        /\ \A i \in 1 .. Len(applied) : applied'[i] = applied[i]
    BY <2>1 DEF ChannelInv, TypeOK
  <2>3. TypeOK'
    BY <2>2 DEF ChannelInv, TypeOK, HelperPoints
  <2>4. HistoryInv'
    <3>1. \A i \in 1 .. Len(applied') : applied'[i] = pushed[i]
      BY <2>1, <2>2 DEF ChannelInv, TypeOK, HistoryInv, AppliedInOrder, Seqs
    <3> QED
      BY <2>1, <2>2, <3>1 DEF ChannelInv, TypeOK, HistoryInv, AppliedInOrder, Alive, Seqs
  <2>5. SegmentInv'
    BY DEF ChannelInv, SegmentInv, Alive
  <2>6. PhaseInv'
    BY DEF ChannelInv, PhaseInv, Alive
  <2>7. NoLostWakeup'
    BY DEF ChannelInv, PhaseInv, NoLostWakeup
  <2> QED
    BY <2>3, <2>4, <2>5, <2>6, <2>7 DEF ChannelInv
<1>4. CASE AckMessage
  <2> USE <1>4 DEF AckMessage, PusherGoes, HelperGoes, Goto, pusherVars, gdbVars, workVars
  <2>1. TypeOK'
    BY MaxPushAssumption DEF ChannelInv, TypeOK, Seqs, PusherPoints, HelperPoints, SegmentStates, PhaseInv
  <2>2. HistoryInv'
    BY MaxPushAssumption DEF ChannelInv, TypeOK, HistoryInv, PhaseInv, AppliedInOrder, Alive, Seqs
  <2>3. SegmentInv'
    BY MaxPushAssumption DEF ChannelInv, TypeOK, SegmentInv, PhaseInv, Alive, Seqs
  <2>4. PhaseInv'
    BY MaxPushAssumption DEF ChannelInv, TypeOK, SegmentInv, PhaseInv, Alive, Seqs
  <2>5. NoLostWakeup'
    BY MaxPushAssumption DEF ChannelInv, TypeOK, SegmentInv, PhaseInv, NoLostWakeup, Alive, Seqs
  <2> QED
    BY <2>1, <2>2, <2>3, <2>4, <2>5 DEF ChannelInv
<1> QED
  BY <1>1, <1>2, <1>3, <1>4 DEF DrainStep

\* Every other step moves control and flags only: no message, segment or ack.
MovesControl ==
  /\ UNCHANGED <<pusherVars, segment, acks, nextSeq, applied>>
  /\ \/ helper' \in {helper, "dead"}
     \/ helper # "ack" /\ helper' \notin {"apply", "ack"} /\ Alive

\* Such a step keeps the invariant if it keeps the types and forgets no message.
LEMMA ControlMove ==
  ASSUME ChannelInv, MovesControl, TypeOK', NoLostWakeup'
  PROVE  ChannelInv'
<1> USE DEF MovesControl, pusherVars
<1>1. HistoryInv'
  BY DEF ChannelInv, HistoryInv, AppliedInOrder, Alive
<1>2. SegmentInv'
  BY DEF ChannelInv, SegmentInv, Alive
<1>3. PhaseInv'
  BY DEF ChannelInv, PhaseInv, Alive
<1> QED
  BY <1>1, <1>2, <1>3 DEF ChannelInv

ControlStep ==
  \/ EnterLoop
  \/ TestPending
  \/ ClearPending
  \/ MaskSignal
  \/ NoMessage
  \/ UnmaskSignal
  \/ HandleLine
  \/ LeaveCommandMode
  \/ Stop
  \/ Interrupt
  \/ ReadLine
  \/ TargetStops
  \/ EndOfGdb
  \/ Continue
  \/ EndOfInput
  \/ Quit
  \/ Crash

\* The end of the helper, for whatever reason.
LEMMA HelperEndsMoves ==
  ASSUME ChannelInv, HelperEnds
  PROVE  MovesControl /\ TypeOK' /\ NoLostWakeup'
<1> USE DEF HelperEnds, pusherVars, workVars
<1>1. MovesControl
  BY DEF MovesControl
<1>2. TypeOK'
  BY DEF ChannelInv, TypeOK, HelperPoints
<1>3. NoLostWakeup'
  BY DEF NoLostWakeup, Alive
<1> QED
  BY <1>1, <1>2, <1>3

\* The signal handler trades the pending signal for the flag.
LEMMA InterruptMoves ==
  ASSUME ChannelInv, Interrupt
  PROVE  MovesControl /\ TypeOK' /\ NoLostWakeup'
<1> USE DEF Interrupt, pusherVars, gdbVars, workVars
<1>1. helper \in HelperPoints \ {"read", "apply", "ack", "unmask", "dead"}
  BY DEF ChannelInv, TypeOK, Alive, Masked
<1>2. helper' \in {"top", "command", "stopping", "dead"}
  BY <1>1 DEF AfterException, HelperPoints
<1>3. MovesControl
  BY <1>1, <1>2 DEF MovesControl, Alive
<1>4. TypeOK'
  BY <1>2 DEF ChannelInv, TypeOK, HelperPoints
<1>5. NoLostWakeup'
  BY DEF NoLostWakeup
<1> QED
  BY <1>3, <1>4, <1>5

\* The end of a drain finds no message: the one under push would have been there.
LEMMA NoMessageMoves ==
  ASSUME ChannelInv, NoMessage
  PROVE  MovesControl /\ TypeOK' /\ NoLostWakeup'
<1> USE DEF NoMessage, HelperGoes, Goto, pusherVars, gdbVars, workVars
<1>1. MovesControl
  BY DEF MovesControl, Alive
<1>2. TypeOK'
  BY DEF ChannelInv, TypeOK, HelperPoints
<1>3. NoLostWakeup'
  BY DEF ChannelInv, TypeOK, SegmentInv, PhaseInv, NoLostWakeup, Alive
<1> QED
  BY <1>1, <1>2, <1>3

\* The steps that neither end the helper nor touch the flag or the signal out of turn.
LEMMA ControlStepMoves ==
  ASSUME ChannelInv, ControlStep
  PROVE  MovesControl /\ TypeOK' /\ NoLostWakeup'
<1>1. CASE EnterLoop
  <2> USE <1>1 DEF EnterLoop, PusherGoes, HelperGoes, Goto, pusherVars, gdbVars, workVars
  <2>1. MovesControl
    BY DEF MovesControl, Alive
  <2>2. TypeOK'
    BY DEF ChannelInv, TypeOK, HelperPoints
  <2>3. NoLostWakeup'
    BY DEF ChannelInv, NoLostWakeup, Alive
  <2> QED
    BY <2>1, <2>2, <2>3
<1>2. CASE TestPending
  <2> USE <1>2 DEF TestPending, PusherGoes, HelperGoes, Goto, pusherVars, gdbVars, workVars
  <2>1. MovesControl
    BY DEF MovesControl, Alive
  <2>2. TypeOK'
    BY DEF ChannelInv, TypeOK, HelperPoints
  <2>3. NoLostWakeup'
    BY DEF ChannelInv, NoLostWakeup, Alive
  <2> QED
    BY <2>1, <2>2, <2>3
<1>3. CASE ClearPending
  <2> USE <1>3 DEF ClearPending, PusherGoes, HelperGoes, Goto, pusherVars, gdbVars, workVars
  <2>1. MovesControl
    BY DEF MovesControl, Alive
  <2>2. TypeOK'
    BY DEF ChannelInv, TypeOK, HelperPoints
  <2>3. NoLostWakeup'
    BY DEF ChannelInv, NoLostWakeup, Alive
  <2> QED
    BY <2>1, <2>2, <2>3
<1>4. CASE MaskSignal
  <2> USE <1>4 DEF MaskSignal, PusherGoes, HelperGoes, Goto, pusherVars, gdbVars, workVars
  <2>1. MovesControl
    BY DEF MovesControl, Alive
  <2>2. TypeOK'
    BY DEF ChannelInv, TypeOK, HelperPoints
  <2>3. NoLostWakeup'
    BY DEF ChannelInv, NoLostWakeup, Alive
  <2> QED
    BY <2>1, <2>2, <2>3
<1>5. CASE UnmaskSignal
  <2> USE <1>5 DEF UnmaskSignal, PusherGoes, HelperGoes, Goto, pusherVars, gdbVars, workVars
  <2>1. MovesControl
    BY DEF MovesControl, Alive
  <2>2. TypeOK'
    BY DEF ChannelInv, TypeOK, HelperPoints
  <2>3. NoLostWakeup'
    BY DEF ChannelInv, NoLostWakeup, Alive
  <2> QED
    BY <2>1, <2>2, <2>3
<1>6. CASE HandleLine
  <2> USE <1>6 DEF HandleLine, PusherGoes, HelperGoes, Goto, pusherVars, gdbVars, workVars
  <2>1. MovesControl
    BY DEF MovesControl, Alive
  <2>2. TypeOK'
    BY DEF ChannelInv, TypeOK, HelperPoints
  <2>3. NoLostWakeup'
    BY DEF ChannelInv, NoLostWakeup, Alive
  <2> QED
    BY <2>1, <2>2, <2>3
<1>7. CASE LeaveCommandMode
  <2> USE <1>7 DEF LeaveCommandMode, PusherGoes, HelperGoes, Goto, pusherVars, gdbVars, workVars
  <2>1. MovesControl
    BY DEF MovesControl, Alive
  <2>2. TypeOK'
    BY DEF ChannelInv, TypeOK, HelperPoints
  <2>3. NoLostWakeup'
    BY DEF ChannelInv, NoLostWakeup, Alive
  <2> QED
    BY <2>1, <2>2, <2>3
<1>8. CASE ReadLine
  <2> USE <1>8 DEF ReadLine, PusherGoes, HelperGoes, Goto, pusherVars, gdbVars, workVars
  <2>1. MovesControl
    BY DEF MovesControl, Alive
  <2>2. TypeOK'
    BY DEF ChannelInv, TypeOK, HelperPoints
  <2>3. NoLostWakeup'
    BY DEF ChannelInv, NoLostWakeup, Alive
  <2> QED
    BY <2>1, <2>2, <2>3
<1>9. CASE TargetStops
  <2> USE <1>9 DEF TargetStops, PusherGoes, HelperGoes, Goto, pusherVars, gdbVars, workVars
  <2>1. MovesControl
    BY DEF MovesControl, Alive
  <2>2. TypeOK'
    BY DEF ChannelInv, TypeOK, HelperPoints
  <2>3. NoLostWakeup'
    BY DEF ChannelInv, NoLostWakeup, Alive
  <2> QED
    BY <2>1, <2>2, <2>3
<1>10. CASE EndOfGdb
  <2> USE <1>10 DEF EndOfGdb, PusherGoes, HelperGoes, Goto, pusherVars, gdbVars, workVars
  <2>1. MovesControl
    BY DEF MovesControl, Alive
  <2>2. TypeOK'
    BY DEF ChannelInv, TypeOK, HelperPoints
  <2>3. NoLostWakeup'
    BY DEF ChannelInv, NoLostWakeup, Alive
  <2> QED
    BY <2>1, <2>2, <2>3
<1>11. CASE Continue
  <2> USE <1>11 DEF Continue, PusherGoes, HelperGoes, Goto, pusherVars, gdbVars, workVars
  <2>1. MovesControl
    BY DEF MovesControl, Alive
  <2>2. TypeOK'
    BY DEF ChannelInv, TypeOK, HelperPoints
  <2>3. NoLostWakeup'
    BY DEF ChannelInv, NoLostWakeup, Alive
  <2> QED
    BY <2>1, <2>2, <2>3
<1>12. CASE EndOfInput
  <2> USE <1>12 DEF EndOfInput, PusherGoes, HelperGoes, Goto, pusherVars, gdbVars, workVars
  <2>1. MovesControl
    BY DEF MovesControl, Alive
  <2>2. TypeOK'
    BY DEF ChannelInv, TypeOK, HelperPoints
  <2>3. NoLostWakeup'
    BY DEF ChannelInv, NoLostWakeup, Alive
  <2> QED
    BY <2>1, <2>2, <2>3
<1>13. CASE Quit
  <2> USE <1>13 DEF Quit, PusherGoes, HelperGoes, Goto, pusherVars, gdbVars, workVars
  <2>1. MovesControl
    BY DEF MovesControl, Alive
  <2>2. TypeOK'
    BY DEF ChannelInv, TypeOK, HelperPoints
  <2>3. NoLostWakeup'
    BY DEF ChannelInv, NoLostWakeup, Alive
  <2> QED
    BY <2>1, <2>2, <2>3
<1>14. CASE Interrupt
  BY <1>14, InterruptMoves
<1>15. CASE NoMessage
  BY <1>15, NoMessageMoves
<1>16. CASE Stop \/ Crash
  BY <1>16, HelperEndsMoves DEF Stop, Crash
<1> QED
  BY <1>1, <1>2, <1>3, <1>4, <1>5, <1>6, <1>7, <1>8, <1>9, <1>10, <1>11, <1>12, <1>13, <1>14, <1>15, <1>16 DEF ControlStep

\* The four groups of steps.
LEMMA NextCases ==
  ASSUME Next
  PROVE  \/ PusherStep
         \/ DrainStep
         \/ ControlStep
         \/ \E m \in Messages : Push(m)
BY DEF Next, HelperStep, Environment, DrainStep, ControlStep

LEMMA NextPreserves == ChannelInv /\ [Next]_vars => ChannelInv'
<1> SUFFICES ASSUME ChannelInv, [Next]_vars PROVE ChannelInv'
  OBVIOUS
<1>1. CASE PusherStep
  BY <1>1, PusherPreserves
<1>2. CASE DrainStep
  BY <1>2, DrainPreserves
<1>3. CASE ControlStep
  BY <1>3, ControlStepMoves, ControlMove
<1>4. ASSUME NEW m \in Messages, Push(m) PROVE ChannelInv'
  BY <1>4, PushPreserves
<1>5. CASE UNCHANGED vars
  <2> USE <1>5 DEF vars, PusherGoes, HelperGoes, Goto, pusherVars, gdbVars, workVars
  <2>1. MovesControl
    BY DEF MovesControl
  <2>2. TypeOK'
    BY DEF ChannelInv, TypeOK
  <2>3. NoLostWakeup'
    BY DEF ChannelInv, NoLostWakeup, Alive
  <2> QED
    BY <2>1, <2>2, <2>3, ControlMove
<1> QED
  BY <1>1, <1>2, <1>3, <1>4, <1>5, NextCases

\* The invariant of the channel, from which the other theorems follow.
THEOREM ChannelInvariance == Spec => []ChannelInv
<1> QED
  BY InitChannelInv, NextPreserves, PTL DEF Spec

-----------------------------------------------------------------------------

\* Every variable keeps its type; in particular the ack pipe never holds two
\* bytes and the helper never looks for a segment beyond the next push.
THEOREM TypeCorrect == Spec => []TypeOK
<1>1. ChannelInv => TypeOK
  BY DEF ChannelInv
<1> QED
  BY <1>1, ChannelInvariance, PTL

\* The helper applies the pushed messages in order, once each, without a gap.
THEOREM OrderCorrect == Spec => []AppliedInOrder
<1>1. ChannelInv => AppliedInOrder
  BY DEF ChannelInv, HistoryInv
<1> QED
  BY <1>1, ChannelInvariance, PTL

\* A byte in the ack pipe is the one of the message under push.
LEMMA AckOfThisMessage == ChannelInv => AckMeansApplied
<1> SUFFICES ASSUME ChannelInv, acks = 1 PROVE pusher \in {"signal", "wait"} /\ Len(applied) = updateSeq
  BY DEF AckMeansApplied
<1>1. /\ pusher \in {"signal", "wait"}
      /\ nextSeq = updateSeq + 1
  BY DEF ChannelInv, TypeOK, PusherPoints, PhaseInv
<1>2. Len(applied) <= updateSeq /\ Len(applied) >= nextSeq - 1
  BY DEF ChannelInv, TypeOK, Seqs, HistoryInv, AppliedInOrder
<1> QED
  BY <1>1, <1>2 DEF ChannelInv, TypeOK

\* The debuggee never takes the byte of another message, nor a byte sent early.
THEOREM AckCorrect == Spec => []AckMeansApplied
<1> QED
  BY AckOfThisMessage, ChannelInvariance, PTL

\* Between pushes to a live helper the two counters name the same next segment.
THEOREM AgreementCorrect == Spec => []SequenceAgreement
<1>1. ChannelInv => SequenceAgreement
  <2> SUFFICES ASSUME ChannelInv, pusher = "idle", Alive
               PROVE  nextSeq = updateSeq + 1 /\ \A s \in Seqs : segment[s] = "absent"
    BY DEF SequenceAgreement
  <2>1. nextSeq = updateSeq + 1
    BY DEF ChannelInv, PhaseInv
  <2>2. ASSUME NEW s \in Seqs PROVE segment[s] = "absent"
    BY <2>2 DEF ChannelInv, TypeOK, SegmentInv, Seqs
  <2> QED
    BY <2>1, <2>2
<1> QED
  BY <1>1, ChannelInvariance, PTL

\* No wake-up for a complete segment is ever lost.
THEOREM WakeupCorrect == Spec => []NoLostWakeup
<1>1. ChannelInv => NoLostWakeup
  BY DEF ChannelInv
<1> QED
  BY <1>1, ChannelInvariance, PTL

\* A push to a helper that is still there returns only once it was applied.
THEOREM ReturnCorrect == Spec => ReturnMeansApplied
<1>1. ASSUME ChannelInv, [Next]_vars
      PROVE  [pusher = "wait" /\ pusher' = "idle" /\ Alive => Len(applied) = updateSeq]_vars
  <2> SUFFICES ASSUME Next, pusher = "wait", pusher' = "idle", Alive
               PROVE  Len(applied) = updateSeq
    BY <1>1
  \* Only the pusher moves the pusher, and with a live helper only on a byte.
  <2>1. ReadAck
    <3>1. ~DrainStep /\ ~ControlStep /\ ~\E m \in Messages : Push(m)
      BY <1>1, ControlStepMoves DEF MovesControl, DrainStep, ReadMessage, DropMessage,
             ApplyMessage, AckMessage, Push, PusherGoes, HelperGoes, pusherVars
    <3>2. PusherStep
      BY <3>1, NextCases
    <3> QED
      BY <3>2 DEF PusherStep, CreateSegment, SizeSegment, FillSegment, SendSignal, ReadEOF, PusherGoes
  <2>2. acks = 1
    BY <1>1, <2>1 DEF ReadAck, PusherGoes, ChannelInv, TypeOK
  <2> QED
    BY <1>1, <2>2, AckOfThisMessage DEF AckMeansApplied
<1> QED
  BY <1>1, ChannelInvariance, PTL DEF Spec, ReturnMeansApplied

-----------------------------------------------------------------------------
(* Refinement: the channel implements the call of ControlService.          *)

\* Control moves are invisible to the caller, or are the end of the helper.
LEMMA ControlMoveRefines ==
  ASSUME MovesControl
  PROVE  Service!Crash \/ UNCHANGED Service!vars
<1>1. UNCHANGED <<pusher, updateSeq, pushed, applied>>
  BY DEF MovesControl, pusherVars
<1> QED
  BY <1>1 DEF MovesControl, Service!Crash, Service!vars, Alive

\* The first step of a push opens the call.
LEMMA PushRefines ==
  ASSUME ChannelInv, NEW m \in Messages, Push(m)
  PROVE  Service!Request(m)
<1>1. /\ pushed' # <<>>
      /\ pushed'[Len(pushed')] = m
      /\ Len(applied) # updateSeq + 1
  BY DEF Push, PusherGoes, ChannelInv, TypeOK, HistoryInv, AppliedInOrder
<1> QED
  BY <1>1 DEF Push, PusherGoes, Service!Request, Alive, workVars

\* Applying the message serves the call.
LEMMA ApplyRefines ==
  ASSUME ChannelInv, ApplyMessage
  PROVE  Service!Serve
<1>1. /\ pusher # "idle"
      /\ nextSeq = updateSeq
      /\ Len(applied) = updateSeq - 1
      /\ Len(pushed) = updateSeq
      /\ pushed # <<>>
  BY DEF ApplyMessage, HelperGoes, ChannelInv, TypeOK, HistoryInv, PhaseInv, Alive, Seqs
<1>2. Len(applied') = updateSeq
  BY <1>1 DEF ApplyMessage, HelperGoes, ChannelInv, TypeOK
<1> QED
  BY <1>1, <1>2 DEF ApplyMessage, HelperGoes, Service!Serve, Alive, pusherVars, ChannelInv, TypeOK

\* The debuggee's return is the return of the call; its other steps are inside it.
LEMMA PusherRefines ==
  ASSUME ChannelInv, PusherStep
  PROVE  Service!Return \/ UNCHANGED Service!vars
<1>1. CASE ReadAck
  <2>1. Len(applied) = updateSeq
    BY <1>1, AckOfThisMessage DEF ReadAck, PusherGoes, ChannelInv, TypeOK, AckMeansApplied
  <2> QED
    BY <1>1, <2>1 DEF ReadAck, PusherGoes, Service!Return, Alive, workVars
<1>2. CASE ReadEOF
  BY <1>2 DEF ReadEOF, PusherGoes, Service!Return, Alive, workVars
<1>3. CASE CreateSegment \/ SizeSegment \/ FillSegment \/ SendSignal
  BY <1>3 DEF CreateSegment, SizeSegment, FillSegment, SendSignal, PusherGoes, Service!vars, Alive, workVars
<1> QED
  BY <1>1, <1>2, <1>3 DEF PusherStep

\* Of the drain only the application is visible to the caller.
LEMMA DrainRefines ==
  ASSUME ChannelInv, DrainStep
  PROVE  Service!Serve \/ UNCHANGED Service!vars
<1>1. CASE ApplyMessage
  BY <1>1, ApplyRefines
<1>2. CASE ReadMessage \/ DropMessage \/ AckMessage
  BY <1>2 DEF ReadMessage, DropMessage, AckMessage, HelperGoes, Service!vars, Alive, pusherVars, workVars
<1> QED
  BY <1>1, <1>2 DEF DrainStep

\* The channel, with its signals, flags, segments and crashes, is the call that
\* ControlService describes: served at most once and in order, and returned to the
\* debuggee only after it was served or the helper is gone.
THEOREM ChannelImplementsService == Spec => ServiceSpec
<1>1. Init => Service!Init
  BY MessagesAssumption DEF Init, Service!Init, Alive
<1>2. ChannelInv /\ [Next]_vars => [Service!Next]_(Service!vars)
  <2> SUFFICES ASSUME ChannelInv, [Next]_vars PROVE [Service!Next]_(Service!vars)
    OBVIOUS
  <2>1. CASE PusherStep
    BY <2>1, PusherRefines DEF Service!Next
  <2>2. CASE DrainStep
    BY <2>2, DrainRefines DEF Service!Next
  <2>3. CASE ControlStep
    BY <2>3, ControlStepMoves, ControlMoveRefines DEF Service!Next
  <2>4. ASSUME NEW m \in Messages, Push(m) PROVE [Service!Next]_(Service!vars)
    BY <2>4, PushRefines DEF Service!Next
  <2>5. CASE UNCHANGED vars
    BY <2>5 DEF vars, pusherVars, workVars, Service!vars, Alive
  <2> QED
    BY <2>1, <2>2, <2>3, <2>4, <2>5, NextCases
<1> QED
  BY <1>1, <1>2, ChannelInvariance, PTL DEF Spec, ServiceSpec, Service!Spec
=============================================================================
