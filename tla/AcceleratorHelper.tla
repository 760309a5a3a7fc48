--------------------------- MODULE AcceleratorHelper ---------------------------
(***************************************************************************)
(* AcceleratorGDBController, the helper of a cuda or hip session, against  *)
(* cuda-gdb or rocgdb in annotate mode.  The debugger prints a stream of   *)
(* annotations and lines.  A command is answered when its result and a     *)
(* prompt were read; what else was printed by then is dropped, except for  *)
(* the two flags of the attach.                                            *)
(*                                                                         *)
(* The debugger is external: it takes one command at a time and none while *)
(* its target runs; after the stop of the attach itself the target settles *)
(* with stops by a signal, before which it cannot be resumed.              *)
(***************************************************************************)
EXTENDS Naturals, SequencesExt

CONSTANTS
  MaxSettles,  \* bound on the stops by a signal while attaching
  MaxHits,     \* bound on breakpoint hits
  MaxFaults,   \* bound on fault signals
  MaxPushes    \* bound on messages pushed by the target

ASSUME BoundsAssumption ==
  MaxSettles \in Nat \ {0} /\ MaxHits \in Nat /\ MaxFaults \in Nat /\ MaxPushes \in Nat

VARIABLES
  target,      \* "free", "settling", "stopped", "running", "exited"
  why,         \* the latest stop: "attach", "settle", "hit", "fault", "interrupt"; "early": a
               \* fault before the loop or behind another stop of the attach
  todo,        \* commands written to the debugger and not taken yet
  interrupted, \* SIGINT was sent to the debugger
  out,         \* what it printed and the helper has not read
  settles, hits, faults,
  pushes,
  shown,       \* the latest stop was shown to the user
  phase,          \* in an exchange ("attach", "install", "show", "detach") or "loop", "prompt",
               \* "interrupt", "ended"
  lacks,       \* what the command under way still waits for
  pending,     \* _pending_resume_after_attach
  faultSeen,   \* _pending_resume_fault_seen
  signalSeen,  \* _attach_signal_seen
  stopSeen,    \* _attach_stop_seen
  update       \* what is being done to the target: "none", "install", "detach", "quit"

stateVars == <<target, why, settles, hits, faults>>
resumeVars == <<pending, faultSeen>>
attachVars == <<signalSeen, stopSeen>>
accVars == <<stateVars, todo, interrupted, out, pushes, shown, phase, lacks, resumeVars, attachVars, update>>

Sending(name, by) == [name |-> name, by |-> by]

AccInit ==
  /\ target = "free" /\ why = "attach" /\ shown = FALSE
  /\ todo = <<Sending("attach", "attach")>> /\ interrupted = FALSE /\ out = <<>>
  /\ settles = 0 /\ hits = 0 /\ faults = 0 /\ pushes = 0
  /\ phase = "attach" /\ lacks = {"result", "prompt"}
  /\ pending = FALSE /\ faultSeen = FALSE /\ signalSeen = FALSE /\ stopSeen = FALSE
  /\ update = "none"

-----------------------------------------------------------------------------
(* The debugger and its target.                                            *)

helperVars == <<pushes, phase, lacks, resumeVars, attachVars, update>>

Stop(place, reason, lines) ==
  /\ target' = place
  /\ why' = reason
  /\ shown' = FALSE
  /\ out' = out \o lines

Answer(place, lines) ==
  /\ target' = place
  /\ out' = out \o lines
  /\ UNCHANGED <<why, shown>>

TakeCommand ==
  /\ todo # <<>> /\ target # "running" /\ phase # "ended"
  /\ todo' = Tail(todo)
  /\ LET name == Head(todo).name IN
       \/ name = "attach" /\ Stop("settling", "attach", <<"stopped", "result", "prompt">>)
       \/ name = "continue" /\ target = "stopped" /\ Answer("running", <<"accepted">>)
       \/ name = "continue" /\ target # "stopped" /\ Answer(target, <<"refused", "prompt">>)
       \/ name = "detach" /\ Answer(IF target = "exited" THEN target ELSE "free", <<"result">>)
       \/ name = "echo" /\ Answer(target, <<"prompt">>)
       \/ name = "ask" /\ Answer(target, <<"result", "prompt">>)
  /\ UNCHANGED <<interrupted, settles, hits, faults, helperVars>>

\* The attach settles, or has one more stop to come.
Settle(last) ==
  /\ target = "settling"
  /\ ~last => settles + 1 < MaxSettles
  /\ settles' = settles + 1
  /\ Stop(IF last THEN "stopped" ELSE "settling", "settle", <<"signal", "stopped", "prompt">>)
  /\ UNCHANGED <<todo, interrupted, hits, faults, helperVars>>

Hit ==
  /\ target = "running" /\ hits < MaxHits
  /\ hits' = hits + 1
  /\ Stop("stopped", "hit", <<"hit", "stopped", "prompt">>)
  /\ UNCHANGED <<todo, interrupted, settles, faults, helperVars>>

Early == phase \in {"attach", "install"} \/ (target = "settling" /\ settles > 0)

Fault ==
  /\ target \in {"settling", "running"} /\ faults < MaxFaults
  /\ faults' = faults + 1
  /\ Stop("stopped", IF Early THEN "early" ELSE "fault", <<"signal", "fault", "stopped", "prompt">>)
  /\ UNCHANGED <<todo, interrupted, settles, hits, helperVars>>

Exit ==
  /\ target = "running"
  /\ Stop("exited", "exit", <<"exit", "prompt">>)
  /\ UNCHANGED <<todo, interrupted, settles, hits, faults, helperVars>>

\* SIGINT: an idle debugger may or may not print a new prompt.
Interrupt ==
  /\ interrupted /\ phase # "ended"
  /\ interrupted' = FALSE
  /\ \/ target = "running" /\ Stop("stopped", "interrupt", <<"signal", "stopped", "prompt">>)
     \/ target # "running" /\ \E lines \in {<<>>, <<"prompt">>} : Answer(target, lines)
  /\ UNCHANGED <<todo, settles, hits, faults, helperVars>>

-----------------------------------------------------------------------------
(* The helper: reading and sending.                                        *)

\* Mutant of Track: any stop counts, the attach's own too.
TrackAnyStop(lines) ==
  /\ signalSeen' = (signalSeen \/ "signal" \in ToSet(lines))
  /\ stopSeen' = (stopSeen \/ "stopped" \in ToSet(lines))

\* _track_attach_state of each of the lines.
Track(lines) ==
  /\ signalSeen' = (signalSeen \/ "signal" \in ToSet(lines))
  /\ stopSeen' = (stopSeen \/ \E i \in DOMAIN lines :
                    lines[i] = "stopped" /\ (signalSeen \/ \E j \in 1..i : lines[j] = "signal"))

\* _flush_pending_output, then the command is written.
SendCommands(commands, read) ==
  /\ Track(read)
  /\ out' = <<>>
  /\ todo' = todo \o commands

\* _send_mi_command to its answer.
Ask(place, read) ==
  /\ SendCommands(<<Sending("ask", "none")>>, read)
  /\ lacks' = {"result", "prompt"}
  /\ phase' = place

\* exec-continue, not waited for.
ExecContinue(by, read) ==
  /\ SendCommands(<<Sending("continue", by)>>, read)
  /\ phase' = "loop"
  /\ UNCHANGED lacks

\* One line of the answer of the command under way.
ReadAnswer ==
  /\ lacks # {} /\ out # <<>>
  /\ lacks' = lacks \ {Head(out)}
  /\ out' = Tail(out)
  /\ Track(<<Head(out)>>)
  /\ UNCHANGED <<stateVars, todo, interrupted, pushes, shown, phase, resumeVars, update>>

Disarm == pending' = FALSE /\ faultSeen' = FALSE

\* The rest of _setup_gdb: the breakpoints, if there are any.
InstallBreakpoints ==
  /\ phase = "attach" /\ lacks = {}
  /\ Ask("install", out)
  /\ UNCHANGED <<stateVars, interrupted, pushes, shown, resumeVars, update>>

\* _continue_after_attach.
ContinueAfterAttach ==
  /\ phase = "install" /\ lacks = {} /\ update = "none"
  /\ pending' = TRUE /\ faultSeen' = FALSE
  /\ IF stopSeen
       THEN ExecContinue("resume", out)
       ELSE phase' = "loop" /\ UNCHANGED <<todo, out, lacks, attachVars>>
  /\ UNCHANGED <<stateVars, interrupted, pushes, shown, update>>

-----------------------------------------------------------------------------
(* _transparent_loop, one line at a time.                                  *)

ReadLine(line) ==
  /\ phase = "loop" /\ out # <<>> /\ Head(out) = line

\* The line is read and nothing is sent.
JustRead(line) ==
  /\ Track(<<line>>)
  /\ out' = Tail(out)
  /\ UNCHANGED <<todo, phase, lacks>>

LoopExit ==
  /\ ReadLine("exit")
  /\ phase' = "ended"
  /\ UNCHANGED <<stateVars, todo, interrupted, out, pushes, shown, lacks, resumeVars, attachVars, update>>

\* Mutant of LoopHit: the line is not recognised.
LoopHitMissed ==
  /\ ReadLine("hit")
  /\ JustRead("hit")
  /\ UNCHANGED <<stateVars, interrupted, pushes, shown, resumeVars, update>>

\* A hit: the resume is off, _enter_user_code_mode asks where the target is.
LoopHit ==
  /\ ReadLine("hit")
  /\ Disarm
  /\ Ask("show", out)
  /\ UNCHANGED <<stateVars, interrupted, pushes, shown, update>>

\* Mutant of LoopLine: a fault is not noted.
LoopLineNoFault ==
  /\ \E line \in {"accepted", "refused", "fault", "signal", "prompt", "result"} :
       /\ ReadLine(line)
       /\ JustRead(line)
       /\ pending' = (pending /\ line # "accepted")
       /\ faultSeen' = (faultSeen /\ line # "accepted")
  /\ UNCHANGED <<stateVars, interrupted, pushes, shown, update>>

\* _handle_post_attach_resume of a line that says that the resume was accepted, or of a fault.
LoopLine ==
  /\ \E line \in {"accepted", "refused", "fault", "signal", "prompt", "result"} :
       /\ ReadLine(line)
       /\ JustRead(line)
       /\ pending' = (pending /\ line # "accepted")
       /\ faultSeen' = (pending' /\ (faultSeen \/ line = "fault"))
  /\ UNCHANGED <<stateVars, interrupted, pushes, shown, update>>

\* Mutant of LoopStopped: one attempt at the resume is enough.
LoopStoppedOnce ==
  /\ ReadLine("stopped")
  /\ JustRead("stopped")
  /\ UNCHANGED <<stateVars, interrupted, pushes, shown, resumeVars, update>>

\* _handle_post_attach_resume of a stop: resume once the attach has settled, and again
\* at each further stop until a resume is accepted; leave a fault alone.
LoopStopped ==
  /\ ReadLine("stopped")
  /\ LET settled == pending /\ (stopSeen \/ signalSeen) IN
       \/ ~settled /\ JustRead("stopped") /\ UNCHANGED resumeVars
       \/ settled /\ faultSeen /\ JustRead("stopped") /\ Disarm
       \/ settled /\ ~faultSeen /\ ExecContinue("resume", out) /\ UNCHANGED resumeVars
  /\ UNCHANGED <<stateVars, interrupted, pushes, shown, update>>

-----------------------------------------------------------------------------
(* The user.                                                               *)

\* _command_mode begins: the stop the debugger is at has its prompt.
Prompt ==
  /\ phase = "show" /\ lacks = {}
  /\ phase' = "prompt"
  /\ shown' = TRUE
  /\ UNCHANGED <<stateVars, todo, interrupted, out, pushes, lacks, resumeVars, attachVars, update>>

UserContinue ==
  /\ phase = "prompt"
  /\ ExecContinue("user", out)
  /\ UNCHANGED <<stateVars, interrupted, pushes, shown, resumeVars, update>>

\* Ctrl-D.
LeavePrompt ==
  /\ phase = "prompt"
  /\ phase' = "loop"
  /\ UNCHANGED <<stateVars, todo, interrupted, out, pushes, shown, lacks, resumeVars, attachVars, update>>

\* quit, or Ctrl-C in the loop: _interrupt_and_detach.
Quit ==
  /\ phase \in {"prompt", "loop"}
  /\ phase' = "interrupt" /\ update' = "quit"
  /\ interrupted' = TRUE
  /\ todo' = Append(todo, Sending("echo", "none"))
  /\ UNCHANGED <<stateVars, out, pushes, shown, lacks, resumeVars, attachVars>>

-----------------------------------------------------------------------------
(* Messages of the target, which runs when it pushes one.                  *)

\* SIGUSR1 raises out of whatever the helper reads, where a line may be lost, and the
\* message is applied: the debugger is interrupted.
Push(message) ==
  /\ target = "running" /\ update = "none" /\ pushes < MaxPushes
  /\ phase \in {"loop", "show", "prompt"}
  /\ pushes' = pushes + 1
  /\ update' = message
  /\ phase' = "interrupt" /\ lacks' = {}
  /\ interrupted' = TRUE
  /\ out' \in {out, IF out = <<>> THEN out ELSE Tail(out)}
  /\ todo' = (IF message = "detach" THEN Append(todo, Sending("echo", "none")) ELSE todo)
  /\ pending' = (pending /\ message # "detach")
  /\ UNCHANGED <<stateVars, shown, faultSeen, attachVars>>

\* _wait_for_prompt_after_interrupt: the first prompt will do, nothing else is looked at.
SkipLine ==
  /\ phase = "interrupt" /\ out # <<>> /\ Head(out) # "prompt"
  /\ out' = Tail(out)
  /\ UNCHANGED <<stateVars, todo, interrupted, pushes, shown, phase, lacks, resumeVars, attachVars, update>>

PromptAfterInterrupt ==
  /\ phase = "interrupt" /\ out # <<>> /\ Head(out) = "prompt"
  /\ \/ update = "install" /\ Ask("install", Tail(out))
     \/ /\ update \in {"detach", "quit"}
        /\ SendCommands(<<Sending("detach", update)>>, Tail(out))
        /\ lacks' = {"result"} /\ phase' = "detach"
  /\ UNCHANGED <<stateVars, interrupted, pushes, shown, resumeVars, update>>

\* The breakpoints are in: exec-continue.
ContinueAfterUpdate ==
  /\ phase = "install" /\ lacks = {} /\ update = "install"
  /\ update' = "none"
  /\ ExecContinue("update", out)
  /\ UNCHANGED <<stateVars, interrupted, pushes, shown, resumeVars>>

\* Detached: the streams are closed, and the debugger ends of it or is killed.
Detached ==
  /\ phase = "detach" /\ lacks = {}
  /\ phase' = "ended"
  /\ UNCHANGED <<stateVars, todo, interrupted, out, pushes, shown, lacks, resumeVars, attachVars, update>>

-----------------------------------------------------------------------------
Debugger == TakeCommand \/ Settle(TRUE) \/ Settle(FALSE) \/ Interrupt
Target == Hit \/ Fault \/ Exit \/ \E message \in {"install", "detach"} : Push(message)
Read == ReadAnswer \/ InstallBreakpoints \/ ContinueAfterAttach \/ LoopExit \/ LoopHit \/ LoopLine \/ LoopStopped
        \/ Prompt \/ SkipLine \/ PromptAfterInterrupt \/ ContinueAfterUpdate \/ Detached
User == UserContinue \/ LeavePrompt \/ Quit

AccNext == Debugger \/ Target \/ Read \/ User

AccSpec == AccInit /\ [][AccNext]_accVars

\* The debugger goes on and the helper reads; the target and the user need not do anything.
FairAccSpec == AccSpec /\ WF_accVars(Debugger) /\ WF_accVars(Read)

-----------------------------------------------------------------------------
(* Properties.                                                             *)

Resumes == target = "stopped" /\ target' \in {"running", "free"}

\* The target is resumed past a hit the user has not seen only by a message (its interrupt
\* skips what was printed) or by the end of the session, never by the resume after the
\* attach or a continue of the user, unless the attach took more than one stop to settle.
HitsAreShown ==
  [][Resumes /\ why = "hit" /\ ~shown /\ settles <= 1 => Head(todo).by \in {"update", "detach", "quit"}]_accVars

\* A fault is not resumed by the resume after the attach, which may be under way, unless
\* it came before the loop or behind a stop of the attach, where it is dropped unread, or
\* the attach took more than one stop to settle.
FaultIsLeftStopped ==
  [][Resumes /\ why = "fault" /\ settles <= 1 => Head(todo).by # "resume"]_accVars

\* However the stops of the attach fall between the commands, the target gets away from the
\* last of them, also when the first resume was refused.
AttachResumes == (target = "stopped" /\ why = "settle") ~> (target # "stopped" \/ why # "settle")

\* A hit comes to a prompt, unless the target is resumed or the session ends.
HitOpensPrompt == (target = "stopped" /\ why = "hit") ~> (shown \/ target # "stopped" \/ phase = "ended")
=============================================================================
