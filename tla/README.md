# A TLA+ model of pkdb

pkdb debugs PyKokkos programs. A pdb-like debugger (`PyKokkosDebugger`) traces the
Python script; when the script launches a kernel (`pk.parallel_for` and its
relatives), a native debugger (gdb, cuda-gdb or rocgdb) in a helper process of its
own is attached to the very process that runs the script, with the user's Python
breakpoints translated to C++ lines of the generated functor. The program is
small; what makes it hard is that two processes, one of which stops the other
with ptrace, agree on state through shared memory, one signal, one pipe and the
life and death of each other, and that each of them keeps caches of what the other
one and gdb have.

The modules here are written from the source. Every definition that models code
has an entry in `PROJECT.json` under `map` with the lines it stands for.

## 1. The system

| component | source | state | operations |
|---|---|---|---|
| Control channel | `controllers/gdb_controller.py`, `runtime/handoff_shm.py` | segments `/pkdb_bpupd_<pid>_<seq>`, ack pipe, `update_seq`, `_next_bp_update_seq`, `_bp_update_pending`, signal mask | push a message and wait; note a signal; drain; apply; acknowledge |
| Native debugger sessions | `runtime/debugger.py`, both controllers, `runtime/gdb_attach_helper.py` | `_native_sessions`, `attached`, `last_payload`; the helpers and their gdbs; who holds ptrace | skip, update, detach, reattach or launch at each kernel launch; terminate |
| Breakpoint manager | `core/breakpoint_manager.py` | `breakpoints`, `continue_active`, step mode, Python to C++ mapping | add, remove, clear, enter and leave step mode, load a mapping |
| Helper commands, thread synchronisation | `commands/gdb_commands.py`, `commands/gdb_helpers.py` | the line and the state of every gdb thread | `b d c n s p q`, bring all threads to the same line |
| Accelerator controller | `controllers/accelerator_gdb_controller.py`, `commands/accelerator_commands.py` | the debugger's annotated output, the flags of the attach, the resume that is pending after it | attach, settle, install, resume, hit, fault, update, detach, continue, quit |
| pdb side | `runtime/debugger.py`, `pdb_commands.py`, `helper.py`, `main.py` | anchors, launch trace, `user_breakpoints`, hotswap rules, the default execution space and those of shared policies | call and line events, `b`, `cl`, `hotswap`, `parallel_launch` |
| Expression names and IPC handles | `evaluators/ipc_utils.py`, `evaluators/workunit_arg_mapping.py`, the collection in `debugger.py` | `pkdb_ipc.json` | merge at a launch, look a name up |
| Parallel launcher | `runtime/parallel_launcher.py` | one worker and one queue per kernel of the command | parse, share or copy the arrays, start, join, time out, report |
| CUDA hotswap | `hotswap_cuda/*` | modules and arguments of a device-side hook | `hs_load`, `hs_set_arg`, redirect |
| PyKokkos: lazy tracing and fusion | `pykokkos/core/fusion/*`, `core/runtime.py` | the trace, versions of arrays and their writers, results not computed yet | log a call, look at data, flush, fuse, run |
| PyKokkos: compilation cache | `pykokkos/core/compiler.py`, `cpp_setup.py`, `module_setup.py`; read by `analyzers/runtime_mapping.py` | `pk_cpp` on disk: one `functor.hpp` per kernel, one binary per space; the parsed text and the modules of a process | parse, compile, format, build, import |
| PTY and command line | `controllers/pty_handler.py`, `tty_command_line.py` | terminal mode | forward bytes, edit a line |
| Line mapping, evaluation and printing, performance analysis, properties | `analyzers`, `evaluators`, `translators`, `core/debug_properties.py` | none of their own | translation of text read from gdb |

How they interact. When the traced script enters a `parallel_*`
function, the pdb side promotes its execution space to a Debug space; at an anchor line
of PyKokkos' `Runtime.run_workunit` it collects the kernel's metadata, and at one of
`execute_workunit`, after the compilation, it calls `_launch_native_handoff`. This starts a helper (a subprocess
that writes a *ready file* once its gdb is attached) or pushes a control message to
one that exists: write a shared memory segment, send SIGUSR1, block reading one byte
of the ack pipe. The helper applies the message by a write to gdb and acknowledges.
The debuggee cannot run while gdb has stopped it, so a push made to a helper that is
at its own prompt cannot return: whoever waits for whom is a property of both
sides together.

PyKokkos below it is a program of its own. The two parts of it that pkdb relies on are
modelled: what a kernel was compiled from, since pkdb reads line numbers in the generated text, and when and
in what company a kernel runs, since with `PK_FUSION` a call of the script is not an execution.

What is hard, and which properties answer it (those in parentheses are proved and not part of a run):

* *Ordering and lost wake-ups* of the channel: SIGUSR1 merges and arrives anywhere.
  `AppliedInOrder`, `NoLostWakeup`, `PushReturns` (`SequenceAgreement`).
* *Partial failure*: a helper that dies between applying and acknowledging, a push
  that returns on end of file; builds that fail or are killed; a kernel that raises. `AckMeansApplied`,
  `KernelIsDebugged`, `RefusedOnlyAfterFailure`, `ImportsABinary`, `RunsOnce` (`ReturnMeansApplied`).
* *Mutual exclusion*: one ptrace holder. `OneAttachedSession` (`TracerIsActive`).
* *Liveness*: launches, commands and the end of the run get through. `HandoffEnds`, `RunEnds`,
  both `CommandEnds`, `AttachResumes`, `HitOpensPrompt`.
* *Stale caches*: `last_payload`, `_installed_cpp_locations`, the Python list of
  breakpoints, the trace function of a frame, the compiled kernels. `KernelIsDebugged`, `ExpectedMatches`,
  `ArmedIsMapped`, `LostOnlyToDelete`, `TracedCallsSwapped`, `RunsParsedText`, `LinesAreTheKernels`.
* *State that outlives a launch*: the default space, shared instances of spaces, the launch
  trace, the file of handles. `KernelsAreDebug`, `KindMatches`,
  `HandedIsThisLaunch`, `LocalIsFresh`, `ParameterIsGiven` (`BackendKept`).
* *Interleaving of workers* over arrays of the script. `UnmarkedIsolated`, `ResultsAreTrue`, `NoWorkerLeft`.
* *Interleaving of a debugger's output* with the commands sent to it: stops of an attach, hits, faults and
  interrupts print the same kinds of lines. `HitsAreShown`, `FaultIsLeftStopped`.
* *Threads of the kernel* that are stepped under a lock until they agree. `ContinuedTogether`,
  `CommandEnds`.
* *Execution out of order*: lazy calls, and kernels that are merged. `ReadsProgramOrder`, `LookSeesLastWrite`,
  `NeighboursDoNotRace`.

## 2. The modules

| module | models | state and actions |
|---|---|---|
| `ControlService` | what a control channel promises its caller | a call is issued, served at most once, returned when served or when the server is gone |
| `ControlChannel` | the two ends of the channel, line by line | the pusher: `CreateSegment`, `SizeSegment`, `FillSegment`, `SendSignal`, `ReadAck`, `ReadEOF`; the helper: its loop, `ClearPending`, `MaskSignal`, `ReadMessage`, `DropMessage`, `ApplyMessage`, `AckMessage`, `UnmaskSignal`; the signal (`Interrupt`) at any unmasked point; stops, the prompt, the ends of gdb and helper |
| `NativeSessions` | the sessions of one run, with the channel abstracted to the call of `ControlService` | `ReachLaunch`, the branches of `_launch_native_handoff`, `Serve` on both kinds of controller or `DropPush`, `GdbExits`, `LoopEnds`, `Quit`, deaths of helper and gdb, `Reap`; a prompt in the handoff with `TargetStops`, `UserContinues`, `Released` |
| `Breakpoints` | three keepers of breakpoints in one helper | `InstallSpec` from the debuggee; `b d s c` of the prompt |
| `ParallelLaunch` | one command of several kernels, repeated for ever | modes, sharing, `RunSlot`; `StartChild`, `Join`, `Timeout` of the parent against `KernelWrites`, `KernelEnds`, `ChildCrashes`, `ChildExits` of the workers |
| `KernelHotswap` | hotswap rules against a traced program | `Enter`, `Leave`, `ReachByLine`, `ReachByJump`; `LineEvent` with the three outcomes of a swap, `SwapSkips`, `SwapKeeps` and `SwapFails`; the arguments of a call of several lines; `RunOriginal`; the prompt, also at the return that follows a call (`ResumeAtReturn`) |
| `LaunchTrace` | one launch on the pdb side, and what it leaves to the next | `Enter` (promotion), `MetadataAnchor`, `ExecuteAnchor`, `LaunchFails`, `KernelEnds`; the script's and the user's changes in between |
| `IpcHandles` | the file through which a kernel's expressions find the script's device arrays | `Launch` with `Collect`, `Damaged`, `LaunchEnds`; `Resolved` is what an expression gets |
| `AcceleratorHelper` | the helper of a CUDA or HIP session against an annotated debugger | the debugger: `TakeCommand`, `Settle`, `Interrupt`, and the stops `Hit`, `Fault`, `Exit`; the helper: `ReadAnswer` within an exchange, `InstallBreakpoints`, `ContinueAfterAttach`, `LoopExit`, `LoopHit`, `LoopLine`, `LoopStopped` of its loop, `Push` and the steps of an update; the user's `UserContinue`, `LeavePrompt`, `Quit` |
| `ThreadSync` | `continue` and `step` of the gdb helper before the target is resumed | `Run` of the kernel's threads over a graph of addresses; `Command`, `StepPast`, `AllLeft`, `Synchronized`, `StepBehind`, `Verify`, `KeyboardInterrupt` |
| `KernelFusion` | PyKokkos' tracer and the runtime that empties it | `LogOperation`, `Fill`, `FlushData`, `FlushTrace`, `RunNext`, `RunFails`; `Fuse` is the decision which kernels become one |
| `KernelCache` | `pk_cpp` over several runs, and the lines pkdb reads in it | `Start`, `End`, `Edit`, `Purge`; `Launch`, `Compile`, `Clear`, `WriteFunctor`, `Format`, `Build`, `BuildFails`, `Execute` |
| `MC*` | instances for TLC | kinds, kernels, calls as definitions |
| `*Proofs` | theorems, checked by TLAPS; `DebuggeeProofs` is about `LaunchTrace` and `IpcHandles`, `HelperProofs` about `Breakpoints`, `ThreadSync` and `AcceleratorHelper`, each other one about the component of its name | see section 5 |

The same launch appears in two modules: `LaunchTrace` follows it to the handoff and says
what is handed over, `NativeSessions.ReachLaunch` starts there with any payload
and says what becomes of it. `Breakpoints.Handoff` is the payload's arrival. `KernelCache.Execute` is the
execute anchor, where the mapping of that payload is read. `AcceleratorHelper` is what
`NativeSessions` abstracts to a helper that applies a message, for one helper and line by line; `ThreadSync` is
what happens between a `c` or `s` in `Breakpoints` and the running target.

`NativeSessions` uses the *specification* of the channel. That this is allowed
is the refinement `ControlChannel => ServiceSpec`: checked by TLC as a property and
proved as `ChannelImplementsService`. It is a refinement of safety only. Two weaknesses of the channel are
therefore carried along: a call also returns when the server is gone, whether it was served or not; and a message
whose segment is still empty, or too large for the read, is unlinked unread by a helper that lives on, so that the
call never returns (`torn_update`). The second is `DropPush` in `NativeSessions`, and `HandoffEnds` names the wait that follows from
it (`Waiting`).

## 3. Runs

| run | shows | distinct states |
|---|---|---|
| `control_channel` | order, acknowledgement, wake-ups; the only ways a push can hang; refinement of `ControlService` | 14,214 |
| `native_sessions` | one ptrace holder, kernels start with their breakpoints armed, handoffs end unless a push was dropped or a user holds the debuggee, the end of the run gets through | 101,724 |
| `breakpoints` | the list, the mapping and gdb stay consistent as far as the code promises | 3,344 |
| `parallel_launch` | isolation, reports and the return of the prompt, with and without kernels in the debugger's own process | 17,565 |
| `kernel_hotswap` | one launch per call, where the call can be skipped; a rule is obeyed in every traced frame, with the exceptions that section 4 names | 1,415,528 |
| `launch_trace` | kernels run in Debug spaces, under their backend's debugger, and what is handed over is about the launch in progress | 1,559,200 |
| `ipc_handles` | a name means the array of this launch, where the file can tell | 6,209 |
| `thread_sync` | where the threads are when the target is resumed, and the only states in which a command never ends | 544,806 |
| `accelerator_helper` | what the helper may resume past, and that an attach and a hit get through | 24,277 |
| `kernel_fusion` | lazy and fused execution means what the order of the script means, where the tracer can tell | 165,267 |
| `kernel_cache` | what is imported, of which text it is, whether pkdb's lines are the kernel's | 94,988 |
| `torn_update` | a sentence of the repository that is false: a push to a live helper that is never answered | counterexample |

Bounds. Three pushes: after the first the two counters differ by what one push can do,
the second can be torn by the drain of the first, the third sees the damage; messages are
small or oversized. Three helpers and one failure: each kind can have its helper, and one
of them can be replaced after a failure while the other lives; two helpers of one
kind never coexist otherwise. One breakpoint is enough for `NativeSessions`, which only
compares payloads for equality; the two that matter (with it, without it) exist.
Two files that share a line number let `d` clear more than was set. Two slots and seven
sorts of kernels contain each way of sharing an array. Calls of one and of two lines, in
two files, that a jump can skip or not, two of them on adjacent lines of one function; stack depth two, one failed swap of a call (with two, 3,012,008 states, the same properties hold),
one rule at a prompt that runs a target again. Two backends with a Debug space and one
without, one of them an accelerator, with shared instances and one of a team policy's own:
promotion can move between any two of them. Three names, two arrays and four calls, two of
them on one line and with the names exchanged, so that a name can be a variable, a parameter
or both. A kernel of five addresses with a branch, a loop of one
trip, a barrier and two breakpoints, and three threads of which any range can be named, ids of no thread included: the
threads behind the highest can themselves be apart. The attach settles
in one or two stops (a second is what the hypothesis `settles <= 1` is about), two hits, one fault, one message: with
three stops and hits and two faults and messages (174,768 states) the same properties hold. Programs of three calls, out
of eleven kernels over two arrays and a subview, one of which stores at an index that the other array holds: a chain of dependencies through an operation that is not looked at
needs three, a group that ends in its middle needs three. Three spaces, two of them Debug ones, and one edit:
what another space did to `functor.hpp` and what an edit did to it are then told apart.

`CHECK_DEADLOCK` is off only where the system ends: a helper that is gone in `ControlChannel` and
`AcceleratorHelper`, the end of the run in `NativeSessions`, and
in `ThreadSync` the end of the session by Ctrl-C, a barrier at which the other threads are locked, and the waits that
`CommandEnds` names.

Fairness. Weak fairness of each process' own steps (the loop of a helper, the Python code
of the debuggee, the parent of the workers, a command that synchronises threads, the debugger that takes the commands
written to it): each is a thread of an operating system
that is scheduled for ever. No fairness for the user, for failures, for gdb stops, for a
target that hits, faults or exits, and for a kernel in a worker, which may run for ever. A handoff ends because the helper's step is
taken, unless there is none to take: a push that the helper has dropped is answered by nobody, and a debuggee that
stands at a prompt waits for a user. Nothing is assumed of the helper's health, its death releases the pusher by end of
file. The 30 s time-out of `parallel_launch` is modelled by its condition: it fires only if the
kernel still runs or the worker is blocked, never because a finished worker was slow to exit.

## 4. Where code and text disagree

`torn_update` is a run, with the quoted line in `PROJECT.json`. The reader of the channel looks for message N+1 as soon as it
has acknowledged N. The writer creates a segment under its final name and fills it
afterwards. A look in between consumes the message; the debuggee waits for ever.

The other observations are in the models as the code has them: they are what the hypotheses of the properties
exclude, and no run of their own.

*Sessions, breakpoints, workers.* A reattach that reaches an accelerator helper between its
detach and its end is acknowledged although it reached no gdb. `b` and `d` at the prompt delete a location the debuggee
installed; the next update skips it because `_installed_cpp_locations` still has it. By default device kernels of
`parallel_launch` get the script's own arrays, which the report calls a host copy. The parent joins a worker before it reads its
queue, so a result larger than the pipe ends as a kernel that timed out.

*Accelerator helper.* If the attach settles in two stops, each of them sends an exec-continue, and the second
resumes past a hit or a fault that came in between. A fault while the helper is still installing breakpoints is dropped
with the rest of that output and the target is resumed, though `accelerator_gdb_controller.py:436` says "real fault:
leave it stopped". The wait for the prompt after an interrupt looks at nothing else, so a hit that
an update overtakes is never shown. A line that says the target exited is lost the same way, and the helper then waits
for output that does not come.

*Hotswap.* The docstring (`pdb_commands.py:264-267`) promises that a call with a rule is executed with the target "instead"
and the rest of it skipped. The skip is an assignment to `f_lineno`, and it is given up without a word when no line of bytecode follows the
call in its function (`pdb_commands.py:73-74`) or when Python refuses the jump (79-80). The target then runs, for a call of several
lines twice, and the original after it; the swap still counts as done (`SwapKeeps`). Up to CPython 3.11 the line that a jump arrives at
gets no line event, so of two swapped calls on adjacent lines the second runs unswapped (`ReachByJump`). A rule given at
the return that follows a call runs its target once more. These are the exceptions in `OneLaunchPerCall` and
`TracedCallsSwapped`. The jump goes to the next line in the order of the text, which
can leave a loop early or enter an `else` branch; no property is about that.

*Synchronised threads.* `gdb_commands.py:169-176` means to detach at the last breakpoint, but nothing assigns the
`_attached_mode` it asks for: the branch is never taken and `Verify` always resumes. `gdb_helpers.py:863` says "so we will continue only part of threads", but the resume
is that of the whole target; the range only chooses who is synchronised. An exception or Ctrl-C in a command leaves
scheduler-locking on. If gdb calls a `nexti` done, the threads are polled and not stepped again: threads that one
instruction has not brought together are waited for without end (the last two disjuncts of `CommandEnds`).

*Fusion.* `pykokkos/docs/fusion.rst:11-14` calls it automatic and transparent. The tracer keeps dependencies from a
reader to the last writer only: an operation that overwrites what a pending one has yet to read, or that writes
without reading, may run first. What a kernel is taken to read and write is what `access_modes.py` makes of its text, and that is not always what
it does: in `x[idx[i]] = v` or `x[idx[i]] += v` the inner subscript gets the context of the outer one (64-66), so `idx` is
recorded as written and not as read. Such a kernel does not wait for the one that computes `idx`, and is taken for the writer of a
new version, so that a look at `idx` may run it and leave the real writer in the trace. `Reads` and `Writes` are what the tracer
records, `Loads` and `Stores` what the kernel does, and the arrays for which the two are not told apart are those of `Blind`, the exception
of `ReadsProgramOrder` and `LookSeesLastWrite`. `View.fill` of the script does not flush
what is pending on the view. `fuse_naive` may call `fuse_operations([])`, which raises when, at a look, the operations
have left the trace already; after a kernel that raises in `flush_trace` the trace still has the operations that ran. Subviews are
compared by object, a constant index passes for a thread's own, and only the last text of a
subscript is kept: `Plain` in `NeighboursDoNotRace` names what is then not told apart.

*Compiled kernels.* `breakpoint_manager.py:354` wants breakpoints to match "the kernel pkdb actually runs". All spaces of a kernel share
`functor.hpp` and only Debug spaces are formatted: once another space is compiled, the lines of a
binary that is kept are those of another text (the exception in `LinesAreTheKernels`). A binary is known by its path alone, so a run
after an edit of the script executes the text of an earlier one (`found` in `RunsParsedText`).

*Smaller ones.* A segment longer
than `_BP_UPDATE_MAX_BYTES` is consumed and never acknowledged (`DropMessage`, allowed by
`PushReturns` and named by `HandoffEnds`); a detached accelerator helper ends, so it is launched
again though `debugger.py:79` says launched at most once; `b` lists a line that
no mapping has yet and nothing arms it later (`Break`), and `d all` deletes nothing in gdb
(`DeleteAll`); a hotswap rule for an inner line of a call applies only while some global rule
exists, and rules do not reach frames that were entered untraced (`Considered`, `Enter`); promotion changes the default space for good, so an integer launch after
one with an explicit policy runs on that policy's backend (`Promote`); a user breakpoint on an anchor line
switches handoffs off and cannot be cleared (`BreakAtAnchor`); a parameter whose name a variable of any earlier
launch had is resolved to that variable's array, and a call that shares its line with another may get the
other's map (`Resolved`, `FoundOnLine`; the hypotheses of `ParameterIsGiven`).

## 5. Proofs

| theorem | says |
|---|---|
| `ChannelInvariance` | `ChannelInv` is an invariant: the histories and both counters agree (`HistoryInv`), only the segment under push exists and is as far as its pusher (`SegmentInv`), the helper is at that message or one past it (`PhaseInv`), and a full segment has a pending flag, a pending signal or a drain that will see it (`NoLostWakeup`) |
| `TypeCorrect`, `OrderCorrect`, `AckCorrect`, `AgreementCorrect`, `WakeupCorrect`, `ReturnCorrect` | the parts of it the runs check |
| `ChannelImplementsService` | `ControlChannel` implements `ControlService` |
| `SessionsInvariance`, `SessionTypes`, `OneAttached`, `TracerCorrect` | `SessionsInv` and the mutual exclusion it is made for |
| `DebugInvariance`, `KernelsAreDebugged`, `RefusalNeedsFailure` | `DebugInv`, which follows a payload from its launch to the gdb that holds the debuggee; `KernelIsDebugged` and `RefusedOnlyAfterFailure` |
| `BreakpointsInvariance`, `ExpectedCorrect`, `MappedCorrect`, `LossCorrect` | `BreakpointsInv`, what `compare_with_expected` compares, and what may disarm a breakpoint |
| `LaunchInvariant`, `KernelsAlwaysDebug`, `BackendsKept`, `KindsMatch`, `HandedIsAlwaysThisLaunch` | `LaunchInv` (instances only move to the Debug space of their own backend; trace and kind are those of the launch) and the four properties of a launch |
| `IpcInvariant`, `IpcTypeCorrect`, `LocalsAreFresh`, `ParametersAreGiven` | what a name means while a kernel runs, for every script |
| `CommandInvariant`, `NoWorkerSurvives`, `ReportsAreTrue`, `SpawnIsolates` | `parallel_launch`: the invariant of the parent and its workers, and the three safety properties of the run |
| `HotswapInvariant`, `TypeCorrect`, `OneLaunch`, `RulesAreObeyed` | the invariant of the calls under way and both properties of the run, whether or not calls can be skipped; the type invariant, which needs that among the lines with a rule there is a last one (well-foundedness of the naturals) |
| `CacheInvariant`, `ImportSucceeds`, `RunsWhatItParsed`, `ReadsTheKernelsLines` | the invariant of `pk_cpp` and the three properties of the run |
| `FusionInvariant`, `FusionTypeCorrect`, `ReadsInProgramOrder`, `LooksSeeLastWrites`, `EveryCallRunsOnce`, `FusedNeighboursDoNotRace` | `FusionInv`, and the four properties of lazy execution for every program, whatever the tracer records of its kernels, both strategies and every flush |
| `SyncInvariance`, `ResumesTogether` | `SyncInv`, and where the threads are when the target is resumed, for every control flow |
| `AccInvariance`, `ShowsHits`, `LeavesFaultsStopped` | `AccInv`, which relates the commands under way, the lines not yet read and the target, and what the helper may resume past |

`KernelsAreDebug` is not inductive: it needs that a shared Debug instance stays a Debug one
(the integer launch takes the instance of the default space) and that the launch's own
space was promoted at the entry. `HandedIsThisLaunch` needs the trace of the launch
at the metadata anchor, whatever trace an abandoned launch had left. The choice of the first
call on a line is resolved by `AloneParsed`: a call alone on its line is the one found.

`OneAttachedSession` alone is not inductive: it says nothing while a handoff is under way.
`ActiveInv` tells for each point of the handoff which sessions are active, `HelperInv`
that helpers are numbered in launch order and only the last starts, and `TracerInv` that
the live helper that traces is active or about to be.

`KernelIsDebugged` speaks of one moment, the start of a kernel. `DebugInv` says the same of every moment before it:
what an attached session was last given is armed in its gdb (except while a detach is under way, when the
gdb has let go and the session does not know it yet); a served push has armed the payload of the launch; and helpers and gdbs live and die
together, so that a gdb that cannot be reached belongs to a failure. A launch that skips the update relies on
the first of these, which is why the comparison with `last_payload` is sound.

`NoWorkerLeft` and `ResultsAreTrue` need that where the parent is tells which workers there are (`WorkersInv`), that
no slot has a report before its worker is over (`ReportsInv`) and no outcome before its kernel has ended (`EndedInv`);
`UnmarkedIsolated` that a kernel touches only what its slot shares with the script (`TouchInv`). `OneLaunchPerCall` needs
to know of a call still under way that it has launched one target for each swap that did not skip it and no more than one for each that
raised, and that a call with the former cannot be skipped (`LaunchesInv`); `TracedCallsSwapped`
that a traced call that waits to run its original, that no swap has tried and no jump has led to, has no rule now (`UnruledInv`),
also after the prompt gave it one.

`LinesAreTheKernels` needs to hold while a build is under way, when `functor.hpp` has no binary yet: the stages of a
compilation tell what text is on disk (`StageInv`), a module that a process has loaded is the binary on disk, which no build
replaces (`LoadedInv`), and a binary differs from `functor.hpp` only if another space has written it since (`TouchedInv`).

`ReadsProgramOrder` and `RunsOnce` speak of operations that have run; what makes them so is what the tracer knew before.
`VersionsInv` and `DependenciesInv` say what a call is logged with: versions of an array name its writers in the order of
the calls, and the dependencies of an operation are earlier ones with the last traced write of each array it is recorded to read among
them. `PlanInv` is about what a flush takes out of the trace: it is in the order of the calls within a group and from
group to group, and neighbours in a group passed `is_safe_to_fuse`, which gives `NeighboursDoNotRace`. `FlushInv` joins
the two: nothing planned waits for an operation that is still traced, nothing has run before what it waits for, and each array
is as the last of its writers that ran left it. The last part is claimed only of arrays of which every call that uses them is recorded
as a reader (not `Blind`): those are the ones the tracer orders, and the rest is the exception the properties make. The writers of such an array
each wait for the one before, and so run in order (`WritersInOrder`), again by a least counterexample and without an induction. That `get_operations` collects
everything an operation waits for is proved without an induction over the trace (`NeededClosed`): of the operations for which it fails
a least one would exist, and what that one waits for is smaller. `Needed` and the fold in `Fuse` are recursive functions: the lemmas first
show that such a function exists on the domain and then use its equation.

`ContinuedTogether` is inductive only with the thread that hit the breakpoint in view: from its stop on, through every step of the
command, it is not before the breakpoint or a loop has led some thread back, and the lock is held (`SyncInv`).

`HitsAreShown` and `FaultIsLeftStopped` look at one moment, when the debugger takes a command the helper wrote some steps
before. `SentInv` says of every command under way that its sender's reason still holds: a resume after
the attach is under way only while the latest stop is no hit and no fault, a continue of the user only while the hit it answers
is the latest stop, at most one exec-continue is under way and none while the target runs. A stop could break it only if the helper
sent on a stop that is out of date, so the rest of `AccInv` says what the helper can learn from the lines it
has not read: `ResumeInv`, that while the target runs an accepted resume, a hit, a fault or an exit comes before any stop line the loop
would answer with a resume; `HitInv`, that an unread hit is where the target is; `AttachInv`, that before the first stop by a
signal the flags of the attach are off and nothing was sent. All of this is for an attach that settles in one stop, as the
properties are: at a second one the first resume may be under way, and TLC shows that they fail then.

The proofs hold for every set of kinds, breakpoints, messages, kernels, calls, programs, control flows, rules and spaces, every
number of helpers, threads, workers, operations, stops, failures, edits and pushes. They assume only the named
`ASSUME`s of the modules.

Only model-checked: the liveness properties (fairness is out of TLAPS' reach), `PushReturns`, `HandoffEnds`, `RunEnds`, the two `CommandEnds`, `AttachResumes` and `HitOpensPrompt`. Every invariant and every action property
that a passing run checks is a theorem. What `Fuse` computes as a whole, a fold over the trace, is used through what one unfolding
of it says; that the result is the longest fusion is not claimed. TLC also checks `ChannelInv` and `SessionsInv` themselves.

## 6. Not modelled

* In `ControlChannel`: the window in which CPython loses a signal that arrives while
  a handler is about to be re-entered; the kinds of messages (one name each); gdb dying during the
  apply; the `ValueError` path of a zero-length map.
* In `NativeSessions`: the window between end of file and `poll()` reporting the exit; HIP, whose
  helper differs from CUDA's in its annotations only.
* In `ParallelLaunch`: parsing, policy recipes and names. Whether device kernels run in the debugger's own process is chosen at the start; those are taken
  to end. The kernels of the run are representatives, not all specifications.
* In `KernelHotswap`: one kernel name per call, the prompt at the innermost frame (`up` and `down` choose another one for
  `hotswap`), a stop inside the function that a call enters, the return of the script itself. Whether a jump can skip a call is a
  constant of the call. A swapped block
  is executed inside the trace function, so it reaches no anchor and no helper.
* In `Breakpoints`: the parsing of functors. The helper's `all_locs` is empty in every start
  the repository makes, so step mode is reached through the constructor's parameter.
* In `LaunchTrace` (where the space of an `MDRangePolicy`, a field of its own, is like a team policy's): launches without `args` positions pkdb can unwrap, launches nested in a launch, anchors that the user removes (`cl` with
  their number, or a bare `cl`, after which no launch is handed over), calls that are traced for fusion and the Python Debug space, which do not
  reach the anchors. That an integer gets the shared instance of the default space is PyKokkos'
  (`handle_args`), external here.
* In `IpcHandles`: two runs of pkdb at once over the one file, the handle's own life (an array
  freed while its handle is in the file), arrays that are not CuPy's.
* In `AcceleratorHelper`: the printed context and the commands that only show something; the number and wording of
  the lines between two annotations; a reattach, which is in `NativeSessions`. cuda-gdb and rocgdb are external: which lines they
  print for a stop is taken from what the helper looks for.
* In `ThreadSync`: gdb is external, with its two answers to a `nexti`; a thread that ends; a signal or a breakpoint hit during a
  `nexti`. The addresses are in the order of the lines, which an optimising compiler need not keep.
* In `KernelFusion`: the renaming of arguments and the building of the fused syntax tree, the optimisations
  inside one kernel, arrays that are not views. Only the accesses of a kernel
  matter, not what it computes.
* In `KernelCache`: one kernel; which directory is chosen; two processes at once over `pk_cpp` (nothing locks it); copies of a
  module for several devices; the parsing of the markers in the generated text.
* Not modelled at all: CUDA hotswap (`hotswap_cuda`: a device-side prototype that shares no state with
  the debugger), formatting, text translation and expression evaluation, performance analysis, debug properties, the terminal, the parsers,
  translators and type inference of PyKokkos and its universal functions, the benchmarks and examples: functions from text or
  syntax trees to text, pure I/O, or not the debugger's code. They are most of the lines of the
  repository and keep next to no state that survives a call.

## 7. Plan

1. `CudaHotswap`: `hs_load`, `hs_set_arg`, the redirect breakpoint and the arguments that stay. Property: a
   redirected launch is run with the arguments of its own setting.
2. `Algorithms`: array slices in chunks, markers, variable names, against reference definitions, one run for all of them.
3. Two processes over one `pk_cpp`, in `KernelCache`.
4. An abstract specification of eager execution, and `KernelFusion` as an implementation of it where no call is blind to an array.
