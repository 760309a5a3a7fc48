---------------------------- MODULE Breakpoints ----------------------------
(***************************************************************************)
(* The breakpoints of one attach helper, as its three keepers see them:    *)
(*                                                                         *)
(*   BreakpointManager    the Python lines the user set at the prompt      *)
(*   GDBController        the C++ locations handed over by the debuggee    *)
(*   gdb                  the C++ locations that really stop the kernel    *)
(*                                                                         *)
(* A C++ location is one line of a kernel's functor, written with the      *)
(* Python file and line its PY_LINE_MARKER names.  The debuggee's payload  *)
(* carries every location it knows, so the mapping only grows.             *)
(***************************************************************************)
EXTENDS FiniteSets

CONSTANTS
  Files,   \* Python source files
  Script,  \* the one the helper was started for: `b` means a line of it
  Lines,   \* line numbers
  Kernels, \* workunits, each with a functor of its own
  AllLocs  \* the all_locs argument of GDBController; attach helpers get none

ASSUME ScriptAssumption == Script \in Files
ASSUME AllLocsAssumption == AllLocs \subseteq Lines

Locations == [file : Files, line : Lines, kernel : Kernels]

VARIABLES
  mapping,          \* _python_to_cpp: the locations known so far
  continueActive,   \* BreakpointManager.continue_active
  breakpoints,      \* BreakpointManager.breakpoints
  stepMode,         \* BreakpointManager._step_mode
  installed,        \* GDBController._installed_cpp_locations
  gdb               \* the locations gdb has a breakpoint at

managerVars == <<continueActive, breakpoints, stepMode>>
vars == <<mapping, managerVars, installed, gdb>>

Init ==
  /\ mapping = {}
  /\ continueActive = {}
  /\ breakpoints = {}
  /\ stepMode = FALSE
  /\ installed = {}
  /\ gdb = {}

\* get_cpp_locations, with and without a source file.
LocationsIn(file, line) == {l \in mapping : l.file = file /\ l.line = line}
LocationsOf(line) == {l \in mapping : l.line = line}

\* _update_cpp_breakpoints inserts and never deletes.
Update(lines) == gdb' = gdb \cup UNION {LocationsOf(line) : line \in lines}

-----------------------------------------------------------------------------
(* The debuggee's specs.                                                   *)

Enabled(locations, python) == {l \in locations : <<l.file, l.line>> \in python}

\* apply_handoff_cpp_to_python merges, whatever was known before.
Learn(known) == mapping' = mapping \cup known

\* Mutant of InstallSpec: the locations are inserted, the mapping is not kept.
InstallSpecUnmapped(known, python) ==
  LET fresh == Enabled(known, python) \ installed IN
  /\ installed' = installed \cup fresh
  /\ gdb' = gdb \cup fresh
  /\ UNCHANGED <<mapping, managerVars>>

\* Mutant of InstallSpec: what is no longer enabled is deleted.
InstallSpecReplace(known, python) ==
  /\ Learn(known)
  /\ installed' = Enabled(known, python)
  /\ gdb' = (gdb \ installed) \cup Enabled(known, python)
  /\ UNCHANGED managerVars

\* _install_breakpoint_spec: locations this helper installed before are skipped.
InstallSpec(known, python) ==
  LET fresh == Enabled(known, python) \ installed IN
  /\ Learn(known)
  /\ installed' = installed \cup fresh
  /\ gdb' = gdb \cup fresh
  /\ UNCHANGED managerVars

\* build_complete_handoff_payload: every location the debuggee ever knew, and the
\* Python lines it has enabled.
Handoff ==
  \E known \in SUBSET Locations, python \in SUBSET (Files \X Lines) :
    mapping \subseteq known /\ InstallSpec(known, python)

-----------------------------------------------------------------------------
(* The commands of the prompt.                                             *)

\* Mutant of Break: the line is listed in step mode too.
BreakAlwaysLists(line) ==
  /\ line \notin continueActive
  /\ continueActive' = continueActive \cup {line}
  /\ breakpoints' = breakpoints \cup {line}
  /\ gdb' = gdb \cup LocationsIn(Script, line)
  /\ UNCHANGED <<mapping, stepMode, installed>>

\* b: the line is recorded even when no location of it is known yet.
Break(line) ==
  /\ line \notin continueActive
  /\ continueActive' = continueActive \cup {line}
  /\ breakpoints' = IF stepMode THEN breakpoints ELSE breakpoints \cup {line}
  /\ gdb' = gdb \cup LocationsIn(Script, line)
  /\ UNCHANGED <<mapping, stepMode, installed>>

\* d <line>: every file's locations of that line number are cleared.
Delete(line) ==
  /\ line \in continueActive
  /\ continueActive' = continueActive \ {line}
  /\ breakpoints' = IF stepMode THEN breakpoints ELSE breakpoints \ {line}
  /\ gdb' = IF stepMode THEN gdb ELSE gdb \ LocationsOf(line)
  /\ UNCHANGED <<mapping, stepMode, installed>>

\* d all.
DeleteAll ==
  /\ continueActive' = {}
  /\ breakpoints' = IF stepMode THEN breakpoints ELSE {}
  /\ UNCHANGED <<mapping, stepMode, installed, gdb>>

\* s: set_continue_active(all_locs), then enter_step_mode.
Step ==
  /\ AllLocs # {}
  /\ stepMode' = TRUE
  /\ continueActive' = IF stepMode THEN AllLocs ELSE breakpoints
  /\ breakpoints' = AllLocs
  /\ Update(AllLocs)
  /\ UNCHANGED <<mapping, installed>>

\* c: exit_step_mode.
Continue ==
  /\ stepMode
  /\ stepMode' = FALSE
  /\ breakpoints' = continueActive
  /\ Update(continueActive)
  /\ UNCHANGED <<mapping, continueActive, installed>>

Next ==
  \/ Handoff
  \/ \E line \in Lines : Break(line) \/ Delete(line)
  \/ DeleteAll
  \/ Step
  \/ Continue

Spec == Init /\ [][Next]_vars

-----------------------------------------------------------------------------
(* Properties *)

TypeOK ==
  /\ mapping \subseteq Locations
  /\ continueActive \subseteq Lines
  /\ breakpoints \subseteq Lines
  /\ stepMode \in BOOLEAN
  /\ installed \subseteq Locations
  /\ gdb \subseteq Locations

\* compare_with_expected never finds a difference: whatever mix of commands,
\* in and out of step mode, the list is the one the mode calls for.
ExpectedMatches == breakpoints = IF stepMode THEN AllLocs ELSE continueActive

\* Every stop can be shown as a Python line: gdb has breakpoints only at
\* locations whose Python file and line this helper knows.
ArmedIsMapped == gdb \cup installed \subseteq mapping

\* A breakpoint leaves gdb only when the user deletes a line number she set:
\* no update, step or continue disarms what the debuggee handed over.
LostOnlyToDelete ==
  [][\A l \in gdb \ gdb' : l.line \in continueActive \ continueActive']_vars

BreakpointsInv == TypeOK /\ ExpectedMatches /\ ArmedIsMapped
=============================================================================
