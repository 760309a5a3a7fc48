------------------------------ MODULE KernelCache ------------------------------
(***************************************************************************)
(* pk_cpp, the directory where PyKokkos keeps what it has compiled, and    *)
(* the lines pkdb reads in it.  A kernel has one bundle: functor.hpp, and  *)
(* beside it a directory per execution space with the binary built from    *)
(* it.  For a debug space functor.hpp is reformatted, which moves lines.   *)
(* What is compiled stays from run to run and is known by its path alone.  *)
(*                                                                         *)
(* One kernel, one process at a time; it may end or be killed anywhere.    *)
(***************************************************************************)
EXTENDS Naturals

CONSTANTS
  Spaces,
  DebugSpaces,  \* is_debug_execution_space
  None,
  MaxVersion    \* bound on the versions of the script

ASSUME SpacesAssumption == DebugSpaces \subseteq Spaces
ASSUME MaxVersionAssumption == MaxVersion \in Nat \ {0}

\* What functor.hpp may hold.
Functors == [version : 1 .. MaxVersion, formatted : BOOLEAN]

ASSUME NoneAssumption == None \notin Functors

VARIABLES
  script,   \* version of the script on disk
  functor,  \* functor.hpp: version and formatting, or None
  binary,   \* per space, the functor.hpp its kernel.so was built from, or None
  at,       \* "down", "python", "compile", "clear", "write", "format", "build", "import"
  space,    \* of the launch under way
  pkdb,     \* the process runs under the debugger
  text,     \* the version in parser_cache; 0 for none
  loaded,   \* sys.modules: per space the binary imported, or None
  found,    \* spaces that had a binary when the process started
  touched,  \* per space, the spaces for which functor.hpp was written since its binary was built
  ran       \* the launch just made: space, binary, functor.hpp read by pkdb, parsed text

diskVars == <<functor, binary>>
processVars == <<pkdb, text, loaded, found>>
vars == <<script, diskVars, at, space, processVars, touched, ran>>

TypeOK ==
  /\ script \in 1 .. MaxVersion
  /\ functor \in Functors \cup {None}
  /\ binary \in [Spaces -> Functors \cup {None}]
  /\ at \in {"down", "python", "compile", "clear", "write", "format", "build", "import"}
  /\ space \in Spaces
  /\ pkdb \in BOOLEAN
  /\ text \in 0 .. MaxVersion
  /\ loaded \in [Spaces -> Functors \cup {None}]
  /\ found \subseteq Spaces
  /\ touched \in [Spaces -> SUBSET Spaces]
  /\ ran \in [space : Spaces, binary : Functors, functor : Functors \cup {None}, text : 1 .. MaxVersion] \cup {None}

Init ==
  /\ script = 1
  /\ functor = None /\ binary = [s \in Spaces |-> None]
  /\ at = "down" /\ space \in Spaces /\ pkdb = FALSE
  /\ text = 0 /\ loaded = [s \in Spaces |-> None] /\ found = {}
  /\ touched = [s \in Spaces |-> {}]
  /\ ran = None

-----------------------------------------------------------------------------
(* The user and the process.                                               *)

\* The script is edited, between runs or while one is stopped.
Edit ==
  /\ at \in {"down", "python"} /\ script < MaxVersion
  /\ script' = script + 1
  /\ UNCHANGED <<diskVars, at, space, processVars, touched, ran>>

\* rm -rf pk_cpp, as the tests do.
Purge ==
  /\ at = "down"
  /\ functor' = None
  /\ binary' = [s \in Spaces |-> None]
  /\ touched' = [s \in Spaces |-> {}]
  /\ UNCHANGED <<script, at, space, processVars, ran>>

Start ==
  /\ at = "down"
  /\ at' = "python"
  /\ pkdb' \in BOOLEAN
  /\ text' = 0
  /\ loaded' = [s \in Spaces |-> None]
  /\ found' = {s \in Spaces : binary[s] # None}
  /\ ran' = None
  /\ UNCHANGED <<script, diskVars, space, touched>>

\* The process ends, or is killed between two steps.
End ==
  /\ at # "down"
  /\ at' = "down"
  /\ ran' = None
  /\ UNCHANGED <<script, diskVars, space, processVars, touched>>

-----------------------------------------------------------------------------
(* A launch: execute_workunit.                                             *)

\* Mutant of Launch: the script is parsed at each launch.
LaunchParsed(s) ==
  /\ at = "python"
  /\ pkdb => s \in DebugSpaces
  /\ space' = s
  /\ text' = script
  /\ at' = "compile"
  /\ ran' = None
  /\ UNCHANGED <<script, diskVars, pkdb, loaded, found, touched>>

\* get_parser keeps the first text it has read; pkdb has promoted the space.
Launch(s) ==
  /\ at = "python"
  /\ pkdb => s \in DebugSpaces
  /\ space' = s
  /\ text' = IF text = 0 THEN script ELSE text
  /\ at' = "compile"
  /\ ran' = None
  /\ UNCHANGED <<script, diskVars, pkdb, loaded, found, touched>>

\* Mutant of IsCompiled: the answer is remembered for the bundle.
IsCompiledBundle == functor # None

\* CppSetup.is_compiled; is_compiled_cache never overrides a missing file.
IsCompiled == binary[space] # None

\* compile_object and compile_entity: the binary's existence decides.
Compile ==
  /\ at = "compile"
  /\ at' = IF IsCompiled THEN "import" ELSE "clear"
  /\ UNCHANGED <<script, diskVars, space, processVars, touched, ran>>

\* initialize_directory: the space's directory is removed and made.
Clear ==
  /\ at = "clear"
  /\ binary' = [binary EXCEPT ![space] = None]
  /\ at' = "write"
  /\ UNCHANGED <<script, functor, space, processVars, touched, ran>>

\* write_source: into the parent of the space's directory.
WriteFunctor ==
  /\ at = "write"
  /\ functor' = [version |-> text, formatted |-> FALSE]
  /\ touched' = [s \in Spaces |-> touched[s] \cup {space}]
  /\ at' = IF space \in DebugSpaces THEN "format" ELSE "build"
  /\ UNCHANGED <<script, binary, space, processVars, ran>>

\* write_raw_source: clang-format, for a debug space; that it is missing is only printed.
Format ==
  /\ at = "format"
  /\ functor' \in {functor, [functor EXCEPT !.formatted = TRUE]}
  /\ at' = "build"
  /\ UNCHANGED <<script, binary, space, processVars, touched, ran>>

\* Mutant of Build: the functor is formatted after the build.
BuildThenFormat ==
  /\ at = "build"
  /\ binary' = [binary EXCEPT ![space] = [functor EXCEPT !.formatted = FALSE]]
  /\ touched' = [touched EXCEPT ![space] = {}]
  /\ at' = "import"
  /\ UNCHANGED <<script, functor, space, processVars, ran>>

\* invoke_cmake.
Build ==
  /\ at = "build"
  /\ binary' = [binary EXCEPT ![space] = functor]
  /\ touched' = [touched EXCEPT ![space] = {}]
  /\ at' = "import"
  /\ UNCHANGED <<script, functor, space, processVars, ran>>

\* It calls sys.exit, which a slot in the debugger's process catches: the run goes on.
BuildFails ==
  /\ at = "build"
  /\ at' = "python"
  /\ UNCHANGED <<script, diskVars, space, processVars, touched, ran>>

\* The execute anchor, where pkdb reads the markers of the bundle, then import_module.
Execute ==
  /\ at = "import"
  /\ LET module == IF loaded[space] = None THEN binary[space] ELSE loaded[space] IN
       /\ module # None
       /\ loaded' = [loaded EXCEPT ![space] = module]
       /\ ran' = [space |-> space, binary |-> module, functor |-> functor, text |-> text]
  /\ at' = "python"
  /\ UNCHANGED <<script, diskVars, space, pkdb, text, found, touched>>

Next ==
  \/ Edit \/ Purge \/ Start \/ End
  \/ \E s \in Spaces : Launch(s)
  \/ Compile \/ Clear \/ WriteFunctor \/ Format \/ Build \/ BuildFails \/ Execute

Spec == Init /\ [][Next]_vars

-----------------------------------------------------------------------------
(* Properties.                                                             *)

\* What is imported is there, after failed and killed builds of this and of other spaces.
ImportsABinary == at = "import" => loaded[space] # None \/ binary[space] # None

\* A launch runs the text its process has parsed, however the script is edited meanwhile,
\* or a binary that was there when the process started (stale when no one removed it).
RunsParsedText ==
  ran # None /\ ran.space \notin found => ran.binary.version = ran.text

\* The functor.hpp in which pkdb finds the lines of a kernel is the one the kernel was
\* built from, unless another space of the kernel was compiled since: a build that failed
\* or was killed leaves no older binary beside the new text.
LinesAreTheKernels ==
  pkdb /\ ran # None /\ ran.functor # ran.binary => touched[ran.space] \ {ran.space} # {}
=============================================================================
