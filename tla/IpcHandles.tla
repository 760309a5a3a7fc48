----------------------------- MODULE IpcHandles -----------------------------
(***************************************************************************)
(* pkdb_ipc.json: at every parallel_* launch the debuggee merges the IPC   *)
(* handles of its caller's device arrays into one file, with the map from  *)
(* the kernel's parameters to the caller's names that it reads off the     *)
(* source line; the helper looks a name of an expression up there.  The    *)
(* file has a fixed name and outlives the run that wrote it.               *)
(***************************************************************************)
EXTENDS Naturals, FiniteSets

CONSTANTS
  Names,   \* names of the caller's variables and of the kernels' parameters
  Arrays,  \* device arrays
  NoArray, \* no array, or no parameter of that name
  Expr,    \* an argument that is an expression, not a name
  Calls,   \* the calls of the script, in the order of the source
  line     \* the line each of them is on

ArgMaps == [Names -> Names \cup {NoArray, Expr}]

ASSUME NoArrayAssumption == NoArray \notin Arrays \cup Names /\ Expr \notin Names \cup {NoArray}
ASSUME CallsAssumption == Calls \subseteq [place : Nat, args : ArgMaps]
ASSUME LineAssumption == line \in [Calls -> Nat]

ArraysOrNone == Arrays \cup {NoArray}
NoArrays == [n \in Names |-> NoArray]
NoMap == [n \in Names |-> NoArray]
ParamMaps == [Names -> Names \cup {NoArray}]

VARIABLES
  at,       \* "script", or "kernel": stopped in it, with expressions evaluated
  call,     \* the call of the launch
  locals,   \* the device arrays of its caller, by name
  given,    \* the arrays its parameters are
  taken,    \* the names whose handle was taken at this launch
  entries,  \* the file: the array behind the handle of each name
  paramMap  \* and the caller's name of each parameter

callVars == <<call, locals, given, taken>>
fileVars == <<entries, paramMap>>
ipcVars == <<at, callVars, fileVars>>

\* Launches of an earlier run leave the file as those of this one do.
IpcInit ==
  /\ at = "script"
  /\ call \in Calls
  /\ locals = NoArrays /\ given = NoArrays /\ taken = {}
  /\ entries = NoArrays
  /\ paramMap = NoMap

\* What the arguments of call c may be, with these arrays in the caller's names.
Given(c, arrays) ==
  {g \in [Names -> ArraysOrNone] :
     \A p \in Names :
       /\ c.args[p] = NoArray => g[p] = NoArray
       /\ c.args[p] \in Names => g[p] = arrays[c.args[p]]}

\* The first of the parallel_* calls on the line of a call.
FoundOnLine(c) ==
  CHOOSE d \in Calls : line[d] = line[c] /\
    \A e \in Calls : line[e] = line[c] => d.place <= e.place

\* The arguments of the call found that are names.
ParsedMap(c) ==
  [p \in Names |-> IF FoundOnLine(c).args[p] \in Names THEN FoundOnLine(c).args[p] ELSE NoArray]

\* Mutant of Collect: what the file has wins.
CollectKeeping(c, arrays, names) ==
  IF names = {} THEN UNCHANGED fileVars
  ELSE /\ entries' = [n \in Names |->
            IF n \in names /\ entries[n] = NoArray THEN arrays[n] ELSE entries[n]]
       /\ paramMap' = ParsedMap(c)

\* Mutant of Collect: the map is merged as the handles are.
CollectMergedMap(c, arrays, names) ==
  IF names = {} THEN UNCHANGED fileVars
  ELSE /\ entries' = [n \in Names |-> IF n \in names THEN arrays[n] ELSE entries[n]]
       /\ paramMap' = [p \in Names |-> IF ParsedMap(c)[p] # NoArray THEN ParsedMap(c)[p] ELSE paramMap[p]]

\* _collect_parallel_launch_ipc: nothing is written when no handle was taken; the
\* handles are merged into the file and the map is replaced.
Collect(c, arrays, names) ==
  IF names = {} THEN UNCHANGED fileVars
  ELSE /\ entries' = [n \in Names |-> IF n \in names THEN arrays[n] ELSE entries[n]]
       /\ paramMap' = ParsedMap(c)

\* The handle of an array may be refused.
Launch(c, arrays, names) ==
  /\ at = "script"
  /\ at' = "kernel"
  /\ call' = c
  /\ locals' = arrays
  /\ given' \in Given(c, arrays)
  /\ taken' = names
  /\ Collect(c, arrays, names)

\* The file cannot be read, it is no JSON: it is started again.
Damaged ==
  /\ at = "script"
  /\ entries' = NoArrays
  /\ paramMap' = NoMap
  /\ UNCHANGED <<at, callVars>>

LaunchEnds ==
  /\ at = "kernel"
  /\ at' = "script"
  /\ locals' = NoArrays /\ given' = NoArrays /\ taken' = {}
  /\ UNCHANGED <<call, fileVars>>

IpcNext ==
  \/ \E c \in Calls, arrays \in [Names -> ArraysOrNone] :
       \E names \in SUBSET {n \in Names : arrays[n] # NoArray} : Launch(c, arrays, names)
  \/ Damaged
  \/ LaunchEnds

IpcSpec == IpcInit /\ [][IpcNext]_ipcVars

\* _resolve_ipc_json_entry: the array an expression gets for a name.
Resolved(n) ==
  IF entries[n] # NoArray THEN entries[n]
  ELSE IF paramMap[n] # NoArray THEN entries[paramMap[n]]
  ELSE NoArray

-----------------------------------------------------------------------------
(* Properties *)

IpcTypeOK ==
  /\ at \in {"script", "kernel"}
  /\ call \in Calls
  /\ locals \in [Names -> ArraysOrNone]
  /\ given \in [Names -> ArraysOrNone]
  /\ taken \subseteq {n \in Names : locals[n] # NoArray}
  /\ entries \in [Names -> ArraysOrNone]
  /\ paramMap \in ParamMaps

\* A name of the caller whose handle was taken at this launch is that array, in
\* spite of what older launches and runs left under the name or mapped it to.
LocalIsFresh ==
  at = "kernel" => \A n \in taken : Resolved(n) = locals[n]

Alone(c) == \A d \in Calls : line[d] = line[c] => d = c

\* A parameter that no variable ever had the name of is the array it was given,
\* if that was a name whose handle could be taken, and no array at all if it was an
\* expression: never an array of an earlier launch.  (A call that shares its line
\* with another one may get the map of that one.)
ParameterIsGiven ==
  at = "kernel" /\ taken # {} /\ Alone(call) =>
    \A p \in Names : entries[p] = NoArray =>
      /\ call.args[p] \in taken => Resolved(p) = given[p]
      /\ call.args[p] \in {NoArray, Expr} => Resolved(p) = NoArray
=============================================================================
