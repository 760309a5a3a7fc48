--------------------------- MODULE KernelCacheProofs ---------------------------
(***************************************************************************)
(* What holds of pk_cpp for every set of spaces and any number of edits.   *)
(* The invariant says how the binaries, the modules loaded and functor.hpp *)
(* agree at each stage of a compilation; the three properties of the run   *)
(* follow from it.                                                         *)
(***************************************************************************)
EXTENDS KernelCache, TLAPS

Building == {"clear", "write", "format", "build"}

\* A launch under way has parsed the script, and compiles a space that has no binary.
StageInv ==
  /\ at \in Building \cup {"compile", "import"} => text # 0
  /\ at \in Building => binary[space] = None
  /\ at \in {"format", "build"} => functor # None /\ functor.version = text
  /\ at = "format" => \A s \in Spaces : space \in touched[s]

\* A module that is loaded is the binary on disk: no build replaces it.
LoadedInv ==
  at # "down" => \A s \in Spaces : loaded[s] # None => loaded[s] = binary[s]

\* What this process has built, it has built from the text it parsed.
TextInv ==
  at # "down" =>
    \A s \in Spaces :
      binary[s] # None /\ s \notin found => text # 0 /\ binary[s].version = text

\* A binary whose functor.hpp is another one has seen another space written.
TouchedInv ==
  \A s \in Spaces : binary[s] # None /\ binary[s] # functor => touched[s] \ {s} # {}

\* The launch just made is described by the state it was made in.
RanInv ==
  ran # None =>
    /\ at = "python"
    /\ ran.binary = binary[ran.space] /\ ran.binary # None
    /\ ran.functor = functor
    /\ ran.text = text

CacheInv ==
  /\ TypeOK /\ ImportsABinary
  /\ StageInv /\ LoadedInv /\ TextInv /\ TouchedInv /\ RanInv

-----------------------------------------------------------------------------
USE NoneAssumption, SpacesAssumption, MaxVersionAssumption

LEMMA InitInv == Init => CacheInv
<1> SUFFICES ASSUME Init PROVE CacheInv
  OBVIOUS
<1>1. TypeOK
  <2>1. pkdb \in BOOLEAN
    BY DEF Init
  <2>2. script \in 1 .. MaxVersion /\ text \in 0 .. MaxVersion
    BY DEF Init
  <2>3. touched \in [Spaces -> SUBSET Spaces] /\ found \subseteq Spaces
    BY DEF Init
  <2> QED
    BY <2>1, <2>2, <2>3 DEF Init, TypeOK
<1>2. ImportsABinary /\ StageInv /\ LoadedInv /\ TextInv
  BY DEF Init, ImportsABinary, StageInv, Building, LoadedInv, TextInv
<1>3. TouchedInv /\ RanInv
  BY DEF Init, TouchedInv, RanInv
<1> QED
  BY <1>1, <1>2, <1>3 DEF CacheInv

\* No step of the user, of a launch or of a compilation breaks the invariant.
LEMMA StepInv == CacheInv /\ [Next]_vars => CacheInv'
<1> USE DEF Functors
<1> SUFFICES ASSUME CacheInv, [Next]_vars
             PROVE  CacheInv'
  OBVIOUS
<1> USE DEF CacheInv
<1>1. CASE UNCHANGED vars
  BY <1>1 DEF vars, diskVars, processVars, TypeOK, ImportsABinary, StageInv, Building, LoadedInv, TextInv,
              TouchedInv, RanInv
<1>2. CASE Edit
  <2>1. TypeOK'
    BY <1>2 DEF Edit, diskVars, processVars, TypeOK
  <2>2. ImportsABinary'
    BY <1>2 DEF Edit, diskVars, processVars, ImportsABinary, StageInv, LoadedInv, IsCompiled, TypeOK
  <2>3. StageInv'
    BY <1>2 DEF Edit, diskVars, processVars, StageInv, Building, TypeOK, IsCompiled
  <2>4. LoadedInv'
    BY <1>2 DEF Edit, diskVars, processVars, LoadedInv, StageInv, Building, TypeOK, IsCompiled
  <2>5. TextInv'
    BY <1>2 DEF Edit, diskVars, processVars, TextInv, StageInv, Building, TypeOK
  <2>6. TouchedInv'
    BY <1>2 DEF Edit, diskVars, processVars, TouchedInv, StageInv, Building, TypeOK
  <2>7. RanInv'
    BY <1>2 DEF Edit, diskVars, processVars, RanInv, StageInv, LoadedInv, ImportsABinary, TypeOK
  <2> QED
    BY <2>1, <2>2, <2>3, <2>4, <2>5, <2>6, <2>7
<1>3. CASE Purge
  <2>1. TypeOK'
    BY <1>3 DEF Purge, diskVars, processVars, TypeOK
  <2>2. ImportsABinary'
    BY <1>3 DEF Purge, diskVars, processVars, ImportsABinary, StageInv, LoadedInv, IsCompiled, TypeOK
  <2>3. StageInv'
    BY <1>3 DEF Purge, diskVars, processVars, StageInv, Building, TypeOK, IsCompiled
  <2>4. LoadedInv'
    BY <1>3 DEF Purge, diskVars, processVars, LoadedInv, StageInv, Building, TypeOK, IsCompiled
  <2>5. TextInv'
    BY <1>3 DEF Purge, diskVars, processVars, TextInv, StageInv, Building, TypeOK
  <2>6. TouchedInv'
    BY <1>3 DEF Purge, diskVars, processVars, TouchedInv, StageInv, Building, TypeOK
  <2>7. RanInv'
    BY <1>3 DEF Purge, diskVars, processVars, RanInv, StageInv, LoadedInv, ImportsABinary, TypeOK
  <2> QED
    BY <2>1, <2>2, <2>3, <2>4, <2>5, <2>6, <2>7
<1>4. CASE Start
  <2>1. TypeOK'
    BY <1>4 DEF Start, diskVars, processVars, TypeOK
  <2>2. ImportsABinary'
    BY <1>4 DEF Start, diskVars, processVars, ImportsABinary, StageInv, LoadedInv, IsCompiled, TypeOK
  <2>3. StageInv'
    BY <1>4 DEF Start, diskVars, processVars, StageInv, Building, TypeOK, IsCompiled
  <2>4. LoadedInv'
    BY <1>4 DEF Start, diskVars, processVars, LoadedInv, StageInv, Building, TypeOK, IsCompiled
  <2>5. TextInv'
    BY <1>4 DEF Start, diskVars, processVars, TextInv, StageInv, Building, TypeOK
  <2>6. TouchedInv'
    BY <1>4 DEF Start, diskVars, processVars, TouchedInv, StageInv, Building, TypeOK
  <2>7. RanInv'
    BY <1>4 DEF Start, diskVars, processVars, RanInv, StageInv, LoadedInv, ImportsABinary, TypeOK
  <2> QED
    BY <2>1, <2>2, <2>3, <2>4, <2>5, <2>6, <2>7
<1>5. CASE End
  <2>1. TypeOK'
    BY <1>5 DEF End, diskVars, processVars, TypeOK
  <2>2. ImportsABinary'
    BY <1>5 DEF End, diskVars, processVars, ImportsABinary, StageInv, LoadedInv, IsCompiled, TypeOK
  <2>3. StageInv'
    BY <1>5 DEF End, diskVars, processVars, StageInv, Building, TypeOK, IsCompiled
  <2>4. LoadedInv'
    BY <1>5 DEF End, diskVars, processVars, LoadedInv, StageInv, Building, TypeOK, IsCompiled
  <2>5. TextInv'
    BY <1>5 DEF End, diskVars, processVars, TextInv, StageInv, Building, TypeOK
  <2>6. TouchedInv'
    BY <1>5 DEF End, diskVars, processVars, TouchedInv, StageInv, Building, TypeOK
  <2>7. RanInv'
    BY <1>5 DEF End, diskVars, processVars, RanInv, StageInv, LoadedInv, ImportsABinary, TypeOK
  <2> QED
    BY <2>1, <2>2, <2>3, <2>4, <2>5, <2>6, <2>7
<1>6. ASSUME NEW s \in Spaces, Launch(s) PROVE CacheInv'
  <2>1. TypeOK'
    BY <1>6 DEF Launch, diskVars, processVars, TypeOK
  <2>2. ImportsABinary'
    BY <1>6 DEF Launch, diskVars, processVars, ImportsABinary, StageInv, LoadedInv, IsCompiled, TypeOK
  <2>3. StageInv'
    BY <1>6 DEF Launch, diskVars, processVars, StageInv, Building, TypeOK, IsCompiled
  <2>4. LoadedInv'
    BY <1>6 DEF Launch, diskVars, processVars, LoadedInv, StageInv, Building, TypeOK, IsCompiled
  <2>5. TextInv'
    BY <1>6 DEF Launch, diskVars, processVars, TextInv, StageInv, Building, TypeOK
  <2>6. TouchedInv'
    BY <1>6 DEF Launch, diskVars, processVars, TouchedInv, StageInv, Building, TypeOK
  <2>7. RanInv'
    BY <1>6 DEF Launch, diskVars, processVars, RanInv, StageInv, LoadedInv, ImportsABinary, TypeOK
  <2> QED
    BY <2>1, <2>2, <2>3, <2>4, <2>5, <2>6, <2>7
<1>7. CASE Compile
  <2>1. TypeOK'
    BY <1>7 DEF Compile, diskVars, processVars, TypeOK
  <2>2. ImportsABinary'
    BY <1>7 DEF Compile, diskVars, processVars, ImportsABinary, StageInv, LoadedInv, IsCompiled, TypeOK
  <2>3. StageInv'
    BY <1>7 DEF Compile, diskVars, processVars, StageInv, Building, TypeOK, IsCompiled
  <2>4. LoadedInv'
    BY <1>7 DEF Compile, diskVars, processVars, LoadedInv, StageInv, Building, TypeOK, IsCompiled
  <2>5. TextInv'
    BY <1>7 DEF Compile, diskVars, processVars, TextInv, StageInv, Building, TypeOK
  <2>6. TouchedInv'
    BY <1>7 DEF Compile, diskVars, processVars, TouchedInv, StageInv, Building, TypeOK
  <2>7. RanInv'
    BY <1>7 DEF Compile, diskVars, processVars, RanInv, StageInv, LoadedInv, ImportsABinary, TypeOK
  <2> QED
    BY <2>1, <2>2, <2>3, <2>4, <2>5, <2>6, <2>7
<1>8. CASE Clear
  <2>1. TypeOK'
    BY <1>8 DEF Clear, diskVars, processVars, TypeOK
  <2>2. ImportsABinary'
    BY <1>8 DEF Clear, diskVars, processVars, ImportsABinary, StageInv, LoadedInv, IsCompiled, TypeOK
  <2>3. StageInv'
    BY <1>8 DEF Clear, diskVars, processVars, StageInv, Building, TypeOK, IsCompiled
  <2>4. LoadedInv'
    BY <1>8 DEF Clear, diskVars, processVars, LoadedInv, StageInv, Building, TypeOK, IsCompiled
  <2>5. TextInv'
    BY <1>8 DEF Clear, diskVars, processVars, TextInv, StageInv, Building, TypeOK
  <2>6. TouchedInv'
    BY <1>8 DEF Clear, diskVars, processVars, TouchedInv, StageInv, Building, TypeOK
  <2>7. RanInv'
    BY <1>8 DEF Clear, diskVars, processVars, RanInv, StageInv, LoadedInv, ImportsABinary, TypeOK
  <2> QED
    BY <2>1, <2>2, <2>3, <2>4, <2>5, <2>6, <2>7
<1>9. CASE WriteFunctor
  <2>0. functor' \in Functors /\ functor' # None /\ functor'.version = text
    <3>1. text \in 1 .. MaxVersion
      BY <1>9 DEF WriteFunctor, TypeOK, StageInv, Building
    <3>2. FALSE \in BOOLEAN
      OBVIOUS
    <3>3. [version |-> text, formatted |-> FALSE] \in Functors
      BY <3>1, <3>2, Zenon
    <3> QED
      BY <1>9, <3>3 DEF WriteFunctor
  <2>1. TypeOK'
    BY <1>9, <2>0 DEF WriteFunctor, diskVars, processVars, TypeOK
  <2>2. ImportsABinary'
    BY <1>9 DEF WriteFunctor, diskVars, processVars, ImportsABinary, StageInv, LoadedInv, IsCompiled, TypeOK
  <2>3. StageInv'
    BY <1>9, <2>0 DEF WriteFunctor, diskVars, processVars, StageInv, Building, TypeOK, IsCompiled
  <2>4. LoadedInv'
    BY <1>9 DEF WriteFunctor, diskVars, processVars, LoadedInv, StageInv, Building, TypeOK, IsCompiled
  <2>5. TextInv'
    BY <1>9 DEF WriteFunctor, diskVars, processVars, TextInv, StageInv, Building, TypeOK
  <2>6. TouchedInv'
    BY <1>9 DEF WriteFunctor, diskVars, processVars, TouchedInv, StageInv, Building, TypeOK
  <2>7. RanInv'
    BY <1>9 DEF WriteFunctor, diskVars, processVars, RanInv, StageInv, LoadedInv, ImportsABinary, TypeOK
  <2> QED
    BY <2>1, <2>2, <2>3, <2>4, <2>5, <2>6, <2>7
<1>10. CASE Format
  <2>0. functor \in Functors /\ functor' \in Functors /\ functor'.version = functor.version
    BY <1>10 DEF Format, TypeOK, StageInv
  <2>1. TypeOK'
    BY <1>10, <2>0 DEF Format, diskVars, processVars, TypeOK
  <2>2. ImportsABinary'
    BY <1>10 DEF Format, diskVars, processVars, ImportsABinary, StageInv, LoadedInv, IsCompiled, TypeOK
  <2>3. StageInv'
    BY <1>10, <2>0 DEF Format, diskVars, processVars, StageInv, Building, TypeOK
  <2>4. LoadedInv'
    BY <1>10 DEF Format, diskVars, processVars, LoadedInv, StageInv, Building, TypeOK, IsCompiled
  <2>5. TextInv'
    BY <1>10 DEF Format, diskVars, processVars, TextInv, StageInv, Building, TypeOK
  <2>6. TouchedInv'
    BY <1>10 DEF Format, diskVars, processVars, TouchedInv, StageInv, Building, TypeOK
  <2>7. RanInv'
    BY <1>10 DEF Format, diskVars, processVars, RanInv, StageInv, LoadedInv, ImportsABinary, TypeOK
  <2> QED
    BY <2>1, <2>2, <2>3, <2>4, <2>5, <2>6, <2>7
<1>11. CASE Build
  <2>1. TypeOK'
    BY <1>11 DEF Build, diskVars, processVars, TypeOK
  <2>2. ImportsABinary'
    BY <1>11 DEF Build, diskVars, processVars, ImportsABinary, StageInv, LoadedInv, IsCompiled, TypeOK
  <2>3. StageInv'
    BY <1>11 DEF Build, diskVars, processVars, StageInv, Building, TypeOK, IsCompiled
  <2>4. LoadedInv'
    BY <1>11 DEF Build, diskVars, processVars, LoadedInv, StageInv, Building, TypeOK, IsCompiled
  <2>5. TextInv'
    BY <1>11 DEF Build, diskVars, processVars, TextInv, StageInv, Building, TypeOK
  <2>6. TouchedInv'
    BY <1>11 DEF Build, diskVars, processVars, TouchedInv, StageInv, Building, TypeOK
  <2>7. RanInv'
    BY <1>11 DEF Build, diskVars, processVars, RanInv, StageInv, LoadedInv, ImportsABinary, TypeOK
  <2> QED
    BY <2>1, <2>2, <2>3, <2>4, <2>5, <2>6, <2>7
<1>12. CASE BuildFails
  <2>1. TypeOK'
    BY <1>12 DEF BuildFails, diskVars, processVars, TypeOK
  <2>2. ImportsABinary'
    BY <1>12 DEF BuildFails, diskVars, processVars, ImportsABinary, StageInv, LoadedInv, IsCompiled, TypeOK
  <2>3. StageInv'
    BY <1>12 DEF BuildFails, diskVars, processVars, StageInv, Building, TypeOK, IsCompiled
  <2>4. LoadedInv'
    BY <1>12 DEF BuildFails, diskVars, processVars, LoadedInv, StageInv, Building, TypeOK, IsCompiled
  <2>5. TextInv'
    BY <1>12 DEF BuildFails, diskVars, processVars, TextInv, StageInv, Building, TypeOK
  <2>6. TouchedInv'
    BY <1>12 DEF BuildFails, diskVars, processVars, TouchedInv, StageInv, Building, TypeOK
  <2>7. RanInv'
    BY <1>12 DEF BuildFails, diskVars, processVars, RanInv, StageInv, LoadedInv, ImportsABinary, TypeOK
  <2> QED
    BY <2>1, <2>2, <2>3, <2>4, <2>5, <2>6, <2>7
<1>13. CASE Execute
  <2>0. PICK module \in Functors :
          /\ loaded' = [loaded EXCEPT ![space] = module]
          /\ ran' = [space |-> space, binary |-> module, functor |-> functor, text |-> text]
    BY <1>13 DEF Execute, TypeOK
  <2>1. TypeOK'
    BY <1>13, <2>0 DEF Execute, diskVars, processVars, TypeOK, StageInv
  <2>2. ImportsABinary'
    BY <1>13 DEF Execute, diskVars, processVars, ImportsABinary, StageInv, LoadedInv, IsCompiled, TypeOK
  <2>3. StageInv'
    BY <1>13 DEF Execute, diskVars, processVars, StageInv, Building, TypeOK, IsCompiled
  <2>4. LoadedInv'
    BY <1>13 DEF Execute, diskVars, processVars, LoadedInv, StageInv, Building, TypeOK, IsCompiled
  <2>5. TextInv'
    BY <1>13 DEF Execute, diskVars, processVars, TextInv, StageInv, Building, TypeOK
  <2>6. TouchedInv'
    BY <1>13 DEF Execute, diskVars, processVars, TouchedInv, StageInv, Building, TypeOK
  <2>7. RanInv'
    BY <1>13 DEF Execute, diskVars, processVars, RanInv, StageInv, LoadedInv, ImportsABinary, TypeOK
  <2> QED
    BY <2>1, <2>2, <2>3, <2>4, <2>5, <2>6, <2>7
<1> QED
  BY <1>1, <1>2, <1>3, <1>4, <1>5, <1>6, <1>7, <1>8, <1>9, <1>10, <1>11, <1>12, <1>13 DEF Next

\* The files of a kernel agree with how far its compilation is and with what is loaded
\* (compile_object, ModuleSetup).
THEOREM CacheInvariant == Spec => []CacheInv
BY InitInv, StepInv, PTL DEF Spec

-----------------------------------------------------------------------------
(* The properties of the run.                                              *)

\* Every variable keeps its type: a functor.hpp, a binary and a module are always of some
\* version of the script.
THEOREM TypeCorrect == Spec => []TypeOK
<1>1. CacheInv => TypeOK
  BY DEF CacheInv
<1> QED
  BY <1>1, CacheInvariant, PTL

\* import_module finds a kernel.so, after failed and killed builds of any space.
THEOREM ImportSucceeds == Spec => []ImportsABinary
<1>1. CacheInv => ImportsABinary
  BY DEF CacheInv
<1> QED
  BY <1>1, CacheInvariant, PTL

\* What a launch runs is the text its process parsed, or a binary it found on disk.
THEOREM RunsWhatItParsed == Spec => []RunsParsedText
<1>1. CacheInv => RunsParsedText
  BY DEF CacheInv, TypeOK, RanInv, TextInv, RunsParsedText
<1> QED
  BY <1>1, CacheInvariant, PTL

\* pkdb reads the lines of the text the kernel was built from, unless another space wrote it.
THEOREM ReadsTheKernelsLines == Spec => []LinesAreTheKernels
<1>1. CacheInv => LinesAreTheKernels
  BY DEF CacheInv, TypeOK, RanInv, TouchedInv, LinesAreTheKernels
<1> QED
  BY <1>1, CacheInvariant, PTL
=============================================================================
