------------------------- MODULE KernelFusionProofs -------------------------
(***************************************************************************)
(* KernelFusion, proved for all arrays, views, kernels, accesses, policies *)
(* and both strategies: FusionInv is inductive, and the four properties    *)
(* follow from it.                                                         *)
(***************************************************************************)
EXTENDS KernelFusion, SequenceTheorems, FiniteSetTheorems, WellFoundedInduction, TLAPS

TypeOK ==
  /\ log \in Seq([kernel : Kernels, dependencies : SUBSET [data : Data \cup Nat, version : Nat]])
  /\ trace \subseteq DOMAIN log
  /\ writers \in [Data -> Seq(Nat)]
  /\ plan \in Seq(Seq(Nat))
  /\ flushing \in Data \cup {None, All} \cup Results
  /\ mem \in [Data -> Nat]
  /\ runs \in [DOMAIN log -> Nat]
  /\ wrong \subseteq Nat \X Data \X Nat
  /\ failures \in Nat
  /\ raised \in BOOLEAN

\* Operations that write an array, those that the tracer takes for its writers, and those
\* that it has seen.
Stored(n, d) == n \in DOMAIN log /\ d \in Stores(log[n].kernel)
Versioned(n, d) == n \in DOMAIN log /\ d \in Writes(log[n].kernel)
Traced(n) == n \in DOMAIN log /\ Kind[log[n].kernel] # "fill"

\* data_operation: a version is an operation that was traced as a writer of the array; versions
\* come in the order of the calls; every such operation has one.
VersionsInv ==
  \A d \in Data :
    /\ \A i \in DOMAIN writers[d] : Versioned(writers[d][i], d) /\ Traced(writers[d][i])
    /\ \A i, j \in DOMAIN writers[d] : i <= j => writers[d][i] <= writers[d][j]
    /\ \A n \in DOMAIN log : Versioned(n, d) /\ Traced(n) => \E i \in DOMAIN writers[d] : writers[d][i] = n

\* The operations that operation n waits for.
Before(n) == {WriterOf(dep) : dep \in log[n].dependencies}

\* w is the last of the operations before n that the tracer saw write array d, or 0.
LastTraced(w, n, d) ==
  /\ w = 0 \/ Versioned(w, d)
  /\ \A m \in 1..(n - 1) : Versioned(m, d) /\ Traced(m) => m <= w

\* An operation waits for earlier ones, with the last writer of each array that it counts as
\* a reader of among them.
DependenciesInv ==
  \A n \in DOMAIN log :
    /\ \A dep \in log[n].dependencies : dep.data \in Data => dep.version <= Len(writers[dep.data])
    /\ Before(n) \subseteq 0..(n - 1)
    /\ Traced(n) => \A d \in Reads(log[n].kernel) : \E w \in Before(n) : LastTraced(w, n, d)

Members(groups) == UNION {ToSet(groups[g]) : g \in DOMAIN groups}

\* Within a group and from group to group, the order of the calls.
Ordered(groups) ==
  /\ \A g \in DOMAIN groups : \A i, j \in DOMAIN groups[g] : i < j => groups[g][i] < groups[g][j]
  /\ \A g, h \in DOMAIN groups : g < h =>
       \A i \in DOMAIN groups[g], j \in DOMAIN groups[h] : groups[g][i] < groups[h][j]

\* What is_safe_to_fuse leaves of the views that two operations share.
Fusible(m, n) ==
  LET a == SafetyInfo(log[m].kernel)
      b == SafetyInfo(log[n].kernel)
  IN \A v \in DOMAIN a \cap DOMAIN b :
       \/ a[v].mode = "Read" /\ b[v].mode = "Read"
       \/ a[v].index = b[v].index
       \/ a[v].class <= TID /\ b[v].class <= TID

NeighboursFusible(groups) ==
  \A g \in DOMAIN groups : \A i \in 1..(Len(groups[g]) - 1) : Fusible(groups[g][i], groups[g][i + 1])

PlanInv == Ordered(plan) /\ Members(plan) \subseteq DOMAIN log /\ NeighboursFusible(plan)

Planned == Members(plan)

\* What is planned waits for nothing that is still in the trace, and nothing was run
\* before what it waits for; each array no call is blind to is as the last of its
\* writers that ran has left it; what is looked at has run or is planned.
FlushInv ==
  /\ flushing # All => Planned \cap trace = {}
  /\ \A n \in Planned : \A w \in Before(n) : w = 0 \/ runs[w] > 0 \/ w \in Planned
  /\ \A n \in DOMAIN log : runs[n] > 0 => \A w \in Before(n) : w = 0 \/ runs[w] > 0
  /\ \A d \in Data : ~Blind(d) =>
       /\ mem[d] = 0 \/ (Stored(mem[d], d) /\ runs[mem[d]] > 0)
       /\ \A n \in DOMAIN log : Stored(n, d) /\ runs[n] > 0 => n <= mem[d]
  /\ flushing \in Data \cup Results =>
       LET n == WriterOf(CurrentVersion(flushing)) IN n = 0 \/ runs[n] > 0 \/ n \in Planned
  /\ RunsOnce
  /\ ReadsProgramOrder

FusionInv ==
  /\ TypeOK /\ VersionsInv /\ DependenciesInv /\ PlanInv
  /\ Calm => FlushInv

-----------------------------------------------------------------------------
(* Least and greatest elements.                                            *)

LEMMA LeastNat ==
  ASSUME NEW S, S \subseteq Nat, S # {}
  PROVE  Min(S) \in S /\ \A y \in S : Min(S) <= y
<1>1. \E x \in S : \A y \in S : ~(<<y, x>> \in OpToRel(<, Nat))
  BY WFMin, NatLessThanWellFounded, Zenon
<1>2. PICK x \in S : \A y \in S : ~(y < x)
  BY <1>1, Zenon DEF OpToRel
<1>3. \A y \in S : x <= y
  BY <1>2
<1> QED
  BY <1>3 DEF Min

LEMMA GreatestNat ==
  ASSUME NEW last \in Nat, NEW S, S \subseteq 0..last, S # {}
  PROVE  Max(S) \in S /\ \A y \in S : y <= Max(S)
<1> DEFINE below == {last - n : n \in S}
<1>1. \A n \in S : n \in Nat /\ last - n \in Nat
  OBVIOUS
<1>2. below \subseteq Nat /\ below # {}
  BY <1>1
<1>3. Min(below) \in below /\ \A y \in below : Min(below) <= y
  <2> HIDE DEF below
  <2> QED
    BY <1>2, LeastNat
<1>4. PICK n \in S : Min(below) = last - n
  BY <1>3
<1>5. \A m \in S : n >= m
  <2> SUFFICES ASSUME NEW m \in S PROVE n >= m
    OBVIOUS
  <2>1. last - n <= last - m
    BY <1>3, <1>4
  <2> QED
    BY <1>1, <2>1
<1> QED
  BY <1>5 DEF Max

-----------------------------------------------------------------------------
(* What is recorded of a kernel.                                           *)

LEMMA AccessType ==
  ASSUME NEW k \in Kernels
  PROVE  /\ Len(Accesses[k]) \in Nat /\ DOMAIN Accesses[k] = 1..Len(Accesses[k])
         /\ \A i \in DOMAIN Accesses[k] :
              Accesses[k][i].view \in Views /\ Accesses[k][i].store \in BOOLEAN /\ Accesses[k][i].index \in Indices
<1> DEFINE Access == [view : Views, store : BOOLEAN, index : Indices, recorded : SUBSET {"Read", "Write"}]
<1>1. Accesses[k] \in Seq(Access)
  BY AccessesAssumption
<1>2. /\ Len(Accesses[k]) \in Nat /\ DOMAIN Accesses[k] = 1..Len(Accesses[k])
      /\ \A i \in 1..Len(Accesses[k]) : Accesses[k][i] \in Access
  <2> HIDE DEF Access
  <2> QED
    BY <1>1
<1>3. \A a \in Access : a.view \in Views /\ a.store \in BOOLEAN /\ a.index \in Indices
  OBVIOUS
<1> HIDE DEF Access
<1> QED
  BY <1>2, <1>3

\* A view of a kernel has a subscript there; its class is the highest of theirs, and "Read"
\* and the text are those of one of them.
LEMMA SafetyInfoType ==
  ASSUME NEW k \in Kernels, NEW v \in ViewsOf(k)
  PROVE  /\ On(k, v) # {} /\ Min(On(k, v)) \in On(k, v)
         /\ SafetyInfo(k)[v].class \in 1..5
         /\ \A i \in On(k, v) : Class[Accesses[k][i].index] <= SafetyInfo(k)[v].class
         /\ SafetyInfo(k)[v].mode = "Read" => ~Accesses[k][Min(On(k, v))].store
         /\ \E i \in On(k, v) : SafetyInfo(k)[v].index = Accesses[k][i].index
<1> DEFINE on == On(k, v)
           classes == {Class[Accesses[k][i].index] : i \in on}
<1>1. Len(Accesses[k]) \in Nat /\ DOMAIN Accesses[k] = 1..Len(Accesses[k])
  BY AccessType
<1>2. on \subseteq 1..Len(Accesses[k]) /\ on # {} /\ Len(Accesses[k]) \in Nat
  BY <1>1 DEF On, ViewsOf, ToSet
<1>3. classes \subseteq 1..5 /\ classes # {}
  <2>1. \A i \in on : Accesses[k][i].index \in Indices
    BY <1>1, <1>2, AccessType
  <2> QED
    BY <1>2, <2>1, ClassAssumption
<1>4. Min(on) \in on /\ Max(on) \in on
  <2>1. on \subseteq Nat /\ on \subseteq 0..Len(Accesses[k])
    BY <1>2
  <2> HIDE DEF on
  <2> QED
    BY <1>2, <2>1, LeastNat, GreatestNat
<1>5. Max(classes) \in classes /\ \A y \in classes : y <= Max(classes)
  <2>1. classes \subseteq 0..5
    BY <1>3
  <2> HIDE DEF classes
  <2> QED
    BY <1>3, <2>1, GreatestNat
<1>6. SafetyInfo(k)[v] =
        [class |-> Max(classes),
         mode |-> IF ~Accesses[k][Min(on)].store THEN "Read" ELSE IF on = {Min(on)} THEN "Write" ELSE "ReadWrite",
         index |-> Accesses[k][Max(on)].index]
  BY DEF SafetyInfo
<1>7. SafetyInfo(k)[v].class = Max(classes) /\ SafetyInfo(k)[v].index = Accesses[k][Max(on)].index
  BY <1>6
<1>8. SafetyInfo(k)[v].mode = "Read" => ~Accesses[k][Min(on)].store
  BY <1>6
<1>9. Max(classes) \in 1..5 /\ \A i \in on : Class[Accesses[k][i].index] <= Max(classes)
  BY <1>3, <1>5
<1> HIDE DEF classes
<1> QED
  BY <1>2, <1>4, <1>7, <1>8, <1>9

LEMMA SafetyInfoDomain == \A k : DOMAIN SafetyInfo(k) = ViewsOf(k)
BY DEF SafetyInfo

\* Plain kernels that is_safe_to_fuse lets through do not race.
LEMMA PlainFusible ==
  ASSUME NEW m \in DOMAIN log, NEW n \in DOMAIN log, Fusible(m, n),
         log[m].kernel \in Kernels, log[n].kernel \in Kernels,
         Plain(log[m].kernel), Plain(log[n].kernel),
         \A v \in ViewsOf(log[m].kernel), w \in ViewsOf(log[n].kernel) : Base[v] = Base[w] => v = w
  PROVE  ~Races(log[m].kernel, log[n].kernel)
<1> DEFINE j == log[m].kernel
           k == log[n].kernel
<1> SUFFICES ASSUME NEW a \in ToSet(Accesses[j]), NEW b \in ToSet(Accesses[k]),
                    Base[a.view] = Base[b.view], a.store \/ b.store,
                    NEW s \in Threads, NEW t \in Threads, s # t
             PROVE  Touches[a.index][s] \cap Touches[b.index][t] = {}
  BY DEF Races
<1> DEFINE v == a.view
<1>1. v \in ViewsOf(j) /\ v \in ViewsOf(k) /\ b.view = v
  BY DEF ViewsOf
<1>2. PICK x \in DOMAIN Accesses[j], y \in DOMAIN Accesses[k] : a = Accesses[j][x] /\ b = Accesses[k][y]
  BY DEF ToSet
<1>3. x \in On(j, v) /\ y \in On(k, v)
  BY <1>1, <1>2 DEF On
<1>4. a.index \in Indices /\ b.index \in Indices
  BY <1>2, AccessType
<1>5. SafetyInfo(j)[v].index = a.index /\ SafetyInfo(k)[v].index = b.index
  <2>1. ASSUME NEW kernel \in Kernels, Plain(kernel), v \in ViewsOf(kernel),
               NEW z \in On(kernel, v)
        PROVE  SafetyInfo(kernel)[v].index = Accesses[kernel][z].index
    <3>1. PICK i \in On(kernel, v) : SafetyInfo(kernel)[v].index = Accesses[kernel][i].index
      BY <2>1, SafetyInfoType
    <3>2. /\ Accesses[kernel][i] \in ToSet(Accesses[kernel]) /\ Accesses[kernel][z] \in ToSet(Accesses[kernel])
          /\ Accesses[kernel][i].view = Accesses[kernel][z].view
      BY <2>1 DEF On, ToSet
    <3> QED
      BY <2>1, <3>1, <3>2 DEF Plain
  <2> QED
    BY <1>1, <1>2, <1>3, <2>1
<1>6. ~(SafetyInfo(j)[v].mode = "Read" /\ SafetyInfo(k)[v].mode = "Read")
  <2>1. SafetyInfo(j)[v].mode = "Read" => ~a.store
    BY <1>1, <1>2, <1>3, SafetyInfoType DEF Plain
  <2>2. SafetyInfo(k)[v].mode = "Read" => ~b.store
    BY <1>1, <1>2, <1>3, SafetyInfoType DEF Plain
  <2> QED
    BY <2>1, <2>2
<1>7. a.index = b.index \/ (SafetyInfo(j)[v].class <= TID /\ SafetyInfo(k)[v].class <= TID)
  BY <1>1, <1>5, <1>6, SafetyInfoDomain DEF Fusible
<1>8. CASE a.index = b.index
  BY <1>8 DEF Plain
<1>9. CASE SafetyInfo(j)[v].class <= TID /\ SafetyInfo(k)[v].class <= TID
  <2>1. Class[a.index] <= SafetyInfo(j)[v].class /\ Class[b.index] <= SafetyInfo(k)[v].class
    BY <1>1, <1>2, <1>3, SafetyInfoType
  <2>2. SafetyInfo(j)[v].class \in 1..5 /\ SafetyInfo(k)[v].class \in 1..5
    BY <1>1, SafetyInfoType
  <2>3. Class[a.index] \in 1..5 /\ Class[b.index] \in 1..5
    BY <1>4, ClassAssumption
  <2>4. Class[a.index] # Constant /\ Class[b.index] # Constant
    BY DEF Plain
  <2>5. Class[a.index] = TID /\ Class[b.index] = TID
    BY <1>9, <2>1, <2>2, <2>3, <2>4 DEF Constant, TID
  <2>6. Touches[a.index] = Touches[b.index]
    BY <1>4, <2>5, TouchesAssumption
  <2> QED
    BY <2>6 DEF Plain
<1> QED
  BY <1>7, <1>8, <1>9

-----------------------------------------------------------------------------
(* Groups of operations.                                                   *)

LEMMA Prepended ==
  ASSUME NEW S, NEW e \in S, NEW t \in Seq(S)
  PROVE  /\ <<e>> \o t \in Seq(S)
         /\ Len(<<e>> \o t) = Len(t) + 1 /\ DOMAIN (<<e>> \o t) = 1..(Len(t) + 1)
         /\ (<<e>> \o t)[1] = e
         /\ \A i \in 1..Len(t) : (<<e>> \o t)[i + 1] = t[i]
         /\ \A i \in DOMAIN (<<e>> \o t) : i = 1 \/ (i - 1 \in 1..Len(t) /\ (<<e>> \o t)[i] = t[i - 1])
OBVIOUS

\* The groups are made of the operations from n on, in order, and safe to fuse.
Sound(groups, ops, n) ==
  /\ groups \in Seq(Seq(Nat))
  /\ Ordered(groups)
  /\ NeighboursFusible(groups)
  /\ Members(groups) = {m \in ops : m >= n}

LEMMA InMembers ==
  ASSUME NEW groups \in Seq(Seq(Nat)), NEW m
  PROVE  m \in Members(groups) <=> \E g \in DOMAIN groups : \E i \in DOMAIN groups[g] : groups[g][i] = m
BY DEF Members, ToSet

\* An empty group more makes no difference.
LEMMA EmptyGroup ==
  ASSUME NEW gs \in Seq(Seq(Nat)), NEW ops, NEW n
  PROVE  Sound(<<<<>>>> \o gs, ops, n) <=> Sound(gs, ops, n)
<1> DEFINE all == <<<<>>>> \o gs
<1>1. /\ all \in Seq(Seq(Nat)) /\ Len(all) = Len(gs) + 1 /\ DOMAIN all = 1..(Len(gs) + 1)
      /\ all[1] = <<>>
      /\ \A i \in 1..Len(gs) : all[i + 1] = gs[i]
      /\ \A i \in DOMAIN all : i = 1 \/ (i - 1 \in 1..Len(gs) /\ all[i] = gs[i - 1])
  <2>1. <<>> \in Seq(Nat)
    OBVIOUS
  <2> QED
    BY <2>1, Prepended
<1>2. DOMAIN gs = 1..Len(gs) /\ Len(gs) \in Nat /\ DOMAIN all[1] = {} /\ Len(all[1]) = 0
  BY <1>1
<1>3. \A g \in DOMAIN gs : g + 1 \in DOMAIN all /\ all[g + 1] = gs[g]
  BY <1>1, <1>2
<1>4. \A g \in DOMAIN all : g = 1 \/ (g - 1 \in DOMAIN gs /\ all[g] = gs[g - 1])
  BY <1>1, <1>2
<1> HIDE DEF all
<1>5. Members(all) = Members(gs)
  <2>1. \A m : m \in Members(all) => m \in Members(gs)
    <3> SUFFICES ASSUME NEW m, m \in Members(all) PROVE m \in Members(gs)
      OBVIOUS
    <3>1. PICK g \in DOMAIN all : \E i \in DOMAIN all[g] : all[g][i] = m
      BY <1>1, InMembers
    <3>2. g # 1 /\ g - 1 \in DOMAIN gs /\ all[g] = gs[g - 1]
      BY <1>2, <1>4, <3>1
    <3> QED
      BY <3>1, <3>2, InMembers
  <2>2. \A m : m \in Members(gs) => m \in Members(all)
    <3> SUFFICES ASSUME NEW m, m \in Members(gs) PROVE m \in Members(all)
      OBVIOUS
    <3>1. PICK g \in DOMAIN gs : \E i \in DOMAIN gs[g] : gs[g][i] = m
      BY InMembers
    <3> QED
      BY <1>1, <1>3, <3>1, InMembers
  <2> QED
    BY <2>1, <2>2
<1>6. Ordered(all) <=> Ordered(gs)
  <2>1. ASSUME Ordered(all) PROVE Ordered(gs)
    <3>1. \A g \in DOMAIN gs : \A i, j \in DOMAIN gs[g] : i < j => gs[g][i] < gs[g][j]
      BY <1>3, <2>1 DEF Ordered
    <3>2. \A g, h \in DOMAIN gs : g < h =>
            \A i \in DOMAIN gs[g], j \in DOMAIN gs[h] : gs[g][i] < gs[h][j]
      <4> SUFFICES ASSUME NEW g \in DOMAIN gs, NEW h \in DOMAIN gs, g < h
                   PROVE  \A i \in DOMAIN gs[g], j \in DOMAIN gs[h] : gs[g][i] < gs[h][j]
        OBVIOUS
      <4>1. g + 1 < h + 1
        BY <1>2
      <4> QED
        BY <1>3, <2>1, <4>1 DEF Ordered
    <3> QED
      BY <3>1, <3>2 DEF Ordered
  <2>2. ASSUME Ordered(gs) PROVE Ordered(all)
    <3>1. \A g \in DOMAIN all : \A i, j \in DOMAIN all[g] : i < j => all[g][i] < all[g][j]
      BY <1>2, <1>4, <2>2 DEF Ordered
    <3>2. \A g, h \in DOMAIN all : g < h =>
            \A i \in DOMAIN all[g], j \in DOMAIN all[h] : all[g][i] < all[h][j]
      <4> SUFFICES ASSUME NEW g \in DOMAIN all, NEW h \in DOMAIN all, g < h, g # 1
                   PROVE  \A i \in DOMAIN all[g], j \in DOMAIN all[h] : all[g][i] < all[h][j]
        BY <1>2
      <4>1. g \in 1..(Len(gs) + 1) /\ h \in 1..(Len(gs) + 1)
        BY <1>1
      <4>2. g - 1 < h - 1 /\ h # 1
        BY <1>2, <4>1
      <4> QED
        BY <1>4, <2>2, <4>2 DEF Ordered
    <3> QED
      BY <3>1, <3>2 DEF Ordered
  <2> QED
    BY <2>1, <2>2
<1>7. NeighboursFusible(all) <=> NeighboursFusible(gs)
  <2>1. 1..(Len(all[1]) - 1) = {}
    BY <1>2
  <2>2. ASSUME NeighboursFusible(all) PROVE NeighboursFusible(gs)
    BY <1>3, <2>2 DEF NeighboursFusible
  <2>3. ASSUME NeighboursFusible(gs) PROVE NeighboursFusible(all)
    BY <1>4, <2>1, <2>3 DEF NeighboursFusible
  <2> QED
    BY <2>2, <2>3
<1> QED
  BY <1>1, <1>5, <1>6, <1>7 DEF Sound, all

\* The next operation in a group of its own.
LEMMA NewGroup ==
  ASSUME NEW gs, NEW ops, NEW n \in Nat, n \in ops, ops \subseteq Nat, Sound(gs, ops, n + 1)
  PROVE  Sound(<<<<n>>>> \o gs, ops, n)
<1> DEFINE all == <<<<n>>>> \o gs
<1>0. gs \in Seq(Seq(Nat)) /\ Ordered(gs) /\ NeighboursFusible(gs) /\ Members(gs) = {m \in ops : m >= n + 1}
  BY DEF Sound
<1>1. /\ all \in Seq(Seq(Nat)) /\ Len(all) = Len(gs) + 1 /\ DOMAIN all = 1..(Len(gs) + 1)
      /\ all[1] = <<n>>
      /\ \A i \in 1..Len(gs) : all[i + 1] = gs[i]
      /\ \A i \in DOMAIN all : i = 1 \/ (i - 1 \in 1..Len(gs) /\ all[i] = gs[i - 1])
  <2>1. <<n>> \in Seq(Nat)
    OBVIOUS
  <2> QED
    BY <1>0, <2>1, Prepended
<1>2. DOMAIN gs = 1..Len(gs) /\ Len(gs) \in Nat /\ DOMAIN all[1] = {1} /\ Len(all[1]) = 1 /\ all[1][1] = n
  BY <1>0, <1>1
<1>3. \A g \in DOMAIN gs : g + 1 \in DOMAIN all /\ all[g + 1] = gs[g]
  BY <1>1, <1>2
<1>4. \A g \in DOMAIN all : g = 1 \/ (g - 1 \in DOMAIN gs /\ all[g] = gs[g - 1])
  BY <1>1, <1>2
<1> HIDE DEF all
<1>5. Members(all) = {m \in ops : m >= n}
  <2>1. \A m : m \in Members(all) => m = n \/ m \in Members(gs)
    <3> SUFFICES ASSUME NEW m, m \in Members(all) PROVE m = n \/ m \in Members(gs)
      OBVIOUS
    <3>1. PICK g \in DOMAIN all : \E i \in DOMAIN all[g] : all[g][i] = m
      BY <1>1, InMembers
    <3>2. CASE g = 1
      BY <1>2, <3>1, <3>2
    <3>3. CASE g # 1
      BY <1>0, <1>4, <3>1, <3>3, InMembers
    <3> QED
      BY <3>2, <3>3
  <2>2. \A m : m \in Members(gs) => m \in Members(all)
    <3> SUFFICES ASSUME NEW m, m \in Members(gs) PROVE m \in Members(all)
      OBVIOUS
    <3>1. PICK g \in DOMAIN gs : \E i \in DOMAIN gs[g] : gs[g][i] = m
      BY <1>0, InMembers
    <3> QED
      BY <1>1, <1>3, <3>1, InMembers
  <2>3. n \in Members(all)
    <3>1. 1 \in DOMAIN all /\ 1 \in DOMAIN all[1] /\ all[1][1] = n
      BY <1>1, <1>2
    <3> QED
      BY <1>1, <3>1, InMembers
  <2>4. \A m \in ops : m >= n <=> (m = n \/ m >= n + 1)
    OBVIOUS
  <2> QED
    BY <1>0, <2>1, <2>2, <2>3, <2>4
<1>6. Ordered(all)
  <2>1. \A g \in DOMAIN all : \A i, j \in DOMAIN all[g] : i < j => all[g][i] < all[g][j]
    BY <1>0, <1>2, <1>4 DEF Ordered
  <2>2. \A h \in DOMAIN gs : \A j \in DOMAIN gs[h] : n < gs[h][j]
    <3> SUFFICES ASSUME NEW h \in DOMAIN gs, NEW j \in DOMAIN gs[h] PROVE n < gs[h][j]
      OBVIOUS
    <3>1. gs[h][j] \in Members(gs)
      BY <1>0, InMembers
    <3> QED
      BY <1>0, <3>1
  <2>3. \A g, h \in DOMAIN all : g < h =>
          \A i \in DOMAIN all[g], j \in DOMAIN all[h] : all[g][i] < all[h][j]
    <3> SUFFICES ASSUME NEW g \in DOMAIN all, NEW h \in DOMAIN all, g < h,
                        NEW i \in DOMAIN all[g], NEW j \in DOMAIN all[h]
                 PROVE  all[g][i] < all[h][j]
      OBVIOUS
    <3>1. h # 1 /\ h - 1 \in DOMAIN gs /\ all[h] = gs[h - 1]
      BY <1>1, <1>4
    <3>2. CASE g = 1
      BY <1>2, <2>2, <3>1, <3>2
    <3>3. CASE g # 1
      <4>1. g - 1 < h - 1 /\ g - 1 \in DOMAIN gs /\ all[g] = gs[g - 1]
        BY <1>1, <1>4, <3>3
      <4> QED
        BY <1>0, <3>1, <4>1 DEF Ordered
    <3> QED
      BY <3>2, <3>3
  <2> QED
    BY <2>1, <2>3 DEF Ordered
<1>7. NeighboursFusible(all)
  <2>1. 1..(Len(all[1]) - 1) = {}
    BY <1>2
  <2> QED
    BY <1>0, <1>4, <2>1 DEF NeighboursFusible
<1> QED
  BY <1>1, <1>5, <1>6, <1>7 DEF Sound, all

\* The next operation in front of the first group.
LEMMA FirstGroup ==
  ASSUME NEW group \in Seq(Nat), NEW gs \in Seq(Seq(Nat)), NEW ops, NEW n \in Nat,
         n \in ops, ops \subseteq Nat, Sound(<<group>> \o gs, ops, n + 1),
         group # <<>> => Fusible(n, group[1])
  PROVE  Sound(<<<<n>> \o group>> \o gs, ops, n)
<1> DEFINE old == <<group>> \o gs
           more == <<n>> \o group
           all == <<more>> \o gs
<1>1. /\ more \in Seq(Nat) /\ Len(more) = Len(group) + 1 /\ DOMAIN more = 1..(Len(group) + 1)
      /\ more[1] = n
      /\ \A i \in 1..Len(group) : more[i + 1] = group[i]
      /\ \A i \in DOMAIN more : i = 1 \/ (i - 1 \in 1..Len(group) /\ more[i] = group[i - 1])
  BY Prepended
<1>2. DOMAIN group = 1..Len(group) /\ Len(group) \in Nat /\ DOMAIN gs = 1..Len(gs) /\ Len(gs) \in Nat
  OBVIOUS
<1>3. /\ old \in Seq(Seq(Nat)) /\ DOMAIN old = 1..(Len(gs) + 1) /\ old[1] = group
      /\ \A i \in 1..Len(gs) : old[i + 1] = gs[i]
      /\ \A i \in DOMAIN old : i = 1 \/ (i - 1 \in 1..Len(gs) /\ old[i] = gs[i - 1])
  BY Prepended
<1> HIDE DEF more
<1>4. /\ all \in Seq(Seq(Nat)) /\ DOMAIN all = 1..(Len(gs) + 1) /\ all[1] = more
      /\ \A i \in 1..Len(gs) : all[i + 1] = gs[i]
      /\ \A i \in DOMAIN all : i = 1 \/ (i - 1 \in 1..Len(gs) /\ all[i] = gs[i - 1])
  BY <1>1, Prepended
<1>5. DOMAIN all = DOMAIN old /\ \A g \in DOMAIN all : g # 1 => all[g] = old[g]
  BY <1>3, <1>4
<1>6. Ordered(old) /\ NeighboursFusible(old) /\ Members(old) = {m \in ops : m >= n + 1}
  BY DEF Sound
<1>7. 1 \in DOMAIN old /\ 1 \in DOMAIN all
  BY <1>2, <1>3, <1>4
<1>8. \A i \in DOMAIN group : i + 1 \in DOMAIN more /\ more[i + 1] = group[i]
  BY <1>1, <1>2
<1>9. \A i \in DOMAIN more : i = 1 \/ (i - 1 \in DOMAIN group /\ more[i] = group[i - 1])
  BY <1>1, <1>2
<1> HIDE DEF all, old
<1>10. \A g \in DOMAIN old : \A i \in DOMAIN old[g] : n < old[g][i]
  <2> SUFFICES ASSUME NEW g \in DOMAIN old, NEW i \in DOMAIN old[g] PROVE n < old[g][i]
    OBVIOUS
  <2>1. old[g][i] \in Members(old)
    BY <1>3, InMembers
  <2>2. old[g][i] \in Nat /\ old[g][i] >= n + 1
    BY <1>6, <2>1
  <2> QED
    BY <2>2
<1>11. Members(all) = {m \in ops : m >= n}
  <2>1. \A m : m \in Members(all) => m = n \/ m \in Members(old)
    <3> SUFFICES ASSUME NEW m, m \in Members(all), m # n PROVE m \in Members(old)
      OBVIOUS
    <3>1. PICK g \in DOMAIN all : \E i \in DOMAIN all[g] : all[g][i] = m
      BY <1>4, InMembers
    <3>2. PICK i \in DOMAIN all[g] : all[g][i] = m
      BY <3>1
    <3>3. CASE g = 1
      <4>1. i # 1 /\ i - 1 \in DOMAIN old[1] /\ old[1][i - 1] = m
        BY <1>1, <1>3, <1>4, <1>9, <3>2, <3>3
      <4> QED
        BY <1>3, <1>7, <4>1, InMembers
    <3>4. CASE g # 1
      BY <1>3, <1>5, <3>1, <3>4, InMembers
    <3> QED
      BY <3>3, <3>4
  <2>2. \A m : m \in Members(old) => m \in Members(all)
    <3> SUFFICES ASSUME NEW m, m \in Members(old) PROVE m \in Members(all)
      OBVIOUS
    <3>1. PICK g \in DOMAIN old : \E i \in DOMAIN old[g] : old[g][i] = m
      BY <1>3, InMembers
    <3>2. PICK i \in DOMAIN old[g] : old[g][i] = m
      BY <3>1
    <3>3. CASE g = 1
      <4>1. i + 1 \in DOMAIN all[1] /\ all[1][i + 1] = m
        BY <1>3, <1>4, <1>8, <3>2, <3>3
      <4> QED
        BY <1>4, <1>7, <4>1, InMembers
    <3>4. CASE g # 1
      <4>1. g \in DOMAIN all /\ all[g] = old[g]
        BY <1>5, <3>4
      <4> QED
        BY <1>4, <3>2, <4>1, InMembers
    <3> QED
      BY <3>3, <3>4
  <2>3. n \in Members(all)
    <3>1. 1 \in DOMAIN all[1] /\ all[1][1] = n
      BY <1>1, <1>2, <1>4
    <3> QED
      BY <1>4, <1>7, <3>1, InMembers
  <2>4. \A m \in ops : m >= n <=> (m = n \/ m >= n + 1)
    OBVIOUS
  <2> QED
    BY <1>6, <2>1, <2>2, <2>3, <2>4
<1>12. Ordered(all)
  <2>1. \A g \in DOMAIN all : \A i, j \in DOMAIN all[g] : i < j => all[g][i] < all[g][j]
    <3> SUFFICES ASSUME NEW g \in DOMAIN all, NEW i \in DOMAIN all[g], NEW j \in DOMAIN all[g], i < j
                 PROVE  all[g][i] < all[g][j]
      OBVIOUS
    <3>1. CASE g # 1
      BY <1>5, <1>6, <3>1 DEF Ordered
    <3>2. CASE g = 1
      <4>1. i \in 1..(Len(group) + 1) /\ j \in 1..(Len(group) + 1) /\ j # 1
        <5>1. DOMAIN all[g] = 1..(Len(group) + 1)
          BY <1>1, <1>4, <3>2
        <5>2. i \in 1..(Len(group) + 1) /\ j \in 1..(Len(group) + 1)
          BY <5>1
        <5> QED
          BY <1>2, <5>2
      <4>2. j - 1 \in DOMAIN group /\ all[g][j] = group[j - 1]
        BY <1>1, <1>4, <1>9, <3>2, <4>1
      <4>3. CASE i = 1
        BY <1>1, <1>3, <1>4, <1>7, <1>10, <3>2, <4>2, <4>3
      <4>4. CASE i # 1
        <5>1. i - 1 \in DOMAIN group /\ all[g][i] = group[i - 1] /\ i - 1 < j - 1
          BY <1>1, <1>4, <1>9, <3>2, <4>1, <4>4
        <5> QED
          BY <1>3, <1>6, <1>7, <4>2, <5>1 DEF Ordered
      <4> QED
        BY <4>3, <4>4
    <3> QED
      BY <3>1, <3>2
  <2>2. \A g, h \in DOMAIN all : g < h =>
          \A i \in DOMAIN all[g], j \in DOMAIN all[h] : all[g][i] < all[h][j]
    <3> SUFFICES ASSUME NEW g \in DOMAIN all, NEW h \in DOMAIN all, g < h,
                        NEW i \in DOMAIN all[g], NEW j \in DOMAIN all[h]
                 PROVE  all[g][i] < all[h][j]
      OBVIOUS
    <3>0. g \in 1..(Len(gs) + 1) /\ h \in 1..(Len(gs) + 1) /\ g \in DOMAIN old /\ h \in DOMAIN old
      BY <1>4, <1>5
    <3>1. h # 1 /\ h \in DOMAIN old /\ all[h] = old[h] /\ g \in DOMAIN old
      BY <1>2, <1>5, <3>0
    <3>2. CASE g # 1
      BY <1>5, <1>6, <3>1, <3>2 DEF Ordered
    <3>3. CASE g = 1
      <4>1. CASE i = 1
        BY <1>1, <1>4, <1>10, <3>1, <3>3, <4>1
      <4>2. CASE i # 1
        <5>1. i - 1 \in DOMAIN group /\ all[g][i] = group[i - 1]
          BY <1>4, <1>9, <3>3, <4>2
        <5> QED
          BY <1>3, <1>6, <1>7, <3>1, <3>3, <5>1 DEF Ordered
      <4> QED
        BY <4>1, <4>2
    <3> QED
      BY <3>2, <3>3
  <2> QED
    BY <2>1, <2>2 DEF Ordered
<1>13. NeighboursFusible(all)
  <2> SUFFICES ASSUME NEW g \in DOMAIN all, NEW i \in 1..(Len(all[g]) - 1)
               PROVE  Fusible(all[g][i], all[g][i + 1])
    BY DEF NeighboursFusible
  <2>1. CASE g # 1
    BY <1>5, <1>6, <2>1 DEF NeighboursFusible
  <2>2. CASE g = 1
    <3>0. all[g] = more /\ i \in 1..(Len(group) + 1 - 1)
      BY <1>1, <1>4, <2>2
    <3>1. i \in 1..Len(group) /\ all[g][i + 1] = group[i]
      BY <1>1, <1>2, <3>0
    <3>2. CASE i = 1
      <4>1. group # <<>>
        BY <3>1
      <4> QED
        BY <1>1, <1>4, <2>2, <3>1, <3>2, <4>1
    <3>3. CASE i # 1
      <4>0. i \in Nat /\ i > 1 /\ i <= Len(group)
        BY <1>2, <3>1, <3>3
      <4>1. i - 1 \in 1..(Len(group) - 1) /\ (i - 1) + 1 = i /\ i \in DOMAIN more
        <5>1. i \in DOMAIN more
          BY <1>1, <1>2, <4>0
        <5>2. i - 1 \in 1..(Len(group) - 1) /\ (i - 1) + 1 = i
          BY <1>2, <4>0
        <5> QED
          BY <5>1, <5>2
      <4>2. all[g][i] = group[i - 1]
        BY <1>9, <3>0, <3>3, <4>1
      <4>3. Fusible(group[i - 1], group[(i - 1) + 1])
        BY <1>3, <1>6, <1>7, <4>1 DEF NeighboursFusible
      <4> QED
        BY <3>1, <4>1, <4>2, <4>3
    <3> QED
      BY <3>2, <3>3
  <2> QED
    BY <2>1, <2>2
<1> QED
  BY <1>4, <1>11, <1>12, <1>13 DEF Sound, all, more

-----------------------------------------------------------------------------
(* fuse_naive.                                                             *)

\* The info of a group has something on each view, and stands for its first operation.
Classed(info) == \A v \in DOMAIN info : info[v].class \in 1..5
Covers(info, n) ==
  LET own == SafetyInfo(log[n].kernel) IN
  \A v \in DOMAIN own :
    /\ v \in DOMAIN info
    /\ own[v].class <= info[v].class
    /\ info[v].mode = "Read" => own[v].mode = "Read"
    /\ info[v].index = own[v].index

LEMMA OwnInfo ==
  ASSUME NEW n \in DOMAIN log, log[n].kernel \in Kernels
  PROVE  Classed(SafetyInfo(log[n].kernel)) /\ Covers(SafetyInfo(log[n].kernel), n)
BY SafetyInfoType, SafetyInfoDomain DEF Classed, Covers

LEMMA CombinedInfo ==
  ASSUME NEW info, Classed(info), NEW n \in DOMAIN log, log[n].kernel \in Kernels
  PROVE  LET fused == FuseInfo(info, SafetyInfo(log[n].kernel)) IN Classed(fused) /\ Covers(fused, n)
<1> DEFINE own == SafetyInfo(log[n].kernel)
           fused == FuseInfo(info, own)
<1>1. Classed(own)
  BY OwnInfo
<1>2. DOMAIN fused = DOMAIN info \cup DOMAIN own
  BY DEF FuseInfo
<1>3. ASSUME NEW v \in DOMAIN info, v \notin DOMAIN own
      PROVE  fused[v] = info[v]
  BY <1>3 DEF FuseInfo
<1>4. ASSUME NEW v \in DOMAIN own
      PROVE  /\ fused[v].class \in 1..5 /\ own[v].class <= fused[v].class
             /\ fused[v].mode = "Read" => own[v].mode = "Read"
             /\ fused[v].index = own[v].index
  <2>1. CASE v \notin DOMAIN info
    <3>1. fused[v] = own[v]
      BY <2>1 DEF FuseInfo
    <3>2. own[v].class \in 1..5
      BY <1>1 DEF Classed
    <3> HIDE DEF fused, own
    <3> QED
      BY <3>1, <3>2
  <2>2. CASE v \in DOMAIN info
    <3> DEFINE classes == {info[v].class, own[v].class}
    <3>1. fused[v] = [class |-> Max(classes),
                      mode |-> IF info[v].mode = own[v].mode THEN own[v].mode ELSE "ReadWrite",
                      index |-> own[v].index]
      BY <2>2 DEF FuseInfo
    <3>2. info[v].class \in 1..5 /\ own[v].class \in 1..5
      BY <1>1, <2>2 DEF Classed
    <3>3. Max(classes) \in classes /\ own[v].class <= Max(classes)
      <4>1. classes \subseteq 0..5 /\ classes # {} /\ own[v].class \in classes
        BY <3>2
      <4> HIDE DEF classes
      <4> QED
        BY <4>1, GreatestNat
    <3> HIDE DEF fused, own
    <3> QED
      BY <3>1, <3>2, <3>3
  <2> QED
    BY <2>1, <2>2
<1> HIDE DEF fused, own
<1>5. Classed(fused)
  BY <1>1, <1>2, <1>3, <1>4 DEF Classed
<1>6. Covers(fused, n)
  BY <1>2, <1>4 DEF Covers, own
<1> QED
  BY <1>5, <1>6 DEF fused, own

LEMMA SafeIsFusible ==
  ASSUME NEW m \in DOMAIN log, NEW n \in DOMAIN log, log[m].kernel \in Kernels, log[n].kernel \in Kernels,
         NEW info, Classed(info), Covers(info, n), Safe(info, SafetyInfo(log[m].kernel))
  PROVE  Fusible(m, n)
<1> DEFINE a == SafetyInfo(log[m].kernel)
           b == SafetyInfo(log[n].kernel)
<1> SUFFICES ASSUME NEW v \in DOMAIN a \cap DOMAIN b
             PROVE  \/ a[v].mode = "Read" /\ b[v].mode = "Read"
                    \/ a[v].index = b[v].index
                    \/ a[v].class <= TID /\ b[v].class <= TID
  BY DEF Fusible
<1>1. /\ v \in DOMAIN info /\ b[v].class <= info[v].class
      /\ info[v].mode = "Read" => b[v].mode = "Read"
      /\ info[v].index = b[v].index
  BY DEF Covers
<1>2. \/ info[v].mode = "Read" /\ a[v].mode = "Read"
      \/ info[v].index = a[v].index
      \/ info[v].class <= TID /\ a[v].class <= TID
  BY <1>1 DEF Safe
<1>3. info[v].class \in 1..5 /\ b[v].class \in 1..5
  BY <1>1, OwnInfo DEF Classed
<1> HIDE DEF a, b
<1> QED
  BY <1>1, <1>2, <1>3 DEF TID

\* fuse_naive's variables before the operations below n.
AccInv(acc, ops, n) ==
  /\ acc = [groups |-> acc.groups, group |-> acc.group, info |-> acc.info, raises |-> acc.raises, range |-> acc.range]
  /\ acc.groups \in Seq(Seq(Nat)) /\ acc.group \in Seq(Nat)
  /\ Sound(<<acc.group>> \o acc.groups, ops, n)
  /\ Classed(acc.info)
  /\ acc.group # <<>> => acc.group[1] \in DOMAIN log /\ Covers(acc.info, acc.group[1])

Typed == \A n \in DOMAIN log : log[n].kernel \in Kernels

LEMMA CloseSound ==
  ASSUME NEW acc, NEW ops, NEW n, AccInv(acc, ops, n)
  PROVE  /\ AccInv(Close(acc), ops, n) /\ Close(acc).group = <<>>
         /\ Sound(Close(acc).groups, ops, n)
<1>1. CASE acc.group = <<>>
  <2>1. Close(acc) = acc
    BY <1>1 DEF Close
  <2> QED
    BY <1>1, <2>1, EmptyGroup DEF AccInv
<1>2. CASE acc.group # <<>>
  <2> DEFINE all == <<acc.group>> \o acc.groups
  <2>1. Close(acc) = [groups |-> all, group |-> <<>>, info |-> <<>>, raises |-> acc.raises, range |-> None]
    BY <1>2 DEF Close, AccInv
  <2>2. Sound(all, ops, n) /\ all \in Seq(Seq(Nat))
    BY DEF AccInv, Sound
  <2> HIDE DEF all
  <2>3. Sound(<<<<>>>> \o all, ops, n)
    BY <2>2, EmptyGroup
  <2>4. /\ Close(acc).groups = all /\ Close(acc).group = <<>> /\ Close(acc).info = <<>>
        /\ Close(acc).raises = acc.raises /\ Close(acc).range = None
    BY <2>1
  <2>5. Classed(Close(acc).info)
    BY <2>4 DEF Classed
  <2>6. <<>> \in Seq(Nat)
    OBVIOUS
  <2> QED
    BY <2>1, <2>2, <2>3, <2>4, <2>5, <2>6 DEF AccInv
<1> QED
  BY <1>1, <1>2

LEMMA SkippedSound ==
  ASSUME NEW groups, NEW ops, ops \subseteq Nat, NEW n \in Nat, n \notin ops, Sound(groups, ops, n + 1)
  PROVE  Sound(groups, ops, n)
<1>1. \A m \in ops : m >= n + 1 <=> m >= n
  OBVIOUS
<1>2. {m \in ops : m >= n + 1} = {m \in ops : m >= n}
  BY <1>1
<1> QED
  BY <1>2 DEF Sound

LEMMA FuseNextSound ==
  ASSUME Typed, NEW ops, ops \subseteq Nat, NEW n \in ops, n \in DOMAIN log, NEW acc, AccInv(acc, ops, n + 1)
  PROVE  AccInv(FuseNext(n, acc), ops, n)
<1> DEFINE k == log[n].kernel
           range == IF acc.range = None THEN Policy[k] ELSE acc.range
           new == FuseNext(n, acc)
<1>1. k \in Kernels /\ n \in Nat
  BY DEF Typed
<1>2. <<>> \in Seq(Nat) /\ <<n>> \in Seq(Nat) /\ <<n>> # <<>> /\ <<n>>[1] = n
  BY <1>1
<1>3. CASE Single(k)
  <2> DEFINE closed == Close(acc)
             all == <<<<n>>>> \o closed.groups
  <2>1. AccInv(closed, ops, n + 1) /\ closed.group = <<>> /\ Sound(closed.groups, ops, n + 1)
    BY CloseSound
  <2>2. new = [closed EXCEPT !.groups = all]
    BY <1>3 DEF FuseNext
  <2> HIDE DEF closed
  <2>3. Sound(all, ops, n)
    BY <1>1, <2>1, NewGroup
  <2> HIDE DEF all
  <2>4. all \in Seq(Seq(Nat)) /\ Sound(<<<<>>>> \o all, ops, n)
    BY <2>3, EmptyGroup DEF Sound
  <2>5. new = [groups |-> all, group |-> <<>>, info |-> closed.info, raises |-> closed.raises, range |-> closed.range]
    BY <2>1, <2>2 DEF AccInv
  <2> HIDE DEF new
  <2>6. /\ new.groups = all /\ new.group = <<>> /\ new.info = closed.info
        /\ new.raises = closed.raises /\ new.range = closed.range
    BY <2>5
  <2>7. AccInv(new, ops, n)
    BY <1>2, <2>1, <2>4, <2>5, <2>6 DEF AccInv
  <2> QED
    BY <2>7 DEF new
<1>4. CASE ~Single(k) /\ range = Policy[k] /\ Safe(acc.info, SafetyInfo(k))
  <2> DEFINE more == <<n>> \o acc.group
             info == FuseInfo(acc.info, SafetyInfo(k))
  <2>1. new = [acc EXCEPT !.group = more, !.info = info, !.range = range]
    BY <1>4 DEF FuseNext
  <2>2. more \in Seq(Nat) /\ more[1] = n
    BY <1>1, Prepended DEF AccInv
  <2>3. Classed(info) /\ Covers(info, n)
    BY <1>1, CombinedInfo DEF AccInv
  <2>4. acc.group # <<>> => Fusible(n, acc.group[1])
    BY <1>1, <1>4, SafeIsFusible DEF AccInv, Typed
  <2>5. Sound(<<more>> \o acc.groups, ops, n)
    BY <1>1, <2>4, FirstGroup DEF AccInv
  <2> HIDE DEF more, info, range
  <2>6. new = [groups |-> acc.groups, group |-> more, info |-> info, raises |-> acc.raises, range |-> range]
    BY <2>1 DEF AccInv
  <2> HIDE DEF new
  <2>7. /\ new.groups = acc.groups /\ new.group = more /\ new.info = info
        /\ new.raises = acc.raises /\ new.range = range
    BY <2>6
  <2>8. AccInv(new, ops, n)
    BY <2>2, <2>3, <2>5, <2>6, <2>7 DEF AccInv
  <2> QED
    BY <2>8 DEF new
<1>5. CASE ~Single(k) /\ ~(range = Policy[k] /\ Safe(acc.info, SafetyInfo(k)))
  <2> DEFINE all == <<acc.group>> \o acc.groups
             raises == acc.raises \/ acc.group = <<>>
  <2>1. new = [groups |-> all, group |-> <<n>>, info |-> SafetyInfo(k), range |-> Policy[k], raises |-> raises]
    BY <1>5 DEF FuseNext
  <2>2. all \in Seq(Seq(Nat)) /\ Sound(<<<<n>>>> \o all, ops, n)
    <3>1. Sound(all, ops, n + 1)
      BY DEF AccInv
    <3>2. all \in Seq(Seq(Nat))
      BY <3>1 DEF Sound
    <3> HIDE DEF all
    <3>3. Sound(<<<<n>>>> \o all, ops, n)
      BY <1>1, <3>1, NewGroup
    <3> QED
      BY <3>2, <3>3
  <2>3. Classed(SafetyInfo(k)) /\ Covers(SafetyInfo(k), n)
    BY <1>1, OwnInfo
  <2> HIDE DEF all, new, raises
  <2>4. /\ new.groups = all /\ new.group = <<n>> /\ new.info = SafetyInfo(k)
        /\ new.raises = raises /\ new.range = Policy[k]
    BY <2>1
  <2>5. AccInv(new, ops, n)
    BY <1>2, <2>1, <2>2, <2>3, <2>4 DEF AccInv
  <2> QED
    BY <2>5 DEF new
<1> QED
  BY <1>3, <1>4, <1>5

\* The loop has a value for each operation it comes to: Fuse's function exists.
LoopValue(ops, n, from) ==
  IF n > Len(log) THEN FuseStart(ops)
  ELSE IF n \in ops THEN FuseNext(n, from[n + 1]) ELSE from[n + 1]

Loop(ops, first, from) == from = [n \in first..(Len(log) + 1) |-> LoopValue(ops, n, from)]

LEMMA LoopExists ==
  ASSUME NEW ops, Len(log) \in Nat
  PROVE  \E from : Loop(ops, 1, from)
<1> DEFINE N == Len(log)
           bad == {k \in 0..N : ~\E from : Loop(ops, N + 1 - k, from)}
<1>1. CASE bad = {}
  <2>1. N \in 0..N /\ N + 1 - N = 1
    OBVIOUS
  <2>2. \E from : Loop(ops, N + 1 - N, from)
    BY <1>1, <2>1
  <2> QED
    BY <2>1, <2>2
<1>2. CASE bad # {}
  <2> DEFINE k == Min(bad)
             first == N + 1 - k
  <2>1. k \in bad /\ \A y \in bad : k <= y
    <3>1. bad \subseteq Nat
      OBVIOUS
    <3> HIDE DEF bad
    <3> QED
      BY <1>2, <3>1, LeastNat
  <2>2. k \in 0..N
    BY <2>1
  <2>3. CASE k = 0
    <3> DEFINE g == [n \in first..(N + 1) |-> FuseStart(ops)]
    <3>1. \A n \in first..(N + 1) : n > N
      BY <2>3
    <3>2. g = [n \in first..(N + 1) |-> LoopValue(ops, n, g)]
      <4> HIDE DEF first
      <4> QED
        BY <3>1 DEF LoopValue
    <3>3. Loop(ops, first, g)
      BY <3>2 DEF Loop
    <3> QED
      BY <2>1, <3>3
  <2>4. CASE k # 0
    <3>1. k - 1 \in 0..N /\ ~(k <= k - 1) /\ N + 1 - (k - 1) = first + 1
      BY <2>2, <2>4
    <3>2. PICK f : Loop(ops, first + 1, f)
      BY <2>1, <3>1
    <3> DEFINE g == [n \in first..(N + 1) |-> IF n = first THEN LoopValue(ops, n, f) ELSE f[n]]
    <3>3. f = [n \in (first + 1)..(N + 1) |-> LoopValue(ops, n, f)]
      BY <3>2 DEF Loop
    <3>4. first \in Nat /\ first <= N
      BY <2>2, <2>4
    <3> HIDE DEF first, k, bad
    <3>5. ASSUME NEW n \in first..(N + 1), n <= N
          PROVE  g[n + 1] = f[n + 1]
      <4>1. n + 1 \in first..(N + 1) /\ n + 1 # first
        BY <3>4, <3>5
      <4> QED
        BY <4>1
    <3>6. ASSUME NEW n \in first..(N + 1)
          PROVE  LoopValue(ops, n, g) = LoopValue(ops, n, f)
      <4> HIDE DEF g
      <4>1. CASE n <= N
        BY <3>5, <4>1 DEF LoopValue
      <4>2. CASE n > N
        BY <4>2 DEF LoopValue
      <4> QED
        BY <3>4, <4>1, <4>2
    <3>7. ASSUME NEW n \in first..(N + 1)
          PROVE  g[n] = LoopValue(ops, n, f)
      <4>1. CASE n = first
        BY <4>1
      <4>2. CASE n # first
        <5>1. n \in (first + 1)..(N + 1)
          BY <3>4, <4>2
        <5> QED
          BY <3>3, <4>2, <5>1
      <4> QED
        BY <4>1, <4>2
    <3>8. g = [n \in first..(N + 1) |-> g[n]]
      OBVIOUS
    <3>9. Loop(ops, first, g)
      <4> HIDE DEF g
      <4> QED
        BY <3>6, <3>7, <3>8 DEF Loop
    <3> QED
      BY <2>1, <3>9 DEF bad, first
  <2> QED
    BY <2>3, <2>4
<1> QED
  BY <1>1, <1>2

LEMMA FuseUnfolds ==
  ASSUME NEW ops, Len(log) \in Nat
  PROVE  \E from : Loop(ops, 1, from) /\ Fuse(ops) = Close(from[1])
<1> DEFINE from == CHOOSE f : Loop(ops, 1, f)
<1>1. Fuse(ops) = Close(from[1])
  BY DEF Fuse, Loop, LoopValue
<1>2. Loop(ops, 1, from)
  BY LoopExists
<1> QED
  BY <1>1, <1>2

LEMMA StartSound ==
  ASSUME NEW ops, ops \subseteq DOMAIN log, NEW N \in Nat, N = Len(log), DOMAIN log = 1..N
  PROVE  AccInv(FuseStart(ops), ops, N + 1)
<1> DEFINE start == FuseStart(ops)
           range == IF ops = {} \/ Kind[log[Max(ops)].kernel] = "team" THEN None ELSE Policy[log[Max(ops)].kernel]
<1>1. start = [groups |-> <<>>, group |-> <<>>, info |-> <<>>, raises |-> FALSE, range |-> range]
  BY DEF FuseStart
<1>2. {m \in ops : m >= N + 1} = {}
  OBVIOUS
<1>3. Sound(<<>>, ops, N + 1)
  <2>1. <<>> \in Seq(Seq(Nat)) /\ DOMAIN <<>> = {}
    OBVIOUS
  <2>2. Members(<<>>) = {}
    BY <2>1 DEF Members
  <2>3. Ordered(<<>>) /\ NeighboursFusible(<<>>)
    BY <2>1 DEF Ordered, NeighboursFusible
  <2> QED
    BY <1>2, <2>1, <2>2, <2>3 DEF Sound
<1>4. Sound(<<<<>>>> \o <<>>, ops, N + 1)
  <2>1. <<>> \in Seq(Seq(Nat))
    OBVIOUS
  <2> QED
    BY <1>3, <2>1, EmptyGroup
<1>5. <<>> \in Seq(Nat) /\ <<>> \in Seq(Seq(Nat)) /\ Classed(<<>>)
  BY DEF Classed
<1> HIDE DEF range, start
<1>6. /\ start.groups = <<>> /\ start.group = <<>> /\ start.info = <<>>
      /\ start.raises = FALSE /\ start.range = range
  BY <1>1
<1>7. AccInv(start, ops, N + 1)
  BY <1>1, <1>4, <1>5, <1>6 DEF AccInv
<1> QED
  BY <1>7 DEF start

\* fuse keeps every operation once, in the order of the calls, and puts only what
\* is_safe_to_fuse lets through next to one another.
LEMMA FuseSound ==
  ASSUME Typed, NEW ops, ops \subseteq DOMAIN log, Len(log) \in Nat, DOMAIN log = 1..Len(log)
  PROVE  LET groups == Fuse(ops).groups IN
         /\ groups \in Seq(Seq(Nat)) /\ Ordered(groups) /\ NeighboursFusible(groups)
         /\ Members(groups) = ops
<1> DEFINE N == Len(log)
<1>1. PICK from : Loop(ops, 1, from) /\ Fuse(ops) = Close(from[1])
  BY FuseUnfolds
<1>2. \A n \in 1..(N + 1) : from[n] = LoopValue(ops, n, from)
  BY <1>1 DEF Loop
<1> DEFINE bad == {k \in 0..N : ~AccInv(from[N + 1 - k], ops, N + 1 - k)}
<1>3. bad = {}
  <2> SUFFICES ASSUME bad # {} PROVE FALSE
    OBVIOUS
  <2> DEFINE k == Min(bad)
             n == N + 1 - k
  <2>1. k \in bad /\ \A y \in bad : k <= y
    <3>1. bad \subseteq Nat
      OBVIOUS
    <3> HIDE DEF bad
    <3> QED
      BY <3>1, LeastNat
  <2>2. k \in 0..N /\ ~AccInv(from[n], ops, n)
    BY <2>1
  <2>3. CASE k = 0
    <3>1. n = N + 1 /\ n \in 1..(N + 1) /\ n > N
      BY <2>3
    <3>2. from[n] = FuseStart(ops)
      BY <1>2, <3>1 DEF LoopValue
    <3> QED
      BY <2>2, <3>1, <3>2, StartSound
  <2>4. CASE k # 0
    <3>1. k - 1 \in 0..N /\ ~(k <= k - 1) /\ N + 1 - (k - 1) = n + 1
      BY <2>2, <2>4
    <3>2. AccInv(from[n + 1], ops, n + 1)
      BY <2>1, <3>1
    <3>3. n \in 1..N /\ n \in Nat /\ n \in 1..(N + 1) /\ ~(n > N)
      BY <2>2, <2>4
    <3> HIDE DEF n, k, bad
    <3>4. from[n] = IF n \in ops THEN FuseNext(n, from[n + 1]) ELSE from[n + 1]
      BY <1>2, <3>3 DEF LoopValue
    <3>5. ops \subseteq Nat
      OBVIOUS
    <3>6. CASE n \in ops
      <4>1. from[n] = FuseNext(n, from[n + 1])
        BY <3>4, <3>6
      <4> QED
        BY <2>2, <3>2, <3>3, <3>5, <3>6, <4>1, FuseNextSound
    <3>7. CASE n \notin ops
      <4>1. from[n] = from[n + 1]
        BY <3>4, <3>7
      <4> QED
        BY <2>2, <3>2, <3>3, <3>5, <3>7, <4>1, SkippedSound DEF AccInv
    <3> QED
      BY <3>6, <3>7
  <2> QED
    BY <2>3, <2>4
<1>4. AccInv(from[1], ops, 1)
  <2>1. N \in 0..N /\ N + 1 - N = 1
    OBVIOUS
  <2>2. AccInv(from[N + 1 - N], ops, N + 1 - N)
    BY <1>3, <2>1
  <2> QED
    BY <2>1, <2>2
<1>5. Sound(Fuse(ops).groups, ops, 1)
  BY <1>1, <1>4, CloseSound
<1>6. {m \in ops : m >= 1} = ops
  OBVIOUS
<1> QED
  BY <1>5, <1>6 DEF Sound

-----------------------------------------------------------------------------
(* get_operations.                                                         *)

\* What operation n waits for in the trace comes before it.
Acyclic == \A n \in DOMAIN log : Before(n) \cap trace \subseteq 1..(n - 1)

Reach(n, reach) == reach = [m \in 1..n |-> {m} \cup UNION {reach[w] : w \in Before(m) \cap trace}]

LEMMA ReachExists ==
  ASSUME Acyclic, NEW N \in Nat, DOMAIN log = 1..N, NEW n \in 0..N
  PROVE  \E reach : Reach(n, reach)
<1> DEFINE bad == {k \in 0..N : ~\E reach : Reach(k, reach)}
<1> SUFFICES ASSUME bad # {} PROVE FALSE
  OBVIOUS
<1> DEFINE k == Min(bad)
<1>1. k \in bad /\ \A y \in bad : k <= y
  <2>1. bad \subseteq Nat
    OBVIOUS
  <2> HIDE DEF bad
  <2> QED
    BY <2>1, LeastNat
<1>2. CASE k = 0
  <2> DEFINE g == [m \in 1..0 |-> {}]
  <2>1. g = [m \in 1..0 |-> {m} \cup UNION {g[w] : w \in Before(m) \cap trace}]
    OBVIOUS
  <2>2. Reach(0, g)
    <3> HIDE DEF g
    <3> QED
      BY <2>1 DEF Reach
  <2>3. ~\E reach : Reach(0, reach)
    BY <1>1, <1>2
  <2> QED
    BY <2>2, <2>3
<1>3. CASE k # 0
  <2>1. k \in 0..N /\ k - 1 \in 0..N /\ ~(k <= k - 1)
    BY <1>1, <1>3
  <2>2. PICK f : Reach(k - 1, f)
    BY <1>1, <2>1
  <2> HIDE DEF bad, k
  <2> DEFINE g == [m \in 1..k |-> IF m = k THEN {k} \cup UNION {f[w] : w \in Before(k) \cap trace} ELSE f[m]]
  <2>3. \A m \in 1..k : Before(m) \cap trace \subseteq 1..(k - 1)
    <3> SUFFICES ASSUME NEW m \in 1..k PROVE Before(m) \cap trace \subseteq 1..(k - 1)
      OBVIOUS
    <3>1. m \in DOMAIN log
      BY <2>1
    <3>2. Before(m) \cap trace \subseteq 1..(m - 1)
      BY <3>1 DEF Acyclic
    <3> QED
      BY <2>1, <3>2
  <2>4. \A w \in 1..(k - 1) : g[w] = f[w]
    BY <2>1
  <2>5. ASSUME NEW m \in 1..k
        PROVE  g[m] = {m} \cup UNION {f[w] : w \in Before(m) \cap trace}
    <3>1. CASE m = k
      BY <3>1
    <3>2. CASE m # k
      <4>1. m \in 1..(k - 1)
        BY <2>1, <3>2
      <4>2. f = [i \in 1..(k - 1) |-> {i} \cup UNION {f[w] : w \in Before(i) \cap trace}]
        BY <2>2 DEF Reach
      <4>3. f[m] = {m} \cup UNION {f[w] : w \in Before(m) \cap trace}
        BY <4>1, <4>2
      <4> QED
        BY <2>4, <4>1, <4>3
    <3> QED
      BY <3>1, <3>2
  <2>6. ASSUME NEW m \in 1..k
        PROVE  {f[w] : w \in Before(m) \cap trace} = {g[w] : w \in Before(m) \cap trace}
    <3> HIDE DEF g
    <3> QED
      BY <2>3, <2>4
  <2>7. g = [m \in 1..k |-> g[m]]
    OBVIOUS
  <2>8. Reach(k, g)
    <3> HIDE DEF g
    <3> QED
      BY <2>5, <2>6, <2>7 DEF Reach
  <2> QED
    BY <1>1, <2>8 DEF bad
<1> QED
  BY <1>2, <1>3

LEMMA NeededUnfolds ==
  ASSUME Acyclic, NEW N \in Nat, DOMAIN log = 1..N, NEW n \in 0..N
  PROVE  \E reach : Reach(n, reach) /\ Needed(n) = reach[n]
<1> DEFINE reach == CHOOSE f : Reach(n, f)
<1>1. Needed(n) = reach[n]
  BY DEF Needed, Reach, Before
<1>2. Reach(n, reach)
  BY ReachExists
<1> QED
  BY <1>1, <1>2

\* get_operations takes the operation, only operations of the trace, and with each
\* of them all that it waits for.
LEMMA NeededClosed ==
  ASSUME Acyclic, NEW N \in Nat, DOMAIN log = 1..N, trace \subseteq DOMAIN log, NEW n \in trace
  PROVE  /\ n \in Needed(n) /\ Needed(n) \subseteq trace
         /\ \A m \in Needed(n) : Before(m) \cap trace \subseteq Needed(n)
<1>1. n \in 1..N /\ n \in 0..N
  OBVIOUS
<1>2. PICK reach : Reach(n, reach) /\ Needed(n) = reach[n]
  BY <1>1, NeededUnfolds
<1>3. reach = [m \in 1..n |-> {m} \cup UNION {reach[w] : w \in Before(m) \cap trace}]
  BY <1>2 DEF Reach
<1>4. \A m \in 1..n : reach[m] = {m} \cup UNION {reach[w] : w \in Before(m) \cap trace}
  BY <1>3
<1> DEFINE Closed(m) == m \in trace =>
             reach[m] \subseteq trace /\ \A x \in reach[m] : Before(x) \cap trace \subseteq reach[m]
           bad == {m \in 1..n : ~Closed(m)}
<1>5. bad = {}
  <2> SUFFICES ASSUME bad # {} PROVE FALSE
    OBVIOUS
  <2> DEFINE k == Min(bad)
  <2>1. k \in bad /\ \A y \in bad : k <= y
    <3>1. bad \subseteq Nat
      BY <1>1
    <3> HIDE DEF bad
    <3> QED
      BY <3>1, LeastNat
  <2>2. k \in 1..n /\ ~Closed(k) /\ k \in trace
    BY <2>1
  <2>3. \A w \in 1..(k - 1) : Closed(w)
    <3> SUFFICES ASSUME NEW w \in 1..(k - 1) PROVE Closed(w)
      OBVIOUS
    <3>1. w \in 1..n /\ ~(k <= w)
      BY <1>1, <2>2
    <3> HIDE DEF Closed, k
    <3> QED
      BY <2>1, <3>1
  <2> HIDE DEF bad, k
  <2>4. Before(k) \cap trace \subseteq 1..(k - 1)
    BY <1>1, <2>2 DEF Acyclic
  <2>5. reach[k] = {k} \cup UNION {reach[w] : w \in Before(k) \cap trace}
    BY <1>4, <2>2
  <2>6. \A w \in Before(k) \cap trace : w \in reach[w] /\ reach[w] \subseteq reach[k] /\ Closed(w)
    <3> SUFFICES ASSUME NEW w \in Before(k) \cap trace
                 PROVE  w \in reach[w] /\ reach[w] \subseteq reach[k] /\ Closed(w)
      OBVIOUS
    <3>1. w \in 1..(k - 1) /\ w \in 1..n
      BY <1>1, <2>2, <2>4
    <3>2. w \in reach[w]
      BY <1>4, <3>1
    <3>3. reach[w] \subseteq reach[k]
      BY <2>5
    <3> HIDE DEF Closed
    <3> QED
      BY <2>3, <3>1, <3>2, <3>3
  <2>7. reach[k] \subseteq trace
    BY <2>2, <2>5, <2>6
  <2>8. ASSUME NEW x \in reach[k]
        PROVE  Before(x) \cap trace \subseteq reach[k]
    <3>1. CASE x = k
      BY <2>6, <3>1
    <3>2. CASE x # k
      <4>1. PICK w \in Before(k) \cap trace : x \in reach[w]
        BY <2>5, <3>2
      <4> QED
        BY <2>6, <4>1
    <3> QED
      BY <3>1, <3>2
  <2> QED
    BY <2>2, <2>7, <2>8
<1>6. Closed(n)
  <2> HIDE DEF Closed
  <2> QED
    BY <1>1, <1>5
<1>7. n \in reach[n]
  BY <1>1, <1>4
<1> QED
  BY <1>2, <1>6, <1>7

-----------------------------------------------------------------------------
(* The tracer: logging.                                                    *)

LEMMA LogType ==
  ASSUME TypeOK
  PROVE  /\ Len(log) \in Nat /\ DOMAIN log = 1..Len(log) /\ Typed
         /\ \A n \in DOMAIN log : \A dep \in log[n].dependencies : dep.data \in Data \cup Nat /\ dep.version \in Nat
<1> DEFINE Dependency == [data : Data \cup Nat, version : Nat]
           Call == [kernel : Kernels, dependencies : SUBSET Dependency]
<1>1. log \in Seq(Call)
  BY DEF TypeOK
<1>2. Len(log) \in Nat /\ DOMAIN log = 1..Len(log) /\ \A n \in 1..Len(log) : log[n] \in Call
  <2> HIDE DEF Call
  <2> QED
    BY <1>1
<1>3. \A c \in Call : c.kernel \in Kernels /\ c.dependencies \subseteq Dependency
  <2> HIDE DEF Dependency
  <2> QED
    OBVIOUS
<1>4. \A dep \in Dependency : dep.data \in Data \cup Nat /\ dep.version \in Nat
  OBVIOUS
<1> HIDE DEF Call, Dependency
<1> QED
  BY <1>2, <1>3, <1>4 DEF Typed

LEMMA AccessedArrays ==
  ASSUME NEW k \in Kernels
  PROVE  /\ Loads(k) \subseteq Data /\ Stores(k) \subseteq Data
         /\ Reads(k) \subseteq Data /\ Writes(k) \subseteq Data
<1>1. \A a \in ToSet(Accesses[k]) : a.view \in Views
  BY AccessType DEF ToSet
<1> QED
  BY <1>1, BaseAssumption DEF Loads, Stores, Reads, Writes

\* What uses an array that no call is blind to was traced as a reader of it; what writes it,
\* as a writer too.
LEMMA NotBlind ==
  ASSUME TypeOK, NEW d \in Data, ~Blind(d), NEW n \in DOMAIN log,
         d \in Loads(log[n].kernel) \/ Stored(n, d) \/ Versioned(n, d)
  PROVE  d \in Reads(log[n].kernel) /\ Traced(n) /\ (Stored(n, d) => Versioned(n, d))
<1>1. log[n].kernel \in Kernels
  BY LogType DEF Typed
<1>2. d \in Reads(log[n].kernel)
  BY DEF Blind, Stored, Versioned
<1>3. \E a \in ToSet(Accesses[log[n].kernel]) : "Read" \in a.recorded
  BY <1>2 DEF Reads
<1>4. Kind[log[n].kernel] # "fill"
  BY <1>1, <1>3, FillAssumption
<1>5. \A a \in ToSet(Accesses[log[n].kernel]) : a.store => "Write" \in a.recorded
  BY <1>1, <1>4, RecordedAssumption
<1>6. Stored(n, d) => Versioned(n, d)
  BY <1>5 DEF Stored, Versioned, Stores, Writes
<1> QED
  BY <1>2, <1>4, <1>6 DEF Traced

\* The current version of an array is the last traced write; that of a result, its operation.
LEMMA CurrentIsLast ==
  ASSUME TypeOK, VersionsInv, NEW d \in Data
  PROVE  LET w == WriterOf(CurrentVersion(d)) IN
         /\ w \in 0..Len(log)
         /\ w = 0 \/ (Versioned(w, d) /\ Traced(w))
         /\ \A m \in DOMAIN log : Versioned(m, d) /\ Traced(m) => m <= w
<1> DEFINE last == Len(writers[d])
           w == WriterOf(CurrentVersion(d))
<1>1. writers[d] \in Seq(Nat) /\ last \in Nat /\ DOMAIN writers[d] = 1..last
  BY DEF TypeOK
<1>2. w = IF last = 0 THEN 0 ELSE writers[d][last]
  BY DEF WriterOf, CurrentVersion
<1>3. Len(log) \in Nat /\ DOMAIN log = 1..Len(log)
  BY LogType
<1> HIDE DEF w
<1>4. CASE last = 0
  <2>1. \A m \in DOMAIN log : ~(Versioned(m, d) /\ Traced(m))
    BY <1>1, <1>4 DEF VersionsInv
  <2> QED
    BY <1>2, <1>3, <1>4, <2>1 DEF w
<1>5. CASE last # 0
  <2>1. w = writers[d][last] /\ last \in DOMAIN writers[d]
    BY <1>1, <1>2, <1>5
  <2>2. Versioned(w, d) /\ Traced(w)
    BY <2>1 DEF VersionsInv
  <2>3. ASSUME NEW m \in DOMAIN log, Versioned(m, d), Traced(m)
        PROVE  m <= w
    <3>1. PICK i \in DOMAIN writers[d] : writers[d][i] = m
      BY <2>3 DEF VersionsInv
    <3>2. i <= last
      BY <1>1
    <3> QED
      BY <2>1, <3>1, <3>2 DEF VersionsInv
  <2>4. w \in 0..Len(log)
    BY <1>3, <2>2 DEF Versioned
  <2> QED
    BY <2>2, <2>3, <2>4 DEF w
<1> QED
  BY <1>1, <1>4, <1>5

LEMMA CurrentResult ==
  ASSUME NEW n \in Results, TypeOK
  PROVE  WriterOf(CurrentVersion(n)) = n /\ n \in 1..Len(log) /\ CurrentVersion(n) = [data |-> n, version |-> 0]
<1>1. n \in 1..Len(log) /\ n \notin Data
  BY LogType, NamesAssumption DEF Results
<1> QED
  BY <1>1 DEF WriterOf, CurrentVersion

\* A call more in the log: the earlier ones are what they were.
LEMMA Logged ==
  ASSUME TypeOK, NEW k \in Kernels, NEW deps \in SUBSET [data : Data \cup Nat, version : Nat],
         log' = Append(log, [kernel |-> k, dependencies |-> deps])
  PROVE  /\ Len(log') = Len(log) + 1 /\ DOMAIN log' = 1..(Len(log) + 1)
         /\ \A n \in DOMAIN log : log'[n] = log[n] /\ n \in DOMAIN log'
         /\ log'[Len(log) + 1] = [kernel |-> k, dependencies |-> deps]
         /\ log' \in Seq([kernel : Kernels, dependencies : SUBSET [data : Data \cup Nat, version : Nat]])
<1> DEFINE Call == [kernel : Kernels, dependencies : SUBSET [data : Data \cup Nat, version : Nat]]
           call == [kernel |-> k, dependencies |-> deps]
<1>1. log \in Seq(Call) /\ call \in Call
  BY DEF TypeOK
<1> HIDE DEF Call, call
<1>2. /\ Len(log') = Len(log) + 1 /\ DOMAIN log' = 1..(Len(log) + 1)
      /\ \A n \in 1..Len(log) : log'[n] = log[n]
      /\ log'[Len(log) + 1] = call /\ log' \in Seq(Call) /\ Len(log) \in Nat /\ DOMAIN log = 1..Len(log)
  BY <1>1 DEF call
<1>3. \A n \in DOMAIN log : n \in DOMAIN log'
  BY <1>2
<1> QED
  BY <1>2, <1>3 DEF Call, call

\* Versions are only added: what an operation waits for does not change.
Extended ==
  /\ writers' \in [Data -> Seq(Nat)]
  /\ \A d \in Data : Len(writers[d]) <= Len(writers'[d]) /\
       \A i \in DOMAIN writers[d] : writers'[d][i] = writers[d][i]

LEMMA SameWriter ==
  ASSUME TypeOK, Extended, NEW dep, dep.version \in Nat,
         dep.data \in Data => dep.version <= Len(writers[dep.data])
  PROVE  WriterOf(dep)' = WriterOf(dep)
<1>1. CASE dep.data \in Data /\ dep.version # 0
  <2>1. writers[dep.data] \in Seq(Nat) /\ dep.version \in 1..Len(writers[dep.data])
    BY <1>1 DEF TypeOK
  <2>2. dep.version \in DOMAIN writers[dep.data]
    BY <2>1
  <2> QED
    BY <1>1, <2>2 DEF WriterOf, Extended
<1>2. CASE dep.data \notin Data \/ dep.version = 0
  BY <1>2 DEF WriterOf
<1> QED
  BY <1>1, <1>2

\* What holds of the operations logged so far still does.
LEMMA StillDependencies ==
  ASSUME TypeOK, DependenciesInv, Extended, NEW k \in Kernels,
         NEW deps \in SUBSET [data : Data \cup Nat, version : Nat],
         log' = Append(log, [kernel |-> k, dependencies |-> deps]), NEW n \in DOMAIN log
  PROVE  /\ Before(n)' = Before(n)
         /\ \A dep \in log'[n].dependencies : dep.data \in Data => dep.version <= Len(writers'[dep.data])
         /\ Before(n)' \subseteq 0..(n - 1)
         /\ Traced(n)' => \A d \in Reads(log'[n].kernel) : \E w \in Before(n)' : LastTraced(w, n, d)'
<1>1. log'[n] = log[n] /\ Len(log) \in Nat /\ DOMAIN log = 1..Len(log)
      /\ \A m \in DOMAIN log : log'[m] = log[m] /\ m \in DOMAIN log'
  BY Logged, LogType
<1>2. \A dep \in log[n].dependencies : WriterOf(dep)' = WriterOf(dep)
  BY SameWriter, LogType DEF DependenciesInv
<1>3. Before(n)' = Before(n)
  BY <1>1, <1>2 DEF Before
<1>4. \A dep \in log[n].dependencies : dep.data \in Data => dep.version <= Len(writers'[dep.data])
  <2> SUFFICES ASSUME NEW dep \in log[n].dependencies, dep.data \in Data
               PROVE  dep.version <= Len(writers'[dep.data])
    OBVIOUS
  <2>1. dep.version <= Len(writers[dep.data]) /\ dep.version \in Nat
    BY LogType DEF DependenciesInv
  <2>2. Len(writers[dep.data]) <= Len(writers'[dep.data])
    BY DEF Extended
  <2>3. Len(writers[dep.data]) \in Nat /\ Len(writers'[dep.data]) \in Nat
    BY DEF Extended, TypeOK
  <2> QED
    BY <2>1, <2>2, <2>3
<1>5. ASSUME NEW w \in Before(n), NEW d, LastTraced(w, n, d)
      PROVE  LastTraced(w, n, d)'
  <2>1. \A m \in 1..(n - 1) : m \in DOMAIN log
    BY <1>1
  <2> QED
    BY <1>1, <1>5, <2>1 DEF LastTraced, Versioned, Traced
<1> QED
  BY <1>1, <1>3, <1>4, <1>5 DEF DependenciesInv, Traced

\* A traced operation adds versions of the arrays it is recorded to write, and of no other.
LEMMA OutputsAdded ==
  ASSUME TypeOK, NEW k \in Kernels, NEW n \in Nat, writers' = Outputs(k, n)
  PROVE  /\ Extended
         /\ \A d \in Data :
              /\ DOMAIN writers'[d] = 1..Len(writers'[d]) /\ Len(writers'[d]) \in Nat
              /\ \A i \in DOMAIN writers'[d] :
                   \/ i \in DOMAIN writers[d] /\ writers'[d][i] = writers[d][i]
                   \/ i > Len(writers[d]) /\ writers'[d][i] = n /\ d \in Writes(k)
              /\ d \in Writes(k) => \E i \in DOMAIN writers'[d] : writers'[d][i] = n
<1> DEFINE written(d) == {v \in ViewsOf(k) : Base[v] = d /\ \E j \in On(k, v) : "Write" \in Accesses[k][j].recorded}
           added(d) == [i \in 1..Cardinality(written(d)) |-> n]
<1>1. \A d \in Data : writers'[d] = writers[d] \o added(d)
  BY DEF Outputs
<1>2. DOMAIN writers' = Data /\ writers' = [d \in Data |-> writers'[d]]
  BY DEF Outputs
<1>3. ASSUME NEW d \in Data
      PROVE  /\ Cardinality(written(d)) \in Nat
             /\ Cardinality(written(d)) # 0 <=> d \in Writes(k)
  <2>1. \A a \in ToSet(Accesses[k]) : a.view \in Views
    BY AccessType DEF ToSet
  <2>2. written(d) \in SUBSET Views
    BY <2>1 DEF ViewsOf
  <2>3. IsFiniteSet(written(d))
    BY <2>2, BaseAssumption, FS_Subset
  <2>4. Cardinality(written(d)) \in Nat /\ (Cardinality(written(d)) = 0 <=> written(d) = {})
    <3> HIDE DEF written
    <3> QED
      BY <2>3, FS_CardinalityType, FS_EmptySet
  <2>5. written(d) # {} => d \in Writes(k)
    <3> SUFFICES ASSUME NEW v \in ViewsOf(k), Base[v] = d, NEW j \in On(k, v), "Write" \in Accesses[k][j].recorded
                 PROVE  d \in Writes(k)
      OBVIOUS
    <3>1. Accesses[k][j] \in ToSet(Accesses[k]) /\ Accesses[k][j].view = v
      BY DEF On, ToSet
    <3> QED
      BY <3>1 DEF Writes
  <2>6. d \in Writes(k) => written(d) # {}
    <3> SUFFICES ASSUME NEW a \in ToSet(Accesses[k]), "Write" \in a.recorded, Base[a.view] = d
                 PROVE  a.view \in written(d)
      BY DEF Writes
    <3>1. PICK j \in DOMAIN Accesses[k] : Accesses[k][j] = a
      BY DEF ToSet
    <3>2. j \in On(k, a.view) /\ a.view \in ViewsOf(k)
      BY <3>1 DEF On, ViewsOf
    <3> QED
      BY <3>1, <3>2
  <2> HIDE DEF written
  <2> QED
    BY <2>4, <2>5, <2>6
<1> HIDE DEF written
<1>4. ASSUME NEW d \in Data
      PROVE  /\ writers'[d] \in Seq(Nat) /\ DOMAIN writers'[d] = 1..Len(writers'[d]) /\ Len(writers'[d]) \in Nat
             /\ Len(writers'[d]) = Len(writers[d]) + Cardinality(written(d))
             /\ Len(writers[d]) \in Nat /\ DOMAIN writers[d] = 1..Len(writers[d])
             /\ \A i \in 1..Len(writers[d]) : writers'[d][i] = writers[d][i]
             /\ \A i \in (Len(writers[d]) + 1)..Len(writers'[d]) : writers'[d][i] = n
  <2> DEFINE c == Cardinality(written(d))
             s == writers[d]
             t == added(d)
  <2>1. c \in Nat
    BY <1>3
  <2> HIDE DEF c
  <2>2. t = [i \in 1..c |-> n]
    BY DEF c
  <2>3. t \in Seq(Nat) /\ Len(t) = c /\ \A i \in 1..c : t[i] = n
    <3>1. t \in [1..c -> Nat] /\ \A i \in 1..c : t[i] = n
      BY <2>2
    <3> HIDE DEF t
    <3>2. t \in Seq(Nat)
      BY <2>1, <3>1
    <3>3. DOMAIN t = 1..Len(t) /\ Len(t) \in Nat /\ DOMAIN t = 1..c
      BY <3>1, <3>2
    <3>4. Len(t) = c
      <4>1. \A i \in Nat : i \in 1..Len(t) <=> i \in 1..c
        BY <3>3
      <4>2. ~(Len(t) < c) /\ ~(c < Len(t))
        <5>1. c \in 1..c => c \in 1..Len(t)
          BY <2>1, <4>1
        <5>2. Len(t) \in 1..Len(t) => Len(t) \in 1..c
          BY <3>3, <4>1
        <5> QED
          BY <2>1, <3>3, <5>1, <5>2
      <4> QED
        <5> DEFINE l == Len(t)
        <5>1. l \in Nat /\ c \in Nat /\ ~(l < c) /\ ~(c < l)
          BY <2>1, <3>3, <4>2
        <5> HIDE DEF l
        <5>2. l = c
          BY <5>1
        <5> QED
          BY <5>2 DEF l
    <3> QED
      BY <3>1, <3>2, <3>4
  <2>4. s \in Seq(Nat)
    BY DEF TypeOK
  <2> HIDE DEF t, s
  <2>5. /\ s \o t \in Seq(Nat) /\ Len(s \o t) = Len(s) + c
        /\ \A i \in 1..Len(s) : (s \o t)[i] = s[i]
        /\ \A i \in (Len(s) + 1)..(Len(s) + c) : (s \o t)[i] = n
    <3>1. \A i \in 1..(Len(s) + Len(t)) : (s \o t)[i] = IF i <= Len(s) THEN s[i] ELSE t[i - Len(s)]
      BY <2>3, <2>4
    <3>2. \A i \in (Len(s) + 1)..(Len(s) + c) : i - Len(s) \in 1..c
      BY <2>1, <2>4
    <3>3. s \o t \in Seq(Nat) /\ Len(s \o t) = Len(s) + c /\ Len(s) \in Nat
      BY <2>3, <2>4
    <3>4. \A i \in 1..Len(s) : (s \o t)[i] = s[i]
      BY <2>1, <2>3, <3>1, <3>3
    <3>5. ASSUME NEW i \in (Len(s) + 1)..(Len(s) + c)
          PROVE  (s \o t)[i] = n
      <4>1. i \in 1..(Len(s) + Len(t)) /\ ~(i <= Len(s))
        BY <2>1, <2>3, <3>3
      <4>2. (s \o t)[i] = t[i - Len(s)]
        BY <3>1, <4>1
      <4> QED
        BY <2>3, <3>2, <4>2
    <3> QED
      BY <3>3, <3>4, <3>5
  <2>6. writers'[d] = s \o t
    BY <1>1 DEF s, t
  <2>7. /\ writers'[d] \in Seq(Nat) /\ Len(writers'[d]) = Len(s) + c
        /\ \A i \in 1..Len(s) : writers'[d][i] = s[i]
        /\ \A i \in (Len(s) + 1)..Len(writers'[d]) : writers'[d][i] = n
    BY <2>5, <2>6
  <2>8. DOMAIN writers'[d] = 1..Len(writers'[d]) /\ Len(writers'[d]) \in Nat
    BY <2>7
  <2> QED
    BY <2>4, <2>7, <2>8 DEF s, c
<1>5. Extended
  <2>1. writers' \in [Data -> Seq(Nat)]
    BY <1>2, <1>4
  <2>2. ASSUME NEW d \in Data
        PROVE  Len(writers[d]) <= Len(writers'[d]) /\ \A i \in DOMAIN writers[d] : writers'[d][i] = writers[d][i]
    <3>1. Len(writers[d]) <= Len(writers'[d])
      BY <1>3, <1>4
    <3>2. \A i \in DOMAIN writers[d] : writers'[d][i] = writers[d][i]
      BY <1>4
    <3> QED
      BY <3>1, <3>2
  <2> QED
    BY <2>1, <2>2 DEF Extended
<1>6. ASSUME NEW d \in Data, NEW i \in DOMAIN writers'[d]
      PROVE  \/ i \in DOMAIN writers[d] /\ writers'[d][i] = writers[d][i]
             \/ i > Len(writers[d]) /\ writers'[d][i] = n /\ d \in Writes(k)
  <2>1. i \in 1..Len(writers'[d]) /\ Len(writers[d]) \in Nat /\ Len(writers'[d]) \in Nat
    BY <1>4
  <2>2. CASE i <= Len(writers[d])
    BY <1>4, <2>1, <2>2
  <2>3. CASE i > Len(writers[d])
    <3>1. i \in (Len(writers[d]) + 1)..Len(writers'[d])
      BY <2>1, <2>3
    <3>2. Cardinality(written(d)) # 0
      BY <1>3, <1>4, <2>1, <2>3
    <3> QED
      BY <1>3, <1>4, <2>3, <3>1, <3>2
  <2> QED
    BY <2>1, <2>2, <2>3
<1>7. ASSUME NEW d \in Data, d \in Writes(k)
      PROVE  \E i \in DOMAIN writers'[d] : writers'[d][i] = n
  <2> DEFINE i == Len(writers'[d])
  <2>1. i \in DOMAIN writers'[d] /\ i \in (Len(writers[d]) + 1)..Len(writers'[d])
    BY <1>3, <1>4, <1>7
  <2> QED
    BY <1>4, <2>1
<1> QED
  BY <1>4, <1>5, <1>6, <1>7

-----------------------------------------------------------------------------
(* The inductive invariant: steps of the script.                           *)

\* Where an operation is: still to be run, or run once.
LEMMA WhereItIs ==
  ASSUME Calm, FlushInv, NEW n \in DOMAIN log
  PROVE  runs[n] = IF n \in Planned \/ (n \in trace /\ ~(flushing = All /\ ~InScript)) THEN 0 ELSE 1
<1>1. n \in Planned <=> \E i \in DOMAIN plan : n \in ToSet(plan[i])
  BY DEF Planned, Members
<1> QED
  BY <1>1 DEF FlushInv, RunsOnce

LEMMA NothingPlanned ==
  ASSUME plan = <<>>
  PROVE  Planned = {} /\ PlanInv
<1>1. DOMAIN plan = {}
  OBVIOUS
<1> QED
  BY <1>1 DEF Planned, Members, PlanInv, Ordered, NeighboursFusible

LEMMA FusionInvInit == Init => FusionInv
<1> SUFFICES ASSUME Init PROVE FusionInv
  OBVIOUS
<1> USE DEF Init
<1>1. log = <<>> /\ DOMAIN log = {} /\ \A d \in Data : writers[d] = <<>> /\ DOMAIN writers[d] = {} /\ mem[d] = 0
  OBVIOUS
<1>2. TypeOK
  <2>1. log \in Seq([kernel : Kernels, dependencies : SUBSET [data : Data \cup Nat, version : Nat]])
    OBVIOUS
  <2>2. writers \in [Data -> Seq(Nat)] /\ mem \in [Data -> Nat]
    OBVIOUS
  <2>3. plan \in Seq(Seq(Nat)) /\ runs \in [DOMAIN log -> Nat]
    BY <1>1
  <2> QED
    BY <2>1, <2>2, <2>3 DEF TypeOK
<1>3. VersionsInv /\ DependenciesInv
  BY <1>1 DEF VersionsInv, DependenciesInv
<1>4. Planned = {} /\ PlanInv
  BY NothingPlanned
<1>5. flushing \notin Data \cup Results
  BY <1>1, NamesAssumption DEF Results
<1>6. FlushInv
  <2>1. \A d \in Data : mem[d] = 0 /\ \A n \in DOMAIN log : n <= mem[d]
    BY <1>1
  <2>2. RunsOnce /\ ReadsProgramOrder
    BY <1>1 DEF RunsOnce, ReadsProgramOrder
  <2> QED
    BY <1>1, <1>4, <1>5, <2>1, <2>2 DEF FlushInv
<1> QED
  BY <1>2, <1>3, <1>4, <1>6 DEF FusionInv

LEMMA RunsAppended ==
  ASSUME TypeOK, NEW r \in Nat, runs' = Append(runs, r)
  PROVE  /\ runs' \in [1..(Len(log) + 1) -> Nat]
         /\ \A n \in DOMAIN log : runs'[n] = runs[n]
         /\ runs'[Len(log) + 1] = r
<1> DEFINE N == Len(log)
<1>1. N \in Nat /\ DOMAIN log = 1..N
  BY LogType
<1> HIDE DEF N
<1>2. runs \in [1..N -> Nat]
  BY <1>1 DEF TypeOK
<1>3. runs \in Seq(Nat) /\ Len(runs) \in Nat /\ 1..Len(runs) = 1..N
  BY <1>1, <1>2
<1>4. Len(runs) = N
  <2> DEFINE l == Len(runs)
  <2>1. l \in Nat /\ 1..l = 1..N
    BY <1>3
  <2> HIDE DEF l
  <2>2. \A i \in Nat : i \in 1..l <=> i \in 1..N
    BY <2>1
  <2>3. (l \in 1..l => l \in 1..N) /\ (N \in 1..N => N \in 1..l)
    BY <1>1, <2>1, <2>2
  <2>4. l = N
    BY <1>1, <2>1, <2>3
  <2> QED
    BY <2>4 DEF l
<1>5. /\ runs' \in Seq(Nat) /\ DOMAIN runs' = 1..(N + 1)
      /\ \A n \in 1..N : runs'[n] = runs[n]
      /\ runs'[N + 1] = r
  BY <1>1, <1>3, <1>4
<1>6. runs' \in [1..(N + 1) -> Nat]
  <2>1. runs' \in [1..Len(runs') -> Nat] /\ DOMAIN runs' = 1..Len(runs')
    BY <1>5, LenProperties
  <2> QED
    BY <1>5, <2>1
<1> QED
  BY <1>1, <1>5, <1>6 DEF N

\* What a call more leaves of the invariant: it is in the trace (r = 0) or has run (r = 1).
LEMMA ScriptStep ==
  ASSUME FusionInv, InScript, NEW k \in Kernels, NEW deps \in SUBSET [data : Data \cup Nat, version : Nat],
         log' = Append(log, [kernel |-> k, dependencies |-> deps]),
         NEW r \in {0, 1}, runs' = Append(runs, r), r = 1 => deps = {} /\ Reads(k) = {},
         trace' = IF r = 0 THEN trace \cup {Len(log) + 1} ELSE trace,
         Extended, mem' \in [Data -> Nat],
         \A d \in Data : mem'[d] = mem[d] \/ (d \in Stores(k) /\ d \notin Reads(k)),
         flushing' = None, UNCHANGED <<plan, wrong, failures, raised>>
  PROVE  TypeOK' /\ PlanInv' /\ (Calm' => FlushInv')
<1> DEFINE N == Len(log)
           new == N + 1
<1>1. N \in Nat /\ DOMAIN log = 1..N /\ TypeOK /\ new \notin DOMAIN log /\ new \in Nat
  <2>1. N \in Nat /\ DOMAIN log = 1..N
    BY LogType DEF FusionInv
  <2>2. new \notin 1..N
    BY <2>1
  <2> QED
    BY <2>1, <2>2 DEF FusionInv
<1>2. /\ DOMAIN log' = 1..new
      /\ \A n \in DOMAIN log : log'[n] = log[n] /\ n \in DOMAIN log'
      /\ log'[new].kernel = k /\ log'[new].dependencies = deps
      /\ log' \in Seq([kernel : Kernels, dependencies : SUBSET [data : Data \cup Nat, version : Nat]])
  <2>1. log'[new] = [kernel |-> k, dependencies |-> deps]
    BY <1>1, Logged
  <2>2. log'[new].kernel = k /\ log'[new].dependencies = deps
    BY <2>1
  <2> QED
    BY <1>1, <2>2, Logged
<1>3. runs' \in [1..new -> Nat] /\ (\A n \in DOMAIN log : runs'[n] = runs[n]) /\ runs'[new] = r
  BY <1>1, RunsAppended
<1>4. \A n \in DOMAIN log' : n = new \/ n \in DOMAIN log
  BY <1>1, <1>2
<1>5. new \in DOMAIN log'
  BY <1>1, <1>2
<1> HIDE DEF new, N
<1>6. TypeOK'
  <2>1. trace' \subseteq DOMAIN log'
    BY <1>1, <1>2, <1>5 DEF TypeOK, new, N
  <2> QED
    BY <1>1, <1>2, <1>3, <2>1 DEF TypeOK, Extended
<1>7. plan = <<>> /\ plan' = <<>> /\ Planned' = {} /\ PlanInv' /\ Planned = {}
  <2>1. plan = <<>> /\ plan' = <<>>
    BY DEF InScript
  <2>2. DOMAIN plan' = {}
    BY <2>1
  <2> QED
    BY <2>1, <2>2, NothingPlanned DEF Planned, Members, PlanInv, Ordered, NeighboursFusible
<1>8. ASSUME Calm' PROVE FlushInv'
  <2>1. Calm /\ FlushInv
    BY <1>8 DEF Calm, FusionInv
  <2>2. \A n \in DOMAIN log : Before(n)' = Before(n) /\ Before(n) \subseteq 0..(n - 1)
    BY <1>1, StillDependencies DEF FusionInv, DependenciesInv
  <2>3. ASSUME NEW n \in DOMAIN log', runs'[n] > 0
        PROVE  \A w \in Before(n)' : w = 0 \/ runs'[w] > 0
    <3>1. CASE n = new
      <4>1. deps = {}
        BY <1>3, <2>3, <3>1
      <4> QED
        BY <1>2, <3>1, <4>1 DEF Before
    <3>2. CASE n # new
      <4>1. n \in DOMAIN log /\ runs[n] > 0
        BY <1>3, <1>4, <2>3, <3>2
      <4> SUFFICES ASSUME NEW w \in Before(n), w # 0 PROVE runs'[w] > 0
        BY <2>2, <4>1
      <4>2. runs[w] > 0
        BY <2>1, <4>1 DEF FlushInv
      <4>3. w \in 0..(n - 1)
        BY <2>2, <4>1
      <4>4. w \in DOMAIN log
        BY <1>1, <4>1, <4>3
      <4> QED
        BY <1>3, <4>2, <4>4
    <3> QED
      BY <3>1, <3>2
  <2>4. \A d : Blind(d) => Blind(d)'
    BY <1>2 DEF Blind
  <2>5. ASSUME NEW d \in Data, ~Blind(d)'
        PROVE  /\ mem'[d] = 0 \/ (Stored(mem[d], d)' /\ runs'[mem'[d]] > 0)
               /\ \A n \in DOMAIN log' : Stored(n, d)' /\ runs'[n] > 0 => n <= mem'[d]
               /\ mem'[d] = mem[d]
    <3>1. d \in Stores(k) => d \in Reads(k)
      BY <1>2, <1>5, <2>5 DEF Blind
    <3>2. mem'[d] = mem[d] /\ ~Blind(d)
      BY <2>4, <2>5, <3>1
    <3>3. /\ mem[d] = 0 \/ (Stored(mem[d], d) /\ runs[mem[d]] > 0)
          /\ \A n \in DOMAIN log : Stored(n, d) /\ runs[n] > 0 => n <= mem[d]
      BY <2>1, <3>2 DEF FlushInv
    <3>4. \A n \in DOMAIN log : Stored(n, d)' <=> Stored(n, d)
      BY <1>2 DEF Stored
    <3>5. mem'[d] = 0 \/ (Stored(mem[d], d)' /\ runs'[mem'[d]] > 0)
      BY <1>2, <1>3, <3>2, <3>3 DEF Stored
    <3>6. ASSUME NEW n \in DOMAIN log', Stored(n, d)', runs'[n] > 0
          PROVE  n <= mem'[d]
      <4>1. CASE n = new
        <5>1. r = 1 /\ d \in Stores(k)
          BY <1>2, <1>3, <3>6, <4>1 DEF Stored
        <5> QED
          BY <3>1, <5>1
      <4>2. CASE n # new
        <5>1. n \in DOMAIN log /\ runs[n] > 0
          BY <1>3, <1>4, <3>6, <4>2
        <5> QED
          BY <3>2, <3>3, <3>4, <3>6, <5>1
      <4> QED
        BY <4>1, <4>2
    <3> QED
      BY <3>2, <3>5, <3>6
  <2>6. \A d \in Data : ~Blind(d)' =>
          /\ mem'[d] = 0 \/ (Stored(mem[d], d)' /\ runs'[mem'[d]] > 0)
          /\ \A n \in DOMAIN log' : Stored(n, d)' /\ runs'[n] > 0 => n <= mem'[d]
    BY <2>5
  <2>7. \A n \in DOMAIN log' : runs'[n] = IF n \in trace' THEN 0 ELSE 1
    <3> SUFFICES ASSUME NEW n \in DOMAIN log' PROVE runs'[n] = IF n \in trace' THEN 0 ELSE 1
      OBVIOUS
    <3>1. CASE n = new
      <4>1. r = 0 => new \in trace'
        BY DEF new, N
      <4>2. r = 1 => new \notin trace'
        BY <1>1 DEF TypeOK
      <4> QED
        BY <1>3, <3>1, <4>1, <4>2
    <3>2. CASE n # new
      <4>1. n \in DOMAIN log
        BY <1>4, <3>2
      <4>2. runs[n] = IF n \in trace THEN 0 ELSE 1
        BY <1>7, <2>1, <4>1, WhereItIs DEF InScript
      <4>3. n \in trace' <=> n \in trace
        BY <3>2 DEF new, N
      <4> QED
        BY <1>3, <4>1, <4>2, <4>3
    <3> QED
      BY <3>1, <3>2
  <2>8. RunsOnce'
    <3>1. \A n \in DOMAIN log' : ~\E i \in DOMAIN plan' : n \in ToSet(plan'[i])
      BY <1>7
    <3>2. flushing' # All
      BY NamesAssumption
    <3> QED
      BY <2>7, <3>1, <3>2 DEF RunsOnce
  <2>9. ReadsProgramOrder'
    <3>1. \A read \in wrong : read[3] > read[1] \/ Blind(read[2])
      BY <2>1 DEF FlushInv, ReadsProgramOrder
    <3> QED
      BY <2>4, <3>1 DEF ReadsProgramOrder
  <2>10. flushing' \notin Data \cup Results'
    <3>1. \A n \in Results' : n \in Nat
      BY <1>1, <1>2 DEF Results
    <3> QED
      BY <3>1, NamesAssumption
  <2> QED
    BY <1>7, <2>3, <2>6, <2>8, <2>9, <2>10 DEF FlushInv
<1> QED
  BY <1>6, <1>7, <1>8

LEMMA LogOperationStep ==
  ASSUME FusionInv, NEW k \in Kernels, NEW result \in Results \cup {None}, LogOperation(k, result)
  PROVE  FusionInv'
<1> DEFINE N == Len(log)
           read == Reads(k) \cup (IF result = None THEN {} ELSE {result})
           deps == {CurrentVersion(d) : d \in read}
<1>1. /\ InScript /\ Kind[k] # "fill"
      /\ log' = Append(log, [kernel |-> k, dependencies |-> deps])
      /\ writers' = Outputs(k, Len(log')) /\ trace' = trace \cup {Len(log')}
      /\ runs' = Append(runs, 0) /\ flushing' = None /\ UNCHANGED <<plan, mem, wrong, failures, raised>>
  BY DEF LogOperation, Dependencies
<1>0. TypeOK /\ VersionsInv /\ DependenciesInv /\ N \in Nat /\ DOMAIN log = 1..N
  BY LogType DEF FusionInv
<1> PICK new \in Nat : new = N + 1
  BY <1>0
<1>2. TypeOK /\ VersionsInv /\ DependenciesInv /\ N \in Nat /\ DOMAIN log = 1..N /\ new = N + 1
  BY <1>0
<1>3. Reads(k) \subseteq Data /\ Writes(k) \subseteq Data
  BY AccessedArrays
<1>4. deps \in SUBSET [data : Data \cup Nat, version : Nat]
  <2>1. \A d \in Reads(k) : CurrentVersion(d) \in [data : Data \cup Nat, version : Nat]
    <3> SUFFICES ASSUME NEW d \in Reads(k) PROVE CurrentVersion(d) \in [data : Data \cup Nat, version : Nat]
      OBVIOUS
    <3>1. d \in Data /\ Len(writers[d]) \in Nat
      BY <1>2, <1>3 DEF TypeOK
    <3> QED
      BY <3>1 DEF CurrentVersion
  <2>2. \A n \in Results : CurrentVersion(n) \in [data : Data \cup Nat, version : Nat]
    BY <1>2, CurrentResult
  <2> QED
    BY <2>1, <2>2
<1> HIDE DEF deps
<1>5. /\ Len(log') = new /\ DOMAIN log' = 1..new
      /\ \A n \in DOMAIN log : log'[n] = log[n] /\ n \in DOMAIN log'
      /\ log'[new].kernel = k /\ log'[new].dependencies = deps
  <2>1. log'[new] = [kernel |-> k, dependencies |-> deps]
    BY <1>1, <1>2, <1>4, Logged
  <2>2. log'[new].kernel = k /\ log'[new].dependencies = deps
    BY <2>1
  <2> QED
    BY <1>1, <1>2, <1>4, <2>2, Logged
<1>6. \A n \in DOMAIN log' : n = new \/ n \in DOMAIN log
  BY <1>2, <1>5
<1>7. new \in DOMAIN log' /\ \A n \in DOMAIN log : n < new
  BY <1>2, <1>5
<1>8. /\ Extended
      /\ \A d \in Data :
           /\ DOMAIN writers'[d] = 1..Len(writers'[d]) /\ Len(writers'[d]) \in Nat
           /\ \A i \in DOMAIN writers'[d] :
                \/ i \in DOMAIN writers[d] /\ writers'[d][i] = writers[d][i]
                \/ i > Len(writers[d]) /\ writers'[d][i] = new /\ d \in Writes(k)
           /\ d \in Writes(k) => \E i \in DOMAIN writers'[d] : writers'[d][i] = new
  BY <1>1, <1>2, <1>5, OutputsAdded
<1>9. TypeOK' /\ PlanInv' /\ (Calm' => FlushInv')
  <2>1. trace' = trace \cup {N + 1}
    BY <1>1, <1>5
  <2>2. mem' \in [Data -> Nat] /\ \A d \in Data : mem'[d] = mem[d]
    BY <1>1, <1>2 DEF TypeOK
  <2>3. UNCHANGED <<plan, wrong, failures, raised>>
    BY <1>1
  <2> QED
    BY <1>1, <1>4, <1>8, <2>1, <2>2, <2>3, ScriptStep
<1> HIDE DEF N
<1>10. \A n \in DOMAIN log, d \in Data : (Versioned(n, d)' <=> Versioned(n, d)) /\ (Traced(n)' <=> Traced(n))
  BY <1>5 DEF Versioned, Traced
<1>11. Traced(new)' /\ \A d \in Data : Versioned(new, d)' <=> d \in Writes(k)
  BY <1>1, <1>5, <1>7 DEF Versioned, Traced
<1>12. VersionsInv'
  <2> SUFFICES ASSUME NEW d \in Data
               PROVE  /\ \A i \in DOMAIN writers'[d] : Versioned(writers[d][i], d)' /\ Traced(writers[d][i])'
                      /\ \A i, j \in DOMAIN writers'[d] : i <= j => writers'[d][i] <= writers'[d][j]
                      /\ \A n \in DOMAIN log' : Versioned(n, d)' /\ Traced(n)' => \E i \in DOMAIN writers'[d] : writers'[d][i] = n
    BY DEF VersionsInv
  <2>1. /\ \A i \in DOMAIN writers[d] : writers[d][i] \in DOMAIN log /\ Versioned(writers[d][i], d) /\ Traced(writers[d][i])
        /\ \A i, j \in DOMAIN writers[d] : i <= j => writers[d][i] <= writers[d][j]
        /\ \A n \in DOMAIN log : Versioned(n, d) /\ Traced(n) => \E i \in DOMAIN writers[d] : writers[d][i] = n
    BY <1>2 DEF VersionsInv, Versioned
  <2>2. DOMAIN writers[d] = 1..Len(writers[d]) /\ Len(writers[d]) \in Nat
    BY <1>2 DEF TypeOK
  <2>3. \A i \in DOMAIN writers'[d] : Versioned(writers[d][i], d)' /\ Traced(writers[d][i])'
    <3> SUFFICES ASSUME NEW i \in DOMAIN writers'[d]
                 PROVE  Versioned(writers[d][i], d)' /\ Traced(writers[d][i])'
      OBVIOUS
    <3>1. CASE i \in DOMAIN writers[d] /\ writers'[d][i] = writers[d][i]
      <4>1. writers[d][i] \in DOMAIN log /\ Versioned(writers[d][i], d) /\ Traced(writers[d][i])
        BY <2>1, <3>1
      <4> QED
        BY <1>5, <3>1, <4>1 DEF Versioned, Traced
    <3>2. CASE writers'[d][i] = new /\ d \in Writes(k)
      BY <1>11, <3>2 DEF Versioned, Traced
    <3> QED
      BY <1>8, <3>1, <3>2
  <2>4. ASSUME NEW i \in DOMAIN writers'[d], NEW j \in DOMAIN writers'[d], i <= j
        PROVE  writers'[d][i] <= writers'[d][j]
    <3>1. i \in Nat /\ j \in Nat
      BY <1>8
    <3>2. CASE j \in DOMAIN writers[d] /\ writers'[d][j] = writers[d][j]
      <4>1. i \in DOMAIN writers[d] /\ ~(i > Len(writers[d]))
        BY <2>2, <2>4, <3>1, <3>2, <1>8
      <4> QED
        BY <1>8, <2>1, <2>4, <3>2, <4>1
    <3>3. CASE writers'[d][j] = new
      <4>1. CASE i \in DOMAIN writers[d] /\ writers'[d][i] = writers[d][i]
        <5>1. writers'[d][i] < new /\ writers'[d][i] \in Nat
          BY <1>2, <1>7, <2>1, <4>1
        <5> QED
          BY <1>2, <3>3, <5>1
      <4>2. CASE writers'[d][i] = new
        BY <1>2, <3>3, <4>2
      <4> QED
        BY <1>8, <4>1, <4>2
    <3> QED
      BY <1>8, <3>2, <3>3
  <2>5. ASSUME NEW n \in DOMAIN log', Versioned(n, d)', Traced(n)'
        PROVE  \E i \in DOMAIN writers'[d] : writers'[d][i] = n
    <3>1. CASE n = new
      BY <1>8, <1>11, <2>5, <3>1
    <3>2. CASE n # new
      <4>1. n \in DOMAIN log /\ Versioned(n, d) /\ Traced(n)
        BY <1>6, <1>10, <2>5, <3>2
      <4>2. PICK i \in DOMAIN writers[d] : writers[d][i] = n
        BY <2>1, <4>1
      <4>3. writers'[d][i] = n
        BY <1>8, <4>2 DEF Extended
      <4>4. i \in DOMAIN writers'[d]
        <5>1. Len(writers[d]) <= Len(writers'[d])
          BY <1>8 DEF Extended
        <5> QED
          BY <1>8, <2>2, <5>1
      <4> QED
        BY <4>3, <4>4
    <3> QED
      BY <3>1, <3>2
  <2> QED
    BY <2>3, <2>4, <2>5
<1>13. DependenciesInv'
  <2>1. ASSUME NEW n \in DOMAIN log
        PROVE  /\ \A dep \in log'[n].dependencies : dep.data \in Data => dep.version <= Len(writers'[dep.data])
               /\ Before(n)' \subseteq 0..(n - 1)
               /\ Traced(n)' => \A d \in Reads(log'[n].kernel) : \E w \in Before(n)' : LastTraced(w, n, d)'
    BY <1>1, <1>2, <1>4, <1>8, StillDependencies
  <2>2. ASSUME NEW d \in Reads(k), NEW dep, dep = CurrentVersion(d)
        PROVE  /\ dep \in deps /\ dep.data = d /\ dep.version <= Len(writers'[d])
               /\ WriterOf(dep)' = WriterOf(dep) /\ WriterOf(dep) \in 0..N
               /\ \A w : w = WriterOf(dep) => LastTraced(w, new, d)'
    <3>1. d \in Data
      BY <1>3
    <3>2. dep \in deps /\ dep.data = d /\ dep.version = Len(writers[d])
      BY <2>2, <3>1 DEF deps, CurrentVersion
    <3>3. Len(writers[d]) \in Nat /\ Len(writers[d]) <= Len(writers'[d])
      BY <1>2, <1>8, <3>1 DEF TypeOK, Extended
    <3>4. /\ WriterOf(dep) \in 0..N /\ (WriterOf(dep) = 0 \/ (Versioned(WriterOf(dep), d) /\ Traced(WriterOf(dep))))
          /\ \A m \in DOMAIN log : Versioned(m, d) /\ Traced(m) => m <= WriterOf(dep)
      BY <1>2, <2>2, <3>1, CurrentIsLast DEF N
    <3>5. WriterOf(dep)' = WriterOf(dep)
      BY <1>2, <1>8, <3>2, <3>3, SameWriter
    <3>6. ASSUME NEW w, w = WriterOf(dep)
          PROVE  LastTraced(w, new, d)'
      <4>1. w = 0 \/ Versioned(w, d)'
        BY <1>10, <3>1, <3>4, <3>6 DEF Versioned
      <4>2. \A m \in 1..(new - 1) : m \in DOMAIN log
        BY <1>2
      <4>3. \A m \in 1..(new - 1) : Versioned(m, d)' /\ Traced(m)' => m <= w
        BY <1>10, <3>1, <3>4, <3>6, <4>2
      <4> QED
        BY <4>1, <4>3 DEF LastTraced
    <3> QED
      BY <3>2, <3>3, <3>4, <3>5, <3>6
  <2>3. ASSUME NEW dep \in deps
        PROVE  /\ dep.data \in Data => dep.version <= Len(writers'[dep.data])
               /\ WriterOf(dep)' \in 0..N
    <3>1. CASE \E d \in Reads(k) : dep = CurrentVersion(d)
      BY <2>2, <3>1
    <3>2. CASE \E n \in Results : dep = CurrentVersion(n)
      <4>1. PICK n \in Results : dep = CurrentVersion(n)
        BY <3>2
      <4>2. dep = [data |-> n, version |-> 0] /\ n \in 1..N /\ n \notin Data
        BY <1>2, <4>1, CurrentResult, NamesAssumption DEF N
      <4>3. dep.data = n /\ dep.data \notin Data
        BY <4>2
      <4>4. WriterOf(dep)' = n
        BY <4>3 DEF WriterOf
      <4> QED
        BY <4>2, <4>3, <4>4
    <3> QED
      BY <3>1, <3>2 DEF deps
  <2>4. Before(new)' = {WriterOf(dep)' : dep \in deps}
    BY <1>5 DEF Before, WriterOf
  <2>5. /\ \A dep \in log'[new].dependencies : dep.data \in Data => dep.version <= Len(writers'[dep.data])
        /\ Before(new)' \subseteq 0..(new - 1)
    BY <1>2, <1>5, <2>3, <2>4
  <2>6. ASSUME NEW d \in Reads(k)
        PROVE  \E w \in Before(new)' : LastTraced(w, new, d)'
    <3>1. PICK dep : dep = CurrentVersion(d)
      OBVIOUS
    <3>2. PICK w : w = WriterOf(dep)
      OBVIOUS
    <3>3. dep \in deps /\ WriterOf(dep)' = w /\ LastTraced(w, new, d)'
      BY <2>2, <3>1, <3>2
    <3>4. w \in Before(new)'
      BY <2>4, <3>3
    <3> QED
      BY <3>3, <3>4
  <2>7. ASSUME NEW n \in DOMAIN log'
        PROVE  /\ \A dep \in log'[n].dependencies : dep.data \in Data => dep.version <= Len(writers'[dep.data])
               /\ Before(n)' \subseteq 0..(n - 1)
               /\ Traced(n)' => \A d \in Reads(log'[n].kernel) : \E w \in Before(n)' : LastTraced(w, n, d)'
    <3>1. CASE n = new
      BY <1>5, <2>5, <2>6, <3>1
    <3>2. CASE n # new
      BY <1>6, <2>1, <3>2
    <3> QED
      BY <3>1, <3>2
  <2> QED
    BY <2>7 DEF DependenciesInv
<1> QED
  BY <1>9, <1>12, <1>13 DEF FusionInv

LEMMA FillStep ==
  ASSUME FusionInv, NEW k \in Kernels, Fill(k)
  PROVE  FusionInv'
<1> DEFINE N == Len(log)
           deps == {}
<1>1. /\ InScript /\ Kind[k] = "fill"
      /\ log' = Append(log, [kernel |-> k, dependencies |-> deps])
      /\ mem' = [d \in Data |-> IF d \in Stores(k) THEN Len(log') ELSE mem[d]]
      /\ runs' = Append(runs, 1) /\ flushing' = None
      /\ UNCHANGED <<trace, writers, plan, wrong, failures, raised>>
  BY DEF Fill
<1>0. TypeOK /\ VersionsInv /\ DependenciesInv /\ N \in Nat /\ DOMAIN log = 1..N
  BY LogType DEF FusionInv
<1> PICK new \in Nat : new = N + 1
  BY <1>0
<1>2. TypeOK /\ VersionsInv /\ DependenciesInv /\ N \in Nat /\ DOMAIN log = 1..N /\ new = N + 1
  BY <1>0
<1>3. deps \in SUBSET [data : Data \cup Nat, version : Nat]
  OBVIOUS
<1> HIDE DEF deps
<1>4. /\ Len(log') = new /\ DOMAIN log' = 1..new
      /\ \A n \in DOMAIN log : log'[n] = log[n] /\ n \in DOMAIN log'
      /\ log'[new].kernel = k /\ log'[new].dependencies = deps
  <2>1. log'[new] = [kernel |-> k, dependencies |-> deps]
    BY <1>1, <1>2, <1>3, Logged
  <2>2. log'[new].kernel = k /\ log'[new].dependencies = deps
    BY <2>1
  <2> QED
    BY <1>1, <1>2, <1>3, <2>2, Logged
<1>5. \A n \in DOMAIN log' : n = new \/ n \in DOMAIN log
  BY <1>2, <1>4
<1>6. new \in DOMAIN log'
  BY <1>2, <1>4
<1>7. Extended
  <2>1. \A d \in Data : Len(writers[d]) \in Nat
    BY <1>2 DEF TypeOK
  <2> QED
    BY <1>1, <1>2, <2>1 DEF Extended, TypeOK
<1>8. Reads(k) = {}
  BY <1>1, FillAssumption DEF Reads
<1>9. TypeOK' /\ PlanInv' /\ (Calm' => FlushInv')
  <2>1. mem' \in [Data -> Nat]
    BY <1>1, <1>2, <1>4 DEF TypeOK
  <2>2. \A d \in Data : mem'[d] = mem[d] \/ (d \in Stores(k) /\ d \notin Reads(k))
    BY <1>1, <1>8
  <2>3. UNCHANGED <<plan, wrong, failures, raised>>
    BY <1>1
  <2>4. deps = {}
    BY DEF deps
  <2> QED
    BY <1>1, <1>3, <1>7, <1>8, <2>1, <2>2, <2>3, <2>4, ScriptStep
<1> HIDE DEF N
<1>10. ~Traced(new)'
  BY <1>1, <1>4 DEF Traced
<1>11. VersionsInv'
  <2>1. \A n \in DOMAIN log, d \in Data : (Versioned(n, d)' <=> Versioned(n, d)) /\ (Traced(n)' <=> Traced(n))
    BY <1>4 DEF Versioned, Traced
  <2>2. \A d \in Data : \A i \in DOMAIN writers[d] : writers[d][i] \in DOMAIN log
    BY <1>2 DEF VersionsInv, Versioned
  <2>3. \A d \in Data : \A i \in DOMAIN writers[d] : Versioned(writers[d][i], d)' /\ Traced(writers[d][i])'
    BY <1>1, <1>2, <1>4, <2>1, <2>2 DEF VersionsInv, Versioned, Traced
  <2>4. \A n \in DOMAIN log', d \in Data : Versioned(n, d)' /\ Traced(n)' => \E i \in DOMAIN writers[d] : writers[d][i] = n
    BY <1>2, <1>5, <1>10, <2>1 DEF VersionsInv
  <2> QED
    BY <1>1, <1>2, <2>3, <2>4 DEF VersionsInv
<1>12. DependenciesInv'
  <2>1. ASSUME NEW n \in DOMAIN log'
        PROVE  /\ \A dep \in log'[n].dependencies : dep.data \in Data => dep.version <= Len(writers'[dep.data])
               /\ Before(n)' \subseteq 0..(n - 1)
               /\ Traced(n)' => \A d \in Reads(log'[n].kernel) : \E w \in Before(n)' : LastTraced(w, n, d)'
    <3>1. CASE n = new
      BY <1>4, <1>10, <3>1 DEF Before, deps
    <3>2. CASE n # new
      <4>1. n \in DOMAIN log
        BY <1>5, <3>2
      <4> QED
        BY <1>1, <1>2, <1>3, <1>7, <4>1, StillDependencies
    <3> QED
      BY <3>1, <3>2
  <2> QED
    BY <2>1 DEF DependenciesInv
<1> QED
  BY <1>9, <1>11, <1>12 DEF FusionInv

-----------------------------------------------------------------------------
(* The inductive invariant: flushes.                                       *)

LEMMA AcyclicTrace ==
  ASSUME TypeOK, DependenciesInv
  PROVE  Acyclic
<1> SUFFICES ASSUME NEW n \in DOMAIN log, NEW w \in Before(n) \cap trace PROVE w \in 1..(n - 1)
  BY DEF Acyclic
<1>1. w \in 0..(n - 1)
  BY DEF DependenciesInv
<1>2. w \in 1..Len(log)
  BY LogType DEF TypeOK
<1> QED
  BY <1>1, <1>2, LogType

\* The parts of the invariant that are about the log alone.
LEMMA SameLog ==
  ASSUME VersionsInv, DependenciesInv, UNCHANGED <<log, writers>>
  PROVE  VersionsInv' /\ DependenciesInv'
<1>1. VersionsInv'
  BY DEF VersionsInv, Versioned, Traced
<1>2. \A n : Before(n)' = Before(n)
  BY DEF Before, WriterOf
<1>3. \A w, n, d : LastTraced(w, n, d) => LastTraced(w, n, d)'
  BY DEF LastTraced, Versioned, Traced
<1>4. DependenciesInv'
  BY <1>2, <1>3 DEF DependenciesInv, Traced
<1> QED
  BY <1>1, <1>4

\* A flush plans operations of the trace, with all that they wait for.
LEMMA FlushStep ==
  ASSUME FusionInv, InScript, NEW ops \in SUBSET trace,
         \A n \in ops : Before(n) \cap trace \subseteq ops,
         NEW d \in Data \cup Results \cup {All},
         LET fused == Fuse(ops) IN
           /\ plan' = IF fused.raises THEN <<>> ELSE fused.groups
           /\ flushing' = IF fused.raises THEN None ELSE d
           /\ raised' = (raised \/ fused.raises),
         trace' = IF d = All THEN trace ELSE trace \ ops,
         d = All => ops = trace,
         d # All => WriterOf(CurrentVersion(d)) \notin trace \/ WriterOf(CurrentVersion(d)) \in ops,
         UNCHANGED <<log, writers, mem, runs, wrong, failures>>
  PROVE  FusionInv'
<1> DEFINE groups == Fuse(ops).groups
           raises == Fuse(ops).raises
<1>1. /\ TypeOK /\ VersionsInv /\ DependenciesInv /\ Typed /\ Len(log) \in Nat /\ DOMAIN log = 1..Len(log)
      /\ ops \subseteq DOMAIN log
  BY LogType DEF FusionInv, TypeOK
<1>2. groups \in Seq(Seq(Nat)) /\ Ordered(groups) /\ NeighboursFusible(groups) /\ Members(groups) = ops
  BY <1>1, FuseSound
<1>3. /\ plan' = IF raises THEN <<>> ELSE groups
      /\ flushing' = IF raises THEN None ELSE d
      /\ raised' = (raised \/ raises)
  OBVIOUS
<1> HIDE DEF groups, raises
<1>4. TypeOK'
  <2>1. plan' \in Seq(Seq(Nat)) /\ trace' \subseteq DOMAIN log' /\ raised' \in BOOLEAN
    <3>1. plan' \in Seq(Seq(Nat))
      <4>1. <<>> \in Seq(Seq(Nat))
        OBVIOUS
      <4> QED
        BY <1>2, <1>3, <4>1
    <3>2. trace' \subseteq DOMAIN log'
      BY <1>1 DEF TypeOK
    <3>3. raised' \in BOOLEAN
      BY <1>3
    <3> QED
      BY <3>1, <3>2, <3>3
  <2>2. flushing' \in Data \cup {None, All} \cup Results'
    BY <1>3 DEF Results
  <2> QED
    BY <1>1, <2>1, <2>2 DEF TypeOK
<1>5. VersionsInv' /\ DependenciesInv'
  BY <1>1, SameLog
<1>6. PlanInv'
  <2>1. CASE raises
    <3>1. DOMAIN plan' = {}
      BY <1>3, <2>1
    <3> QED
      BY <3>1 DEF PlanInv, Ordered, Members, NeighboursFusible
  <2>2. CASE ~raises
    <3>1. plan' = groups
      BY <1>3, <2>2
    <3>2. Ordered(plan)' /\ Members(plan)' \subseteq DOMAIN log'
      BY <1>1, <1>2, <3>1 DEF Ordered, Members
    <3>3. NeighboursFusible(plan)'
      <4>1. \A m, n : Fusible(m, n) => Fusible(m, n)'
        BY DEF Fusible
      <4> QED
        BY <1>2, <3>1, <4>1 DEF NeighboursFusible
    <3> QED
      BY <3>2, <3>3 DEF PlanInv
  <2> QED
    BY <2>1, <2>2
<1>7. ASSUME Calm' PROVE FlushInv'
  <2>1. Calm /\ ~raises /\ FlushInv /\ Planned = {}
    BY <1>3, <1>7, NothingPlanned DEF Calm, FusionInv, InScript
  <2>2. plan' = groups /\ flushing' = d /\ Planned' = ops
    BY <1>2, <1>3, <2>1 DEF Planned, Members
  <2>3. \A n \in DOMAIN log : runs[n] = IF n \in trace THEN 0 ELSE 1
    BY <2>1, WhereItIs DEF InScript
  <2>4. \A n : Before(n)' = Before(n)
    BY DEF Before, WriterOf
  <2>5. ASSUME NEW n \in Planned', NEW w \in Before(n)', w # 0
        PROVE  runs'[w] > 0 \/ w \in Planned'
    <3>1. n \in ops /\ w \in Before(n)
      BY <2>2, <2>4, <2>5
    <3>2. w \in trace => w \in ops
      BY <3>1
    <3>3. w \in DOMAIN log
      <4>1. w \in 0..(n - 1) /\ n \in 1..Len(log)
        BY <1>1, <3>1 DEF DependenciesInv
      <4> QED
        BY <1>1, <2>5, <4>1
    <3> QED
      BY <2>2, <2>3, <3>2, <3>3
  <2>6. flushing' # All => Planned' \cap trace' = {}
    BY <2>2
  <2>7. \A n \in DOMAIN log' : runs'[n] > 0 => \A w \in Before(n)' : w = 0 \/ runs'[w] > 0
    BY <2>1, <2>4 DEF FlushInv
  <2>8. \A e \in Data : ~Blind(e)' =>
          /\ mem'[e] = 0 \/ (Stored(mem[e], e)' /\ runs'[mem'[e]] > 0)
          /\ \A n \in DOMAIN log' : Stored(n, e)' /\ runs'[n] > 0 => n <= mem'[e]
    BY <2>1 DEF FlushInv, Blind, Stored
  <2>9. ASSUME flushing' \in Data \cup Results'
        PROVE  LET n == WriterOf(CurrentVersion(flushing)) IN n' = 0 \/ runs'[n'] > 0 \/ n' \in Planned'
    <3>1. d \in Data \cup Results /\ d # All
      <4>1. d \in Data \cup Results
        BY <2>2, <2>9 DEF Results
      <4>2. All \notin Data \cup Results
        BY <1>1, NamesAssumption DEF Results
      <4> QED
        BY <4>1, <4>2
    <3>2. PICK n : n = WriterOf(CurrentVersion(d))
      OBVIOUS
    <3>3. WriterOf(CurrentVersion(flushing))' = n
      BY <2>2, <3>2 DEF WriterOf, CurrentVersion
    <3>4. n \in 0..Len(log)
      BY <1>1, <3>1, <3>2, CurrentIsLast, CurrentResult
    <3>5. n \notin trace \/ n \in ops
      BY <3>1, <3>2
    <3> QED
      BY <1>1, <2>2, <2>3, <3>3, <3>4, <3>5
  <2>10. RunsOnce'
    <3> SUFFICES ASSUME NEW n \in DOMAIN log
                 PROVE  runs'[n] = IF (\E i \in DOMAIN plan' : n \in ToSet(plan'[i]))
                                      \/ (n \in trace' /\ ~(flushing' = All /\ plan' # <<>>)) THEN 0 ELSE 1
      BY DEF RunsOnce, InScript
    <3>1. (\E i \in DOMAIN plan' : n \in ToSet(plan'[i])) <=> n \in ops
      BY <2>2 DEF Planned, Members
    <3>2. CASE d = All
      BY <2>2, <2>3, <3>1, <3>2
    <3>3. CASE d # All
      BY <2>2, <2>3, <3>1, <3>3
    <3> QED
      BY <3>2, <3>3
  <2>11. ReadsProgramOrder'
    BY <2>1 DEF FlushInv, ReadsProgramOrder, Blind
  <2> QED
    BY <2>5, <2>6, <2>7, <2>8, <2>9, <2>10, <2>11 DEF FlushInv
<1> QED
  BY <1>4, <1>5, <1>6, <1>7 DEF FusionInv

LEMMA FlushDataStep ==
  ASSUME FusionInv, NEW d \in Data \cup Results, FlushData(d)
  PROVE  FusionInv'
<1> DEFINE n == WriterOf(CurrentVersion(d))
           ops == IF n \in trace THEN Needed(n) ELSE {}
<1>1. TypeOK /\ DependenciesInv /\ Len(log) \in Nat /\ DOMAIN log = 1..Len(log) /\ trace \subseteq DOMAIN log
  BY LogType DEF FusionInv, TypeOK
<1>2. /\ InScript
      /\ trace' = trace \ ops
      /\ LET fused == Fuse(ops) IN
           /\ plan' = IF fused.raises THEN <<>> ELSE fused.groups
           /\ flushing' = IF fused.raises THEN None ELSE d
           /\ raised' = (raised \/ fused.raises)
      /\ UNCHANGED <<log, writers, mem, runs, wrong, failures>>
  BY DEF FlushData
<1>3. /\ ops \subseteq trace
      /\ \A m \in ops : Before(m) \cap trace \subseteq ops
      /\ n \notin trace \/ n \in ops
  <2>1. Acyclic
    BY <1>1, AcyclicTrace
  <2>2. CASE n \in trace
    BY <1>1, <2>1, <2>2, NeededClosed
  <2>3. CASE n \notin trace
    BY <2>3
  <2> QED
    BY <2>2, <2>3
<1>4. d # All
  BY <1>1, NamesAssumption DEF Results
<1> HIDE DEF ops
<1> QED
  BY <1>2, <1>3, <1>4, FlushStep

LEMMA FlushTraceStep ==
  ASSUME FusionInv, FlushTrace
  PROVE  FusionInv'
<1>1. /\ InScript
      /\ LET fused == Fuse(trace) IN
           /\ plan' = IF fused.raises THEN <<>> ELSE fused.groups
           /\ flushing' = IF fused.raises THEN None ELSE All
           /\ raised' = (raised \/ fused.raises)
      /\ UNCHANGED <<log, trace, writers, mem, runs, wrong, failures>>
  BY DEF FlushTrace
<1>2. \A n \in trace : Before(n) \cap trace \subseteq trace
  OBVIOUS
<1> QED
  BY <1>1, <1>2, FlushStep

-----------------------------------------------------------------------------
(* The inductive invariant: the kernels run.                               *)

LEMMA HeadOfPlan ==
  ASSUME TypeOK, PlanInv, plan # <<>>
  PROVE  LET group == Head(plan)
             rest == Tail(plan)
         IN /\ group \in Seq(Nat) /\ Len(group) \in Nat /\ DOMAIN group = 1..Len(group)
            /\ \A i, j \in DOMAIN group : i < j => group[i] < group[j]
            /\ \A i \in DOMAIN group : group[i] \in Planned /\ group[i] \in DOMAIN log
            /\ rest \in Seq(Seq(Nat)) /\ Ordered(rest) /\ NeighboursFusible(rest)
            /\ Members(rest) \subseteq Planned
            /\ \A m \in Planned : m \in ToSet(group) \/ m \in Members(rest)
            /\ \A i \in DOMAIN group, m \in Members(rest) : group[i] < m
<1> DEFINE group == Head(plan)
           rest == Tail(plan)
<1>1. plan \in Seq(Seq(Nat)) /\ DOMAIN plan = 1..Len(plan) /\ Len(plan) \in Nat /\ 1 \in DOMAIN plan
  BY DEF TypeOK
<1>2. group = plan[1]
  BY <1>1
<1>3. group \in Seq(Nat) /\ Len(group) \in Nat /\ DOMAIN group = 1..Len(group)
  BY <1>1, <1>2
<1>4. /\ rest \in Seq(Seq(Nat)) /\ DOMAIN rest = 1..(Len(plan) - 1)
      /\ \A g \in 1..(Len(plan) - 1) : rest[g] = plan[g + 1]
  <2>1. rest \in Seq(Seq(Nat)) /\ Len(rest) = Len(plan) - 1 /\ \A g \in 1..Len(rest) : rest[g] = plan[g + 1]
    BY <1>1, HeadTailProperties
  <2>2. DOMAIN rest = 1..Len(rest)
    BY <2>1, LenProperties
  <2> QED
    BY <2>1, <2>2
<1>5. \A g \in DOMAIN rest : g \in Nat /\ g + 1 \in DOMAIN plan /\ g + 1 # 1 /\ rest[g] = plan[g + 1]
  BY <1>1, <1>4
<1>6. \A g \in DOMAIN plan : g # 1 => g - 1 \in DOMAIN rest /\ rest[g - 1] = plan[g]
  <2> SUFFICES ASSUME NEW g \in DOMAIN plan, g # 1
               PROVE  g - 1 \in DOMAIN rest /\ rest[g - 1] = plan[g]
    OBVIOUS
  <2>1. g \in 1..Len(plan) /\ g - 1 \in 1..(Len(plan) - 1) /\ (g - 1) + 1 = g
    BY <1>1
  <2>2. rest[g - 1] = plan[(g - 1) + 1]
    BY <1>4, <2>1
  <2> QED
    BY <1>4, <2>1, <2>2
<1> HIDE DEF rest, group
<1>7. \A i, j \in DOMAIN group : i < j => group[i] < group[j]
  BY <1>1, <1>2 DEF PlanInv, Ordered
<1>8. \A i \in DOMAIN group : group[i] \in Planned /\ group[i] \in DOMAIN log
  <2> SUFFICES ASSUME NEW i \in DOMAIN group PROVE group[i] \in Planned /\ group[i] \in DOMAIN log
    OBVIOUS
  <2>1. group[i] \in Members(plan)
    BY <1>1, <1>2, InMembers
  <2> QED
    BY <2>1 DEF Planned, PlanInv
<1>9. Ordered(rest)
  <2>1. \A g \in DOMAIN rest : \A i, j \in DOMAIN rest[g] : i < j => rest[g][i] < rest[g][j]
    BY <1>5 DEF PlanInv, Ordered
  <2>2. \A g, h \in DOMAIN rest : g < h =>
          \A i \in DOMAIN rest[g], j \in DOMAIN rest[h] : rest[g][i] < rest[h][j]
    <3> SUFFICES ASSUME NEW g \in DOMAIN rest, NEW h \in DOMAIN rest, g < h
                 PROVE  \A i \in DOMAIN rest[g], j \in DOMAIN rest[h] : rest[g][i] < rest[h][j]
      OBVIOUS
    <3>1. g + 1 < h + 1
      BY <1>5
    <3> QED
      BY <1>5, <3>1 DEF PlanInv, Ordered
  <2> QED
    BY <2>1, <2>2 DEF Ordered
<1>10. NeighboursFusible(rest)
  BY <1>5 DEF PlanInv, NeighboursFusible
<1>11. ASSUME NEW m \in Members(rest)
       PROVE  m \in Planned /\ \A i \in DOMAIN group : group[i] < m
  <2>1. PICK g \in DOMAIN rest : \E j \in DOMAIN rest[g] : rest[g][j] = m
    BY <1>4, InMembers
  <2>2. PICK j \in DOMAIN plan[g + 1] : plan[g + 1][j] = m
    BY <1>5, <2>1
  <2>3. g + 1 \in DOMAIN plan /\ 1 < g + 1
    BY <1>1, <1>5
  <2>4. m \in Members(plan)
    BY <1>1, <2>2, <2>3, InMembers
  <2>5. \A i \in DOMAIN plan[1] : plan[1][i] < plan[g + 1][j]
    BY <1>1, <2>2, <2>3 DEF PlanInv, Ordered
  <2> QED
    BY <1>2, <2>2, <2>4, <2>5 DEF Planned
<1>12. ASSUME NEW m \in Planned
       PROVE  m \in ToSet(group) \/ m \in Members(rest)
  <2>1. PICK g \in DOMAIN plan : \E i \in DOMAIN plan[g] : plan[g][i] = m
    BY <1>1, InMembers DEF Planned
  <2>2. CASE g = 1
    BY <1>2, <2>1, <2>2 DEF ToSet
  <2>3. CASE g # 1
    BY <1>4, <1>6, <2>1, <2>3, InMembers
  <2> QED
    BY <2>2, <2>3
<1> QED
  BY <1>3, <1>4, <1>7, <1>8, <1>9, <1>10, <1>11, <1>12 DEF group, rest

\* Where each operation of a set has what it waits for in the set, the writers of an array
\* that no call is blind to come into the set in their order.
LEMMA WritersInOrder ==
  ASSUME TypeOK, DependenciesInv, NEW d \in Data, ~Blind(d),
         NEW S \in SUBSET DOMAIN log, \A k \in S : \A w \in Before(k) : w = 0 \/ w \in S,
         NEW n \in DOMAIN log, Versioned(n, d), n \notin S,
         NEW m \in S, Versioned(m, d)
  PROVE  m < n
<1>1. Len(log) \in Nat /\ DOMAIN log = 1..Len(log)
  BY LogType
<1> DEFINE later == {w \in S : Versioned(w, d) /\ n <= w}
<1> SUFFICES ASSUME later # {} PROVE FALSE
  <2>1. m \notin later => m < n
    BY <1>1
  <2> QED
    BY <2>1
<1> DEFINE k == Min(later)
<1>2. k \in later /\ \A y \in later : k <= y
  <2>1. later \subseteq Nat
    BY <1>1
  <2> HIDE DEF later
  <2> QED
    BY <2>1, LeastNat
<1>3. k \in DOMAIN log /\ k \in S /\ Versioned(k, d) /\ n <= k /\ k # n
  BY <1>2
<1>4. \A y \in S : Versioned(y, d) /\ n <= y => k <= y
  BY <1>2
<1> HIDE DEF k, later
<1>5. d \in Reads(log[k].kernel) /\ Traced(k) /\ Traced(n)
  BY <1>3, NotBlind
<1>6. PICK w \in Before(k) : LastTraced(w, k, d)
  BY <1>3, <1>5 DEF DependenciesInv
<1>7. n \in 1..(k - 1)
  BY <1>1, <1>3
<1>8. n <= w
  BY <1>5, <1>6, <1>7 DEF LastTraced
<1>9. w \in 0..(k - 1) /\ w # 0
  BY <1>1, <1>3, <1>6, <1>8 DEF DependenciesInv
<1>10. Versioned(w, d) /\ w \in S
  BY <1>3, <1>6, <1>9 DEF LastTraced
<1>11. k <= w
  BY <1>4, <1>8, <1>10
<1> QED
  BY <1>1, <1>3, <1>9, <1>11

\* Of what has run, the writers of such an array have run in their order.
LEMMA RanInOrder ==
  ASSUME FusionInv, Calm, NEW d \in Data, ~Blind(d),
         NEW n \in DOMAIN log, Versioned(n, d), ~(runs[n] > 0),
         NEW m \in DOMAIN log, Versioned(m, d), runs[m] > 0
  PROVE  m < n
<1> DEFINE S == {k \in DOMAIN log : runs[k] > 0}
<1>1. TypeOK /\ DependenciesInv /\ FlushInv /\ Len(log) \in Nat /\ DOMAIN log = 1..Len(log)
  BY LogType DEF FusionInv
<1>2. \A k \in S : \A w \in Before(k) : w = 0 \/ w \in S
  <2> SUFFICES ASSUME NEW k \in S, NEW w \in Before(k), w # 0 PROVE w \in S
    OBVIOUS
  <2>1. runs[w] > 0 /\ w \in 0..(k - 1)
    BY <1>1 DEF FlushInv, DependenciesInv
  <2> QED
    BY <1>1, <2>1
<1>3. m \in S /\ n \notin S /\ S \in SUBSET DOMAIN log
  OBVIOUS
<1> HIDE DEF S
<1> QED
  BY <1>1, <1>2, <1>3, WritersInOrder

\* What a place of the next group finds in an array that no call is blind to: the
\* last of its writers among those that ran and those before that place.
LEMMA GroupFinds ==
  ASSUME FusionInv, Calm, plan # <<>>, NEW group, group = Head(plan),
         NEW d \in Data, ~Blind(d), NEW i \in 1..(Len(group) + 1)
  PROVE  LET v == WrittenBy(group, i, d)
             ran == {m \in DOMAIN log : runs[m] > 0} \cup {group[j] : j \in 1..(i - 1)}
         IN /\ v = 0 \/ (Stored(v, d) /\ v \in ran)
            /\ \A m \in ran : Stored(m, d) => m <= v
<1> DEFINE v == WrittenBy(group, i, d)
           ran == {m \in DOMAIN log : runs[m] > 0} \cup {group[j] : j \in 1..(i - 1)}
           earlier == {j \in 1..(i - 1) : d \in Stores(log[group[j]].kernel)}
<1>1. TypeOK /\ FlushInv /\ PlanInv /\ Len(log) \in Nat /\ DOMAIN log = 1..Len(log)
  BY LogType DEF FusionInv
<1>2. /\ group \in Seq(Nat) /\ Len(group) \in Nat /\ DOMAIN group = 1..Len(group)
      /\ \A j, h \in DOMAIN group : j < h => group[j] < group[h]
      /\ \A j \in DOMAIN group : group[j] \in Planned /\ group[j] \in DOMAIN log
  BY <1>1, HeadOfPlan
<1>3. \A j \in DOMAIN group : runs[group[j]] = 0
  BY <1>1, <1>2, WhereItIs
<1>4. \A j \in 1..(i - 1) : j \in DOMAIN group /\ group[j] \in ran
  BY <1>2
<1>5. /\ mem[d] = 0 \/ (Stored(mem[d], d) /\ runs[mem[d]] > 0)
      /\ \A n \in DOMAIN log : Stored(n, d) /\ runs[n] > 0 => n <= mem[d]
  BY <1>1 DEF FlushInv
<1>6. v = IF earlier = {} THEN mem[d] ELSE group[Max(earlier)]
  BY DEF WrittenBy
<1>7. \A m \in ran : (m \in DOMAIN log /\ runs[m] > 0) \/ \E j \in 1..(i - 1) : m = group[j]
  OBVIOUS
<1>8. \A m \in DOMAIN log : runs[m] > 0 => m \in ran
  OBVIOUS
<1> HIDE DEF ran
<1>9. CASE earlier = {}
  <2>1. v = mem[d]
    BY <1>6, <1>9
  <2>2. \A j \in 1..(i - 1) : ~Stored(group[j], d)
    BY <1>9 DEF Stored
  <2>3. v = 0 \/ (Stored(v, d) /\ v \in ran)
    BY <1>5, <1>8, <2>1 DEF Stored
  <2>4. \A m \in ran : Stored(m, d) => m <= v
    BY <1>5, <1>7, <2>1, <2>2
  <2> QED
    BY <2>3, <2>4 DEF ran
<1>10. CASE earlier # {}
  <2> DEFINE last == Max(earlier)
  <2>1. last \in earlier /\ \A j \in earlier : j <= last
    <3>1. earlier \subseteq 0..Len(group)
      BY <1>2
    <3> HIDE DEF earlier
    <3> QED
      BY <1>2, <1>10, <3>1, GreatestNat
  <2>2. v = group[last] /\ last \in 1..(i - 1) /\ last \in DOMAIN group /\ d \in Stores(log[group[last]].kernel)
    BY <1>4, <1>6, <1>10, <2>1
  <2>3. \A j \in 1..(i - 1) : Stored(group[j], d) => j <= last
    BY <2>1 DEF Stored
  <2> HIDE DEF last, earlier, v
  <2>4. Stored(v, d) /\ v \in ran /\ v \in DOMAIN log /\ runs[v] = 0
    BY <1>2, <1>3, <1>4, <2>2 DEF Stored
  <2>5. ASSUME NEW m \in ran, Stored(m, d)
        PROVE  m <= v
    <3>1. CASE m \in DOMAIN log /\ runs[m] > 0
      <4>1. m < v
        <5>1. Versioned(m, d) /\ Versioned(v, d)
          BY <1>1, <2>4, <2>5, <3>1, NotBlind
        <5> QED
          BY <2>4, <3>1, <5>1, RanInOrder
      <4> QED
        BY <1>1, <2>4, <3>1, <4>1
    <3>2. CASE \E j \in 1..(i - 1) : m = group[j]
      <4>1. PICK j \in 1..(i - 1) : m = group[j]
        BY <3>2
      <4>2. j <= last /\ j \in DOMAIN group
        BY <1>4, <2>3, <2>5, <4>1
      <4>3. j = last \/ j < last
        BY <1>2, <2>2, <4>2
      <4> QED
        BY <1>1, <1>2, <2>2, <2>4, <4>1, <4>2, <4>3
    <3> QED
      BY <1>7, <3>1, <3>2
  <2> QED
    BY <2>4, <2>5 DEF v, ran
<1> QED
  BY <1>9, <1>10


\* An operation of the next group finds in an array that it reads, and that no call is
\* blind to, what the script's order says, or what a later call has written.
LEMMA ReadsRight ==
  ASSUME FusionInv, Calm, plan # <<>>, NEW group, group = Head(plan),
         NEW i \in DOMAIN group, NEW d \in Loads(log[group[i]].kernel), ~Blind(d),
         WrittenBy(group, i, d) # ProgramOrder(group[i], d)
  PROVE  WrittenBy(group, i, d) > group[i]
<1> DEFINE n == group[i]
           v == WrittenBy(group, i, d)
           p == ProgramOrder(n, d)
           ran == {m \in DOMAIN log : runs[m] > 0} \cup {group[j] : j \in 1..(i - 1)}
<1>1. TypeOK /\ FlushInv /\ PlanInv /\ DependenciesInv /\ Typed /\ Len(log) \in Nat /\ DOMAIN log = 1..Len(log)
  BY LogType DEF FusionInv
<1>2. /\ group \in Seq(Nat) /\ Len(group) \in Nat /\ DOMAIN group = 1..Len(group)
      /\ \A j, h \in DOMAIN group : j < h => group[j] < group[h]
      /\ \A j \in DOMAIN group : group[j] \in Planned /\ group[j] \in DOMAIN log
      /\ \A m \in Planned : m \in ToSet(group) \/ m \in Members(Tail(plan))
      /\ \A j \in DOMAIN group, m \in Members(Tail(plan)) : group[j] < m
  BY <1>1, HeadOfPlan
<1>3. n \in DOMAIN log /\ n \in Planned /\ runs[n] = 0 /\ i \in 1..(Len(group) + 1)
  BY <1>1, <1>2, WhereItIs
<1>4. log[n].kernel \in Kernels /\ d \in Loads(log[n].kernel) /\ d \in Data
  BY <1>1, <1>3, AccessedArrays DEF Typed
<1>5. /\ v = 0 \/ (Stored(v, d) /\ v \in ran)
      /\ \A m \in ran : Stored(m, d) => m <= v
  BY <1>3, <1>4, GroupFinds
<1>6. \A m \in ran : m \in DOMAIN log /\ m # n
  <2>1. \A j \in 1..(i - 1) : j \in DOMAIN group /\ group[j] < group[i] /\ group[j] \in DOMAIN log
    BY <1>2
  <2>2. \A j \in 1..(i - 1) : group[j] \in DOMAIN log /\ group[j] # n
    BY <1>1, <2>1
  <2>3. \A m \in DOMAIN log : runs[m] > 0 => m # n
    BY <1>3
  <2> QED
    BY <2>2, <2>3
<1>7. /\ p \in 0..(n - 1) /\ (p = 0 \/ Stored(p, d))
      /\ \A m \in 1..(n - 1) : Stored(m, d) => m <= p
  <2> DEFINE S == {0} \cup {m \in 1..(n - 1) : d \in Stores(log[m].kernel)}
  <2>1. S \subseteq 0..(n - 1) /\ S # {} /\ n - 1 \in Nat
    BY <1>1, <1>3
  <2>2. p = Max(S)
    BY DEF ProgramOrder
  <2>3. Max(S) \in S /\ \A y \in S : y <= Max(S)
    <3> HIDE DEF S
    <3> QED
      BY <2>1, GreatestNat
  <2>4. p \in S /\ \A y \in S : y <= p
    BY <2>2, <2>3
  <2> HIDE DEF p
  <2>5. p = 0 \/ (p \in 1..(n - 1) /\ d \in Stores(log[p].kernel))
    BY <2>4
  <2>6. \A m \in 1..(n - 1) : m \in DOMAIN log
    BY <1>1, <1>3
  <2>7. p = 0 \/ Stored(p, d)
    BY <2>5, <2>6 DEF Stored
  <2>8. \A m \in 1..(n - 1) : Stored(m, d) => m <= p
    BY <2>4 DEF Stored
  <2> QED
    BY <2>1, <2>4, <2>7, <2>8
<1> HIDE DEF n, v, p
<1>8. d \in Reads(log[n].kernel) /\ Traced(n)
  BY <1>1, <1>3, <1>4, NotBlind
<1>9. PICK w \in Before(n) : LastTraced(w, n, d)
  BY <1>1, <1>3, <1>4, <1>8 DEF DependenciesInv
<1>10. w \in 0..(n - 1) /\ n \in Nat
  BY <1>1, <1>3, <1>9 DEF DependenciesInv
<1>11. p # 0 => p \in 1..(n - 1) /\ p <= w /\ Versioned(p, d)
  <2> SUFFICES ASSUME p # 0 PROVE p \in 1..(n - 1) /\ p <= w /\ Versioned(p, d)
    OBVIOUS
  <2>1. p \in 1..(n - 1) /\ Stored(p, d) /\ p \in DOMAIN log
    BY <1>7, <1>10 DEF Stored
  <2>2. Traced(p) /\ Versioned(p, d)
    BY <1>1, <1>4, <2>1, NotBlind
  <2> QED
    BY <1>9, <2>1, <2>2 DEF LastTraced
<1>12. p = 0 \/ p \in ran
  <2> SUFFICES ASSUME p # 0 PROVE p \in ran
    OBVIOUS
  <2>1. runs[p] > 0 \/ p \in Planned
    <3> DEFINE S == {m \in DOMAIN log : runs[m] > 0 \/ m \in Planned}
    <3>1. \A m \in S : \A u \in Before(m) : u = 0 \/ u \in S
      <4> SUFFICES ASSUME NEW m \in S, NEW u \in Before(m), u # 0 PROVE u \in S
        OBVIOUS
      <4>1. runs[u] > 0 \/ u \in Planned
        BY <1>1 DEF FlushInv
      <4>2. u \in 0..(m - 1)
        BY <1>1 DEF DependenciesInv
      <4> QED
        BY <1>1, <4>1, <4>2
    <3>2. n \in S
      BY <1>3
    <3>3. w \in S /\ Versioned(w, d) /\ p \in DOMAIN log
      <4>1. w # 0
        BY <1>10, <1>11
      <4> QED
        BY <1>7, <1>9, <3>1, <3>2, <4>1 DEF LastTraced, Stored
    <3>4. S \in SUBSET DOMAIN log
      OBVIOUS
    <3> HIDE DEF S
    <3>5. p \notin S => w < p
      BY <1>1, <1>4, <1>11, <3>1, <3>3, <3>4, WritersInOrder
    <3>6. p \in S
      BY <1>10, <1>11, <3>5
    <3> QED
      BY <3>6 DEF S
  <2>2. p \in DOMAIN log
    BY <1>7 DEF Stored
  <2>3. CASE runs[p] > 0
    BY <2>2, <2>3
  <2>4. CASE p \in Planned
    <3>1. p < n
      BY <1>7, <1>10
    <3>2. p \notin Members(Tail(plan))
      <4>1. p \in Members(Tail(plan)) => n < p
        BY <1>2 DEF n
      <4> QED
        BY <1>1, <1>10, <2>2, <3>1, <4>1
    <3>3. PICK j \in DOMAIN group : group[j] = p
      BY <1>2, <2>4, <3>2 DEF ToSet
    <3>4. ~(i < j) /\ j # i
      <4>1. i < j => n < p
        BY <1>2, <3>3 DEF n
      <4>2. j # i
        BY <1>10, <3>1, <3>3 DEF n
      <4> QED
        BY <1>1, <1>10, <2>2, <3>1, <4>1, <4>2
    <3>5. j \in 1..(i - 1)
      BY <1>2, <3>4
    <3> QED
      BY <3>3, <3>5
  <2> QED
    BY <2>1, <2>3, <2>4
<1>13. p = 0 \/ p <= v
  BY <1>5, <1>7, <1>12
<1>14. v # p
  BY DEF v, p, n
<1>15. v \in Nat /\ v # n
  <2>1. n # 0
    BY <1>1, <1>3
  <2>2. v = 0 \/ (v \in DOMAIN log /\ v # n)
    BY <1>5, <1>6
  <2> QED
    BY <1>1, <2>1, <2>2
<1>16. ~(v < n)
  <2> SUFFICES ASSUME v < n PROVE FALSE
    OBVIOUS
  <2>1. v # 0 => Stored(v, d) /\ v \in 1..(n - 1)
    BY <1>5, <1>10, <1>15
  <2>2. v # 0 => v <= p
    BY <1>7, <2>1
  <2> QED
    BY <1>7, <1>10, <1>13, <1>14, <1>15, <2>2
<1>17. v > n
  BY <1>10, <1>15, <1>16
<1> QED
  BY <1>17 DEF v, n

LEMMA WrittenType ==
  ASSUME TypeOK, PlanInv, plan # <<>>, NEW group, group = Head(plan),
         NEW d \in Data, NEW i \in 1..(Len(group) + 1)
  PROVE  WrittenBy(group, i, d) \in Nat
<1> DEFINE earlier == {j \in 1..(i - 1) : d \in Stores(log[group[j]].kernel)}
<1>1. group \in Seq(Nat) /\ Len(group) \in Nat /\ DOMAIN group = 1..Len(group)
  BY HeadOfPlan
<1>2. WrittenBy(group, i, d) = IF earlier = {} THEN mem[d] ELSE group[Max(earlier)]
  BY DEF WrittenBy
<1>3. earlier # {} => Max(earlier) \in earlier
  <2>1. earlier \subseteq 0..Len(group)
    BY <1>1
  <2> HIDE DEF earlier
  <2> QED
    BY <1>1, <2>1, GreatestNat
<1>4. \A j \in earlier : group[j] \in Nat
  BY <1>1
<1> HIDE DEF earlier
<1> QED
  BY <1>2, <1>3, <1>4 DEF TypeOK

LEMMA RunNextStep ==
  ASSUME FusionInv, RunNext
  PROVE  FusionInv'
<1>1. TypeOK /\ PlanInv /\ VersionsInv /\ DependenciesInv /\ Typed /\ Len(log) \in Nat /\ DOMAIN log = 1..Len(log)
  BY LogType DEF FusionInv
<1>2. PICK group : group = Head(plan)
  OBVIOUS
<1>3. PICK rest : rest = Tail(plan)
  OBVIOUS
<1>4. /\ plan # <<>> /\ plan' = rest
      /\ mem' = [d \in Data |-> WrittenBy(group, Len(group) + 1, d)]
      /\ runs' = [n \in DOMAIN runs |-> IF n \in ToSet(group) THEN runs[n] + 1 ELSE runs[n]]
      /\ wrong' = wrong \cup WrongReads(group)
      /\ trace' = IF plan' = <<>> /\ flushing = All THEN {} ELSE trace
      /\ UNCHANGED <<log, writers, flushing, failures, raised>>
  BY <1>2, <1>3 DEF RunNext
<1>5. /\ group \in Seq(Nat) /\ Len(group) \in Nat /\ DOMAIN group = 1..Len(group)
      /\ \A i \in DOMAIN group : group[i] \in Planned /\ group[i] \in DOMAIN log
      /\ rest \in Seq(Seq(Nat)) /\ Ordered(rest) /\ NeighboursFusible(rest)
      /\ Members(rest) \subseteq Planned
      /\ \A m \in Planned : m \in ToSet(group) \/ m \in Members(rest)
      /\ \A i \in DOMAIN group, m \in Members(rest) : group[i] < m
  BY <1>1, <1>2, <1>3, <1>4, HeadOfPlan
<1>6. \A n \in ToSet(group) : n \in Planned /\ n \in DOMAIN log /\ \A m \in Members(rest) : n < m
  BY <1>5 DEF ToSet
<1>7. \A n \in DOMAIN log : runs'[n] = IF n \in ToSet(group) THEN runs[n] + 1 ELSE runs[n]
  BY <1>1, <1>4 DEF TypeOK
<1>8. \A d \in Data, i \in 1..(Len(group) + 1) : WrittenBy(group, i, d) \in Nat
  BY <1>1, <1>2, <1>4, WrittenType
<1>9. \A read \in WrongReads(group) : \E i \in DOMAIN group : \E d \in Loads(log[group[i]].kernel) :
        /\ d \in Data /\ read = <<group[i], d, WrittenBy(group, i, d)>>
        /\ WrittenBy(group, i, d) # ProgramOrder(group[i], d)
  <2> SUFFICES ASSUME NEW read \in WrongReads(group)
               PROVE  \E i \in DOMAIN group : \E d \in Loads(log[group[i]].kernel) :
                        /\ d \in Data /\ read = <<group[i], d, WrittenBy(group, i, d)>>
                        /\ WrittenBy(group, i, d) # ProgramOrder(group[i], d)
    OBVIOUS
  <2>1. read[3] # ProgramOrder(read[1], read[2])
    BY DEF WrongReads
  <2>2. PICK i \in DOMAIN group : \E d \in Loads(log[group[i]].kernel) : read = <<group[i], d, WrittenBy(group, i, d)>>
    BY DEF WrongReads
  <2>3. PICK d \in Loads(log[group[i]].kernel) : read = <<group[i], d, WrittenBy(group, i, d)>>
    BY <2>2
  <2>4. d \in Data
    BY <1>1, <1>5, AccessedArrays DEF Typed
  <2>5. read[1] = group[i] /\ read[2] = d /\ read[3] = WrittenBy(group, i, d)
    BY <2>3
  <2> QED
    BY <2>1, <2>3, <2>4, <2>5
<1>10. TypeOK'
  <2>1. mem' \in [Data -> Nat]
    BY <1>4, <1>5, <1>8
  <2>2. runs' \in [DOMAIN log' -> Nat]
    <3>1. DOMAIN runs = DOMAIN log /\ \A n \in DOMAIN log : runs[n] \in Nat /\ runs[n] + 1 \in Nat
      BY <1>1 DEF TypeOK
    <3> QED
      BY <1>4, <3>1
  <2>3. wrong' \subseteq Nat \X Data \X Nat
    <3>1. \A read \in WrongReads(group) : read \in Nat \X Data \X Nat
      <4> SUFFICES ASSUME NEW read \in WrongReads(group) PROVE read \in Nat \X Data \X Nat
        OBVIOUS
      <4>1. PICK i \in DOMAIN group, d \in Data : read = <<group[i], d, WrittenBy(group, i, d)>>
        BY <1>9
      <4>2. group[i] \in Nat /\ WrittenBy(group, i, d) \in Nat
        BY <1>5, <1>8
      <4> QED
        BY <4>1, <4>2
    <3> QED
      BY <1>1, <1>4, <3>1 DEF TypeOK
  <2>4. trace' \subseteq DOMAIN log' /\ plan' \in Seq(Seq(Nat))
    BY <1>1, <1>4, <1>5 DEF TypeOK
  <2>5. flushing' \in Data \cup {None, All} \cup Results'
    BY <1>1, <1>4 DEF Results, TypeOK
  <2> QED
    BY <1>1, <1>4, <2>1, <2>2, <2>3, <2>4, <2>5 DEF TypeOK
<1>11. VersionsInv' /\ DependenciesInv'
  BY <1>1, <1>4, SameLog
<1>12. PlanInv'
  <2>1. Ordered(plan)' /\ Members(plan)' \subseteq DOMAIN log'
    <3>1. Members(rest) \subseteq DOMAIN log
      BY <1>1, <1>5 DEF PlanInv, Planned
    <3> QED
      BY <1>4, <1>5, <3>1 DEF Ordered, Members
  <2>2. NeighboursFusible(plan)'
    <3>1. \A m, n : Fusible(m, n) => Fusible(m, n)'
      BY <1>4 DEF Fusible
    <3> QED
      BY <1>4, <1>5, <3>1 DEF NeighboursFusible
  <2> QED
    BY <2>1, <2>2 DEF PlanInv
<1>13. ASSUME Calm' PROVE FlushInv'
  <2>1. Calm /\ FlushInv
    BY <1>4, <1>13 DEF Calm, FusionInv
  <2>2. Planned' = Members(rest)
    BY <1>4 DEF Planned, Members
  <2>3. \A n : Before(n)' = Before(n)
    BY <1>4 DEF Before, WriterOf
  <2>4. \A n \in DOMAIN log : runs[n] \in Nat /\ (runs'[n] > 0 <=> runs[n] > 0 \/ n \in ToSet(group))
    <3>1. \A n \in DOMAIN log : runs[n] \in Nat
      BY <1>1 DEF TypeOK
    <3> QED
      BY <1>7, <3>1
  <2>5. flushing' # All => Planned' \cap trace' = {}
    BY <1>4, <1>5, <2>1, <2>2 DEF FlushInv
  <2>6. ASSUME NEW n \in Planned, NEW w \in Before(n), w # 0
        PROVE  /\ w \in DOMAIN log /\ w < n
               /\ runs[w] > 0 \/ w \in ToSet(group) \/ w \in Members(rest)
    <3>1. n \in 1..Len(log) /\ w \in 0..(n - 1)
      BY <1>1 DEF PlanInv, Planned, DependenciesInv
    <3>2. runs[w] > 0 \/ w \in Planned
      BY <2>1, <2>6 DEF FlushInv
    <3> QED
      BY <1>1, <1>5, <2>6, <3>1, <3>2
  <2>7. \A n \in Planned' : \A w \in Before(n)' : w = 0 \/ runs'[w] > 0 \/ w \in Planned'
    BY <1>5, <2>2, <2>3, <2>4, <2>6
  <2>8. \A n \in DOMAIN log' : runs'[n] > 0 => \A w \in Before(n)' : w = 0 \/ runs'[w] > 0
    <3> SUFFICES ASSUME NEW n \in DOMAIN log, runs'[n] > 0, NEW w \in Before(n), w # 0
                 PROVE  runs'[w] > 0
      BY <1>4, <2>3
    <3>1. CASE runs[n] > 0
      <4>1. runs[w] > 0
        BY <2>1, <3>1 DEF FlushInv
      <4>2. w \in DOMAIN log
        <5>1. w \in 0..(n - 1)
          BY <1>1 DEF DependenciesInv
        <5> QED
          BY <1>1, <5>1
      <4> QED
        BY <2>4, <4>1, <4>2
    <3>2. CASE n \in ToSet(group)
      <4>1. n \in Planned /\ \A m \in Members(rest) : n < m
        BY <1>6, <3>2
      <4>2. w \notin Members(rest)
        BY <1>1, <2>6, <4>1
      <4> QED
        BY <2>4, <2>6, <4>1, <4>2
    <3> QED
      BY <2>4, <3>1, <3>2
  <2>9. ASSUME NEW d \in Data, ~Blind(d)'
        PROVE  /\ mem'[d] = 0 \/ (Stored(mem[d], d)' /\ runs'[mem'[d]] > 0)
               /\ \A n \in DOMAIN log' : Stored(n, d)' /\ runs'[n] > 0 => n <= mem'[d]
    <3> DEFINE v == WrittenBy(group, Len(group) + 1, d)
               ran == {m \in DOMAIN log : runs[m] > 0} \cup {group[j] : j \in 1..((Len(group) + 1) - 1)}
    <3>1. ~Blind(d)
      BY <1>4, <2>9 DEF Blind
    <3>2. /\ v = 0 \/ (Stored(v, d) /\ v \in ran)
          /\ \A m \in ran : Stored(m, d) => m <= v
      <4>1. Len(group) + 1 \in 1..(Len(group) + 1)
        BY <1>5
      <4> QED
        BY <1>2, <1>4, <2>1, <3>1, <4>1, GroupFinds
    <3>3. mem'[d] = v
      BY <1>4
    <3>4. \A n \in DOMAIN log : n \in ran <=> runs'[n] > 0
      <4>1. 1..((Len(group) + 1) - 1) = DOMAIN group
        BY <1>5
      <4>2. \A n : n \in ToSet(group) <=> \E j \in DOMAIN group : group[j] = n
        BY DEF ToSet
      <4> QED
        BY <2>4, <4>1, <4>2
    <3>5. \A n : Stored(n, d)' <=> Stored(n, d)
      BY <1>4 DEF Stored
    <3> HIDE DEF v, ran
    <3>6. \A n : Stored(n, d) => n \in DOMAIN log
      BY DEF Stored
    <3>7. mem'[d] = 0 \/ (Stored(v, d) /\ runs'[v] > 0)
      BY <3>2, <3>3, <3>4, <3>6
    <3>8. Stored(mem[d], d)' <=> Stored(v, d)
      BY <1>4, <3>3 DEF Stored
    <3>9. \A n \in DOMAIN log : Stored(n, d) /\ runs'[n] > 0 => n <= v
      BY <3>2, <3>4
    <3> QED
      BY <1>4, <3>3, <3>5, <3>7, <3>8, <3>9
  <2>10. ASSUME flushing' \in Data \cup Results'
         PROVE  LET n == WriterOf(CurrentVersion(flushing)) IN n' = 0 \/ runs'[n'] > 0 \/ n' \in Planned'
    <3>1. flushing \in Data \cup Results
      BY <1>4, <2>10 DEF Results
    <3>2. PICK n : n = WriterOf(CurrentVersion(flushing))
      OBVIOUS
    <3>3. WriterOf(CurrentVersion(flushing))' = n
      BY <1>4, <3>2 DEF WriterOf, CurrentVersion
    <3>4. n \in 0..Len(log)
      BY <1>1, <3>1, <3>2, CurrentIsLast, CurrentResult
    <3>5. n = 0 \/ runs[n] > 0 \/ n \in Planned
      BY <2>1, <3>1, <3>2 DEF FlushInv
    <3>6. n = 0 \/ runs'[n] > 0 \/ n \in Planned'
      <4>1. n \in DOMAIN log \/ n = 0
        BY <1>1, <3>4
      <4>2. n \in Planned => n \in ToSet(group) \/ n \in Members(rest)
        BY <1>5
      <4> QED
        BY <2>2, <2>4, <3>5, <4>1, <4>2
    <3> QED
      BY <3>3, <3>6
  <2>11. RunsOnce'
    <3> SUFFICES ASSUME NEW n \in DOMAIN log
                 PROVE  runs'[n] = IF (\E i \in DOMAIN plan' : n \in ToSet(plan'[i]))
                                      \/ (n \in trace' /\ ~(flushing' = All /\ plan' # <<>>)) THEN 0 ELSE 1
      BY <1>4 DEF RunsOnce, InScript
    <3>1. (\E i \in DOMAIN plan' : n \in ToSet(plan'[i])) <=> n \in Members(rest)
      BY <2>2 DEF Planned, Members
    <3>2. runs[n] = IF n \in Planned \/ (n \in trace /\ flushing # All) THEN 0 ELSE 1
      BY <1>4, <2>1, WhereItIs DEF InScript
    <3>3. flushing = All => ~(n \in trace' /\ ~(flushing' = All /\ plan' # <<>>))
      BY <1>4
    <3>4. flushing # All => trace' = trace /\ flushing' # All /\ Planned \cap trace = {}
      BY <1>4, <2>1 DEF FlushInv
    <3>5. CASE n \in ToSet(group)
      <4>1. n \in Planned /\ n \notin Members(rest)
        BY <1>1, <1>6, <3>5
      <4>2. runs'[n] = 1
        BY <1>7, <3>2, <3>5, <4>1
      <4> QED
        BY <3>1, <3>3, <3>4, <4>1, <4>2
    <3>6. CASE n \notin ToSet(group)
      <4>1. n \in Planned <=> n \in Members(rest)
        BY <1>5, <3>6
      <4>2. runs'[n] = runs[n]
        BY <1>7, <3>6
      <4> QED
        BY <3>1, <3>2, <3>3, <3>4, <4>1, <4>2
    <3> QED
      BY <3>5, <3>6
  <2>12. ReadsProgramOrder'
    <3>1. \A read \in wrong : read[3] > read[1] \/ Blind(read[2])
      BY <2>1 DEF FlushInv, ReadsProgramOrder
    <3>2. ASSUME NEW read \in WrongReads(group), ~Blind(read[2])
          PROVE  read[3] > read[1]
      <4>0. PICK i \in DOMAIN group : \E d \in Loads(log[group[i]].kernel) :
              /\ d \in Data /\ read = <<group[i], d, WrittenBy(group, i, d)>>
              /\ WrittenBy(group, i, d) # ProgramOrder(group[i], d)
        BY <1>9
      <4>1. PICK d \in Loads(log[group[i]].kernel) :
              /\ d \in Data /\ read = <<group[i], d, WrittenBy(group, i, d)>>
              /\ WrittenBy(group, i, d) # ProgramOrder(group[i], d)
        BY <4>0
      <4>2. read[1] = group[i] /\ read[2] = d /\ read[3] = WrittenBy(group, i, d)
        BY <4>1
      <4>3. ~Blind(d)
        BY <3>2, <4>2
      <4>4. WrittenBy(group, i, d) > group[i]
        BY <1>2, <1>4, <2>1, <4>1, <4>3, ReadsRight
      <4> QED
        BY <4>2, <4>4
    <3>3. \A d : Blind(d)' <=> Blind(d)
      BY <1>4 DEF Blind
    <3> QED
      BY <1>4, <3>1, <3>2, <3>3 DEF ReadsProgramOrder
  <2> QED
    BY <2>5, <2>7, <2>8, <2>9, <2>10, <2>11, <2>12 DEF FlushInv
<1> QED
  BY <1>10, <1>11, <1>12, <1>13 DEF FusionInv

LEMMA RunFailsStep ==
  ASSUME FusionInv, RunFails
  PROVE  FusionInv'
<1>1. TypeOK /\ VersionsInv /\ DependenciesInv
  BY DEF FusionInv
<1>2. /\ plan' = <<>> /\ flushing' = None /\ failures' = failures + 1
      /\ UNCHANGED <<log, trace, writers, mem, runs, wrong, raised>>
  BY DEF RunFails
<1>3. TypeOK'
  <2>1. plan' \in Seq(Seq(Nat)) /\ failures' \in Nat
    BY <1>1, <1>2 DEF TypeOK
  <2> QED
    BY <1>1, <1>2, <2>1 DEF TypeOK
<1>4. VersionsInv' /\ DependenciesInv'
  BY <1>1, <1>2, SameLog
<1>5. PlanInv'
  <2>1. DOMAIN plan' = {}
    BY <1>2
  <2> QED
    BY <2>1 DEF PlanInv, Ordered, Members, NeighboursFusible
<1>6. ~Calm'
  BY <1>1, <1>2 DEF TypeOK, Calm
<1> QED
  BY <1>3, <1>4, <1>5, <1>6 DEF FusionInv

LEMMA FusionInvStep == FusionInv /\ [Next]_vars => FusionInv'
<1> SUFFICES ASSUME FusionInv, [Next]_vars PROVE FusionInv'
  OBVIOUS
<1>1. CASE \E k \in Kernels : \E result \in Results \cup {None} : LogOperation(k, result)
  BY <1>1, LogOperationStep
<1>2. CASE \E k \in Kernels : Fill(k)
  BY <1>2, FillStep
<1>3. CASE \E d \in Data \cup Results : FlushData(d)
  BY <1>3, FlushDataStep
<1>4. CASE FlushTrace
  BY <1>4, FlushTraceStep
<1>5. CASE RunNext
  BY <1>5, RunNextStep
<1>6. CASE RunFails
  BY <1>6, RunFailsStep
<1>7. CASE UNCHANGED vars
  <2>1. UNCHANGED <<log, trace, writers, plan, flushing, mem, runs, wrong, failures, raised>>
    BY <1>7 DEF vars
  <2>2. TypeOK'
    BY <2>1 DEF FusionInv, TypeOK, Results
  <2>3. VersionsInv' /\ DependenciesInv'
    BY <2>1, SameLog DEF FusionInv
  <2>4. PlanInv'
    <3>1. \A m, n : Fusible(m, n)' <=> Fusible(m, n)
      BY <2>1 DEF Fusible
    <3> QED
      BY <2>1, <3>1 DEF FusionInv, PlanInv, Ordered, Members, NeighboursFusible
  <2>5. Calm' => FlushInv'
    <3> SUFFICES ASSUME Calm' PROVE FlushInv'
      OBVIOUS
    <3>1. FlushInv
      BY <2>1 DEF Calm, FusionInv
    <3>2. /\ Planned' = Planned /\ Results' = Results
          /\ \A n : Before(n)' = Before(n) /\ Blind(n)' = Blind(n)
          /\ \A n, d : Stored(n, d)' <=> Stored(n, d)
      BY <2>1 DEF Planned, Members, Results, Before, WriterOf, Blind, Stored
    <3>3. RunsOnce' /\ ReadsProgramOrder'
      <4>1. Calm
        BY <2>1 DEF Calm
      <4> QED
        BY <2>1, <3>1, <3>2, <4>1 DEF FlushInv, RunsOnce, InScript, ReadsProgramOrder
    <3>4. ASSUME flushing \in Data \cup Results
          PROVE  LET n == WriterOf(CurrentVersion(flushing)) IN n' = 0 \/ runs[n'] > 0 \/ n' \in Planned
      <4>1. PICK n : n = WriterOf(CurrentVersion(flushing))
        OBVIOUS
      <4>2. WriterOf(CurrentVersion(flushing))' = n
        BY <2>1, <4>1 DEF WriterOf, CurrentVersion
      <4> QED
        BY <3>1, <3>4, <4>1, <4>2 DEF FlushInv
    <3>5. \A d \in Data : ~Blind(d)' =>
            /\ mem'[d] = 0 \/ (Stored(mem[d], d)' /\ runs'[mem'[d]] > 0)
            /\ \A n \in DOMAIN log' : Stored(n, d)' /\ runs'[n] > 0 => n <= mem'[d]
      BY <2>1, <3>1 DEF FlushInv, Blind, Stored
    <3>6. /\ flushing' # All => Planned' \cap trace' = {}
          /\ \A n \in Planned' : \A w \in Before(n)' : w = 0 \/ runs'[w] > 0 \/ w \in Planned'
          /\ \A n \in DOMAIN log' : runs'[n] > 0 => \A w \in Before(n)' : w = 0 \/ runs'[w] > 0
      BY <2>1, <3>1, <3>2 DEF FlushInv
    <3> QED
      BY <2>1, <3>2, <3>3, <3>4, <3>5, <3>6 DEF FlushInv
  <2> QED
    BY <2>2, <2>3, <2>4, <2>5 DEF FusionInv
<1> QED
  BY <1>1, <1>2, <1>3, <1>4, <1>5, <1>6, <1>7 DEF Next

-----------------------------------------------------------------------------
(* What the invariant gives.                                               *)

\* A look sees the last write: nothing is planned any more, so the last traced writer has
\* run, and with it all writers before it: an array that no call is blind to has no others.
LEMMA LooksSee == FusionInv => LookSeesLastWrite
<1> SUFFICES ASSUME FusionInv, Calm, InScript
             PROVE  /\ flushing \in Data /\ ~Blind(flushing) => mem[flushing] = ProgramOrder(Len(log) + 1, flushing)
                    /\ flushing \in Results => runs[flushing] > 0
  BY DEF LookSeesLastWrite
<1>1. TypeOK /\ VersionsInv /\ FlushInv /\ Len(log) \in Nat /\ DOMAIN log = 1..Len(log)
  BY LogType DEF FusionInv
<1>2. Planned = {}
  BY NothingPlanned DEF InScript
<1>3. ASSUME flushing \in Data, ~Blind(flushing)
      PROVE  mem[flushing] = ProgramOrder(Len(log) + 1, flushing)
  <2> DEFINE d == flushing
             n == WriterOf(CurrentVersion(d))
             S == {0} \cup {m \in 1..((Len(log) + 1) - 1) : d \in Stores(log[m].kernel)}
  <2>1. /\ n \in 0..Len(log)
        /\ n = 0 \/ Versioned(n, d)
        /\ \A m \in DOMAIN log : Versioned(m, d) /\ Traced(m) => m <= n
    BY <1>1, <1>3, CurrentIsLast
  <2>2. n = 0 \/ runs[n] > 0
    BY <1>1, <1>2, <1>3 DEF FlushInv
  <2>3. \A m : Stored(m, d) => m \in DOMAIN log /\ runs[m] > 0
    <3> SUFFICES ASSUME NEW m, Stored(m, d), ~(runs[m] > 0) PROVE FALSE
      BY DEF Stored
    <3>1. m \in DOMAIN log /\ Versioned(m, d) /\ Traced(m)
      BY <1>1, <1>3, NotBlind DEF Stored
    <3>2. m <= n /\ m \in Nat /\ m # 0
      BY <1>1, <2>1, <3>1
    <3>3. n # 0 /\ n \in DOMAIN log
      BY <1>1, <2>1, <3>2
    <3>4. n < m
      BY <1>3, <2>1, <2>2, <3>1, <3>3, RanInOrder
    <3> QED
      BY <1>1, <3>2, <3>3, <3>4
  <2>4. /\ mem[d] = 0 \/ Stored(mem[d], d)
        /\ \A m \in DOMAIN log : Stored(m, d) /\ runs[m] > 0 => m <= mem[d]
        /\ mem[d] \in Nat
    BY <1>1, <1>3 DEF FlushInv, TypeOK
  <2>5. ProgramOrder(Len(log) + 1, d) = Max(S)
    BY DEF ProgramOrder
  <2>6. S \subseteq 0..Len(log) /\ S # {}
    BY <1>1
  <2>7. \A m : m \in S <=> m = 0 \/ Stored(m, d)
    BY <1>1 DEF Stored
  <2> HIDE DEF n, S
  <2>8. Max(S) \in S /\ \A m \in S : m <= Max(S)
    BY <1>1, <2>6, GreatestNat
  <2>9. Max(S) \in Nat
    <3> DEFINE last == Max(S)
    <3>1. last \in S
      BY <2>8
    <3> HIDE DEF last
    <3>2. last \in Nat
      BY <1>1, <2>6, <3>1
    <3> QED
      BY <3>2 DEF last
  <2>10. mem[d] = Max(S)
    <3>1. mem[d] <= Max(S)
      BY <2>4, <2>7, <2>8
    <3>2. Max(S) <= mem[d]
      <4>1. CASE Max(S) = 0
        BY <2>4, <4>1
      <4>2. CASE Stored(Max(S), d)
        BY <2>3, <2>4, <4>2
      <4> QED
        BY <2>7, <2>8, <4>1, <4>2
    <3> QED
      BY <2>4, <2>9, <3>1, <3>2
  <2> QED
    BY <2>5, <2>10
<1>4. ASSUME flushing \in Results
      PROVE  runs[flushing] > 0
  <2>1. WriterOf(CurrentVersion(flushing)) = flushing /\ flushing # 0
    BY <1>1, <1>4, CurrentResult
  <2> QED
    BY <1>1, <1>2, <1>4, <2>1 DEF FlushInv
<1> QED
  BY <1>3, <1>4

\* What is_safe_to_fuse checks between neighbours keeps plain kernels from racing.
LEMMA NeighboursPlain == FusionInv => NeighboursDoNotRace
<1> SUFFICES ASSUME FusionInv, NEW g \in DOMAIN plan, NEW i \in 1..(Len(plan[g]) - 1),
                    Plain(log[plan[g][i]].kernel), Plain(log[plan[g][i + 1]].kernel),
                    \A v \in ViewsOf(log[plan[g][i]].kernel), w \in ViewsOf(log[plan[g][i + 1]].kernel) :
                      Base[v] = Base[w] => v = w
             PROVE  ~Races(log[plan[g][i]].kernel, log[plan[g][i + 1]].kernel)
  BY DEF NeighboursDoNotRace
<1>1. TypeOK /\ PlanInv /\ Typed
  BY LogType DEF FusionInv
<1>2. plan[g] \in Seq(Nat) /\ i \in DOMAIN plan[g] /\ i + 1 \in DOMAIN plan[g]
  <2>1. plan[g] \in Seq(Nat)
    BY <1>1 DEF TypeOK
  <2>2. Len(plan[g]) \in Nat /\ DOMAIN plan[g] = 1..Len(plan[g])
    BY <2>1
  <2> QED
    BY <2>1, <2>2
<1>3. plan[g][i] \in DOMAIN log /\ plan[g][i + 1] \in DOMAIN log
  <2>1. \A j \in DOMAIN plan[g] : plan[g][j] \in Members(plan)
    BY <1>1, InMembers DEF TypeOK
  <2> QED
    BY <1>1, <1>2, <2>1 DEF PlanInv
<1>4. Fusible(plan[g][i], plan[g][i + 1])
  BY <1>1 DEF PlanInv, NeighboursFusible
<1>5. log[plan[g][i]].kernel \in Kernels /\ log[plan[g][i + 1]].kernel \in Kernels
  BY <1>1, <1>3 DEF Typed
<1> QED
  BY <1>3, <1>4, <1>5, PlainFusible

-----------------------------------------------------------------------------
(* The theorems.                                                           *)

\* The inductive invariant holds of every execution.
THEOREM FusionInvariant == Spec => []FusionInv
<1> QED
  BY FusionInvInit, FusionInvStep, PTL DEF Spec

\* The tracer's structures keep their types: what is in the trace is an operation that
\* was called, a version a writer, a plan groups of operations.
THEOREM FusionTypeCorrect == Spec => []TypeOK
<1>1. FusionInv => TypeOK
  BY DEF FusionInv
<1> QED
  BY <1>1, FusionInvariant, PTL

\* Whatever the kernels, the looks and the fusion: an operation reads the value of the
\* script's order or of a later call, unless some call uses the array without being recorded
\* as its reader, or a kernel failed.
THEOREM ReadsInProgramOrder == Spec => []ReadsProgramOrder
<1>1. FusionInv => ReadsProgramOrder
  BY DEF FusionInv, FlushInv, ReadsProgramOrder
<1> QED
  BY <1>1, FusionInvariant, PTL

\* flush_data takes enough: after the flush of an array or of a result the script sees
\* its last write.
THEOREM LooksSeeLastWrites == Spec => []LookSeesLastWrite
<1> QED
  BY LooksSee, FusionInvariant, PTL

\* Neither the trace nor the fusion loses an operation or runs one twice.
THEOREM EveryCallRunsOnce == Spec => []RunsOnce
<1>1. FusionInv => RunsOnce
  BY DEF FusionInv, FlushInv, RunsOnce
<1> QED
  BY <1>1, FusionInvariant, PTL

\* Plain kernels that follow one another in a fused one do not race.
THEOREM FusedNeighboursDoNotRace == Spec => []NeighboursDoNotRace
<1> QED
  BY NeighboursPlain, FusionInvariant, PTL
=============================================================================
