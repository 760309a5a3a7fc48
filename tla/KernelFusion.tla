---------------------------- MODULE KernelFusion ----------------------------
(***************************************************************************)
(* PyKokkos' lazy execution (PK_FUSION): a parallel_* call is logged in    *)
(* the tracer; when the script looks at a view or at the result of a       *)
(* reduction, the operations it depends on are taken out of the trace,     *)
(* fused and run.                                                          *)
(*                                                                         *)
(* What the program means is the order of the calls in the script.  An     *)
(* operation is named by its place in that order (op_id), a value by the   *)
(* operation that wrote it, so that running out of order shows.            *)
(***************************************************************************)
EXTENDS Naturals, FiniteSets, SequencesExt

CONSTANTS
  Data,       \* the arrays: base views
  Views,      \* view objects passed to kernels
  Base,       \* the array of a view (a Subview's base_view)
  Indices,    \* subscripts in kernels, as text
  Class,      \* AccessIndex of a subscript
  Threads,
  Touches,    \* the elements a thread reaches with a subscript
  Kernels,
  Kind,       \* "for", "reduce", "team", and "fill", a write of the script itself
  Policy,     \* the range of the kernel's RangePolicy
  Accesses,   \* its subscripted views, in the order the visitor meets them
  Takes,      \* kernels that take the result of a reduction
  Strategy,   \* PK_FUSION: "trace" or "naive"
  None, All,
  MaxOps, MaxFailures

Constant == 1
TID == 2
TIDFunc == 3

ASSUME NamesAssumption == None # All /\ (Data \cup {None, All}) \cap Nat = {} /\ {None, All} \cap Data = {}
ASSUME BaseAssumption == IsFiniteSet(Views) /\ Base \in [Views -> Data]
ASSUME ClassAssumption == Class \in [Indices -> 1..5]
ASSUME AccessesAssumption ==
  Accesses \in [Kernels -> Seq([view : Views, store : BOOLEAN, index : Indices, recorded : SUBSET {"Read", "Write"}])]

\* The target of an assignment is always recorded as written.
ASSUME RecordedAssumption ==
  \A k \in Kernels : Kind[k] # "fill" => \A a \in ToSet(Accesses[k]) : a.store => "Write" \in a.recorded

\* A write of the script reads nothing, and the tracer does not see it.
ASSUME FillAssumption ==
  \A k \in Kernels : Kind[k] = "fill" => \A a \in ToSet(Accesses[k]) : a.store /\ a.recorded = {}

\* The thread index alone is the same element under every name.
ASSUME TouchesAssumption ==
  \A i, j \in Indices : Class[i] = TID /\ Class[j] = TID => Touches[i] = Touches[j]

VARIABLES
  log,       \* every call so far: kernel, dependencies
  trace,     \* Tracer.operations
  writers,   \* Tracer.data_version and data_operation: the writer of version v at place v
  plan,      \* fused operations that the flush in progress has still to run
  flushing,  \* the array or result being flushed, All for flush(), None otherwise
  mem,       \* per array, the last operation that wrote it
  runs,      \* how often an operation ran
  wrong,     \* reads of another value than the program's: operation, array, writer read
  failures,  \* kernels that raised
  raised     \* fuse_naive raised

vars == <<log, trace, writers, plan, flushing, mem, runs, wrong, failures, raised>>

Init ==
  /\ log = <<>> /\ trace = {} /\ plan = <<>> /\ flushing = None
  /\ writers = [d \in Data |-> <<>>]
  /\ mem = [d \in Data |-> 0]
  /\ runs = <<>> /\ wrong = {} /\ failures = 0 /\ raised = FALSE

-----------------------------------------------------------------------------
(* What a kernel does, and what the tracer records of it.                  *)

\* The places of a view's subscripts in a kernel.
On(k, v) == {i \in DOMAIN Accesses[k] : Accesses[k][i].view = v}
ViewsOf(k) == {a.view : a \in ToSet(Accesses[k])}

\* What the kernel does to the arrays when it runs.
Loads(k) == {Base[a.view] : a \in {b \in ToSet(Accesses[k]) : ~b.store}}
Stores(k) == {Base[a.view] : a \in {b \in ToSet(Accesses[k]) : b.store}}

\* What get_view_access_modes takes it for: the arrays read (Read, ReadWrite) and written
\* (Write, ReadWrite).  The subscript that indexes the target of an assignment gets the
\* target's context: in x[idx[i]] = v, as in x[idx[i]] += v, idx counts as written only.
Reads(k) == {Base[a.view] : a \in {b \in ToSet(Accesses[k]) : "Read" \in b.recorded}}
Writes(k) == {Base[a.view] : a \in {b \in ToSet(Accesses[k]) : "Write" \in b.recorded}}

\* get_view_write_indices_and_modes: the highest class, the last text.  After the first
\* access the context is taken from the name, always a load: a read view stays Read.
SafetyInfo(k) ==
  [v \in ViewsOf(k) |->
    LET on == On(k, v) IN
    [class |-> Max({Class[Accesses[k][i].index] : i \in on}),
     mode |-> IF ~Accesses[k][Min(on)].store THEN "Read" ELSE IF on = {Min(on)} THEN "Write" ELSE "ReadWrite",
     index |-> Accesses[k][Max(on)].index]]

\* The operation a dependency waits for: a result names its reduction.
WriterOf(dep) ==
  IF dep.data \in Data THEN (IF dep.version = 0 THEN 0 ELSE writers[dep.data][dep.version])
  ELSE dep.data

CurrentVersion(d) == [data |-> d, version |-> IF d \in Data THEN Len(writers[d]) ELSE 0]

\* get_data_dependencies.
Dependencies(k, result) ==
  {CurrentVersion(d) : d \in Reads(k) \cup (IF result = None THEN {} ELSE {result})}

\* Mutant of Outputs: a view that is also read gets no new version.
OutputsBlind(k, n) ==
  [d \in Data |-> IF d \in Writes(k) \ Reads(k) THEN Append(writers[d], n) ELSE writers[d]]

\* update_output_data_operations: a version per view argument recorded as written.
Outputs(k, n) ==
  [d \in Data |->
    writers[d] \o [i \in 1..Cardinality({v \in ViewsOf(k) : Base[v] = d /\ \E j \in On(k, v) : "Write" \in Accesses[k][j].recorded}) |-> n]]

-----------------------------------------------------------------------------
(* Fusion.                                                                 *)

\* Mutant of Safe: two functions of the thread index are taken for the same.
SafeAnyFunction(current, next) ==
  \A v \in DOMAIN current \cap DOMAIN next :
    \/ current[v].mode = "Read" /\ next[v].mode = "Read"
    \/ current[v].class \in {TID, TIDFunc} /\ next[v].class \in {TID, TIDFunc}
    \/ current[v].class <= TID /\ next[v].class <= TID

\* is_safe_to_fuse: compared by view object, not by array.
Safe(current, next) ==
  \A v \in DOMAIN current \cap DOMAIN next :
    \/ current[v].mode = "Read" /\ next[v].mode = "Read"
    \/ current[v].class = TIDFunc /\ next[v].class = TIDFunc /\ current[v].index = next[v].index
    \/ current[v].class <= TID /\ next[v].class <= TID

\* fuse_safety_info.
FuseInfo(current, next) ==
  [v \in DOMAIN current \cup DOMAIN next |->
    IF v \notin DOMAIN next THEN current[v]
    ELSE IF v \notin DOMAIN current THEN next[v]
    ELSE [class |-> Max({current[v].class, next[v].class}),
          mode |-> IF current[v].mode = next[v].mode THEN next[v].mode ELSE "ReadWrite",
          index |-> next[v].index]]

\* Mutant of Close: the operations collected so far are forgotten.
CloseEmpty(acc) ==
  IF acc.group = <<>> THEN acc
  ELSE [acc EXCEPT !.group = <<>>, !.info = <<>>, !.range = None]

\* A group ends before an operation that cannot be fused; nothing changes without one.
Close(acc) ==
  IF acc.group = <<>> THEN acc
  ELSE [acc EXCEPT !.groups = <<acc.group>> \o @, !.group = <<>>, !.info = <<>>, !.range = None]

\* Strategy "trace" leaves every operation alone; "naive" teams, reductions and scans.
Single(k) == Strategy = "trace" \/ Kind[k] # "for"

\* One turn of fuse_naive's loop, which goes from the last operation to the first.  Where
\* range and group disagree with the operation and there is no group, fuse_operations([]) raises.
FuseNext(n, acc) ==
  LET k == log[n].kernel
      range == IF acc.range = None THEN Policy[k] ELSE acc.range
  IN CASE Single(k) ->
            LET closed == Close(acc) IN [closed EXCEPT !.groups = <<<<n>>>> \o @]
       [] ~Single(k) /\ range = Policy[k] /\ Safe(acc.info, SafetyInfo(k)) ->
            [acc EXCEPT !.group = <<n>> \o @, !.info = FuseInfo(@, SafetyInfo(k)), !.range = range]
       [] OTHER ->
            [groups |-> <<acc.group>> \o acc.groups, group |-> <<n>>, info |-> SafetyInfo(k),
             range |-> Policy[k], raises |-> acc.raises \/ acc.group = <<>>]

\* The loop starts with the range of the last operation, unless that is a team's.
FuseStart(ops) ==
  [groups |-> <<>>, group |-> <<>>, info |-> <<>>, raises |-> FALSE,
   range |-> IF ops = {} \/ Kind[log[Max(ops)].kernel] = "team" THEN None ELSE Policy[log[Max(ops)].kernel]]

\* fuse: the operations in groups, each of which becomes one kernel.
Fuse(ops) ==
  LET from[n \in 1..(Len(log) + 1)] ==
        IF n > Len(log) THEN FuseStart(ops)
        ELSE IF n \in ops THEN FuseNext(n, from[n + 1]) ELSE from[n + 1]
  IN Close(from[1])

\* Mutant of Needed: only what the operation itself depends on.
NeededDirectly(n) == {n} \cup ({WriterOf(dep) : dep \in log[n].dependencies} \cap trace)

\* get_operations: the operation and, through the operations still in the trace, all it depends on.
Needed(n) ==
  LET reach[m \in 1..n] ==
        {m} \cup UNION {reach[w] : w \in {WriterOf(dep) : dep \in log[m].dependencies} \cap trace}
  IN reach[n]

-----------------------------------------------------------------------------
(* The script: calls of kernels, writes of its own, looks at data.         *)

InScript == plan = <<>>
Results == {n \in DOMAIN log : Kind[log[n].kernel] = "reduce"}

\* run_workunit and log_operation.
LogOperation(k, result) ==
  /\ InScript /\ Len(log) < MaxOps
  /\ Kind[k] # "fill" /\ result \in (IF k \in Takes THEN Results ELSE {None})
  /\ log' = Append(log, [kernel |-> k, dependencies |-> Dependencies(k, result)])
  /\ writers' = Outputs(k, Len(log'))
  /\ trace' = trace \cup {Len(log')}
  /\ runs' = Append(runs, 0)
  /\ flushing' = None
  /\ UNCHANGED <<plan, mem, wrong, failures, raised>>

\* View.fill writes at once, past the trace.  An assignment to an element is FlushData, then this.
Fill(k) ==
  /\ InScript /\ Len(log) < MaxOps
  /\ Kind[k] = "fill"
  /\ log' = Append(log, [kernel |-> k, dependencies |-> {}])
  /\ mem' = [d \in Data |-> IF d \in Stores(k) THEN Len(log') ELSE mem[d]]
  /\ runs' = Append(runs, 1)
  /\ flushing' = None
  /\ UNCHANGED <<trace, writers, plan, wrong, failures, raised>>

\* flush_data, from a view's or a result's operators: what is taken is gone from the
\* trace before it runs.
FlushData(d) ==
  /\ InScript
  /\ LET n == WriterOf(CurrentVersion(d))
         ops == IF n \in trace THEN Needed(n) ELSE {}
         fused == Fuse(ops)
     IN /\ trace' = trace \ ops
        /\ plan' = IF fused.raises THEN <<>> ELSE fused.groups
        /\ flushing' = IF fused.raises THEN None ELSE d
        /\ raised' = (raised \/ fused.raises)
  /\ UNCHANGED <<log, writers, mem, runs, wrong, failures>>

\* flush_trace, from pk.flush(): the trace is cleared when all have run.
FlushTrace ==
  /\ InScript /\ trace # {}
  /\ LET fused == Fuse(trace)
     IN /\ plan' = IF fused.raises THEN <<>> ELSE fused.groups
        /\ flushing' = IF fused.raises THEN None ELSE All
        /\ raised' = (raised \/ fused.raises)
  /\ UNCHANGED <<log, trace, writers, mem, runs, wrong, failures>>

-----------------------------------------------------------------------------
(* The kernels run, fused ones one after the other for each thread.        *)

\* The last write of an array before place i of a group.
WrittenBy(group, i, d) ==
  LET earlier == {j \in 1..(i - 1) : d \in Stores(log[group[j]].kernel)}
  IN IF earlier = {} THEN mem[d] ELSE group[Max(earlier)]

\* The write the script's order puts last before operation n.
ProgramOrder(n, d) == Max({0} \cup {m \in 1..(n - 1) : d \in Stores(log[m].kernel)})

WrongReads(group) ==
  {read \in UNION {{<<group[i], d, WrittenBy(group, i, d)>> : d \in Loads(log[group[i]].kernel)} : i \in DOMAIN group} :
     read[3] # ProgramOrder(read[1], read[2])}

\* execute_workunit for the next fused operation.
RunNext ==
  /\ plan # <<>>
  /\ LET group == Head(plan) IN
       /\ mem' = [d \in Data |-> WrittenBy(group, Len(group) + 1, d)]
       /\ runs' = [n \in DOMAIN runs |-> IF n \in ToSet(group) THEN runs[n] + 1 ELSE runs[n]]
       /\ wrong' = wrong \cup WrongReads(group)
  /\ plan' = Tail(plan)
  /\ trace' = IF plan' = <<>> /\ flushing = All THEN {} ELSE trace
  /\ UNCHANGED <<log, writers, flushing, failures, raised>>

\* Type inference, compilation or the call raises: what is left of the flush is dropped.
RunFails ==
  /\ plan # <<>> /\ failures < MaxFailures
  /\ plan' = <<>>
  /\ flushing' = None
  /\ failures' = failures + 1
  /\ UNCHANGED <<log, trace, writers, mem, runs, wrong, raised>>

Next ==
  \/ \E k \in Kernels : (\E result \in Results \cup {None} : LogOperation(k, result)) \/ Fill(k)
  \/ \E d \in Data \cup Results : FlushData(d)
  \/ FlushTrace
  \/ RunNext \/ RunFails

Spec == Init /\ [][Next]_vars

-----------------------------------------------------------------------------
(* Properties.                                                             *)

Calm == failures = 0 /\ ~raised

\* Some call uses the array and the tracer does not take it for a reader: it writes the
\* array without reading it, or reads it for the index of what it writes.
Blind(d) == \E n \in DOMAIN log : LET k == log[n].kernel IN d \in (Loads(k) \cup Stores(k) \cup Writes(k)) \ Reads(k)

\* The trace is free of failures and raises: an operation reads what the script's order
\* says, or what a later call has already written (the trace keeps no dependency of a
\* writer on earlier readers), or some call is not recorded as a reader of the array (and
\* then neither waits for the array's writers nor makes those after it wait for them).
\* Where every call that uses an array is recorded as its reader, no operation reads too
\* old a value: get_operations takes all that it depends on, in order.
ReadsProgramOrder == Calm => \A read \in wrong : read[3] > read[1] \/ Blind(read[2])

\* A look at an array sees the last write of the script, unless some call uses the array
\* and is not recorded as its reader; a look at the result of a reduction has one to see.
LookSeesLastWrite ==
  Calm /\ InScript => /\ flushing \in Data /\ ~Blind(flushing) => mem[flushing] = ProgramOrder(Len(log) + 1, flushing)
                      /\ flushing \in Results => runs[flushing] > 0

\* Without failures every call runs exactly once, at a look or not yet: what leaves the
\* trace is in the flush, whatever the fusion makes of it.
RunsOnce ==
  Calm => \A n \in DOMAIN log :
            LET planned == \E i \in DOMAIN plan : n \in ToSet(plan[i])
                waiting == n \in trace /\ ~(flushing = All /\ ~InScript)
            IN runs[n] = IF planned \/ waiting THEN 0 ELSE 1

Races(j, k) ==
  \E a \in ToSet(Accesses[j]), b \in ToSet(Accesses[k]) :
    /\ Base[a.view] = Base[b.view] /\ (a.store \/ b.store)
    /\ \E s, t \in Threads : s # t /\ Touches[a.index][s] \cap Touches[b.index][t] # {}

\* One subscript per view, none constant, no element for two threads, no array under two names.
Plain(k) ==
  /\ \A a, b \in ToSet(Accesses[k]) : Base[a.view] = Base[b.view] => a.view = b.view /\ a.index = b.index
  /\ \A a \in ToSet(Accesses[k]) : Class[a.index] # Constant
  /\ \A a \in ToSet(Accesses[k]), s, t \in Threads : s # t => Touches[a.index][s] \cap Touches[a.index][t] = {}
  /\ \A v \in ViewsOf(k) : Accesses[k][Min(On(k, v))].store \/ \A i \in On(k, v) : ~Accesses[k][i].store

\* Of two plain kernels that follow one another in a fused one and name the arrays they
\* share alike, no thread touches an element that the other kernel changes in another thread.
NeighboursDoNotRace ==
  \A g \in DOMAIN plan : \A i \in 1..(Len(plan[g]) - 1) :
    LET j == log[plan[g][i]].kernel
        k == log[plan[g][i + 1]].kernel
        alike == \A v \in ViewsOf(j), w \in ViewsOf(k) : Base[v] = Base[w] => v = w
    IN Plain(j) /\ Plain(k) /\ alike => ~Races(j, k)
=============================================================================
