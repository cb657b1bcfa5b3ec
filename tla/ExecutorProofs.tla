--------------------------- MODULE ExecutorProofs ---------------------------
(***************************************************************************)
(* The execution of a statement, for any plans, any number of workers and   *)
(* any bounds: stages run in the order of the schedule (PipelineOrder), a   *)
(* task is with one thread or in one queue and none is forgotten            *)
(* (TasksAccounted), nothing is left when the executor is destroyed         *)
(* (NothingOutlives), and a statement that is reported as finished has done *)
(* all it had to do (SuccessIsReal).                                        *)
(***************************************************************************)
EXTENDS Executor, FiniteSetTheorems, SequenceTheorems, TLAPS

-----------------------------------------------------------------------------
(* The inductive invariant: threads and tasks *)

\* The events and tasks of the plan, and what a thread may be inside of.
PlanEvents == plan.pipelines \X StageTypes
PlanTasks == PlanEvents \X (1..MaxThreads)
TaskFrames == {"wake", "deschedule", "release", "unlock"} \X PlanTasks
Frames == ({"parent"} \X PlanEvents \X PlanEvents) \cup ({"finalize"} \X PlanEvents)
          \cup ({"unblock"} \X plan.pipelines) \cup TaskFrames

Phases == {"execute", "after", "reset", "mark", "drain", "asleep", "teardown",
           "destroyed"}

Types ==
    /\ plan \in Plans
    /\ parents \in [Events -> SUBSET Events]
    /\ \A e \in PlanEvents : parents[e] \subseteq PlanEvents
    /\ needs \in [Events -> Nat] /\ met \in [Events -> Nat]
    /\ total \in [Events -> Nat] /\ done \in [Events -> Nat]
    /\ finished \subseteq PlanEvents
    /\ queue \in Seq(PlanTasks) /\ rescheduled \subseteq PlanTasks
    /\ executorTasks \in Nat
    /\ cancelled \in BOOLEAN /\ error \in BOOLEAN /\ interrupted \in BOOLEAN
    /\ completed \in Nat
    /\ result \in {"NOT_READY", "FINISHED", "EXECUTION_ERROR"}
    /\ initialized \subseteq plan.pipelines
    /\ canBlock \in [AllPipelines -> BOOLEAN]
    /\ blockedTasks \in [AllPipelines -> SUBSET PlanTasks]
    /\ \A p \in AllPipelines : \A k \in blockedTasks[p] : PipelineOf(k) = p
    /\ held \in [Threads -> PlanTasks \cup {None}]
    /\ active \subseteq Threads
    /\ calls \in [Threads -> Seq(Frames)]
    /\ executorLock \in Threads \cup {None}
    /\ phase \in Phases

\* A thread inside a call: executor_lock is held, and a task descheduled, only
\* at the top; what is left of a call of a worker or a waker ends in dropping
\* the reference to its task.
Shaped(t, c) ==
    /\ \A i \in 2..Len(c) : c[i][1] \notin {"unlock", "deschedule"}
    /\ c # <<>> /\ t # Client => c[Len(c)][1] \in {"release", "wake", "unlock"}
    /\ c # <<>> /\ c[1][1] = "deschedule" =>
         Len(c) = 2 /\ c[2] = <<"release", c[1][2]>>
    /\ c # <<>> /\ c[1][1] = "unlock" => executorLock = t
Shapes == \A t \in Threads : Shaped(t, calls[t])

\* What a thread holds while it executes a task, and the client between its
\* slices.
Holding ==
    /\ \A t \in active : calls[t] = <<>> /\ held[t] # None
    /\ \A t \in Threads \ {Client} : held[t] # None => t \in active
    /\ \A t \in Threads : InCall(t, "deschedule") => held[t] = None
    /\ Client \in active => phase = "after"
    /\ phase \in {"execute", "reset", "asleep", "teardown", "destroyed"} =>
         calls[Client] = <<>>
    /\ phase \in {"mark", "drain", "asleep", "teardown", "destroyed"} =>
         held[Client] = None

Live == Referenced(calls) \ {None}

\* Some thread is inside frame f.
Has(f) == \E t \in Threads : \E i \in DOMAIN calls[t] : calls[t][i] = f

\* Executor::executor_tasks is the number of tasks that exist.
Counted ==
    /\ executorTasks = Cardinality(Live)
    /\ phase \in {"teardown", "destroyed"} => executorTasks = 0
    /\ phase = "destroyed" => \A t \in Threads : calls[t] = <<>>

\* A task exists only after its event was scheduled.
Begun(e) == met[e] >= needs[e] /\ (e[2] = "inserted" => met[e] >= 1)
Fresh == \A k \in Live : Begun(EventOf(k))

\* Thread t executes k, has it between two slices, or is about to park it.
Holds(t, k) == held[t] = k \/ (InCall(t, "deschedule") /\ Head(calls[t])[2] = k)
Owned(k) == \/ \E i \in DOMAIN queue : queue[i] = k
            \/ \E t \in Threads : Holds(t, k)
            \/ k \in rescheduled

OwnedOnce ==
    /\ \A i, j \in DOMAIN queue : queue[i] = queue[j] => i = j
    /\ \A i \in DOMAIN queue : queue[i] \notin rescheduled
    /\ \A i \in DOMAIN queue, t \in Threads : ~Holds(t, queue[i])
    /\ \A t \in Threads : \A k \in rescheduled : ~Holds(t, k)
    /\ \A t, u \in Threads : \A k \in PlanTasks : Holds(t, k) /\ Holds(u, k) => t = u

\* A task that is parked, or about to be, will be woken.
Parking(k) == k \in rescheduled
              \/ \E t \in Threads : InCall(t, "deschedule") /\ Head(calls[t])[2] = k
Woken(k) == \/ k \in blockedTasks[PipelineOf(k)]
            \/ Has(<<"wake", k>>)
Remembered ==
    /\ cancelled => rescheduled = {}
    /\ ~cancelled => \A k \in PlanTasks : Parking(k) => Woken(k)

TaskInv == /\ Types /\ Shapes /\ Holding /\ Counted /\ Fresh /\ OwnedOnce
           /\ Remembered

-----------------------------------------------------------------------------
(* The inductive invariant: events *)

Graph == BuildPipelineSchedule(plan)
Deps(e) == {d \in PlanEvents : <<e, d>> \in Graph}
Children(d) == {e \in PlanEvents : <<e, d>> \in Graph}

Inserted(d) == Stage(d[1], "inserted")
Finish(d) == Stage(d[1], "finish")

\* What event d stands for is done, the event its sink inserted included.
Rerouted(d) == d[2] = "finish" /\ needs[Inserted(d)] > 0
Done(d) == d \in finished /\ (Rerouted(d) => Inserted(d) \in finished)

\* Event d calls CompleteDependency of e.
Calls(e, d) == Has(<<"parent", e, d>>)
Reports(e, d) == Calls(e, d) \/ (d[2] = "finish" /\ Calls(e, Inserted(d)))

\* The dependencies of e that have told it.
Reported(e) == {d \in Deps(e) : Done(d) /\ ~Reports(e, d)}

\* Dependencies are counted once each.
Dependencies ==
    /\ \A e \in Stages(plan) :
         /\ needs[e] = Cardinality(Deps(e))
         /\ met[e] = Cardinality(Reported(e))
         /\ e \notin finished => parents[e] = Children(e)
    /\ \A e \in PlanEvents : e[2] = "inserted" =>
         /\ needs[e] \in {0, 1} /\ met[e] <= needs[e]
         /\ needs[e] = 1 => Finish(e) \in Stages(plan) /\ Finish(e) \in finished
         /\ needs[e] = 1 /\ (met[e] = 1 \/ \E d \in PlanEvents : Calls(e, d)) =>
              parents[e] = Children(Finish(e))
    /\ \A e \in PlanEvents \ Stages(plan) : e[2] # "inserted" => needs[e] = 0

\* Every call of an event by another, and every end of one, is made once.
EventFrames == {"parent", "finalize"}
Once ==
    \A t, u \in Threads : \A i \in DOMAIN calls[t], j \in DOMAIN calls[u] :
       calls[t][i] = calls[u][j] /\ calls[t][i][1] \in EventFrames => t = u /\ i = j

\* Where a call of CompleteDependency comes from.
CallsMade ==
    /\ \A e, d \in PlanEvents : Calls(e, d) =>
         /\ d \in finished
         /\ \/ e \in Children(d) /\ d[2] # "inserted" /\ ~Rerouted(d)
            \/ e \in Children(Finish(d)) /\ d[2] = "inserted"
            \/ e = Inserted(d) /\ d[2] = "finish" /\ needs[e] = 1 /\ met[e] = 0
    /\ Once

\* The tasks of event e that are still to be executed.
Open(e) == {k \in PlanTasks : EventOf(k) = e /\ Owned(k)}

\* The tasks of an event are scheduled together and finished once each.
SchedulingAt(e) ==
    /\ total[e] \in {0, Cardinality(ScheduledTasks(e))}
    /\ total[e] > 0 => Begun(e)
    /\ done[e] + Cardinality(Open(e)) <= total[e]
    /\ e \in finished => /\ done[e] = total[e] /\ Begun(e)
                         /\ e[2] = "inserted" => needs[e] = 1
                         /\ ~error => total[e] = Cardinality(ScheduledTasks(e))
    /\ total[e] > 0 \/ e \in finished => e \in Stages(plan) \/ e[2] = "inserted"
Scheduling ==
    /\ \A e \in PlanEvents : SchedulingAt(e)
    /\ \A e \in Events \ PlanEvents : total[e] = 0 /\ done[e] = 0 /\ needs[e] = 0

Finalizing(b) == Has(<<"finalize", Stage(b, "complete")>>)
Finalized == {b \in BasePipelines(plan) :
                Stage(b, "complete") \in finished /\ ~Finalizing(b)}

\* Executor::completed_pipelines counts the complete events that are through.
Completion ==
    /\ completed = Cardinality(Finalized)
    /\ \A e \in PlanEvents : Has(<<"finalize", e>>) => e \in finished /\ e[2] = "complete"
    /\ result = "FINISHED" => ~error /\ completed >= TotalPipelines

EventInv == Dependencies /\ CallsMade /\ Scheduling /\ Completion

ExecutorInv == TaskInv /\ EventInv

-----------------------------------------------------------------------------
(* Sequences *)

\* SetToSeq lists each member of a finite set once.
LEMMA ListOfSet ==
  ASSUME NEW S, IsFiniteSet(S)
  PROVE  /\ SetToSeq(S) \in Seq(S)
         /\ Len(SetToSeq(S)) = Cardinality(S)
         /\ \A i, j \in 1 .. Cardinality(S) : SetToSeq(S)[i] = SetToSeq(S)[j] => i = j
         /\ Range(SetToSeq(S)) = S
  <1>1. PICK n \in Nat : n = Cardinality(S)
    BY FS_CardinalityType
  <1>2. PICK g \in Bijection(1..n, S) : TRUE
    BY <1>1, FS_CardinalityType DEF ExistsBijection
  <1>3. g \in [1..n -> S] /\ IsInjective(g)
    BY <1>2 DEF Bijection, Injection, IsInjective
  <1>4. PICK f : f = SetToSeq(S)
    OBVIOUS
  <1>5. f \in [1..n -> S] /\ IsInjective(f)
    BY <1>1, <1>3, <1>4 DEF SetToSeq
  <1>6. f \in Injection(1..n, S)
    BY <1>5 DEF Injection, IsInjective
  <1>7. IsFiniteSet(1..n) /\ Cardinality(1..n) = n
    BY FS_Interval
  <1>8. f \in Surjection(1..n, S)
    BY <1>1, <1>6, <1>7, FS_Injection
  <1>9. Range(f) = S
    BY <1>5, <1>8 DEF Surjection, Range
  <1>10. f \in Seq(S) /\ Len(f) = n
    BY <1>5
  <1>. QED
    BY <1>1, <1>4, <1>5, <1>9, <1>10 DEF IsInjective

\* What is left of a call when its innermost frame is gone.
Rest(c) == IF c = <<>> THEN <<>> ELSE Tail(c)

LEMMA RestIs ==
  ASSUME NEW F, NEW c \in Seq(F)
  PROVE  /\ Rest(c) \in Seq(F)
         /\ Len(Rest(c)) = IF c = <<>> THEN 0 ELSE Len(c) - 1
         /\ \A i \in 1 .. Len(Rest(c)) : Rest(c)[i] = c[i + 1]
         /\ \A i \in 2 .. Len(c) : i - 1 \in 1 .. Len(Rest(c))
  <1>1. CASE c = <<>>
    BY <1>1 DEF Rest
  <1>2. CASE c # <<>>
    <2>1. Rest(c) = Tail(c)
      BY <1>2 DEF Rest
    <2>2. /\ Tail(c) \in Seq(F) /\ Len(Tail(c)) = Len(c) - 1
          /\ \A i \in 1 .. Len(Tail(c)) : Tail(c)[i] = c[i + 1]
      BY <1>2, HeadTailProperties
    <2>. QED BY <1>2, <2>1, <2>2
  <1>. QED BY <1>1, <1>2

\* The members of a list of calls, put together.
LEMMA RangeOfBoth ==
  ASSUME NEW F, NEW a \in Seq(F), NEW b \in Seq(F)
  PROVE  a \o b \in Seq(F) /\ Range(a \o b) = Range(a) \cup Range(b)
  BY RangeConcatenation, ConcatProperties

-----------------------------------------------------------------------------
(* Sets of the plan *)

LEMMA PlanFacts ==
  ASSUME plan \in Plans
  PROVE  /\ IsPlan(plan)
         /\ \A p \in plan.pipelines : plan.threads[p] \in 1 .. MaxThreads
         /\ IsFiniteSet(plan.pipelines) /\ IsFiniteSet(PlanEvents) /\ IsFiniteSet(PlanTasks)
         /\ plan.pipelines \subseteq AllPipelines
         /\ PlanEvents \subseteq Events /\ PlanTasks \subseteq Tasks
         /\ None \notin PlanTasks
  <1>1. IsPlan(plan) /\ \A p \in plan.pipelines : plan.threads[p] \in 1 .. MaxThreads
    BY ExecutorAssumption
  <1>2. IsFiniteSet(plan.pipelines)
    BY <1>1 DEF IsPlan
  <1>3. IsFiniteSet(StageTypes)
    <2>1. StageTypes = {"initialize"} \cup {"execute"} \cup {"prepare_finish"} \cup {"finish"}
                         \cup {"complete"} \cup {"inserted"}
      BY DEF StageTypes
    <2>. QED BY <2>1, FS_Singleton, FS_Union
  <1>4. IsFiniteSet(PlanEvents)
    BY <1>2, <1>3, FS_Product DEF PlanEvents
  <1>5. IsFiniteSet(1 .. MaxThreads)
    BY ExecutorAssumption, FS_Interval
  <1>6. IsFiniteSet(PlanTasks)
    BY <1>4, <1>5, FS_Product DEF PlanTasks
  <1>7. plan.pipelines \subseteq AllPipelines
    BY DEF AllPipelines
  <1>8. PlanEvents \subseteq Events
    BY <1>7 DEF PlanEvents, Events
  <1>9. PlanTasks \subseteq Tasks
    BY <1>8 DEF PlanTasks, Tasks
  <1>. QED
    BY <1>1, <1>2, <1>4, <1>6, <1>7, <1>8, <1>9, NoneAssumption

\* The plan does not change, and neither do its sets.
LEMMA PlanSame ==
  ASSUME plan' = plan
  PROVE  /\ PlanEvents' = PlanEvents /\ PlanTasks' = PlanTasks
         /\ TaskFrames' = TaskFrames /\ Frames' = Frames
         /\ TotalPipelines' = TotalPipelines
         /\ \A e : ScheduledTasks(e)' = ScheduledTasks(e)
  BY DEF PlanEvents, PlanTasks, TaskFrames, Frames, TotalPipelines, ScheduledTasks

\* Schedule makes tasks of the plan, a known number of them.
LEMMA ScheduledIs ==
  ASSUME plan \in Plans, NEW e \in PlanEvents
  PROVE  /\ ScheduledTasks(e) \subseteq PlanTasks
         /\ \A k \in ScheduledTasks(e) : EventOf(k) = e
         /\ IsFiniteSet(ScheduledTasks(e))
         /\ Cardinality(ScheduledTasks(e)) \in 0 .. MaxThreads
         /\ ScheduledTasks(e) = {} <=> e[2] = "complete"
         /\ e[2] \notin {"complete", "execute"} => ScheduledTasks(e) = {<<e, 1>>}
  <1>1. MaxThreads \in Nat /\ MaxThreads >= 1 /\ 1 \in 1 .. MaxThreads
    BY ExecutorAssumption
  <1>2. e = <<e[1], e[2]>> /\ e[1] \in plan.pipelines
    BY DEF PlanEvents
  <1>3. CASE e[2] = "complete"
    <2>1. ScheduledTasks(e) = {}
      BY <1>3 DEF ScheduledTasks
    <2>. QED BY <1>1, <1>3, <2>1, FS_EmptySet
  <1>4. CASE e[2] = "execute"
    <2>1. PICK n \in 1 .. MaxThreads : n = plan.threads[e[1]]
      BY <1>2, PlanFacts
    <2>2. ScheduledTasks(e) = {<<e, i>> : i \in 1 .. n}
      BY <1>4, <2>1 DEF ScheduledTasks
    <2>3. n \in Nat /\ n >= 1 /\ n <= MaxThreads
      BY <1>1, <2>1
    <2>4. IsFiniteSet(1..n) /\ Cardinality(1..n) = n
      BY <2>3, FS_Interval
    <2>5. [i \in 1..n |-> <<e, i>>] \in Surjection(1..n, ScheduledTasks(e))
      BY <2>2 DEF Surjection
    <2>6. IsFiniteSet(ScheduledTasks(e)) /\ Cardinality(ScheduledTasks(e)) <= n
      BY <2>4, <2>5, FS_Surjection
    <2>7. Cardinality(ScheduledTasks(e)) \in Nat
      BY <2>6, FS_CardinalityType
    <2>8. ScheduledTasks(e) \subseteq PlanTasks /\ \A k \in ScheduledTasks(e) : EventOf(k) = e
      BY <1>1, <2>2, <2>3 DEF PlanTasks, EventOf
    <2>9. <<e, 1>> \in ScheduledTasks(e)
      BY <2>2, <2>3
    <2>. QED BY <1>1, <1>4, <2>3, <2>6, <2>7, <2>8, <2>9
  <1>5. CASE e[2] \notin {"complete", "execute"}
    <2>1. ScheduledTasks(e) = {<<e, 1>>}
      BY <1>5 DEF ScheduledTasks
    <2>2. IsFiniteSet(ScheduledTasks(e)) /\ Cardinality(ScheduledTasks(e)) = 1
      BY <2>1, FS_Singleton
    <2>. QED BY <1>1, <1>5, <2>1, <2>2 DEF PlanTasks, EventOf
  <1>. QED BY <1>3, <1>4, <1>5

-----------------------------------------------------------------------------
(* Calls *)

\* The step replaces the innermost frame of t, if it is in a call, by m.
Turns(t, m) ==
    /\ m \in Seq(Frames)
    /\ calls' = [calls EXCEPT ![t] = m \o Rest(calls[t])]

LEMMA TurnsCalls ==
  ASSUME Types, NEW t \in Threads, NEW m, Turns(t, m)
  PROVE  /\ calls \in [Threads -> Seq(Frames)] /\ calls' \in [Threads -> Seq(Frames)]
         /\ m \in Seq(Frames)
         /\ \A u \in Threads : u # t => calls'[u] = calls[u]
         /\ Len(calls'[t]) = Len(m) + Len(Rest(calls[t]))
         /\ \A i \in 1 .. Len(m) : i \in 1 .. Len(calls'[t]) /\ calls'[t][i] = m[i]
         /\ \A i \in 2 .. Len(calls[t]) :
              \E j \in 1 .. Len(calls'[t]) : calls'[t][j] = calls[t][i]
         /\ \A i \in 1 .. Len(calls'[t]) : i > Len(m) =>
              /\ i - Len(m) + 1 \in 2 .. Len(calls[t])
              /\ calls'[t][i] = calls[t][i - Len(m) + 1]
  <1>1. calls \in [Threads -> Seq(Frames)] /\ m \in Seq(Frames)
    BY DEF Types, Turns
  <1>2. PICK c \in Seq(Frames) : c = calls[t]
    BY <1>1
  <1>3. PICK d : d = m \o Rest(c)
    OBVIOUS
  <1>4. calls' = [calls EXCEPT ![t] = d]
    BY <1>2, <1>3 DEF Turns
  <1>5. /\ d \in Seq(Frames)
        /\ Len(d) = Len(m) + Len(Rest(c))
        /\ \A i \in 1 .. Len(m) : i \in 1 .. Len(d) /\ d[i] = m[i]
        /\ \A i \in 2 .. Len(c) : \E j \in 1 .. Len(d) : d[j] = c[i]
        /\ \A i \in 1 .. Len(d) : i > Len(m) =>
              i - Len(m) + 1 \in 2 .. Len(c) /\ d[i] = c[i - Len(m) + 1]
    <2>1. PICK r : r = Rest(c)
      OBVIOUS
    <2>2. /\ r \in Seq(Frames) /\ Len(r) = IF c = <<>> THEN 0 ELSE Len(c) - 1
          /\ \A i \in 1 .. Len(r) : r[i] = c[i + 1]
          /\ \A i \in 2 .. Len(c) : i - 1 \in 1 .. Len(r)
      BY <2>1, RestIs
    <2>3. /\ d \in Seq(Frames) /\ Len(d) = Len(m) + Len(r)
          /\ \A i \in 1 .. Len(m) + Len(r) : d[i] = IF i <= Len(m) THEN m[i] ELSE r[i - Len(m)]
      BY <1>1, <1>3, <2>1, <2>2, ConcatProperties
    <2>4. Len(m) \in Nat /\ Len(r) \in Nat /\ Len(c) \in Nat
      BY <2>2
    <2>5. \A i \in 1 .. Len(m) : i \in 1 .. Len(d) /\ d[i] = m[i]
      BY <2>3, <2>4
    <2>6. \A i \in 2 .. Len(c) : \E j \in 1 .. Len(d) : d[j] = c[i]
      <3>. TAKE i \in 2 .. Len(c)
      <3>1. i - 1 \in 1 .. Len(r) /\ r[i - 1] = c[i]
        BY <2>2
      <3>2. PICK j : j = Len(m) + i - 1
        OBVIOUS
      <3>3. j \in 1 .. Len(m) + Len(r) /\ ~(j <= Len(m)) /\ j - Len(m) = i - 1
        BY <2>4, <3>1, <3>2
      <3>. QED BY <2>3, <3>1, <3>2, <3>3
    <2>7. \A i \in 1 .. Len(d) : i > Len(m) =>
                i - Len(m) + 1 \in 2 .. Len(c) /\ d[i] = c[i - Len(m) + 1]
      <3>. SUFFICES ASSUME NEW i \in 1 .. Len(d), i > Len(m)
                    PROVE  i - Len(m) + 1 \in 2 .. Len(c) /\ d[i] = c[i - Len(m) + 1]
        OBVIOUS
      <3>1. i - Len(m) \in 1 .. Len(r) /\ d[i] = r[i - Len(m)]
        BY <2>3, <2>4
      <3>2. c # <<>> /\ Len(r) = Len(c) - 1
        BY <2>2, <3>1
      <3>. QED BY SMTT(40), <2>2, <2>4, <3>1, <3>2
    <2>. QED BY <2>1, <2>3, <2>5, <2>6, <2>7
  <1>6. calls'[t] = d /\ \A u \in Threads : u # t => calls'[u] = calls[u]
    BY <1>1, <1>4
  <1>7. calls' \in [Threads -> Seq(Frames)]
    BY <1>1, <1>4, <1>5
  <1>. QED BY <1>1, <1>2, <1>5, <1>6, <1>7

\* The frames there are after the step.
LEMMA TurnsHas ==
  ASSUME Types, NEW t \in Threads, NEW m, Turns(t, m), NEW f
  PROVE  /\ f \in Range(m) => Has(f)'
         /\ Has(f) /\ (calls[t] # <<>> => calls[t][1] # f) => Has(f)'
         /\ Has(f)' => Has(f) \/ f \in Range(m)
  <1>1. /\ calls \in [Threads -> Seq(Frames)] /\ calls' \in [Threads -> Seq(Frames)]
        /\ m \in Seq(Frames)
        /\ \A u \in Threads : u # t => calls'[u] = calls[u]
        /\ \A i \in 1 .. Len(m) : i \in 1 .. Len(calls'[t]) /\ calls'[t][i] = m[i]
        /\ \A i \in 2 .. Len(calls[t]) :
              \E j \in 1 .. Len(calls'[t]) : calls'[t][j] = calls[t][i]
        /\ \A i \in 1 .. Len(calls'[t]) : i > Len(m) =>
              /\ i - Len(m) + 1 \in 2 .. Len(calls[t])
              /\ calls'[t][i] = calls[t][i - Len(m) + 1]
    BY TurnsCalls
  <1>2. \A u \in Threads : DOMAIN calls[u] = 1 .. Len(calls[u]) /\ Len(calls[u]) \in Nat
    BY <1>1, LenProperties
  <1>3. \A u \in Threads : DOMAIN calls'[u] = 1 .. Len(calls'[u]) /\ Len(calls'[u]) \in Nat
    BY <1>1, LenProperties
  <1>4. DOMAIN m = 1 .. Len(m) /\ Len(m) \in Nat
    BY <1>1, LenProperties
  <1>5. f \in Range(m) => Has(f)'
    BY <1>1, <1>3, <1>4 DEF Range, Has
  <1>6. ASSUME Has(f), calls[t] # <<>> => calls[t][1] # f
        PROVE  Has(f)'
    <2>1. PICK u \in Threads : \E i \in DOMAIN calls[u] : calls[u][i] = f
      BY <1>6 DEF Has
    <2>2. PICK i \in 1 .. Len(calls[u]) : calls[u][i] = f
      BY <1>2, <2>1
    <2>3. CASE u # t
      BY <1>1, <2>1, <2>3 DEF Has
    <2>4. CASE u = t
      <3>1. calls[t] # <<>>
        BY <1>1, <2>2, <2>4
      <3>2. i \in 2 .. Len(calls[t])
        BY <1>2, <1>6, <2>2, <2>4, <3>1
      <3>. QED BY <1>1, <1>3, <2>2, <2>4, <3>2 DEF Has
    <2>. QED BY <2>3, <2>4
  <1>7. ASSUME Has(f)' PROVE Has(f) \/ f \in Range(m)
    <2>1. PICK u \in Threads : \E i \in DOMAIN calls'[u] : calls'[u][i] = f
      BY <1>7 DEF Has
    <2>2. PICK i \in 1 .. Len(calls'[u]) : calls'[u][i] = f
      BY <1>3, <2>1
    <2>3. CASE u # t
      BY <1>1, <2>1, <2>3 DEF Has
    <2>4. CASE u = t /\ i <= Len(m)
      BY <1>1, <1>4, <2>2, <2>4 DEF Range
    <2>5. CASE u = t /\ i > Len(m)
      <3>1. PICK j \in 2 .. Len(calls[t]) : calls'[t][i] = calls[t][j]
        BY <1>1, <2>2, <2>5
      <3>2. j \in DOMAIN calls[t]
        BY <1>2, <3>1
      <3>. QED BY <2>2, <2>5, <3>1, <3>2 DEF Has
    <2>. QED BY <1>4, <2>3, <2>4, <2>5
  <1>. QED BY <1>5, <1>6, <1>7

\* Calls between events stay unique when the new ones are and are not there yet.
LEMMA TurnsOnce ==
  ASSUME Types, Once, NEW t \in Threads, NEW m, Turns(t, m),
         \A i, j \in 1 .. Len(m) : m[i] = m[j] /\ m[i][1] \in EventFrames => i = j,
         \A i \in 1 .. Len(m) : m[i][1] \in EventFrames => ~Has(m[i])
  PROVE  Once'
  <1>1. /\ calls \in [Threads -> Seq(Frames)] /\ calls' \in [Threads -> Seq(Frames)]
        /\ m \in Seq(Frames)
        /\ \A u \in Threads : u # t => calls'[u] = calls[u]
        /\ \A i \in 1 .. Len(m) : i \in 1 .. Len(calls'[t]) /\ calls'[t][i] = m[i]
        /\ \A i \in 1 .. Len(calls'[t]) : i > Len(m) =>
              /\ i - Len(m) + 1 \in 2 .. Len(calls[t])
              /\ calls'[t][i] = calls[t][i - Len(m) + 1]
    BY TurnsCalls
  <1>2. \A u \in Threads : DOMAIN calls[u] = 1 .. Len(calls[u]) /\ Len(calls[u]) \in Nat
    BY <1>1, LenProperties
  <1>3. \A u \in Threads : DOMAIN calls'[u] = 1 .. Len(calls'[u]) /\ Len(calls'[u]) \in Nat
    BY <1>1, LenProperties
  <1>4. PICK n \in Nat : n = Len(m)
    BY <1>1
  \* where a frame was before the step
  <1>5. ASSUME NEW u \in Threads, NEW i \in 1 .. Len(calls'[u])
        PROVE  \/ u = t /\ i <= n /\ calls'[u][i] = m[i]
               \/ u = t /\ i > n /\ i - n + 1 \in DOMAIN calls[u]
                    /\ calls'[u][i] = calls[u][i - n + 1]
               \/ u # t /\ i \in DOMAIN calls[u] /\ calls'[u][i] = calls[u][i]
    <2>1. CASE u # t
      BY <1>1, <1>2, <1>5, <2>1
    <2>2. CASE u = t /\ i <= n
      <3>1. i \in 1 .. Len(m)
        BY <1>3, <1>4, <1>5, <2>2
      <3>. QED BY <1>1, <2>2, <3>1
    <2>3. CASE u = t /\ i > n
      <3>1. i - n + 1 \in 2 .. Len(calls[t]) /\ calls'[t][i] = calls[t][i - n + 1]
        BY <1>1, <1>4, <1>5, <2>3
      <3>2. i - n + 1 \in DOMAIN calls[t]
        BY <1>2, <3>1
      <3>. QED BY <2>3, <3>1, <3>2
    <2>. QED BY <1>3, <1>4, <1>5, <2>1, <2>2, <2>3
  <1>. SUFFICES ASSUME NEW u \in Threads, NEW v \in Threads,
                       NEW i \in DOMAIN calls'[u], NEW j \in DOMAIN calls'[v],
                       calls'[u][i] = calls'[v][j], calls'[u][i][1] \in EventFrames
                PROVE  u = v /\ i = j
    BY DEF Once
  <1>6. i \in 1 .. Len(calls'[u]) /\ j \in 1 .. Len(calls'[v]) /\ i \in Nat /\ j \in Nat
    BY <1>3
  <1>7. ASSUME NEW a \in Threads, NEW b \in DOMAIN calls[a], NEW q \in 1 .. n,
               calls[a][b] = m[q], m[q][1] \in EventFrames
        PROVE  FALSE
    BY <1>4, <1>7 DEF Has
  <1>8. CASE u = t /\ i <= n
    <2>1. calls'[u][i] = m[i] /\ i \in 1 .. n
      BY <1>5, <1>6, <1>8, <1>4
    <2>2. CASE v = t /\ j <= n
      <3>1. calls'[v][j] = m[j] /\ j \in 1 .. n
        BY <1>5, <1>6, <2>2, <1>4
      <3>. QED BY <1>4, <1>8, <2>1, <2>2, <3>1
    <2>3. CASE ~(v = t /\ j <= n)
      <3>1. PICK b \in DOMAIN calls[v] : calls'[v][j] = calls[v][b]
        BY <1>5, <1>6, <2>3
      <3>2. calls[v][b] = m[i] /\ m[i][1] \in EventFrames
        BY <2>1, <3>1
      <3>. QED BY <1>7, <2>1, <3>2
    <2>. QED BY <2>2, <2>3
  <1>9. CASE ~(u = t /\ i <= n)
    <2>1. CASE v = t /\ j <= n
      <3>1. calls'[v][j] = m[j] /\ j \in 1 .. n
        BY <1>5, <1>6, <2>1, <1>4
      <3>. QED BY <1>5, <1>6, <1>7, <1>9, <3>1
    <2>2. CASE ~(v = t /\ j <= n)
      <3>1. PICK a \in DOMAIN calls[u] : calls'[u][i] = calls[u][a]
                                          /\ a = IF u = t THEN i - n + 1 ELSE i
        BY <1>5, <1>6, <1>9
      <3>2. PICK b \in DOMAIN calls[v] : calls'[v][j] = calls[v][b]
                                          /\ b = IF v = t THEN j - n + 1 ELSE j
        BY <1>5, <1>6, <2>2
      <3>3. calls[u][a] = calls[v][b] /\ calls[u][a][1] \in EventFrames
        BY <3>1, <3>2
      <3>4. u = v /\ a = b
        BY <3>3 DEF Once
      <3>. QED BY <1>4, <1>6, <3>1, <3>2, <3>4
    <2>. QED BY <2>1, <2>2
  <1>. QED BY <1>8, <1>9

\* A call between events is gone once its frame is.
LEMMA TurnsDrops ==
  ASSUME Types, Once, NEW t \in Threads, NEW m, Turns(t, m), NEW f,
         calls[t] # <<>>, calls[t][1] = f, f[1] \in EventFrames, f \notin Range(m)
  PROVE  ~Has(f)'
  <1>1. /\ calls \in [Threads -> Seq(Frames)] /\ calls' \in [Threads -> Seq(Frames)]
        /\ m \in Seq(Frames)
        /\ \A u \in Threads : u # t => calls'[u] = calls[u]
        /\ \A i \in 1 .. Len(m) : i \in 1 .. Len(calls'[t]) /\ calls'[t][i] = m[i]
        /\ \A i \in 1 .. Len(calls'[t]) : i > Len(m) =>
              /\ i - Len(m) + 1 \in 2 .. Len(calls[t])
              /\ calls'[t][i] = calls[t][i - Len(m) + 1]
    BY TurnsCalls
  <1>2. \A u \in Threads : DOMAIN calls[u] = 1 .. Len(calls[u]) /\ Len(calls[u]) \in Nat
    BY <1>1, LenProperties
  <1>3. \A u \in Threads : DOMAIN calls'[u] = 1 .. Len(calls'[u]) /\ Len(calls'[u]) \in Nat
    BY <1>1, LenProperties
  <1>4. DOMAIN m = 1 .. Len(m) /\ Len(m) \in Nat
    BY <1>1, LenProperties
  <1>5. 1 \in DOMAIN calls[t]
    BY <1>1, <1>2
  <1>. SUFFICES ASSUME NEW u \in Threads, NEW i \in DOMAIN calls'[u], calls'[u][i] = f
                PROVE  FALSE
    BY DEF Has
  <1>6. CASE u # t
    <2>1. i \in DOMAIN calls[u] /\ calls[u][i] = f
      BY <1>1, <1>6
    <2>. QED BY <1>5, <1>6, <2>1 DEF Once
  <1>7. CASE u = t /\ i <= Len(m)
    <2>1. i \in DOMAIN m /\ m[i] = f
      BY <1>1, <1>3, <1>4, <1>7
    <2>. QED BY <2>1 DEF Range
  <1>8. CASE u = t /\ i > Len(m)
    <2>0. i \in 1 .. Len(calls'[t]) /\ calls'[t][i] = f /\ i > Len(m)
      BY <1>3, <1>8
    <2>1. PICK j \in 2 .. Len(calls[t]) : calls[t][j] = f
      BY SMTT(40), <1>1, <2>0
    <2>2. j \in DOMAIN calls[t] /\ j # 1
      BY <1>2, <2>1
    <2>. QED BY <1>5, <2>1, <2>2 DEF Once
  <1>. QED BY <1>3, <1>4, <1>6, <1>7, <1>8

\* The shape of the calls after a step that parks no task.
LEMMA TurnsShapes ==
  ASSUME Types, Shapes, NEW t \in Threads, NEW m, Turns(t, m),
         \A i \in 1 .. Len(m) : /\ m[i][1] # "deschedule"
                                /\ m[i][1] = "unlock" => i = 1 /\ executorLock' = t,
         \/ t = Client \/ m = <<>> \/ Rest(calls[t]) # <<>>
         \/ m[Len(m)][1] \in {"release", "wake", "unlock"},
         \A u \in Threads : u # t /\ executorLock = u => executorLock' = u
  PROVE  Shapes'
  <1>1. /\ calls \in [Threads -> Seq(Frames)] /\ calls' \in [Threads -> Seq(Frames)]
        /\ m \in Seq(Frames)
        /\ \A u \in Threads : u # t => calls'[u] = calls[u]
        /\ Len(calls'[t]) = Len(m) + Len(Rest(calls[t]))
        /\ \A i \in 1 .. Len(m) : i \in 1 .. Len(calls'[t]) /\ calls'[t][i] = m[i]
        /\ \A i \in 1 .. Len(calls'[t]) : i > Len(m) =>
              /\ i - Len(m) + 1 \in 2 .. Len(calls[t])
              /\ calls'[t][i] = calls[t][i - Len(m) + 1]
    BY TurnsCalls
  <1>2. PICK c \in Seq(Frames) : c = calls[t]
    BY <1>1
  <1>3. PICK d \in Seq(Frames) : d = calls'[t]
    BY <1>1
  <1>4. PICK r \in Seq(Frames) : r = Rest(c) /\ Len(r) = IF c = <<>> THEN 0 ELSE Len(c) - 1
    BY <1>2, RestIs
  <1>5. Len(c) \in Nat /\ Len(d) \in Nat /\ Len(m) \in Nat /\ Len(r) \in Nat
    BY <1>1, <1>2, <1>3, <1>4
  <1>6. /\ \A i \in 2 .. Len(c) : c[i][1] \notin {"unlock", "deschedule"}
        /\ c # <<>> /\ t # Client => c[Len(c)][1] \in {"release", "wake", "unlock"}
    BY <1>2 DEF Shapes, Shaped
  <1>7. /\ Len(d) = Len(m) + Len(r)
        /\ \A i \in 1 .. Len(m) : i \in 1 .. Len(d) /\ d[i] = m[i]
        /\ \A i \in 1 .. Len(d) : i > Len(m) =>
             i - Len(m) + 1 \in 2 .. Len(c) /\ d[i] = c[i - Len(m) + 1]
    BY <1>1, <1>2, <1>3, <1>4
  <1>8. \A i \in 1 .. Len(d) : /\ d[i][1] # "deschedule"
                               /\ d[i][1] = "unlock" => i = 1 /\ executorLock' = t
    <2>. TAKE i \in 1 .. Len(d)
    <2>1. CASE i <= Len(m)
      <3>1. i \in 1 .. Len(m) /\ d[i] = m[i]
        BY <1>5, <1>7, <2>1
      <3>. QED BY <3>1
    <2>2. CASE i > Len(m)
      <3>1. PICK j \in 2 .. Len(c) : d[i] = c[j]
        BY <1>7, <2>2
      <3>. QED BY <1>6, <3>1
    <2>. QED BY <1>5, <2>1, <2>2
  <1>9. d # <<>> /\ t # Client => d[Len(d)][1] \in {"release", "wake", "unlock"}
    <2>. SUFFICES ASSUME d # <<>>, t # Client
                  PROVE  d[Len(d)][1] \in {"release", "wake", "unlock"}
      OBVIOUS
    <2>1. Len(d) \in 1 .. Len(d)
      BY <1>5
    <2>2. CASE r # <<>>
      <3>1. Len(r) > 0 /\ c # <<>>
        BY <1>4, <2>2
      <3>2. Len(d) > Len(m) /\ Len(d) - Len(m) + 1 = Len(c)
        BY <1>4, <1>5, <1>7, <3>1
      <3>3. d[Len(d)] = c[Len(c)]
        BY <1>7, <2>1, <3>2
      <3>. QED BY <1>6, <3>1, <3>3
    <2>3. CASE r = <<>>
      <3>1. Len(d) = Len(m)
        BY <1>5, <1>7, <2>3
      <3>2. m # <<>> /\ Len(m) \in 1 .. Len(m)
        BY <1>1, <1>5, <2>1, <3>1
      <3>3. d[Len(d)] = m[Len(m)]
        BY <1>7, <3>1, <3>2
      <3>. QED BY <1>2, <1>4, <2>3, <3>2, <3>3
    <2>. QED BY <2>2, <2>3
  <1>10. Shaped(t, d)'
    BY <1>5, <1>8, <1>9 DEF Shaped
  <1>11. ASSUME NEW u \in Threads, u # t PROVE Shaped(u, calls[u])'
    <2>1. calls'[u] = calls[u] /\ Shaped(u, calls[u])
      BY <1>1, <1>11 DEF Shapes
    <2>. QED BY <1>11, <2>1 DEF Shaped
  <1>. QED BY <1>3, <1>10, <1>11 DEF Shapes

-----------------------------------------------------------------------------
(* Tasks that exist *)

\* The tasks that frames refer to.
TasksIn(S) == {f[2] : f \in {g \in S : g[1] \in {"wake", "deschedule", "release"}}}

\* The tasks that a step of thread t does not let go.
Kept(t) ==
    {held[u] : u \in Threads \ {t}}
    \cup (UNION {FrameTasks(calls[u]) : u \in Threads \ {t}})
    \cup TasksIn(Range(Rest(calls[t])))

\* The task that the innermost frame of t refers to.
TopTasks(t) == IF calls[t] = <<>> THEN {} ELSE TasksIn({calls[t][1]})

LEMMA FrameTasksIs ==
  ASSUME NEW F, NEW c \in Seq(F)
  PROVE  FrameTasks(c) = TasksIn(Range(c))
  BY DEF FrameTasks, TasksIn, Range

\* What is referred to by frames c in place of the calls of t.
LEMMA ReferencedWith ==
  ASSUME Types, NEW t \in Threads, NEW c \in Seq(Frames),
         NEW d, d = [calls EXCEPT ![t] = c]
  PROVE  Referenced(d) = Range(queue) \cup rescheduled \cup {held[t]} \cup TasksIn(Range(c))
                          \cup {held[u] : u \in Threads \ {t}}
                          \cup (UNION {FrameTasks(calls[u]) : u \in Threads \ {t}})
  <1>1. calls \in [Threads -> Seq(Frames)]
    BY DEF Types
  <1>2. d[t] = c /\ \A u \in Threads \ {t} : d[u] = calls[u]
    BY <1>1
  <1>3. UNION {FrameTasks(d[u]) : u \in Threads}
          = FrameTasks(c) \cup UNION {FrameTasks(calls[u]) : u \in Threads \ {t}}
    <2>1. ASSUME NEW k
          PROVE  k \in UNION {FrameTasks(d[u]) : u \in Threads}
                   <=> \E u \in Threads : k \in FrameTasks(d[u])
      OBVIOUS
    <2>2. ASSUME NEW k
          PROVE  k \in UNION {FrameTasks(calls[u]) : u \in Threads \ {t}}
                   <=> \E u \in Threads \ {t} : k \in FrameTasks(calls[u])
      OBVIOUS
    <2>3. ASSUME NEW k
          PROVE  (\E u \in Threads : k \in FrameTasks(d[u]))
                   <=> k \in FrameTasks(c) \/ \E u \in Threads \ {t} : k \in FrameTasks(calls[u])
      BY <1>2
    <2>. QED BY <2>1, <2>2, <2>3
  <1>4. {held[u] : u \in Threads} = {held[t]} \cup {held[u] : u \in Threads \ {t}}
    OBVIOUS
  <1>5. FrameTasks(c) = TasksIn(Range(c))
    BY FrameTasksIs
  <1>. QED BY <1>3, <1>4, <1>5 DEF Referenced

\* The members of a call, innermost first.
LEMMA RangeSplit ==
  ASSUME NEW F, NEW c \in Seq(F)
  PROVE  Range(c) = (IF c = <<>> THEN {} ELSE {c[1]}) \cup Range(Rest(c))
  <1>1. CASE c = <<>>
    BY <1>1 DEF Rest, Range
  <1>2. CASE c # <<>>
    <2>1. PICK r \in Seq(F) : /\ r = Rest(c) /\ Len(r) = Len(c) - 1
                              /\ \A i \in 1 .. Len(r) : r[i] = c[i + 1]
                              /\ \A i \in 2 .. Len(c) : i - 1 \in 1 .. Len(r)
      BY <1>2, RestIs
    <2>2. DOMAIN c = 1 .. Len(c) /\ DOMAIN r = 1 .. Len(r) /\ Len(c) \in Nat /\ Len(c) >= 1
      BY <1>2, <2>1, LenProperties, EmptySeq
    <2>3. ASSUME NEW x \in Range(c) PROVE x = c[1] \/ x \in Range(r)
      <3>1. PICK i \in 1 .. Len(c) : c[i] = x
        BY <2>2, <2>3 DEF Range
      <3>2. CASE i = 1
        BY <3>1, <3>2
      <3>3. CASE i # 1
        <4>1. i \in 2 .. Len(c) /\ i - 1 \in 1 .. Len(r) /\ (i - 1) + 1 = i
          BY <2>1, <2>2, <3>1, <3>3
        <4>2. r[i - 1] = x
          BY <2>1, <3>1, <4>1
        <4>. QED BY <2>2, <4>1, <4>2 DEF Range
      <3>. QED BY <3>2, <3>3
    <2>4. c[1] \in Range(c)
      BY <2>2 DEF Range
    <2>5. ASSUME NEW x \in Range(r) PROVE x \in Range(c)
      <3>1. PICK i \in 1 .. Len(r) : r[i] = x
        BY <2>2, <2>5 DEF Range
      <3>2. i + 1 \in 1 .. Len(c) /\ c[i + 1] = x
        BY <2>1, <2>2, <3>1
      <3>. QED BY <2>2, <3>2 DEF Range
    <2>. QED BY <1>2, <2>1, <2>3, <2>4, <2>5
  <1>. QED BY <1>1, <1>2

\* The tasks referred to before and after a step of thread t, and those that
\* others than its innermost frame refer to.
LEMMA ReferencedIs ==
  ASSUME Types, NEW t \in Threads
  PROVE  /\ Referenced(calls) = Range(queue) \cup rescheduled \cup {held[t]}
                                 \cup TopTasks(t) \cup Kept(t)
         /\ calls[t] # <<>> =>
              Shared(t) = (calls[t][1][2] \in Range(queue) \cup rescheduled \cup {held[t]}
                                               \cup Kept(t))
  <1>1. calls \in [Threads -> Seq(Frames)]
    BY DEF Types
  <1>2. PICK c \in Seq(Frames) : c = calls[t]
    BY <1>1
  <1>3. calls = [calls EXCEPT ![t] = c]
    BY <1>1, <1>2
  <1>4. TasksIn(Range(c)) = TopTasks(t) \cup TasksIn(Range(Rest(c)))
    BY <1>2, RangeSplit DEF TopTasks, TasksIn
  <1>5. Referenced(calls) = Range(queue) \cup rescheduled \cup {held[t]}
                             \cup TopTasks(t) \cup Kept(t)
    BY <1>2, <1>3, <1>4, ReferencedWith DEF Kept
  <1>6. ASSUME c # <<>>
        PROVE  Shared(t) = (c[1][2] \in Range(queue) \cup rescheduled \cup {held[t]}
                                               \cup Kept(t))
    <2>1. Tail(c) \in Seq(Frames) /\ Rest(c) = Tail(c) /\ Head(c) = c[1]
      BY <1>6, HeadTailProperties DEF Rest
    <2>2. PICK d : d = [calls EXCEPT ![t] = Tail(c)]
      OBVIOUS
    <2>3. Referenced(d) = Range(queue) \cup rescheduled \cup {held[t]} \cup Kept(t)
      <3>1. Referenced(d) = Range(queue) \cup rescheduled \cup {held[t]}
                          \cup TasksIn(Range(Tail(c))) \cup {held[u] : u \in Threads \ {t}}
                          \cup (UNION {FrameTasks(calls[u]) : u \in Threads \ {t}})
        BY <2>1, <2>2, ReferencedWith
      <3>. QED BY <1>2, <2>1, <3>1 DEF Kept
    <2>4. [calls EXCEPT ![t] = Tail(@)] = d
      BY <1>1, <1>2, <2>2
    <2>. QED BY <1>2, <2>1, <2>3, <2>4 DEF Shared
  <1>. QED BY <1>2, <1>5, <1>6

LEMMA ReferencedAfter ==
  ASSUME Types, NEW t \in Threads, NEW m, Turns(t, m),
         \A u \in Threads : u # t => held'[u] = held[u]
  PROVE  Referenced(calls)' = Range(queue') \cup rescheduled' \cup {held'[t]}
                               \cup TasksIn(Range(m)) \cup Kept(t)
  <1>1. /\ calls \in [Threads -> Seq(Frames)] /\ calls' \in [Threads -> Seq(Frames)]
        /\ m \in Seq(Frames)
        /\ \A u \in Threads : u # t => calls'[u] = calls[u]
    BY TurnsCalls
  <1>2. PICK r \in Seq(Frames) : r = Rest(calls[t])
    BY <1>1, RestIs
  <1>3. calls'[t] = m \o r
    BY <1>1, <1>2 DEF Turns
  <1>4. Range(calls'[t]) = Range(m) \cup Range(r)
    BY <1>1, <1>2, <1>3, RangeOfBoth
  <1>5. FrameTasks(calls'[t]) = TasksIn(Range(m)) \cup TasksIn(Range(r))
    BY <1>1, <1>4, FrameTasksIs DEF TasksIn
  <1>6. UNION {FrameTasks(calls'[u]) : u \in Threads}
          = FrameTasks(calls'[t]) \cup UNION {FrameTasks(calls[u]) : u \in Threads \ {t}}
    <2>1. ASSUME NEW k
          PROVE  k \in UNION {FrameTasks(calls'[u]) : u \in Threads}
                   <=> \E u \in Threads : k \in FrameTasks(calls'[u])
      OBVIOUS
    <2>2. ASSUME NEW k
          PROVE  k \in UNION {FrameTasks(calls[u]) : u \in Threads \ {t}}
                   <=> \E u \in Threads \ {t} : k \in FrameTasks(calls[u])
      OBVIOUS
    <2>3. ASSUME NEW k
          PROVE  (\E u \in Threads : k \in FrameTasks(calls'[u]))
                   <=> k \in FrameTasks(calls'[t])
                       \/ \E u \in Threads \ {t} : k \in FrameTasks(calls[u])
      BY <1>1
    <2>. QED BY <2>1, <2>2, <2>3
  <1>7. {held'[u] : u \in Threads} = {held'[t]} \cup {held[u] : u \in Threads \ {t}}
    OBVIOUS
  <1>. QED BY <1>2, <1>5, <1>6, <1>7 DEF Referenced, Kept

-----------------------------------------------------------------------------
(* Who has a task *)

\* Only its first frame lets a thread hold a task that it is about to park.
LEMMA HoldsAfter ==
  ASSUME Types, Shapes, NEW t \in Threads, NEW m, Turns(t, m),
         \A i \in 1 .. Len(m) : m[i][1] # "deschedule", NEW k
  PROVE  /\ ~InCall(t, "deschedule")'
         /\ Holds(t, k)' <=> held'[t] = k
         /\ \A u \in Threads : u # t =>
              /\ InCall(u, "deschedule")' <=> InCall(u, "deschedule")
              /\ Head(calls'[u]) = Head(calls[u])
              /\ held'[u] = held[u] => (Holds(u, k)' <=> Holds(u, k))
  <1>1. /\ calls \in [Threads -> Seq(Frames)] /\ calls' \in [Threads -> Seq(Frames)]
        /\ m \in Seq(Frames)
        /\ \A u \in Threads : u # t => calls'[u] = calls[u]
        /\ \A i \in 1 .. Len(m) : i \in 1 .. Len(calls'[t]) /\ calls'[t][i] = m[i]
        /\ \A i \in 1 .. Len(calls'[t]) : i > Len(m) =>
              /\ i - Len(m) + 1 \in 2 .. Len(calls[t])
              /\ calls'[t][i] = calls[t][i - Len(m) + 1]
    BY TurnsCalls
  <1>2. ~InCall(t, "deschedule")'
    <2>. SUFFICES ASSUME calls'[t] # <<>>, Head(calls'[t])[1] = "deschedule"
                  PROVE  FALSE
      BY DEF InCall
    <2>1. 1 \in 1 .. Len(calls'[t]) /\ Head(calls'[t]) = calls'[t][1]
      BY <1>1
    <2>2. Len(m) \in Nat
      BY <1>1
    <2>3. CASE Len(m) >= 1
      <3>1. 1 \in 1 .. Len(m)
        BY <2>2, <2>3
      <3>. QED BY <1>1, <2>1, <3>1
    <2>4. CASE Len(m) = 0
      <3>1. PICK j \in 2 .. Len(calls[t]) : calls'[t][1] = calls[t][j]
        BY <1>1, <2>1, <2>4
      <3>. QED BY <2>1, <3>1 DEF Shapes, Shaped
    <2>. QED BY <2>2, <2>3, <2>4
  <1>3. Holds(t, k)' <=> held'[t] = k
    BY <1>2 DEF Holds
  <1>4. ASSUME NEW u \in Threads, u # t
        PROVE  /\ InCall(u, "deschedule")' <=> InCall(u, "deschedule")
               /\ Head(calls'[u]) = Head(calls[u])
               /\ held'[u] = held[u] => (Holds(u, k)' <=> Holds(u, k))
    <2>1. calls'[u] = calls[u]
      BY <1>1, <1>4
    <2>. QED BY <2>1 DEF InCall, Holds
  <1>. QED BY <1>2, <1>3, <1>4

\* No task gets a second owner when no task gets a new one.
LEMMA OwnedShrinks ==
  ASSUME Types, OwnedOnce, plan' = plan, queue' = queue, rescheduled' \subseteq rescheduled,
         \A u \in Threads : \A k \in PlanTasks : Holds(u, k)' => Holds(u, k)
  PROVE  OwnedOnce'
  <1>1. PlanTasks' = PlanTasks
    BY PlanSame
  <1>2. queue \in Seq(PlanTasks) /\ rescheduled \subseteq PlanTasks
    BY DEF Types
  <1>3. \A i \in DOMAIN queue : queue[i] \in PlanTasks
    BY <1>2
  <1>4. \A i, j \in DOMAIN queue' : queue'[i] = queue'[j] => i = j
    BY DEF OwnedOnce
  <1>5. \A i \in DOMAIN queue' : queue'[i] \notin rescheduled'
    BY DEF OwnedOnce
  <1>6. \A i \in DOMAIN queue', t \in Threads : ~Holds(t, queue[i])'
    BY <1>3 DEF OwnedOnce
  <1>7. \A t \in Threads : \A k \in rescheduled' : ~Holds(t, k)'
    BY <1>2 DEF OwnedOnce
  <1>8. \A t, u \in Threads : \A k \in PlanTasks' : Holds(t, k)' /\ Holds(u, k)' => t = u
    BY <1>1 DEF OwnedOnce
  <1>. QED BY <1>4, <1>5, <1>6, <1>7, <1>8 DEF OwnedOnce

\* The first task of the queue passes to the thread that takes it.
LEMMA OwnedTaken ==
  ASSUME Types, OwnedOnce, plan' = plan, queue # <<>>, queue' = Tail(queue),
         rescheduled' \subseteq rescheduled, NEW t \in Threads,
         \A u \in Threads : \A k \in PlanTasks :
            Holds(u, k)' => Holds(u, k) \/ (u = t /\ k = Head(queue))
  PROVE  OwnedOnce'
  <1>1. PlanTasks' = PlanTasks
    BY PlanSame
  <1>2. queue \in Seq(PlanTasks) /\ rescheduled \subseteq PlanTasks
    BY DEF Types
  <1>3. PICK q \in Seq(PlanTasks) : q = queue'
    BY <1>2
  <1>4. /\ Len(q) = Len(queue) - 1 /\ Len(queue) \in Nat /\ Len(queue) >= 1
        /\ DOMAIN queue = 1 .. Len(queue) /\ DOMAIN q = 1 .. Len(q)
        /\ \A i \in 1 .. Len(q) : q[i] = queue[i + 1]
        /\ Head(queue) = queue[1]
    BY <1>2, <1>3
  <1>5. \A i \in 1 .. Len(q) : i + 1 \in DOMAIN queue /\ q[i] = queue[i + 1] /\ q[i] \in PlanTasks
    BY <1>3, <1>4
  <1>6. \A i \in 1 .. Len(q) : q[i] # Head(queue)
    <2>. TAKE i \in 1 .. Len(q)
    <2>1. i + 1 \in DOMAIN queue /\ 1 \in DOMAIN queue /\ i + 1 # 1
      BY <1>4
    <2>. QED BY <1>4, <1>5, <2>1 DEF OwnedOnce
  <1>7. \A i, j \in DOMAIN q : q[i] = q[j] => i = j
    <2>. SUFFICES ASSUME NEW i \in 1 .. Len(q), NEW j \in 1 .. Len(q), q[i] = q[j]
                  PROVE  i = j
      BY <1>4
    <2>1. i + 1 = j + 1
      BY <1>5 DEF OwnedOnce
    <2>. QED BY <2>1
  <1>8. \A i \in DOMAIN q : q[i] \notin rescheduled'
    BY <1>4, <1>5 DEF OwnedOnce
  <1>9. \A i \in DOMAIN q, u \in Threads : ~Holds(u, q[i])'
    <2>. SUFFICES ASSUME NEW i \in 1 .. Len(q), NEW u \in Threads, Holds(u, q[i])'
                  PROVE  FALSE
      BY <1>4
    <2>1. PICK k \in PlanTasks : k = q[i]
      BY <1>5
    <2>2. Holds(u, k)
      BY <1>6, <2>1
    <2>. QED BY <1>5, <2>1, <2>2 DEF OwnedOnce
  <1>10. \A u \in Threads : \A k \in rescheduled' : ~Holds(u, k)'
    <2>. SUFFICES ASSUME NEW u \in Threads, NEW k \in rescheduled', Holds(u, k)'
                  PROVE  FALSE
      OBVIOUS
    <2>1. k \in rescheduled /\ k \in PlanTasks
      BY <1>2
    <2>2. k # Head(queue)
      BY <1>4, <2>1 DEF OwnedOnce
    <2>. QED BY <2>1, <2>2 DEF OwnedOnce
  <1>11. \A u, v \in Threads : \A k \in PlanTasks' : Holds(u, k)' /\ Holds(v, k)' => u = v
    <2>. SUFFICES ASSUME NEW u \in Threads, NEW v \in Threads, NEW k \in PlanTasks,
                         Holds(u, k)', Holds(v, k)'
                  PROVE  u = v
      BY <1>1
    <2>1. CASE k = Head(queue)
      <3>1. ~Holds(u, k) /\ ~Holds(v, k)
        BY <1>4, <2>1 DEF OwnedOnce
      <3>. QED BY <3>1
    <2>2. CASE k # Head(queue)
      BY <2>2 DEF OwnedOnce
    <2>. QED BY <2>1, <2>2
  <1>. QED BY <1>3, <1>7, <1>8, <1>9, <1>10, <1>11 DEF OwnedOnce

\* Parked tasks keep their wake-up when neither a wake-up nor a callback is
\* taken away.
LEMMA RememberedKept ==
  ASSUME Types, Shapes, Remembered, plan' = plan, cancelled' = cancelled,
         NEW t \in Threads, NEW m, Turns(t, m),
         \A i \in 1 .. Len(m) : m[i][1] # "deschedule",
         calls[t] # <<>> => calls[t][1][1] # "wake",
         rescheduled' \subseteq rescheduled,
         blockedTasks' = blockedTasks
  PROVE  Remembered'
  <1>1. PlanTasks' = PlanTasks
    BY PlanSame
  <1>2. cancelled' => rescheduled' = {}
    BY DEF Remembered
  <1>3. ASSUME ~cancelled', NEW k \in PlanTasks, Parking(k)'
        PROVE  Woken(k)'
    <2>1. Parking(k)
      <3>1. CASE k \in rescheduled'
        BY <3>1 DEF Parking
      <3>2. CASE k \notin rescheduled'
        <4>1. PICK u \in Threads : InCall(u, "deschedule")' /\ Head(calls'[u])[2] = k
          BY <1>3, <3>2 DEF Parking
        <4>2. u # t /\ InCall(u, "deschedule") /\ Head(calls[u])[2] = k
          BY <4>1, HoldsAfter
        <4>. QED BY <4>2 DEF Parking
      <3>. QED BY <3>1, <3>2
    <2>2. Woken(k)
      BY <1>3, <2>1 DEF Remembered
    <2>3. PICK f : f = <<"wake", k>>
      OBVIOUS
    <2>4. Has(f) => Has(f)'
      <3>1. calls[t] # <<>> => calls[t][1] # f
        BY <2>3
      <3>. QED BY <3>1, TurnsHas
    <2>. QED BY <2>2, <2>3, <2>4 DEF Woken
  <1>. QED BY <1>1, <1>2, <1>3 DEF Remembered

\* Every task there is belongs to an event that has begun.
LEMMA FreshKept ==
  ASSUME Types, Fresh, NEW N, Live' \subseteq Live \cup N,
         \A k \in N : Begun(EventOf(k))',
         needs' = needs, \A e \in PlanEvents : met'[e] = met[e] \/ met'[e] = met[e] + 1,
         Live \subseteq PlanTasks
  PROVE  Fresh'
  <1>1. \A k \in Live : EventOf(k) \in PlanEvents
    BY DEF PlanTasks, EventOf
  <1>2. needs \in [Events -> Nat] /\ met \in [Events -> Nat] /\ PlanEvents \subseteq Events
    BY PlanFacts DEF Types
  <1>3. ASSUME NEW k \in Live PROVE Begun(EventOf(k))'
    <2>1. PICK e \in PlanEvents : e = EventOf(k)
      BY <1>1, <1>3
    <2>2. Begun(e)
      BY <1>3, <2>1 DEF Fresh
    <2>3. met[e] \in Nat /\ needs[e] \in Nat /\ (met'[e] = met[e] \/ met'[e] = met[e] + 1)
      BY <1>2
    <2>4. Begun(e)'
      BY <2>2, <2>3 DEF Begun
    <2>. QED BY <2>1, <2>4
  <1>. QED BY <1>3 DEF Fresh

\* All that is referred to is a task of the plan.
LEMMA LiveIs ==
  ASSUME Types
  PROVE  Live \subseteq PlanTasks /\ IsFiniteSet(Live)
  <1>1. \A t \in Threads : FrameTasks(calls[t]) \subseteq PlanTasks
    <2>. TAKE t \in Threads
    <2>1. calls[t] \in Seq(Frames)
      BY DEF Types
    <2>2. ASSUME NEW i \in DOMAIN calls[t], calls[t][i][1] \in {"wake", "deschedule", "release"}
          PROVE  calls[t][i][2] \in PlanTasks
      <3>1. calls[t][i] \in Frames
        BY <2>1, <2>2
      <3>. QED BY <2>2, <3>1 DEF Frames, TaskFrames
    <2>. QED BY <2>2 DEF FrameTasks
  <1>2. Range(queue) \subseteq PlanTasks
    BY RangeOfSeq DEF Types
  <1>3. Live \subseteq PlanTasks
    BY <1>1, <1>2 DEF Live, Referenced, Types
  <1>4. IsFiniteSet(PlanTasks)
    BY PlanFacts DEF Types
  <1>. QED BY <1>3, <1>4, FS_Subset

-----------------------------------------------------------------------------
(* The calls that are made *)

\* No call of one event by another is in the list twice.
UniqueEvents(m) ==
    \A i, j \in 1 .. Len(m) : m[i] = m[j] /\ m[i][1] \in EventFrames => i = j

LEMMA UniqueBoth ==
  ASSUME NEW F, NEW a \in Seq(F), NEW b \in Seq(F), UniqueEvents(a), UniqueEvents(b),
         \A f \in Range(a) \cap Range(b) : f[1] \notin EventFrames
  PROVE  UniqueEvents(a \o b)
  <1>0. PICK c : c = a \o b
    OBVIOUS
  <1>1. /\ c = a \o b
        /\ Len(c) = Len(a) + Len(b)
        /\ \A i \in 1 .. Len(a) + Len(b) :
             c[i] = IF i <= Len(a) THEN a[i] ELSE b[i - Len(a)]
    BY <1>0
  <1>2. PICK n \in Nat, l \in Nat : n = Len(a) /\ l = Len(b)
    OBVIOUS
  <1>3. DOMAIN a = 1 .. n /\ DOMAIN b = 1 .. l
    BY <1>2
  <1>4. ASSUME NEW i \in 1 .. n + l
        PROVE  \/ i <= n /\ i \in 1 .. n /\ c[i] = a[i] /\ c[i] \in Range(a)
               \/ i > n /\ i - n \in 1 .. l /\ c[i] = b[i - n] /\ c[i] \in Range(b)
    <2>1. CASE i <= n
      <3>1. i \in 1 .. n /\ c[i] = a[i]
        BY <1>1, <1>2, <2>1
      <3>. QED BY <1>3, <2>1, <3>1 DEF Range
    <2>2. CASE i > n
      <3>1. i - n \in 1 .. l /\ c[i] = b[i - n]
        BY <1>1, <1>2, <2>2
      <3>. QED BY <1>3, <2>2, <3>1 DEF Range
    <2>. QED BY <2>1, <2>2
  <1>. SUFFICES ASSUME NEW i \in 1 .. n + l, NEW j \in 1 .. n + l,
                       c[i] = c[j], c[i][1] \in EventFrames
                PROVE  i = j
    BY <1>1, <1>2 DEF UniqueEvents
  <1>5. ~(c[i] \in Range(a) /\ c[i] \in Range(b))
    OBVIOUS
  <1>6. CASE i <= n /\ j <= n
    <2>1. i \in 1 .. n /\ j \in 1 .. n /\ c[i] = a[i] /\ c[j] = a[j]
      BY <1>4, <1>6
    <2>. QED BY <1>2, <2>1 DEF UniqueEvents
  <1>7. CASE i > n /\ j > n
    <2>1. i - n \in 1 .. l /\ j - n \in 1 .. l /\ c[i] = b[i - n] /\ c[j] = b[j - n]
      BY <1>4, <1>7
    <2>2. i - n = j - n
      BY <1>2, <2>1 DEF UniqueEvents
    <2>. QED BY <2>2
  <1>8. CASE (i <= n /\ j > n) \/ (i > n /\ j <= n)
    BY <1>4, <1>5, <1>8
  <1>. QED BY <1>6, <1>7, <1>8

\* A list of calls that are no calls between events.
LEMMA UniqueOther ==
  ASSUME NEW F, NEW a \in Seq(F), \A f \in Range(a) : f[1] \notin EventFrames
  PROVE  UniqueEvents(a)
  BY DEF UniqueEvents, Range

\* The calls an event makes of its parents, and PushError of the pipelines.
ParentCalls(e) == {<<"parent", p, e>> : p \in parents[e]}
UnblockCalls == {<<"unblock", p>> : p \in plan.pipelines}

\* What an event calls when it is finished.
LEMMA FinishCallsIs ==
  ASSUME Types, NEW e \in PlanEvents
  PROVE  /\ FinishCalls(e) \in Seq(Frames)
         /\ Range(FinishCalls(e)) = ParentCalls(e)
                \cup (IF e[2] = "complete" THEN {<<"finalize", e>>} ELSE {})
         /\ UniqueEvents(FinishCalls(e))
  <1>1. parents[e] \subseteq PlanEvents /\ IsFiniteSet(parents[e])
    BY PlanFacts, FS_Subset DEF Types
  <1>2. PICK o \in Seq(parents[e]) :
           /\ o = SetToSeq(parents[e]) /\ Len(o) = Cardinality(parents[e])
           /\ \A i, j \in 1 .. Len(o) : o[i] = o[j] => i = j
           /\ Range(o) = parents[e]
    BY <1>1, ListOfSet
  <1>3. PICK n \in Nat : n = Len(o) /\ DOMAIN o = 1 .. n
    BY <1>2
  <1>4. PICK a : a = [i \in DOMAIN o |-> <<"parent", o[i], e>>]
    OBVIOUS
  <1>5. \A i \in 1 .. n : o[i] \in PlanEvents
    BY <1>1, <1>2, <1>3
  <1>6. a \in Seq(Frames) /\ Len(a) = n /\ DOMAIN a = 1 .. n
    <2>1. \A i \in 1 .. n : <<"parent", o[i], e>> \in Frames
      BY <1>5 DEF Frames
    <2>2. a \in [1 .. n -> Frames]
      BY <1>3, <1>4, <2>1
    <2>. QED BY <2>2
  <1>7. Range(a) = ParentCalls(e)
    <2>1. \A i \in 1 .. n : a[i] = <<"parent", o[i], e>> /\ o[i] \in parents[e]
      BY <1>2, <1>3, <1>4 DEF Range
    <2>2. \A p \in parents[e] : \E i \in 1 .. n : o[i] = p
      BY <1>2, <1>3 DEF Range
    <2>3. \A p \in parents[e] : \E i \in 1 .. n : a[i] = <<"parent", p, e>>
      BY <2>1, <2>2
    <2>4. ParentCalls(e) \subseteq Range(a)
      BY <1>6, <2>3 DEF Range, ParentCalls
    <2>5. \A i \in 1 .. n : a[i] \in ParentCalls(e)
      BY <2>1 DEF ParentCalls
    <2>6. Range(a) \subseteq ParentCalls(e)
      BY <1>6, <2>5 DEF Range
    <2>. QED BY <2>4, <2>6
  <1>8. UniqueEvents(a)
    <2>. SUFFICES ASSUME NEW i \in 1 .. n, NEW j \in 1 .. n, a[i] = a[j]
                  PROVE  i = j
      BY <1>6 DEF UniqueEvents
    <2>1. o[i] = o[j]
      BY <1>3, <1>4
    <2>. QED BY <1>2, <1>3, <2>1
  <1>9. PICK b : b = IF e[2] = "complete" THEN <<<<"finalize", e>>>> ELSE <<>>
    OBVIOUS
  <1>10. b \in Seq(Frames) /\ Range(b) = (IF e[2] = "complete" THEN {<<"finalize", e>>} ELSE {})
         /\ UniqueEvents(b)
    <2>1. CASE e[2] = "complete"
      <3>1. PICK f : f = <<"finalize", e>>
        OBVIOUS
      <3>2. f \in Frames
        BY <3>1 DEF Frames
      <3>3. b = <<f>>
        BY <1>9, <2>1, <3>1
      <3>4. b \in Seq(Frames) /\ Len(b) = 1 /\ DOMAIN b = 1 .. 1 /\ b[1] = f
        BY <3>2, <3>3
      <3>5. Range(b) = {f}
        BY <3>4 DEF Range
      <3>6. UniqueEvents(b)
        BY <3>4 DEF UniqueEvents
      <3>. QED BY <2>1, <3>1, <3>4, <3>5, <3>6
    <2>2. CASE e[2] # "complete"
      <3>1. b = <<>>
        BY <1>9, <2>2
      <3>. QED BY <2>2, <3>1 DEF Range, UniqueEvents
    <2>. QED BY <2>1, <2>2
  <1>11. FinishCalls(e) = a \o b
    BY <1>2, <1>4, <1>9 DEF FinishCalls
  <1>12. \A f \in Range(a) \cap Range(b) : f[1] \notin EventFrames
    BY <1>7, <1>10 DEF ParentCalls
  <1>13. a \o b \in Seq(Frames) /\ Range(a \o b) = Range(a) \cup Range(b)
    BY <1>6, <1>10, RangeOfBoth
  <1>. QED
    BY <1>6, <1>7, <1>8, <1>10, <1>11, <1>12, <1>13, UniqueBoth

\* PushError visits every pipeline.
LEMMA PushErrorIs ==
  ASSUME Types
  PROVE  /\ PushErrorCalls \in Seq(Frames)
         /\ Range(PushErrorCalls) = UnblockCalls
  <1>1. PICK n \in Nat : n = Cardinality(plan.pipelines) /\ plan.pipelines = 1 .. n
    BY PlanFacts, FS_CardinalityType DEF Types, IsPlan
  <1>2. PICK a : a = PushErrorCalls
    OBVIOUS
  <1>3. a = [p \in 1 .. n |-> <<"unblock", p>>]
    BY <1>1, <1>2 DEF PushErrorCalls
  <1>4. \A p \in 1 .. n : <<"unblock", p>> \in Frames
    BY <1>1 DEF Frames
  <1>5. a \in [1 .. n -> Frames]
    BY <1>3, <1>4
  <1>6. a \in Seq(Frames)
    BY <1>5
  <1>7. Range(a) = {<<"unblock", p>> : p \in 1 .. n}
    BY <1>3 DEF Range
  <1>. QED BY <1>1, <1>2, <1>6, <1>7 DEF UnblockCalls

\* A list with one frame about each task of a set.
LEMMA TaskListIs ==
  ASSUME NEW K, K \subseteq PlanTasks, IsFiniteSet(K), NEW name \in {"wake", "release"},
         NEW s, s = SetToSeq(K), NEW m, m = [i \in DOMAIN s |-> <<name, s[i]>>]
  PROVE  m \in Seq(Frames) /\ Range(m) = {<<name, k>> : k \in K}
  <1>1. s \in Seq(K) /\ Range(s) = K
    BY ListOfSet
  <1>2. PICK n \in Nat : n = Len(s) /\ DOMAIN s = 1 .. n
    BY <1>1
  <1>3. \A i \in 1 .. n : <<name, s[i]>> \in Frames
    <2>. TAKE i \in 1 .. n
    <2>1. s[i] \in PlanTasks
      BY <1>1, <1>2
    <2>. QED BY <2>1 DEF Frames, TaskFrames
  <1>4. m \in [1 .. n -> Frames]
    BY <1>2, <1>3
  <1>5. m \in Seq(Frames)
    BY <1>4
  <1>. QED BY <1>1, <1>2, <1>5 DEF Range

\* A single frame about a task.
LEMMA OneFrameIs ==
  ASSUME NEW k \in PlanTasks, NEW name \in {"wake", "release", "unlock"},
         NEW m, m = <<<<name, k>>>>
  PROVE  /\ m \in Seq(Frames) /\ Len(m) = 1 /\ m[1] = <<name, k>> /\ m # <<>>
         /\ Range(m) = {<<name, k>>}
  <1>1. PICK f : f = <<name, k>>
    OBVIOUS
  <1>2. f \in Frames
    BY <1>1 DEF Frames, TaskFrames
  <1>3. m = <<f>>
    BY <1>1
  <1>4. m \in Seq(Frames) /\ Len(m) = 1 /\ m[1] = f /\ DOMAIN m = 1 .. 1 /\ m # <<>>
    BY <1>2, <1>3
  <1>. QED BY <1>1, <1>4 DEF Range

\* Which tasks such lists refer to.
LEMMA ListTasks ==
  ASSUME NEW S, NEW K, NEW name \in {"wake", "release"},
         \A f \in S : f[1] \in {"parent", "finalize", "unblock", "unlock"}
  PROVE  /\ TasksIn(S) = {}
         /\ TasksIn({<<name, k>> : k \in K}) = K
         /\ TasksIn(S \cup {<<name, k>> : k \in K}) = K
  <1>1. PICK T : T = {<<name, k>> : k \in K}
    OBVIOUS
  <1>2. \A g \in T : g[1] \in {"wake", "deschedule", "release"} /\ g[2] \in K
    BY <1>1
  <1>3. ASSUME NEW k \in K PROVE \E g \in T : g[2] = k
    <2>1. <<name, k>> \in T /\ <<name, k>>[2] = k
      BY <1>1
    <2>. QED BY <2>1
  <1>4. \A g \in S : g[1] \notin {"wake", "deschedule", "release"}
    OBVIOUS
  <1>5. {g \in T : g[1] \in {"wake", "deschedule", "release"}} = T
    BY <1>2
  <1>6. {g \in S : g[1] \in {"wake", "deschedule", "release"}} = {}
    BY <1>4
  <1>7. {g \in S \cup T : g[1] \in {"wake", "deschedule", "release"}} = T
    BY <1>2, <1>4
  <1>8. {f[2] : f \in T} = K
    BY <1>2, <1>3
  <1>. QED BY <1>1, <1>5, <1>6, <1>7, <1>8 DEF TasksIn

\* Returning from the innermost call, and starting a call.
LEMMA ReturnTurns ==
  ASSUME Types, NEW t \in Threads, calls[t] # <<>>, NEW m \in Seq(Frames), Return(t, m)
  PROVE  Turns(t, m)
  <1>1. Rest(calls[t]) = Tail(calls[t])
    BY DEF Rest
  <1>. QED BY <1>1 DEF Return, Turns, Types

LEMMA EnterTurns ==
  ASSUME Types, NEW t \in Threads, calls[t] = <<>>, NEW m \in Seq(Frames),
         calls' = [calls EXCEPT ![t] = m]
  PROVE  Turns(t, m)
  <1>1. Rest(calls[t]) = <<>>
    BY DEF Rest
  <1>2. m \o <<>> = m
    BY ConcatEmptySeq
  <1>. QED BY <1>1, <1>2 DEF Turns

LEMMA StayTurns ==
  ASSUME Types, NEW t \in Threads, calls[t] = <<>>, calls' = calls
  PROVE  Turns(t, <<>>)
  <1>1. calls \in [Threads -> Seq(Frames)]
    BY DEF Types
  <1>2. calls = [calls EXCEPT ![t] = <<>>] /\ <<>> \in Seq(Frames)
    BY <1>1
  <1>. QED BY <1>2, EnterTurns

-----------------------------------------------------------------------------
(* The end of the statement *)

\* Once CancelTasks has returned no task exists, and a thread that destroyed one
\* is at most releasing executor_lock.
LEMMA QuietEnd ==
  ASSUME TaskInv, phase \in {"teardown", "destroyed"}
  PROVE  /\ Live = {} /\ active = {} /\ queue = <<>> /\ rescheduled = {}
         /\ \A t \in Threads : held[t] = None
         /\ \A t \in Threads : calls[t] # <<>> =>
              /\ Len(calls[t]) = 1 /\ calls[t][1][1] = "unlock" /\ executorLock = t
         /\ \A k \in PlanTasks : ~Alive(k)
  <1>1. Types /\ Shapes /\ Holding /\ Counted
    BY DEF TaskInv
  <1>2. Live = {}
    BY <1>1, LiveIs, FS_EmptySet DEF Counted
  <1>3. \A t \in Threads : held[t] = None
    BY <1>2 DEF Live, Referenced
  <1>4. active = {}
    BY <1>1, <1>3 DEF Holding, Types
  <1>5. rescheduled = {}
    <2>1. rescheduled \subseteq PlanTasks /\ None \notin PlanTasks
      BY <1>1, PlanFacts DEF Types
    <2>. QED BY <1>2, <2>1 DEF Live, Referenced
  <1>6. queue = <<>>
    <2>1. queue \in Seq(PlanTasks) /\ None \notin PlanTasks
      BY <1>1, PlanFacts DEF Types
    <2>2. Range(queue) \subseteq {None}
      BY <1>2 DEF Live, Referenced
    <2>3. ASSUME queue # <<>> PROVE FALSE
      <3>1. 1 \in DOMAIN queue /\ queue[1] \in PlanTasks
        BY <2>1, <2>3
      <3>. QED BY <2>1, <2>2, <3>1 DEF Range
    <2>. QED BY <2>3
  <1>7. ASSUME NEW t \in Threads, calls[t] # <<>>
        PROVE  Len(calls[t]) = 1 /\ calls[t][1][1] = "unlock" /\ executorLock = t
    <2>1. calls[t] \in Seq(Frames) /\ Shaped(t, calls[t])
      BY <1>1 DEF Types, Shapes
    <2>2. t # Client
      BY <1>1, <1>7 DEF Holding
    <2>3. PICK n \in Nat : n = Len(calls[t]) /\ n >= 1 /\ DOMAIN calls[t] = 1 .. n
      BY <1>7, <2>1
    <2>4. calls[t][n][1] \in {"release", "wake", "unlock"} /\ calls[t][n] \in Frames
      BY <1>7, <2>1, <2>2, <2>3 DEF Shaped
    <2>5. calls[t][n][1] \notin {"release", "wake"}
      <3>. SUFFICES ASSUME calls[t][n][1] \in {"release", "wake"}
                    PROVE  FALSE
        OBVIOUS
      <3>1. calls[t][n][2] \in FrameTasks(calls[t])
        BY <2>3 DEF FrameTasks
      <3>2. calls[t][n][2] \in PlanTasks
        BY <2>4 DEF Frames, TaskFrames
      <3>3. calls[t][n][2] # None
        BY <1>1, <3>2, PlanFacts DEF Types
      <3>. QED BY <1>2, <3>1, <3>3 DEF Live, Referenced
    <2>6. n = 1
      <3>1. calls[t][n][1] = "unlock"
        BY <2>4, <2>5
      <3>2. \A i \in 2 .. n : calls[t][i][1] # "unlock"
        BY <2>1, <2>3 DEF Shaped
      <3>3. n \notin 2 .. n
        BY <3>1, <3>2
      <3>4. n \in Nat /\ n >= 1
        BY <2>3
      <3>. QED BY ONLY <3>3, <3>4
    <2>. QED BY <1>7, <2>1, <2>3, <2>4, <2>5, <2>6 DEF Shaped
  <1>8. \A k \in PlanTasks : ~Alive(k)
    BY <1>1, <1>2, PlanFacts DEF Alive, Live, Types
  <1>. QED BY <1>2, <1>3, <1>4, <1>5, <1>6, <1>7, <1>8

\* Inside a call a thread executes no task, and the client is at a known place.
LEMMA CallHolding ==
  ASSUME TaskInv, NEW t \in Threads, NEW m, Turns(t, m), calls[t] # <<>>,
         \A i \in 1 .. Len(m) : m[i][1] # "deschedule",
         held' = held, active' = active,
         phase' = phase \/ (phase = "asleep" /\ phase' = "drain")
  PROVE  Holding'
  <1>1. Types /\ Holding
    BY DEF TaskInv
  <1>2. \A u \in Threads : u # t => calls'[u] = calls[u]
    BY <1>1, TurnsCalls
  <1>3. t \notin active
    BY <1>1 DEF Holding
  <1>4. t = Client => phase \notin {"execute", "reset", "asleep", "teardown", "destroyed"}
    BY <1>1 DEF Holding
  <1>5. Client \in Threads
    BY DEF Threads
  <1>6. \A u \in active' : calls'[u] = <<>> /\ held'[u] # None
    BY <1>1, <1>2, <1>3 DEF Holding, Types
  <1>7. phase' \in {"execute", "reset", "asleep", "teardown", "destroyed"} =>
          calls'[Client] = <<>>
    BY <1>1, <1>2, <1>4, <1>5 DEF Holding
  <1>8. /\ \A u \in Threads \ {Client} : held'[u] # None => u \in active'
        /\ Client \in active' => phase' = "after"
        /\ phase' \in {"mark", "drain", "asleep", "teardown", "destroyed"} =>
             held'[Client] = None
    BY <1>1 DEF Holding
  <1>9. \A u \in Threads : InCall(u, "deschedule")' => held'[u] = None
    <2>1. Shapes
      BY DEF TaskInv
    <2>2. \A u \in Threads : InCall(u, "deschedule")' => InCall(u, "deschedule")
      BY <1>1, <2>1, HoldsAfter
    <2>. QED BY <1>1, <2>2 DEF Holding
  <1>. QED BY <1>6, <1>7, <1>8, <1>9 DEF Holding

-----------------------------------------------------------------------------
(* The innermost frame *)

LEMMA TopFrame ==
  ASSUME Types, NEW t \in Threads, NEW name, InCall(t, name)
  PROVE  /\ calls[t] # <<>> /\ calls[t] \in Seq(Frames)
         /\ Head(calls[t]) = calls[t][1] /\ calls[t][1] \in Frames
         /\ calls[t][1][1] = name
         /\ name = "parent" =>
              /\ calls[t][1][2] \in PlanEvents /\ calls[t][1][3] \in PlanEvents
              /\ calls[t][1] = <<"parent", calls[t][1][2], calls[t][1][3]>>
         /\ name = "finalize" =>
              calls[t][1][2] \in PlanEvents /\ calls[t][1] = <<"finalize", calls[t][1][2]>>
         /\ name = "unblock" => calls[t][1][2] \in plan.pipelines
         /\ name \in {"wake", "deschedule", "release", "unlock"} =>
              calls[t][1][2] \in PlanTasks /\ calls[t][1] = <<name, calls[t][1][2]>>
         /\ name \notin {"wake", "deschedule", "release"} => TopTasks(t) = {}
         /\ name \in {"wake", "deschedule", "release"} => TopTasks(t) = {calls[t][1][2]}
  <1>1. calls[t] # <<>> /\ calls[t] \in Seq(Frames)
    BY DEF InCall, Types
  <1>2. Head(calls[t]) = calls[t][1] /\ calls[t][1] \in Frames
    BY <1>1
  <1>3. calls[t][1][1] = name
    BY <1>2 DEF InCall
  <1>4. PICK f \in Frames : f = calls[t][1]
    BY <1>2
  <1>5. CASE f \in {"parent"} \X PlanEvents \X PlanEvents
    <2>1. TopTasks(t) = {}
      BY <1>1, <1>4, <1>5 DEF TopTasks, TasksIn
    <2>. QED BY <1>1, <1>2, <1>3, <1>4, <1>5, <2>1
  <1>6. CASE f \in {"finalize"} \X PlanEvents
    <2>1. TopTasks(t) = {}
      BY <1>1, <1>4, <1>6 DEF TopTasks, TasksIn
    <2>. QED BY <1>1, <1>2, <1>3, <1>4, <1>6, <2>1
  <1>7. CASE f \in {"unblock"} \X plan.pipelines
    <2>1. TopTasks(t) = {}
      BY <1>1, <1>4, <1>7 DEF TopTasks, TasksIn
    <2>. QED BY <1>1, <1>2, <1>3, <1>4, <1>7, <2>1
  <1>8. CASE f \in TaskFrames
    <2>1. f[1] \notin {"wake", "deschedule", "release"} => TopTasks(t) = {}
      BY <1>1, <1>4 DEF TopTasks, TasksIn
    <2>2. f[1] \in {"wake", "deschedule", "release"} => TopTasks(t) = {f[2]}
      BY <1>1, <1>4 DEF TopTasks, TasksIn
    <2>3. f[2] \in PlanTasks /\ f[1] \in {"wake", "deschedule", "release", "unlock"}
          /\ f = <<f[1], f[2]>>
      BY <1>8 DEF TaskFrames
    <2>. QED BY <1>1, <1>2, <1>3, <1>4, <2>1, <2>2, <2>3
  <1>. QED BY <1>4, <1>5, <1>6, <1>7, <1>8 DEF Frames

\* A worker or waker in a call that ends with a reference has that call ahead.
LEMMA MoreToDo ==
  ASSUME Types, Shapes, NEW t \in Threads, calls[t] # <<>>, t # Client,
         calls[t][1][1] \notin {"release", "wake", "unlock"}
  PROVE  Rest(calls[t]) # <<>>
  <1>1. calls[t] \in Seq(Frames) /\ Shaped(t, calls[t])
    BY DEF Types, Shapes
  <1>2. PICK n \in Nat : n = Len(calls[t]) /\ n >= 1
    BY <1>1
  <1>3. n # 1
    BY <1>1, <1>2 DEF Shaped
  <1>4. Len(Rest(calls[t])) = n - 1
    BY <1>1, <1>2, RestIs
  <1>5. ASSUME Rest(calls[t]) = <<>> PROVE FALSE
    <2>1. Len(Rest(calls[t])) = 0
      BY <1>5
    <2>2. n \in Nat /\ n - 1 = 0
      BY <1>4, <2>1
    <2>. QED BY ONLY <1>3, <2>2
  <1>. QED BY <1>5

\* The tasks that exist stay the same.
LEMMA SameLive ==
  ASSUME Types, NEW t \in Threads, NEW m, Turns(t, m),
         \A u \in Threads : u # t => held'[u] = held[u],
         Range(queue) \cup rescheduled \cup {held[t]} \cup TopTasks(t)
            \subseteq Range(queue') \cup rescheduled' \cup {held'[t]} \cup TasksIn(Range(m))
                       \cup Kept(t) \cup {None},
         Range(queue') \cup rescheduled' \cup {held'[t]} \cup TasksIn(Range(m))
            \subseteq Range(queue) \cup rescheduled \cup {held[t]} \cup TopTasks(t)
                       \cup Kept(t) \cup {None}
  PROVE  Live' = Live
  <1>1. Referenced(calls) = Range(queue) \cup rescheduled \cup {held[t]}
                             \cup TopTasks(t) \cup Kept(t)
    BY ReferencedIs
  <1>2. Referenced(calls)' = Range(queue') \cup rescheduled' \cup {held'[t]}
                              \cup TasksIn(Range(m)) \cup Kept(t)
    BY ReferencedAfter
  <1>3. Referenced(calls) \cup {None} = Referenced(calls)' \cup {None}
    BY ONLY <1>1, <1>2,
         Range(queue) \cup rescheduled \cup {held[t]} \cup TopTasks(t)
            \subseteq Range(queue') \cup rescheduled' \cup {held'[t]} \cup TasksIn(Range(m))
                       \cup Kept(t) \cup {None},
         Range(queue') \cup rescheduled' \cup {held'[t]} \cup TasksIn(Range(m))
            \subseteq Range(queue) \cup rescheduled \cup {held[t]} \cup TopTasks(t)
                       \cup Kept(t) \cup {None}
  <1>. QED BY <1>3 DEF Live

\* With the same tasks the counter and the events they belong to still fit.
LEMMA SameTasks ==
  ASSUME TaskInv, plan' = plan, Types', Shapes', Holding', OwnedOnce', Remembered',
         Live' = Live, executorTasks' = executorTasks,
         phase' \notin {"teardown", "destroyed"},
         \A e \in PlanEvents : needs'[e] = needs[e] \/ (e[2] = "inserted" /\ needs'[e] = 1),
         \A e \in PlanEvents : met'[e] = met[e] \/ met'[e] = met[e] + 1
  PROVE  TaskInv'
  <1>1. Types /\ Counted /\ Fresh
    BY DEF TaskInv
  <1>2. Counted'
    BY <1>1 DEF Counted
  <1>3. Fresh'
    <2>. SUFFICES ASSUME NEW k \in Live PROVE Begun(EventOf(k))'
      BY DEF Fresh
    <2>1. PICK e \in PlanEvents : e = EventOf(k)
      BY <1>1, LiveIs DEF PlanTasks, EventOf
    <2>2. Begun(e)
      BY <1>1, <2>1 DEF Fresh
    <2>3. met[e] \in Nat /\ needs[e] \in Nat
      BY <1>1, PlanFacts DEF Types
    <2>4. met'[e] \in Nat /\ met'[e] >= met[e]
      BY <2>3
    <2>5. Begun(e)'
      BY <2>2, <2>3, <2>4 DEF Begun
    <2>. QED BY <2>1, <2>5
  <1>. QED BY <1>2, <1>3 DEF TaskInv

\* A step inside a call that neither parks nor wakes a task.
LEMMA CallStep ==
  ASSUME TaskInv, plan' = plan, Types', NEW t \in Threads, NEW m, Turns(t, m),
         calls[t] # <<>>, calls[t][1][1] \notin {"wake", "deschedule"},
         \A i \in 1 .. Len(m) : m[i][1] \notin {"deschedule", "unlock"},
         \/ t = Client \/ m = <<>> \/ Rest(calls[t]) # <<>>
         \/ m[Len(m)][1] \in {"release", "wake", "unlock"},
         \A u \in Threads : u # t /\ executorLock = u => executorLock' = u,
         held' = held, active' = active, queue' = queue, rescheduled' = rescheduled,
         blockedTasks' = blockedTasks, cancelled' = cancelled,
         phase' = phase \/ (phase = "asleep" /\ phase' = "drain")
  PROVE  Shapes' /\ Holding' /\ OwnedOnce' /\ Remembered'
  <1>1. Types /\ Shapes /\ OwnedOnce /\ Remembered
    BY DEF TaskInv
  <1>2. Shapes'
    BY <1>1, TurnsShapes
  <1>3. Holding'
    BY CallHolding
  <1>4. \A u \in Threads : \A k \in PlanTasks : Holds(u, k)' => Holds(u, k)
    <2>. SUFFICES ASSUME NEW u \in Threads, NEW k \in PlanTasks, Holds(u, k)'
                  PROVE  Holds(u, k)
      OBVIOUS
    <2>1. CASE u = t
      <3>1. held'[t] = k
        BY <1>1, <2>1, HoldsAfter
      <3>. QED BY <2>1, <3>1 DEF Holds
    <2>2. CASE u # t
      BY <1>1, <2>2, HoldsAfter
    <2>. QED BY <2>1, <2>2
  <1>5. OwnedOnce'
    BY <1>1, <1>4, OwnedShrinks
  <1>6. Remembered'
    BY <1>1, RememberedKept
  <1>. QED BY <1>2, <1>3, <1>5, <1>6

-----------------------------------------------------------------------------
(* Tasks are queued *)

\* Whoever has a task refers to it.
LEMMA OwnedLive ==
  ASSUME Types, NEW k \in PlanTasks, Owned(k)
  PROVE  k \in Live
  <1>1. k # None
    BY PlanFacts DEF Types
  <1>2. ASSUME NEW t \in Threads, Holds(t, k) PROVE k \in Live
    <2>1. CASE held[t] = k
      BY <1>1, <2>1 DEF Live, Referenced
    <2>2. CASE InCall(t, "deschedule") /\ Head(calls[t])[2] = k
      <3>1. TopTasks(t) = {k}
        BY <2>2, TopFrame
      <3>. QED BY <1>1, <3>1, ReferencedIs DEF Live
    <2>. QED BY <1>2, <2>1, <2>2 DEF Holds
  <1>. QED BY <1>1, <1>2 DEF Owned, Live, Referenced, Range

\* Tasks that nobody had are appended to the queue.
LEMMA OwnedQueued ==
  ASSUME Types, OwnedOnce, plan' = plan, NEW s \in Seq(PlanTasks), queue' = queue \o s,
         rescheduled' \subseteq rescheduled,
         \A i, j \in DOMAIN s : s[i] = s[j] => i = j,
         \A i \in DOMAIN s : /\ s[i] \notin Range(queue) \cup rescheduled'
                             /\ \A u \in Threads : ~Holds(u, s[i]),
         \A u \in Threads : \A k \in PlanTasks : Holds(u, k)' => Holds(u, k)
  PROVE  OwnedOnce'
  <1>1. PlanTasks' = PlanTasks
    BY PlanSame
  <1>2. queue \in Seq(PlanTasks) /\ rescheduled \subseteq PlanTasks
    BY DEF Types
  <1>3. PICK n \in Nat, l \in Nat : n = Len(queue) /\ l = Len(s)
    BY <1>2
  <1>4. PICK q \in Seq(PlanTasks) : q = queue'
    BY <1>2, ConcatProperties
  <1>5. /\ DOMAIN q = 1 .. n + l /\ DOMAIN queue = 1 .. n /\ DOMAIN s = 1 .. l
        /\ \A i \in 1 .. n + l : q[i] = IF i <= n THEN queue[i] ELSE s[i - n]
    BY <1>2, <1>3, <1>4, ConcatProperties
  <1>6. ASSUME NEW i \in 1 .. n + l
        PROVE  \/ i <= n /\ i \in DOMAIN queue /\ q[i] = queue[i]
               \/ i > n /\ i - n \in DOMAIN s /\ q[i] = s[i - n]
    <2>1. CASE i <= n
      BY <1>5, <2>1
    <2>2. CASE i > n
      <3>1. i - n \in 1 .. l /\ ~(i <= n)
        BY ONLY <2>2, n \in Nat, l \in Nat, i \in 1 .. n + l
      <3>. QED BY <1>5, <2>2, <3>1
    <2>. QED BY <2>1, <2>2
  <1>7. \A i, j \in DOMAIN q : q[i] = q[j] => i = j
    <2>. SUFFICES ASSUME NEW i \in 1 .. n + l, NEW j \in 1 .. n + l, q[i] = q[j]
                  PROVE  i = j
      BY <1>5
    <2>1. CASE i <= n /\ j <= n
      BY <1>6, <2>1 DEF OwnedOnce
    <2>2. CASE i > n /\ j > n
      <3>1. i - n = j - n
        BY <1>6, <2>2
      <3>. QED BY <1>3, <3>1
    <2>3. CASE i <= n /\ j > n
      BY <1>6, <2>3 DEF Range
    <2>4. CASE i > n /\ j <= n
      BY <1>6, <2>4 DEF Range
    <2>. QED BY <1>3, <2>1, <2>2, <2>3, <2>4
  <1>8. \A i \in DOMAIN q : q[i] \notin rescheduled'
    BY <1>5, <1>6 DEF OwnedOnce
  <1>9. \A i \in DOMAIN q, u \in Threads : ~Holds(u, q[i])'
    <2>. SUFFICES ASSUME NEW i \in 1 .. n + l, NEW u \in Threads, Holds(u, q[i])'
                  PROVE  FALSE
      BY <1>5
    <2>1. PICK k \in PlanTasks : k = q[i]
      BY <1>4, <1>5
    <2>2. Holds(u, k)
      BY <2>1
    <2>. QED BY <1>6, <2>1, <2>2 DEF OwnedOnce
  <1>10. \A u \in Threads : \A k \in rescheduled' : ~Holds(u, k)'
    BY <1>2 DEF OwnedOnce
  <1>11. \A u, v \in Threads : \A k \in PlanTasks' : Holds(u, k)' /\ Holds(v, k)' => u = v
    BY <1>1 DEF OwnedOnce
  <1>. QED BY <1>4, <1>7, <1>8, <1>9, <1>10, <1>11 DEF OwnedOnce

\* A step of a call that leaves everybody's tasks alone gives nobody a task.
LEMMA NobodyTakes ==
  ASSUME Types, Shapes, NEW t \in Threads, NEW m, Turns(t, m), held' = held,
         \A i \in 1 .. Len(m) : m[i][1] # "deschedule"
  PROVE  \A u \in Threads : \A k \in PlanTasks : Holds(u, k)' => Holds(u, k)
  <1>. SUFFICES ASSUME NEW u \in Threads, NEW k \in PlanTasks, Holds(u, k)'
                PROVE  Holds(u, k)
    OBVIOUS
  <1>1. CASE u = t
    <2>1. held'[t] = k
      BY <1>1, HoldsAfter
    <2>. QED BY <1>1, <2>1 DEF Holds
  <1>2. CASE u # t
    BY <1>2, HoldsAfter
  <1>. QED BY <1>1, <1>2

-----------------------------------------------------------------------------
(* Each step keeps the part about threads and tasks *)

LEMMA NotOver ==
  ASSUME TaskInv, NEW t \in Threads, calls[t] # <<>>, calls[t][1][1] # "unlock"
  PROVE  phase \notin {"teardown", "destroyed"}
  BY QuietEnd

\* CompleteDependency, as the cases of what it finds.
LEMMA DependencyCases ==
  ASSUME Types, NEW t \in Threads, CompleteDependency(t),
         NEW e, e = calls[t][1][2]
  PROVE  /\ calls[t] # <<>> /\ calls[t][1][1] = "parent" /\ e \in PlanEvents
         /\ met' = [met EXCEPT ![e] = @ + 1]
         /\ UNCHANGED <<plan, parents, needs, done, rescheduled, stateVars, flagVars, held,
                        active, executorLock>>
         /\ \/ /\ met[e] + 1 = needs[e] /\ ScheduledTasks(e) # {}
               /\ SetTasks(e) /\ Turns(t, <<>>) /\ finished' = finished
            \/ /\ met[e] + 1 = needs[e] /\ ScheduledTasks(e) = {}
               /\ Turns(t, FinishCalls(e)) /\ finished' = finished \cup {e}
               /\ UNCHANGED <<queue, executorTasks, total, phase>>
            \/ /\ met[e] + 1 # needs[e]
               /\ Turns(t, <<>>) /\ finished' = finished
               /\ UNCHANGED <<queue, executorTasks, total, phase>>
  <1>1. /\ calls[t] # <<>> /\ Head(calls[t]) = calls[t][1] /\ calls[t][1][1] = "parent"
        /\ e \in PlanEvents
    BY TopFrame DEF CompleteDependency
  <1>2. FinishCalls(e) \in Seq(Frames) /\ <<>> \in Seq(Frames)
    BY <1>1, FinishCallsIs
  <1>3. met' = [met EXCEPT ![e] = @ + 1]
    BY <1>1 DEF CompleteDependency
  <1>4. UNCHANGED <<plan, parents, needs, done, stateVars, flagVars, held, active, executorLock>>
    BY DEF CompleteDependency
  <1>5. CASE met[e] + 1 = needs[e] /\ ScheduledTasks(e) # {}
    <2>1. SetTasks(e) /\ Return(t, <<>>) /\ UNCHANGED <<rescheduled, finished>>
      BY <1>1, <1>5 DEF CompleteDependency
    <2>2. Turns(t, <<>>)
      BY <1>1, <1>2, <2>1, ReturnTurns
    <2>. QED BY <1>1, <1>3, <1>4, <1>5, <2>1, <2>2
  <1>6. CASE met[e] + 1 = needs[e] /\ ScheduledTasks(e) = {}
    <2>1. Return(t, FinishCalls(e)) /\ finished' = finished \cup {e}
          /\ UNCHANGED <<taskVars, total, phase>>
      BY <1>1, <1>6 DEF CompleteDependency
    <2>2. Turns(t, FinishCalls(e))
      BY <1>1, <1>2, <2>1, ReturnTurns
    <2>. QED BY <1>1, <1>3, <1>4, <1>6, <2>1, <2>2 DEF taskVars
  <1>7. CASE met[e] + 1 # needs[e]
    <2>1. Return(t, <<>>) /\ finished' = finished /\ UNCHANGED <<taskVars, total, phase>>
      BY <1>1, <1>7 DEF CompleteDependency
    <2>2. Turns(t, <<>>)
      BY <1>1, <1>2, <2>1, ReturnTurns
    <2>. QED BY <1>1, <1>3, <1>4, <1>7, <2>1, <2>2 DEF taskVars
  <1>. QED BY <1>5, <1>6, <1>7

LEMMA RangeAt ==
  ASSUME NEW F, NEW m \in Seq(F)
  PROVE  \A i \in 1 .. Len(m) : m[i] \in Range(m)
  BY DEF Range

LEMMA EmptyList ==
  /\ Range(<<>>) = {} /\ Len(<<>>) = 0
  /\ TasksIn(Range(<<>>)) = {}
  BY DEF Range, TasksIn

\* The last dependency of an event with tasks: the tasks are new.
LEMMA DependencySchedules ==
  ASSUME TaskInv, NEW t \in Threads, NEW e \in PlanEvents,
         calls[t] # <<>>, InCall(t, "parent"),
         met' = [met EXCEPT ![e] = @ + 1],
         UNCHANGED <<plan, parents, needs, done, rescheduled, stateVars, flagVars, held,
                     active, executorLock>>,
         met[e] + 1 = needs[e], SetTasks(e), Turns(t, <<>>), finished' = finished
  PROVE  TaskInv'
  <1>1. Types /\ Shapes /\ Holding /\ Counted /\ Fresh /\ OwnedOnce /\ Remembered
    BY DEF TaskInv
  <1>2. calls[t][1][1] = "parent" /\ TopTasks(t) = {}
    BY <1>1, TopFrame
  <1>3. /\ ScheduledTasks(e) \subseteq PlanTasks /\ IsFiniteSet(ScheduledTasks(e))
        /\ \A k \in ScheduledTasks(e) : EventOf(k) = e
    BY <1>1, ScheduledIs DEF Types
  <1>4. PICK s \in Seq(ScheduledTasks(e)) :
           /\ s = SetToSeq(ScheduledTasks(e))
           /\ Len(s) = Cardinality(ScheduledTasks(e))
           /\ \A i, j \in 1 .. Cardinality(ScheduledTasks(e)) : s[i] = s[j] => i = j
           /\ Range(s) = ScheduledTasks(e)
    BY <1>3, ListOfSet
  <1>5. /\ total' = [total EXCEPT ![e] = Len(s)]
        /\ executorTasks' = executorTasks + Len(s)
        /\ queue' = queue \o s
        /\ phase' = IF phase = "asleep" THEN "drain" ELSE phase
    BY <1>4 DEF SetTasks
  <1>6. s \in Seq(PlanTasks) /\ Len(s) \in Nat /\ DOMAIN s = 1 .. Len(s)
    BY <1>3, <1>4
  <1>7. ASSUME NEW k \in ScheduledTasks(e) PROVE k \notin Live
    <2>1. EventOf(k) = e
      BY <1>3, <1>7
    <2>2. met[e] \in Nat /\ needs[e] \in Nat
      BY <1>1, PlanFacts DEF Types
    <2>3. ~Begun(e)
      BY <2>2 DEF Begun
    <2>. QED BY <1>1, <2>1, <2>3 DEF Fresh
  <1>8. Range(queue') = Range(queue) \cup ScheduledTasks(e)
    BY <1>1, <1>4, <1>5, <1>6, RangeConcatenation DEF Types
  <1>9. Live' = Live \cup ScheduledTasks(e)
    <2>1. Referenced(calls) = Range(queue) \cup rescheduled \cup {held[t]}
                               \cup TopTasks(t) \cup Kept(t)
      BY <1>1, ReferencedIs
    <2>2. Referenced(calls)' = Range(queue') \cup rescheduled' \cup {held'[t]}
                                \cup TasksIn(Range(<<>>)) \cup Kept(t)
      BY <1>1, ReferencedAfter
    <2>3. Referenced(calls)' = Referenced(calls) \cup ScheduledTasks(e)
      BY <1>2, <1>8, <2>1, <2>2, EmptyList
    <2>4. None \notin ScheduledTasks(e)
      BY <1>1, <1>3, PlanFacts DEF Types
    <2>. QED BY <2>3, <2>4 DEF Live
  <1>10. Types'
    <2>1. queue' \in Seq(PlanTasks)
      BY <1>1, <1>5, <1>6, ConcatProperties DEF Types
    <2>2. calls' \in [Threads -> Seq(Frames)]
      BY <1>1, TurnsCalls
    <2>3. e \in Events
      BY <1>1, PlanFacts DEF Types
    <2>4. met' \in [Events -> Nat] /\ total' \in [Events -> Nat] /\ executorTasks' \in Nat
      BY <1>1, <1>5, <1>6, <2>3 DEF Types
    <2>5. phase' \in Phases
      BY <1>1, <1>5 DEF Types, Phases
    <2>6. PlanEvents' = PlanEvents /\ PlanTasks' = PlanTasks /\ Frames' = Frames
      BY PlanSame
    <2>. QED BY <1>1, <2>1, <2>2, <2>4, <2>5, <2>6 DEF Types, stateVars, flagVars
  <1>11. phase \notin {"teardown", "destroyed"} /\ phase' \notin {"teardown", "destroyed"}
    BY <1>2, <1>5, NotOver
  <1>12. Shapes'
    <2>1. \A i \in 1 .. Len(<<>>) : /\ <<>>[i][1] # "deschedule"
                                    /\ <<>>[i][1] = "unlock" => i = 1 /\ executorLock' = t
      BY EmptyList
    <2>. QED BY <1>1, <2>1, TurnsShapes
  <1>13. Holding'
    <2>1. \A i \in 1 .. Len(<<>>) : <<>>[i][1] # "deschedule"
      BY EmptyList
    <2>. QED BY <1>5, <2>1, CallHolding
  <1>14. Counted'
    <2>1. Live \cap ScheduledTasks(e) = {}
      BY <1>7
    <2>2. IsFiniteSet(Live)
      BY <1>1, LiveIs
    <2>3. Cardinality(Live') = Cardinality(Live) + Cardinality(ScheduledTasks(e))
                                - Cardinality({})
      BY <1>3, <1>9, <2>1, <2>2, FS_Union
    <2>4. Cardinality(Live) \in Nat /\ Cardinality({}) = 0
      BY <2>2, FS_CardinalityType, FS_EmptySet
    <2>5. Cardinality(Live') = executorTasks'
      BY <1>1, <1>4, <1>5, <1>6, <2>3, <2>4 DEF Counted
    <2>. QED BY <1>11, <2>5 DEF Counted
  <1>15. Fresh'
    <2>1. \A k \in ScheduledTasks(e) : Begun(EventOf(k))'
      <3>1. met[e] \in Nat /\ needs[e] \in Nat /\ met'[e] = met[e] + 1
        BY <1>1, PlanFacts DEF Types
      <3>2. Begun(e)'
        BY <3>1 DEF Begun
      <3>. QED BY <1>3, <3>2
    <2>2. \A d \in PlanEvents : met'[d] = met[d] \/ met'[d] = met[d] + 1
      BY <1>1, PlanFacts DEF Types
    <2>. QED BY <1>1, <1>9, <2>1, <2>2, FreshKept, LiveIs
  <1>16. OwnedOnce'
    <2>1. \A i \in 1 .. Len(<<>>) : <<>>[i][1] # "deschedule"
      BY EmptyList
    <2>2. \A u \in Threads : \A k \in PlanTasks : Holds(u, k)' => Holds(u, k)
      BY <1>1, <2>1, NobodyTakes
    <2>3. ASSUME NEW i \in DOMAIN s
          PROVE  /\ s[i] \notin Range(queue) \cup rescheduled'
                 /\ \A u \in Threads : ~Holds(u, s[i])
      <3>1. s[i] \in ScheduledTasks(e) /\ s[i] \in PlanTasks
        BY <1>3, <1>4, <2>3
      <3>2. ~Owned(s[i])
        BY <1>1, <1>7, <3>1, OwnedLive
      <3>. QED BY <3>2 DEF Owned, Range
    <2>. QED BY <1>1, <1>4, <1>5, <1>6, <2>2, <2>3, OwnedQueued
  <1>17. Remembered'
    <2>1. \A i \in 1 .. Len(<<>>) : <<>>[i][1] # "deschedule"
      BY EmptyList
    <2>. QED BY <1>1, <1>2, <2>1, RememberedKept DEF stateVars, flagVars
  <1>. QED
    BY <1>10, <1>12, <1>13, <1>14, <1>15, <1>16, <1>17 DEF TaskInv

\* A call between events, or one of PushError's, that goes on with such calls.
LEMMA PlainCall ==
  ASSUME TaskInv, plan' = plan, Types', NEW t \in Threads, NEW m, Turns(t, m),
         NEW name \in {"parent", "finalize", "unblock"}, InCall(t, name),
         \A f \in Range(m) : f[1] \in {"parent", "finalize", "unblock", "unlock"}
                             /\ f[1] # "unlock",
         UNCHANGED <<needs, queue, executorTasks, rescheduled, blockedTasks, cancelled,
                     held, active, executorLock, phase>>,
         \A e \in PlanEvents : met'[e] = met[e] \/ met'[e] = met[e] + 1
  PROVE  TaskInv'
  <1>1. Types /\ Shapes
    BY DEF TaskInv
  <1>2. calls[t] # <<>> /\ calls[t][1][1] = name /\ TopTasks(t) = {}
    BY <1>1, TopFrame
  <1>3. m \in Seq(Frames)
    BY DEF Turns
  <1>4. \A i \in 1 .. Len(m) : m[i] \in Range(m)
    BY <1>3, RangeAt
  <1>5. \A i \in 1 .. Len(m) : m[i][1] \notin {"deschedule", "unlock"}
    BY <1>4
  <1>6. t # Client => Rest(calls[t]) # <<>>
    BY <1>1, <1>2, MoreToDo
  <1>7. Shapes' /\ Holding' /\ OwnedOnce' /\ Remembered'
    BY <1>2, <1>5, <1>6, CallStep
  <1>8. TasksIn(Range(m)) = {}
    BY ListTasks
  <1>9. Live' = Live
    BY <1>1, <1>2, <1>8, SameLive
  <1>10. phase' \notin {"teardown", "destroyed"}
    BY <1>2, NotOver
  <1>. QED BY <1>7, <1>9, <1>10, SameTasks

LEMMA CompleteDependencyTasks ==
  ASSUME TaskInv, NEW t \in Threads, CompleteDependency(t)
  PROVE  TaskInv'
  <1>1. Types
    BY DEF TaskInv
  <1>2. PICK e : e = calls[t][1][2]
    OBVIOUS
  <1>3. InCall(t, "parent")
    BY DEF CompleteDependency
  <1>4. /\ calls[t] # <<>> /\ calls[t][1][1] = "parent" /\ e \in PlanEvents
        /\ met' = [met EXCEPT ![e] = @ + 1]
        /\ UNCHANGED <<plan, parents, needs, done, rescheduled, stateVars, flagVars, held,
                       active, executorLock>>
    BY <1>1, <1>2, DependencyCases
  <1>5. e \in Events /\ \A d \in PlanEvents : met'[d] = met[d] \/ met'[d] = met[d] + 1
    BY <1>1, <1>4, PlanFacts DEF Types
  <1>6. CASE met[e] + 1 = needs[e] /\ SetTasks(e) /\ Turns(t, <<>>) /\ finished' = finished
    BY <1>3, <1>4, <1>6, DependencySchedules
  <1>7. ASSUME NEW m, Turns(t, m), m = <<>> \/ m = FinishCalls(e),
               finished' \subseteq finished \cup {e},
               UNCHANGED <<queue, executorTasks, total, phase>>
        PROVE  TaskInv'
    <2>1. \A f \in Range(m) : f[1] \in {"parent", "finalize", "unblock", "unlock"}
                              /\ f[1] # "unlock"
      BY <1>1, <1>4, <1>7, EmptyList, FinishCallsIs DEF ParentCalls
    <2>2. Types'
      <3>1. calls' \in [Threads -> Seq(Frames)]
        BY <1>1, <1>7, TurnsCalls
      <3>2. met' \in [Events -> Nat]
        BY <1>1, <1>4, <1>5 DEF Types
      <3>3. finished' \subseteq PlanEvents
        BY <1>1, <1>4, <1>7 DEF Types
      <3>4. PlanEvents' = PlanEvents /\ PlanTasks' = PlanTasks /\ Frames' = Frames
        BY <1>4, PlanSame
      <3>. QED BY <1>1, <1>4, <1>7, <3>1, <3>2, <3>3, <3>4 DEF Types, stateVars, flagVars
    <2>. QED BY <1>3, <1>4, <1>5, <1>7, <2>1, <2>2, PlainCall DEF stateVars, flagVars
  <1>8. \/ met[e] + 1 = needs[e] /\ SetTasks(e) /\ Turns(t, <<>>) /\ finished' = finished
        \/ /\ Turns(t, FinishCalls(e)) /\ finished' = finished \cup {e}
           /\ UNCHANGED <<queue, executorTasks, total, phase>>
        \/ /\ Turns(t, <<>>) /\ finished' = finished
           /\ UNCHANGED <<queue, executorTasks, total, phase>>
    BY <1>1, <1>2, DependencyCases
  <1>. QED BY <1>6, <1>7, <1>8

\* ScheduleFails, as what it changes and the calls it makes.
ScheduleFailsEffect(t, e, m) ==
    /\ calls[t] # <<>> /\ calls[t][1][1] = "parent" /\ e \in PlanEvents
    /\ e[2] = "execute" /\ met[e] + 1 = needs[e]
    /\ met' = [met EXCEPT ![e] = @ + 1]
    /\ finished' = finished \cup {e} /\ error' = TRUE /\ interrupted' = TRUE
    /\ Turns(t, m)
    /\ Range(m) = UnblockCalls \cup ParentCalls(e)
    /\ UNCHANGED <<plan, parents, needs, total, done, taskVars, stateVars, cancelled,
                   completed, result, held, active, executorLock, phase>>

LEMMA ScheduleFailsIs ==
  ASSUME Types, NEW t \in Threads, ScheduleFails(t), NEW e, e = calls[t][1][2],
         NEW m, m = PushErrorCalls \o FinishCalls(e)
  PROVE  ScheduleFailsEffect(t, e, m)
  <1>1. /\ calls[t] # <<>> /\ Head(calls[t]) = calls[t][1] /\ calls[t][1][1] = "parent"
        /\ e \in PlanEvents
    BY TopFrame DEF ScheduleFails
  <1>2. /\ e[2] = "execute" /\ met[e] + 1 = needs[e]
        /\ met' = [met EXCEPT ![e] = @ + 1]
        /\ finished' = finished \cup {e} /\ error' = TRUE /\ interrupted' = TRUE
        /\ Return(t, PushErrorCalls \o FinishCalls(e))
        /\ UNCHANGED <<plan, parents, needs, total, done, taskVars, stateVars, cancelled,
                       completed, result, held, active, executorLock, phase>>
    BY <1>1 DEF ScheduleFails
  <1>3. PICK a \in Seq(Frames) : a = PushErrorCalls
           /\ Range(a) = UnblockCalls
    BY PushErrorIs
  <1>4. PICK b \in Seq(Frames) : b = FinishCalls(e)
           /\ Range(b) = ParentCalls(e)
                \cup (IF e[2] = "complete" THEN {<<"finalize", e>>} ELSE {})
    BY <1>1, FinishCallsIs
  <1>5. a \o b \in Seq(Frames) /\ Range(a \o b) = Range(a) \cup Range(b)
    BY RangeOfBoth
  <1>6. Turns(t, a \o b)
    BY <1>1, <1>2, <1>3, <1>4, <1>5, ReturnTurns
  <1>7. m = a \o b /\ Turns(t, m) /\ Range(m) = UnblockCalls \cup ParentCalls(e)
    BY <1>2, <1>3, <1>4, <1>5, <1>6
  <1>. QED BY <1>1, <1>2, <1>7 DEF ScheduleFailsEffect

LEMMA ScheduleFailsTasks ==
  ASSUME TaskInv, NEW t \in Threads, ScheduleFails(t)
  PROVE  TaskInv'
  <1>1. Types
    BY DEF TaskInv
  <1>2. PICK e, m : e = calls[t][1][2] /\ m = PushErrorCalls \o FinishCalls(e)
    OBVIOUS
  <1>3. InCall(t, "parent")
    BY DEF ScheduleFails
  <1>4. /\ e \in PlanEvents /\ met' = [met EXCEPT ![e] = @ + 1]
        /\ finished' = finished \cup {e} /\ error' = TRUE /\ interrupted' = TRUE
        /\ Turns(t, m)
        /\ Range(m) = UnblockCalls \cup ParentCalls(e)
        /\ UNCHANGED <<plan, parents, needs, total, done, taskVars, stateVars, cancelled,
                       completed, result, held, active, executorLock, phase>>
    <2>1. ScheduleFailsEffect(t, e, m)
      BY <1>1, <1>2, ScheduleFailsIs
    <2>. QED BY <2>1 DEF ScheduleFailsEffect
  <1>5. e \in Events /\ \A d \in PlanEvents : met'[d] = met[d] \/ met'[d] = met[d] + 1
    BY <1>1, <1>4, PlanFacts DEF Types
  <1>6. \A f \in Range(m) : f[1] \in {"parent", "finalize", "unblock", "unlock"}
                            /\ f[1] # "unlock"
    BY <1>4 DEF UnblockCalls, ParentCalls
  <1>7. Types'
    <2>1. calls' \in [Threads -> Seq(Frames)]
      BY <1>1, <1>4, TurnsCalls
    <2>2. met' \in [Events -> Nat] /\ finished' \subseteq PlanEvents
      BY <1>1, <1>4, <1>5 DEF Types
    <2>3. PlanEvents' = PlanEvents /\ PlanTasks' = PlanTasks /\ Frames' = Frames
      BY <1>4, PlanSame
    <2>. QED BY <1>1, <1>4, <2>1, <2>2, <2>3 DEF Types, stateVars, taskVars
  <1>. QED BY <1>3, <1>4, <1>5, <1>6, <1>7, PlainCall DEF stateVars, taskVars

LEMMA FinalizeFinishIs ==
  ASSUME Types, NEW t \in Threads, FinalizeFinish(t)
  PROVE  /\ Turns(t, <<>>) /\ completed' = completed + 1
         /\ UNCHANGED <<plan, eventVars, taskVars, stateVars, cancelled, result, error,
                        interrupted, held, active, executorLock, phase>>
  <1>1. calls[t] # <<>> /\ <<>> \in Seq(Frames)
    BY DEF FinalizeFinish, InCall
  <1>2. Return(t, <<>>)
    BY DEF FinalizeFinish
  <1>. QED BY <1>1, <1>2, ReturnTurns DEF FinalizeFinish

LEMMA FinalizeFinishTasks ==
  ASSUME TaskInv, NEW t \in Threads, FinalizeFinish(t)
  PROVE  TaskInv'
  <1>1. Types
    BY DEF TaskInv
  <1>2. /\ Turns(t, <<>>) /\ completed' = completed + 1
        /\ UNCHANGED <<plan, eventVars, taskVars, stateVars, cancelled, result, error,
                       interrupted, held, active, executorLock, phase>>
    BY <1>1, FinalizeFinishIs
  <1>3. InCall(t, "finalize")
    BY DEF FinalizeFinish
  <1>4. Types'
    <2>1. calls' \in [Threads -> Seq(Frames)]
      BY <1>1, <1>2, TurnsCalls
    <2>2. PlanEvents' = PlanEvents /\ PlanTasks' = PlanTasks /\ Frames' = Frames
      BY <1>2, PlanSame
    <2>. QED BY <1>1, <1>2, <2>1, <2>2 DEF Types, stateVars, taskVars, eventVars
  <1>. QED BY <1>2, <1>3, <1>4, EmptyList, PlainCall DEF stateVars, taskVars, eventVars

\* A step that neither makes nor ends calls between events, and in which no
\* task is added to the ones to be executed.
Calm ==
    /\ \A k \in PlanTasks : Owned(k)' => Owned(k)
    /\ \A f : f[1] \in EventFrames => (Has(f)' <=> Has(f))
    /\ Once => Once'

LEMMA CalmTurns ==
  ASSUME Types, Shapes, NEW t \in Threads, NEW m, Turns(t, m),
         calls[t] # <<>> => calls[t][1][1] \notin EventFrames,
         \A i \in 1 .. Len(m) : m[i][1] \notin EventFrames /\ m[i][1] # "deschedule",
         \A u \in Threads : u # t => held'[u] = held[u],
         \A k \in PlanTasks : k \in Range(queue') \cup rescheduled' \cup {held'[t]} => Owned(k)
  PROVE  Calm
  <1>1. ASSUME NEW k \in PlanTasks, Owned(k)' PROVE Owned(k)
    <2>1. CASE \E i \in DOMAIN queue' : queue'[i] = k
      <3>1. k \in Range(queue')
        BY <2>1 DEF Range
      <3>. QED BY <3>1
    <2>2. CASE \E u \in Threads : Holds(u, k)'
      <3>1. PICK u \in Threads : Holds(u, k)'
        BY <2>2
      <3>2. CASE u = t
        <4>1. held'[t] = k
          BY <3>1, <3>2, HoldsAfter
        <4>. QED BY <4>1
      <3>3. CASE u # t
        <4>1. Holds(u, k)
          BY <3>1, <3>3, HoldsAfter
        <4>. QED BY <4>1 DEF Owned
      <3>. QED BY <3>2, <3>3
    <2>3. CASE k \in rescheduled'
      BY <2>3
    <2>. QED BY <1>1, <2>1, <2>2, <2>3 DEF Owned
  <1>2. ASSUME NEW f, f[1] \in EventFrames PROVE Has(f)' <=> Has(f)
    <2>1. f \notin Range(m)
      <3>1. m \in Seq(Frames)
        BY DEF Turns
      <3>. QED BY <1>2, <3>1 DEF Range
    <2>2. calls[t] # <<>> => calls[t][1] # f
      BY <1>2
    <2>. QED BY <2>1, <2>2, TurnsHas
  <1>3. Once => Once'
    BY TurnsOnce
  <1>. QED BY <1>1, <1>2, <1>3 DEF Calm

\* The usual case: what is queued or parked was so before.
LEMMA CalmShrinks ==
  ASSUME Types, Shapes, NEW t \in Threads, NEW m, Turns(t, m),
         calls[t] # <<>> => calls[t][1][1] \notin EventFrames,
         \A i \in 1 .. Len(m) : m[i][1] \notin EventFrames /\ m[i][1] # "deschedule",
         \A u \in Threads : u # t => held'[u] = held[u],
         Range(queue') \cup rescheduled' \cup {held'[t]}
            \subseteq Range(queue) \cup rescheduled \cup {held[t], None}
  PROVE  Calm
  <1>1. None \notin PlanTasks
    BY PlanFacts DEF Types
  <1>2. ASSUME NEW k \in PlanTasks, k \in Range(queue) \cup rescheduled \cup {held[t]}
        PROVE  Owned(k)
    <2>1. CASE k \in Range(queue)
      BY <2>1 DEF Owned, Range
    <2>2. CASE k \in rescheduled
      BY <2>2 DEF Owned
    <2>3. CASE k = held[t]
      BY <2>3 DEF Owned, Holds
    <2>. QED BY <1>2, <2>1, <2>2, <2>3
  <1>3. \A k \in PlanTasks : k \in Range(queue') \cup rescheduled' \cup {held'[t]} => Owned(k)
    BY <1>1, <1>2
  <1>. QED BY <1>3, CalmTurns

\* Parked tasks are remembered when they keep a wake-up.
LEMMA RememberedIf ==
  ASSUME Types, Shapes, Remembered, plan' = plan, cancelled' = cancelled,
         NEW t \in Threads, NEW m, Turns(t, m),
         \A i \in 1 .. Len(m) : m[i][1] # "deschedule",
         rescheduled' \subseteq rescheduled,
         \A k \in PlanTasks : Parking(k) /\ Parking(k)' /\ Woken(k) => Woken(k)'
  PROVE  Remembered'
  <1>1. PlanTasks' = PlanTasks
    BY PlanSame
  <1>2. cancelled' => rescheduled' = {}
    BY DEF Remembered
  <1>3. ASSUME ~cancelled', NEW k \in PlanTasks, Parking(k)'
        PROVE  Woken(k)'
    <2>1. Parking(k)
      <3>1. CASE k \in rescheduled'
        BY <3>1 DEF Parking
      <3>2. CASE k \notin rescheduled'
        <4>1. PICK u \in Threads : InCall(u, "deschedule")' /\ Head(calls'[u])[2] = k
          BY <1>3, <3>2 DEF Parking
        <4>2. u # t /\ InCall(u, "deschedule") /\ Head(calls[u])[2] = k
          BY <4>1, HoldsAfter
        <4>. QED BY <4>2 DEF Parking
      <3>. QED BY <3>1, <3>2
    <2>2. Woken(k)
      BY <1>3, <2>1 DEF Remembered
    <2>. QED BY <1>3, <2>1, <2>2
  <1>. QED BY <1>1, <1>2, <1>3 DEF Remembered

LEMMA ParkingAlive ==
  ASSUME Types, NEW k \in PlanTasks, Parking(k)
  PROVE  Alive(k)
  <1>1. Owned(k)
    BY DEF Parking, Owned, Holds
  <1>. QED BY <1>1, OwnedLive DEF Alive, Live

LEMMA PreventBlockingTasks ==
  ASSUME TaskInv, NEW t \in Threads, PreventBlocking(t)
  PROVE  TaskInv' /\ Calm
  <1>1. Types /\ Shapes /\ OwnedOnce /\ Remembered
    BY DEF TaskInv
  <1>2. InCall(t, "unblock")
    BY DEF PreventBlocking
  <1>3. PICK p : p = calls[t][1][2]
    OBVIOUS
  <1>4. /\ calls[t] # <<>> /\ Head(calls[t]) = calls[t][1] /\ calls[t][1][1] = "unblock"
        /\ p \in plan.pipelines /\ TopTasks(t) = {}
    BY <1>1, <1>2, <1>3, TopFrame
  <1>5. UNCHANGED <<plan, eventVars, taskVars, flagVars, initialized, held, active,
                    executorLock, phase>>
    BY DEF PreventBlocking
  <1>6. PICK K : K = {k \in blockedTasks[p] : Alive(k)}
    OBVIOUS
  <1>7. PICK s : s = SetToSeq(K)
    OBVIOUS
  <1>8. PICK w : w = [i \in DOMAIN s |-> <<"wake", s[i]>>]
    OBVIOUS
  <1>9. p \in AllPipelines
    BY <1>1, <1>4, PlanFacts DEF Types
  <1>10. K \subseteq PlanTasks /\ IsFiniteSet(K) /\ K \subseteq Live
    <2>1. K \subseteq PlanTasks
      BY <1>1, <1>6, <1>9 DEF Types
    <2>2. IsFiniteSet(K)
      BY <1>1, <2>1, PlanFacts, FS_Subset DEF Types
    <2>3. None \notin PlanTasks
      BY <1>1, PlanFacts DEF Types
    <2>. QED BY <1>6, <2>1, <2>2, <2>3 DEF Live, Alive
  <1>11. w \in Seq(Frames) /\ Range(w) = {<<"wake", k>> : k \in K}
    BY <1>7, <1>8, <1>10, TaskListIs
  <1>12. CASE plan.base[p] \notin initialized
    <2>1. Return(t, <<>>) /\ UNCHANGED <<canBlock, blockedTasks>>
      BY <1>3, <1>4, <1>12 DEF PreventBlocking
    <2>2. <<>> \in Seq(Frames)
      OBVIOUS
    <2>3. Turns(t, <<>>)
      BY <1>1, <1>4, <2>1, <2>2, ReturnTurns
    <2>4. calls' \in [Threads -> Seq(Frames)]
      BY <1>1, <2>3, TurnsCalls
    <2>5. PlanEvents' = PlanEvents /\ PlanTasks' = PlanTasks /\ Frames' = Frames
      BY <1>5, PlanSame
    <2>6. Types'
      BY <1>1, <1>5, <2>1, <2>4, <2>5 DEF Types, eventVars, taskVars, flagVars
    <2>7. TaskInv'
      BY <1>2, <1>5, <2>1, <2>3, <2>6, EmptyList, PlainCall DEF eventVars, taskVars, flagVars
    <2>8. Calm
      BY <1>1, <1>4, <1>5, <2>3, EmptyList, CalmShrinks DEF taskVars, EventFrames
    <2>. QED BY <2>7, <2>8
  <1>13. CASE plan.base[p] \in initialized
    <2>1. /\ canBlock' = [canBlock EXCEPT ![p] = FALSE]
          /\ blockedTasks' = [blockedTasks EXCEPT ![p] = {}]
          /\ Return(t, w)
      BY <1>3, <1>4, <1>6, <1>7, <1>8, <1>13 DEF PreventBlocking
    <2>2. Turns(t, w)
      BY <1>1, <1>4, <1>11, <2>1, ReturnTurns
    <2>3. Types'
      <3>1. calls' \in [Threads -> Seq(Frames)]
        BY <1>1, <2>2, TurnsCalls
      <3>2. PlanEvents' = PlanEvents /\ PlanTasks' = PlanTasks /\ Frames' = Frames
        BY <1>5, PlanSame
      <3>3. /\ canBlock' \in [AllPipelines -> BOOLEAN]
            /\ blockedTasks' \in [AllPipelines -> SUBSET PlanTasks]
            /\ \A q \in AllPipelines : \A k \in blockedTasks'[q] : PipelineOf(k) = q
        BY <1>1, <1>9, <2>1 DEF Types
      <3>. QED BY <1>1, <1>5, <3>1, <3>2, <3>3 DEF Types, eventVars, taskVars, flagVars
    <2>4. \A i \in 1 .. Len(w) : w[i][1] = "wake"
      <3>1. \A i \in 1 .. Len(w) : w[i] \in Range(w)
        BY <1>11, RangeAt
      <3>. QED BY <1>11, <3>1
    <2>5. t # Client => Rest(calls[t]) # <<>>
      BY <1>1, <1>4, MoreToDo
    <2>6. Shapes'
      BY <1>1, <1>5, <2>2, <2>4, <2>5, TurnsShapes
    <2>7. Holding'
      BY <1>4, <1>5, <2>2, <2>4, CallHolding
    <2>8. OwnedOnce'
      <3>1. \A u \in Threads : \A k \in PlanTasks : Holds(u, k)' => Holds(u, k)
        BY <1>1, <1>5, <2>2, <2>4, NobodyTakes
      <3>. QED BY <1>1, <1>5, <3>1, OwnedShrinks DEF taskVars
    <2>9. Remembered'
      <3>1. ASSUME NEW k \in PlanTasks, Parking(k), Woken(k)
            PROVE  Woken(k)'
        <4>1. PICK f : f = <<"wake", k>>
          OBVIOUS
        <4>2. CASE Has(f)
          <5>1. calls[t][1] # f
            BY <1>4, <4>1
          <5>2. Has(f)'
            BY <1>1, <2>2, <4>2, <5>1, TurnsHas
          <5>. QED BY <4>1, <5>2 DEF Woken
        <4>3. CASE k \in blockedTasks[PipelineOf(k)] /\ PipelineOf(k) # p
          <5>1. PipelineOf(k) \in AllPipelines
            BY <1>1, PlanFacts DEF PlanTasks, PlanEvents, PipelineOf, Types
          <5>2. blockedTasks'[PipelineOf(k)] = blockedTasks[PipelineOf(k)]
            BY <1>1, <2>1, <4>3, <5>1 DEF Types
          <5>. QED BY <4>3, <5>2 DEF Woken
        <4>4. CASE k \in blockedTasks[PipelineOf(k)] /\ PipelineOf(k) = p
          <5>1. k \in K
            BY <1>1, <1>6, <3>1, <4>4, ParkingAlive
          <5>2. f \in Range(w)
            BY <1>11, <4>1, <5>1
          <5>3. Has(f)'
            BY <1>1, <2>2, <5>2, TurnsHas
          <5>. QED BY <4>1, <5>3 DEF Woken
        <4>. QED BY <3>1, <4>1, <4>2, <4>3, <4>4 DEF Woken
      <3>. QED BY <1>1, <1>5, <2>2, <2>4, <3>1, RememberedIf DEF taskVars, flagVars
    <2>10. Live' = Live
      <3>1. TasksIn(Range(w)) = K
        BY <1>11, ListTasks
      <3>2. K \subseteq Range(queue) \cup rescheduled \cup {held[t]} \cup TopTasks(t) \cup Kept(t)
        BY <1>1, <1>10, ReferencedIs DEF Live
      <3>. QED BY <1>1, <1>4, <1>5, <2>2, <3>1, <3>2, SameLive DEF taskVars
    <2>11. phase' \notin {"teardown", "destroyed"}
      BY <1>4, <1>5, NotOver
    <2>12. TaskInv'
      BY <1>5, <2>3, <2>6, <2>7, <2>8, <2>9, <2>10, <2>11, SameTasks DEF eventVars, taskVars
    <2>13. Calm
      BY <1>1, <1>4, <1>5, <2>2, <2>4, CalmShrinks DEF taskVars, EventFrames
    <2>. QED BY <2>12, <2>13
  <1>. QED BY <1>12, <1>13

\* RescheduleTask, as what it does with the task.
LEMMA RescheduleTaskIs ==
  ASSUME Types, NEW t \in Threads, RescheduleTask(t), NEW k, k = calls[t][1][2],
         NEW m, m = <<<<"release", k>>>>
  PROVE  /\ calls[t] # <<>> /\ calls[t][1] = <<"wake", k>> /\ k \in PlanTasks
         /\ TopTasks(t) = {k} /\ Turns(t, m)
         /\ Len(m) = 1 /\ m[1] = <<"release", k>> /\ Range(m) = {<<"release", k>>}
         /\ TasksIn(Range(m)) = {k}
         /\ UNCHANGED <<plan, eventVars, executorTasks, stateVars, flagVars, held, active,
                        executorLock, phase>>
         /\ \/ cancelled /\ rescheduled' = rescheduled /\ queue' = queue
            \/ /\ ~cancelled /\ k \in rescheduled
               /\ rescheduled' = rescheduled \ {k} /\ queue' = Append(queue, k)
  <1>1. InCall(t, "wake")
    BY DEF RescheduleTask
  <1>2. /\ calls[t] # <<>> /\ Head(calls[t]) = calls[t][1] /\ calls[t][1] = <<"wake", k>>
        /\ k \in PlanTasks /\ TopTasks(t) = {k}
    BY <1>1, TopFrame
  <1>3. /\ m \in Seq(Frames) /\ Len(m) = 1 /\ m[1] = <<"release", k>>
        /\ Range(m) = {<<"release", k>>}
    BY <1>2, OneFrameIs
  <1>4. Return(t, m)
    BY <1>2 DEF RescheduleTask
  <1>5. Turns(t, m)
    BY <1>2, <1>3, <1>4, ReturnTurns
  <1>6. TasksIn(Range(m)) = {k}
    BY <1>3 DEF TasksIn
  <1>7. /\ UNCHANGED <<plan, eventVars, executorTasks, stateVars, flagVars, held, active,
                        executorLock, phase>>
        /\ cancelled \/ k \in rescheduled
        /\ IF cancelled
              THEN UNCHANGED <<rescheduled, queue>>
              ELSE rescheduled' = rescheduled \ {k} /\ queue' = Append(queue, k)
    BY <1>2 DEF RescheduleTask
  <1>. QED BY <1>2, <1>3, <1>5, <1>6, <1>7

LEMMA RescheduleTaskTasks ==
  ASSUME TaskInv, NEW t \in Threads, RescheduleTask(t)
  PROVE  TaskInv' /\ Calm
  <1>1. Types /\ Shapes /\ OwnedOnce /\ Remembered
    BY DEF TaskInv
  <1>2. PICK k, m : k = calls[t][1][2] /\ m = <<<<"release", k>>>>
    OBVIOUS
  <1>3. /\ calls[t] # <<>> /\ calls[t][1] = <<"wake", k>> /\ k \in PlanTasks
        /\ TopTasks(t) = {k} /\ Turns(t, m)
        /\ Len(m) = 1 /\ m[1] = <<"release", k>> /\ Range(m) = {<<"release", k>>}
        /\ TasksIn(Range(m)) = {k}
        /\ UNCHANGED <<plan, eventVars, executorTasks, stateVars, flagVars, held, active,
                       executorLock, phase>>
        /\ \/ cancelled /\ rescheduled' = rescheduled /\ queue' = queue
           \/ /\ ~cancelled /\ k \in rescheduled
              /\ rescheduled' = rescheduled \ {k} /\ queue' = Append(queue, k)
    BY <1>1, <1>2, RescheduleTaskIs
  <1>4. queue \in Seq(PlanTasks) /\ rescheduled \subseteq PlanTasks
    BY <1>1 DEF Types
  <1>5. PICK s : s = <<k>>
    OBVIOUS
  <1>6. s \in Seq(PlanTasks) /\ DOMAIN s = 1 .. 1 /\ s[1] = k /\ Append(queue, k) = queue \o s
        /\ Range(s) = {k}
    BY <1>3, <1>4, <1>5 DEF Range
  <1>7. queue' \in Seq(PlanTasks)
    BY <1>3, <1>4
  <1>8. Types'
    <2>1. calls' \in [Threads -> Seq(Frames)]
      BY <1>1, <1>3, TurnsCalls
    <2>2. PlanEvents' = PlanEvents /\ PlanTasks' = PlanTasks /\ Frames' = Frames
      BY <1>3, PlanSame
    <2>3. rescheduled' \subseteq PlanTasks
      BY <1>3, <1>4
    <2>. QED BY <1>1, <1>3, <1>7, <2>1, <2>2, <2>3 DEF Types, eventVars, stateVars, flagVars
  <1>9. \A i \in 1 .. Len(m) : m[i][1] = "release"
    BY <1>3
  <1>10. Shapes'
    BY <1>1, <1>3, <1>9, TurnsShapes
  <1>11. Holding'
    BY <1>3, <1>9, CallHolding
  <1>12. \A u \in Threads : \A j \in PlanTasks : Holds(u, j)' => Holds(u, j)
    BY <1>1, <1>3, <1>9, NobodyTakes
  <1>13. Range(queue') \cup rescheduled' \cup {k} = Range(queue) \cup rescheduled \cup {k}
    <2>1. CASE queue' = queue /\ rescheduled' = rescheduled
      BY <2>1
    <2>2. CASE queue' = Append(queue, k) /\ rescheduled' = rescheduled \ {k}
      <3>1. Range(queue') = Range(queue) \cup {k}
        BY <1>4, <1>6, <2>2, RangeConcatenation
      <3>. QED BY <2>2, <3>1
    <2>. QED BY <1>3, <2>1, <2>2
  <1>14. Live' = Live
    BY <1>1, <1>3, <1>13, SameLive
  <1>15. OwnedOnce'
    <2>1. CASE cancelled /\ rescheduled' = rescheduled /\ queue' = queue
      BY <1>1, <1>3, <1>12, <2>1, OwnedShrinks
    <2>2. CASE ~cancelled /\ k \in rescheduled
               /\ rescheduled' = rescheduled \ {k} /\ queue' = Append(queue, k)
      <3>1. \A i \in DOMAIN s : /\ s[i] \notin Range(queue) \cup rescheduled'
                                /\ \A u \in Threads : ~Holds(u, s[i])
        BY <1>1, <1>6, <2>2 DEF OwnedOnce, Range
      <3>. QED BY SMTT(40), <1>1, <1>3, <1>6, <1>12, <2>2, <3>1, OwnedQueued
    <2>. QED BY <1>3, <2>1, <2>2
  <1>16. Remembered'
    <2>1. CASE cancelled /\ rescheduled' = rescheduled /\ queue' = queue
      BY <1>1, <1>3, <2>1 DEF Remembered, flagVars
    <2>2. CASE ~cancelled /\ k \in rescheduled
               /\ rescheduled' = rescheduled \ {k} /\ queue' = Append(queue, k)
      <3>1. ASSUME NEW j \in PlanTasks, Parking(j), Parking(j)', Woken(j) PROVE Woken(j)'
        <4>1. j # k
          <5>1. CASE j \in rescheduled'
            BY <2>2, <5>1
          <5>2. CASE j \notin rescheduled'
            <6>1. PICK u \in Threads : InCall(u, "deschedule")' /\ Head(calls'[u])[2] = j
              BY <3>1, <5>2 DEF Parking
            <6>2. Holds(u, j)
              BY <1>12, <6>1 DEF Holds
            <6>. QED BY <1>1, <2>2, <6>2 DEF OwnedOnce
          <5>. QED BY <5>1, <5>2
        <4>2. PICK f : f = <<"wake", j>>
          OBVIOUS
        <4>3. calls[t][1] # f
          BY <1>3, <4>1, <4>2
        <4>4. Has(f) => Has(f)'
          BY <1>1, <1>3, <4>3, TurnsHas
        <4>. QED BY <1>3, <3>1, <4>2, <4>4 DEF Woken, stateVars
      <3>. QED BY <1>1, <1>3, <1>9, <2>2, <3>1, RememberedIf DEF flagVars
    <2>. QED BY <1>3, <2>1, <2>2
  <1>17. phase' \notin {"teardown", "destroyed"}
    BY <1>3, NotOver
  <1>18. TaskInv'
    BY <1>3, <1>8, <1>10, <1>11, <1>14, <1>15, <1>16, <1>17, SameTasks DEF eventVars
  <1>19. Calm
    <2>1. Range(queue') \cup rescheduled' \subseteq Range(queue) \cup rescheduled
      <3>1. CASE queue' = queue /\ rescheduled' = rescheduled
        BY <3>1
      <3>2. CASE /\ k \in rescheduled
                 /\ queue' = Append(queue, k) /\ rescheduled' = rescheduled \ {k}
        <4>1. Range(queue') = Range(queue) \cup {k}
          BY <1>4, <1>6, <3>2, RangeConcatenation
        <4>. QED BY <3>2, <4>1
      <3>. QED BY <1>3, <3>1, <3>2
    <2>. QED BY <1>1, <1>3, <1>9, <2>1, CalmShrinks DEF EventFrames
  <1>. QED BY <1>18, <1>19

LEMMA AddToBeRescheduledTasks ==
  ASSUME TaskInv, NEW t \in Threads, AddToBeRescheduled(t)
  PROVE  TaskInv' /\ Calm
  <1>1. Types /\ Shapes /\ OwnedOnce /\ Remembered
    BY DEF TaskInv
  <1>2. InCall(t, "deschedule")
    BY DEF AddToBeRescheduled
  <1>3. PICK k : k = calls[t][1][2]
    OBVIOUS
  <1>4. /\ calls[t] # <<>> /\ Head(calls[t]) = calls[t][1] /\ calls[t][1] = <<"deschedule", k>>
        /\ k \in PlanTasks /\ TopTasks(t) = {k}
    BY <1>1, <1>2, <1>3, TopFrame
  <1>5. /\ rescheduled' = IF cancelled THEN rescheduled ELSE rescheduled \cup {k}
        /\ Return(t, <<>>)
        /\ UNCHANGED <<plan, eventVars, queue, executorTasks, stateVars, flagVars,
                       held, active, executorLock, phase>>
    BY <1>3, <1>4 DEF AddToBeRescheduled
  <1>6. Turns(t, <<>>)
    <2>1. <<>> \in Seq(Frames)
      OBVIOUS
    <2>. QED BY <1>1, <1>4, <1>5, <2>1, ReturnTurns
  <1>7. \A i \in 1 .. Len(<<>>) : <<>>[i][1] \notin {"deschedule", "unlock"}
    BY EmptyList
  <1>8. Types'
    <2>1. calls' \in [Threads -> Seq(Frames)]
      BY <1>1, <1>6, TurnsCalls
    <2>2. PlanEvents' = PlanEvents /\ PlanTasks' = PlanTasks /\ Frames' = Frames
      BY <1>5, PlanSame
    <2>3. rescheduled' \subseteq PlanTasks
      BY <1>1, <1>4, <1>5 DEF Types
    <2>. QED BY <1>1, <1>5, <2>1, <2>2, <2>3 DEF Types, eventVars, stateVars, flagVars
  <1>9. Shapes'
    BY <1>1, <1>5, <1>6, <1>7, TurnsShapes
  <1>10. Holding'
    BY <1>4, <1>5, <1>6, <1>7, CallHolding
  <1>11. k \in Kept(t)
    <2>1. calls[t] \in Seq(Frames) /\ Len(calls[t]) = 2 /\ calls[t][2] = <<"release", k>>
      BY <1>1, <1>4 DEF Shapes, Shaped, Types
    <2>2. PICK r \in Seq(Frames) : r = Rest(calls[t]) /\ Len(r) = 1 /\ r[1] = calls[t][1 + 1]
      <3>1. /\ Rest(calls[t]) \in Seq(Frames) /\ Len(Rest(calls[t])) = Len(calls[t]) - 1
            /\ \A i \in 1 .. Len(Rest(calls[t])) : Rest(calls[t])[i] = calls[t][i + 1]
        BY <1>4, <2>1, RestIs
      <3>. QED BY <2>1, <3>1
    <2>3. <<"release", k>> \in Range(r)
      BY <2>1, <2>2 DEF Range
    <2>4. k \in TasksIn(Range(r))
      <3>1. PICK f : f = <<"release", k>>
        OBVIOUS
      <3>. QED BY <2>3, <3>1 DEF TasksIn
    <2>. QED BY <2>2, <2>4 DEF Kept
  <1>12. Live' = Live
    BY <1>1, <1>4, <1>5, <1>6, <1>11, EmptyList, SameLive
  <1>13. Holds(t, k) /\ ~Holds(t, k)'
    <2>1. Holds(t, k)
      BY <1>2, <1>4 DEF Holds
    <2>2. held[t] # k
      BY <1>1, <1>2, <1>4, PlanFacts DEF TaskInv, Holding, Types
    <2>. QED BY <1>1, <1>5, <1>6, <1>7, <2>1, <2>2, HoldsAfter
  <1>14. \A u \in Threads : \A j \in PlanTasks : Holds(u, j)' => Holds(u, j)
    BY <1>1, <1>5, <1>6, <1>7, NobodyTakes
  <1>15. OwnedOnce'
    <2>1. CASE cancelled
      BY <1>1, <1>5, <1>14, <2>1, OwnedShrinks
    <2>2. CASE ~cancelled
      <3>1. rescheduled' = rescheduled \cup {k} /\ queue' = queue /\ PlanTasks' = PlanTasks
        BY <1>5, <2>2, PlanSame
      <3>2. queue \in Seq(PlanTasks) /\ rescheduled \subseteq PlanTasks
        BY <1>1 DEF Types
      <3>3. \A i \in DOMAIN queue : queue[i] \in PlanTasks
        BY <3>2
      <3>4. \A i, j \in DOMAIN queue' : queue'[i] = queue'[j] => i = j
        BY <1>1, <3>1 DEF OwnedOnce
      <3>5. \A i \in DOMAIN queue' : queue'[i] \notin rescheduled'
        BY <1>1, <1>13, <3>1 DEF OwnedOnce
      <3>6. \A i \in DOMAIN queue', u \in Threads : ~Holds(u, queue[i])'
        BY <1>1, <1>14, <3>1, <3>3 DEF OwnedOnce
      <3>7. ASSUME NEW u \in Threads, NEW j \in rescheduled', Holds(u, j)' PROVE FALSE
        <4>1. j \in PlanTasks /\ Holds(u, j)
          BY <1>4, <1>14, <3>1, <3>2, <3>7
        <4>2. j = k
          BY <1>1, <3>1, <4>1 DEF OwnedOnce
        <4>3. u = t
          BY <1>1, <1>13, <4>1, <4>2 DEF OwnedOnce
        <4>. QED BY <1>13, <3>7, <4>2, <4>3
      <3>8. \A u, v \in Threads : \A j \in PlanTasks' : Holds(u, j)' /\ Holds(v, j)' => u = v
        BY <1>1, <1>14, <3>1 DEF OwnedOnce
      <3>. QED BY <3>4, <3>5, <3>6, <3>7, <3>8 DEF OwnedOnce
    <2>. QED BY <2>1, <2>2
  <1>16. Remembered'
    <2>1. cancelled => rescheduled' = {}
      BY <1>1, <1>5 DEF Remembered
    <2>2. ASSUME ~cancelled, NEW j \in PlanTasks, Parking(j)' PROVE Woken(j)'
      <3>1. Parking(j)
        <4>1. CASE j \in rescheduled'
          <5>1. j \in rescheduled \/ j = k
            BY <1>5, <4>1
          <5>. QED BY <1>2, <1>4, <5>1 DEF Parking
        <4>2. CASE j \notin rescheduled'
          <5>1. PICK u \in Threads : InCall(u, "deschedule")' /\ Head(calls'[u])[2] = j
            BY <2>2, <4>2 DEF Parking
          <5>2. u # t /\ InCall(u, "deschedule") /\ Head(calls[u])[2] = j
            BY <1>1, <1>6, <1>7, <5>1, HoldsAfter
          <5>. QED BY <5>2 DEF Parking
        <4>. QED BY <4>1, <4>2
      <3>2. Woken(j)
        BY <1>1, <2>2, <3>1 DEF Remembered
      <3>3. PICK f : f = <<"wake", j>>
        OBVIOUS
      <3>4. calls[t][1] # f
        BY <1>4, <3>3
      <3>5. Has(f) => Has(f)'
        BY <1>1, <1>6, <3>4, TurnsHas
      <3>. QED BY <1>5, <3>2, <3>3, <3>5 DEF Woken, stateVars
    <2>3. PlanTasks' = PlanTasks /\ cancelled' = cancelled
      BY <1>5, PlanSame DEF flagVars
    <2>. QED BY <2>1, <2>2, <2>3 DEF Remembered
  <1>17. phase' \notin {"teardown", "destroyed"}
    BY <1>4, <1>5, NotOver
  <1>18. TaskInv'
    BY <1>5, <1>8, <1>9, <1>10, <1>12, <1>15, <1>16, <1>17, SameTasks DEF eventVars
  <1>19. Calm
    <2>1. ASSUME NEW j \in PlanTasks, j \in Range(queue') \cup rescheduled' \cup {held'[t]}
          PROVE  Owned(j)
      <3>1. j \in Range(queue) \/ j \in rescheduled \/ j = held[t] \/ j = k
        BY <1>5, <2>1
      <3>2. CASE j \in Range(queue)
        BY <3>2 DEF Owned, Range
      <3>. QED BY <1>13, <3>1, <3>2 DEF Owned, Holds
    <2>. QED BY <1>1, <1>4, <1>5, <1>6, <2>1, EmptyList, CalmTurns DEF EventFrames
  <1>. QED BY <1>18, <1>19

LEMMA DropReferenceTasks ==
  ASSUME TaskInv, NEW t \in Threads, DropReference(t)
  PROVE  TaskInv' /\ Calm
  <1>1. Types /\ Shapes /\ OwnedOnce /\ Remembered
    BY DEF TaskInv
  <1>2. InCall(t, "release") /\ Shared(t) /\ Return(t, <<>>)
        /\ UNCHANGED <<plan, eventVars, taskVars, stateVars, flagVars, held, active,
                       executorLock, phase>>
    BY DEF DropReference
  <1>3. PICK k : k = calls[t][1][2]
    OBVIOUS
  <1>4. calls[t] # <<>> /\ calls[t][1] = <<"release", k>> /\ TopTasks(t) = {k}
    BY <1>1, <1>2, <1>3, TopFrame
  <1>5. Turns(t, <<>>)
    <2>1. <<>> \in Seq(Frames)
      OBVIOUS
    <2>. QED BY <1>1, <1>2, <1>4, <2>1, ReturnTurns
  <1>6. Types'
    <2>1. calls' \in [Threads -> Seq(Frames)]
      BY <1>1, <1>5, TurnsCalls
    <2>2. PlanEvents' = PlanEvents /\ PlanTasks' = PlanTasks /\ Frames' = Frames
      BY <1>2, PlanSame
    <2>. QED BY <1>1, <1>2, <2>1, <2>2 DEF Types, stateVars, taskVars, eventVars, flagVars
  <1>7. \A i \in 1 .. Len(<<>>) : <<>>[i][1] \notin {"deschedule", "unlock"}
    BY EmptyList
  <1>8. Shapes' /\ Holding' /\ OwnedOnce' /\ Remembered'
    BY <1>2, <1>4, <1>5, <1>6, <1>7, CallStep DEF taskVars, stateVars, flagVars
  <1>9. k \in Range(queue) \cup rescheduled \cup {held[t]} \cup Kept(t)
    BY <1>1, <1>2, <1>3, <1>4, ReferencedIs
  <1>10. Live' = Live
    BY <1>1, <1>2, <1>4, <1>5, <1>9, EmptyList, SameLive DEF taskVars
  <1>11. phase' \notin {"teardown", "destroyed"}
    BY <1>2, <1>4, NotOver
  <1>12. TaskInv'
    BY <1>2, <1>6, <1>8, <1>10, <1>11, SameTasks DEF eventVars, taskVars
  <1>13. Calm
    BY <1>1, <1>2, <1>4, <1>5, EmptyList, CalmShrinks DEF taskVars, EventFrames
  <1>. QED BY <1>12, <1>13

LEMMA UnregisterTaskTasks ==
  ASSUME TaskInv, NEW t \in Threads, UnregisterTask(t)
  PROVE  TaskInv' /\ Calm
  <1>1. Types /\ Shapes /\ Counted /\ Fresh /\ OwnedOnce /\ Remembered
    BY DEF TaskInv
  <1>2. InCall(t, "release") /\ ~Shared(t) /\ executorLock = None
    BY DEF UnregisterTask
  <1>3. PICK k, m : k = calls[t][1][2] /\ m = <<<<"unlock", k>>>>
    OBVIOUS
  <1>4. /\ calls[t] # <<>> /\ Head(calls[t]) = calls[t][1]
        /\ calls[t][1] = <<"release", k>> /\ TopTasks(t) = {k} /\ k \in PlanTasks
    BY <1>1, <1>2, <1>3, TopFrame
  <1>5. /\ executorLock' = t /\ executorTasks' = executorTasks - 1
        /\ phase' = IF phase = "asleep" THEN "drain" ELSE phase
        /\ Return(t, m)
        /\ UNCHANGED <<plan, eventVars, queue, rescheduled, stateVars, flagVars,
                       held, active>>
    BY <1>3, <1>4 DEF UnregisterTask
  <1>6. m \in Seq(Frames) /\ Len(m) = 1 /\ m[1] = <<"unlock", k>> /\ Range(m) = {<<"unlock", k>>}
    BY <1>3, <1>4, OneFrameIs
  <1>7. Turns(t, m)
    BY <1>1, <1>4, <1>5, <1>6, ReturnTurns
  <1>8. \A i \in 1 .. Len(m) : i = 1 /\ m[i][1] = "unlock"
    BY <1>6
  <1>9. k \notin Range(queue) \cup rescheduled \cup {held[t]} \cup Kept(t)
    BY <1>1, <1>2, <1>3, <1>4, ReferencedIs
  <1>10. Live = Live' \cup {k} /\ k \notin Live'
    <2>1. Referenced(calls) = Range(queue) \cup rescheduled \cup {held[t]}
                               \cup TopTasks(t) \cup Kept(t)
      BY <1>1, ReferencedIs
    <2>2. Referenced(calls)' = Range(queue') \cup rescheduled' \cup {held'[t]}
                                \cup TasksIn(Range(m)) \cup Kept(t)
      BY <1>1, <1>5, <1>7, ReferencedAfter
    <2>3. TasksIn(Range(m)) = {}
      BY <1>6 DEF TasksIn
    <2>4. Referenced(calls) = Referenced(calls)' \cup {k} /\ k \notin Referenced(calls)'
      BY <1>4, <1>5, <1>9, <2>1, <2>2, <2>3
    <2>5. k # None
      BY <1>1, <1>4, PlanFacts DEF Types
    <2>. QED BY <2>4, <2>5 DEF Live
  <1>11. /\ IsFiniteSet(Live') /\ Cardinality(Live') = executorTasks - 1
         /\ executorTasks - 1 \in Nat
    <2>1. IsFiniteSet(Live) /\ k \in Live /\ Live' = Live \ {k}
      BY <1>1, <1>10, LiveIs
    <2>2. IsFiniteSet(Live') /\ Cardinality(Live') = Cardinality(Live) - 1
      BY <2>1, FS_RemoveElement
    <2>3. Cardinality(Live') \in Nat
      BY <2>2, FS_CardinalityType
    <2>. QED BY <1>1, <2>2, <2>3 DEF Counted
  <1>12. phase \notin {"teardown", "destroyed"} /\ phase' \notin {"teardown", "destroyed"}
    BY <1>4, <1>5, NotOver
  <1>13. Types'
    <2>1. calls' \in [Threads -> Seq(Frames)]
      BY <1>1, <1>7, TurnsCalls
    <2>2. PlanEvents' = PlanEvents /\ PlanTasks' = PlanTasks /\ Frames' = Frames
      BY <1>5, PlanSame
    <2>3. phase' \in Phases
      BY <1>1, <1>5 DEF Types, Phases
    <2>. QED
      BY <1>1, <1>5, <1>11, <2>1, <2>2, <2>3 DEF Types, stateVars, eventVars, flagVars
  <1>14. Shapes'
    <2>1. None \notin Threads
      BY ExecutorAssumption
    <2>2. \A u \in Threads : u # t /\ executorLock = u => executorLock' = u
      BY <1>2, <2>1
    <2>3. m[Len(m)][1] \in {"release", "wake", "unlock"}
      BY <1>6
    <2>4. \A i \in 1 .. Len(m) : /\ m[i][1] # "deschedule"
                                 /\ m[i][1] = "unlock" => i = 1 /\ executorLock' = t
      BY <1>5, <1>8
    <2>. QED BY <1>1, <1>7, <2>2, <2>3, <2>4, TurnsShapes
  <1>15. Holding'
    BY <1>4, <1>5, <1>7, <1>8, CallHolding
  <1>16. Counted'
    BY <1>5, <1>11, <1>12 DEF Counted
  <1>17. Fresh'
    BY <1>1, <1>5, <1>10 DEF Fresh, Begun, eventVars
  <1>18. OwnedOnce'
    <2>1. \A u \in Threads : \A j \in PlanTasks : Holds(u, j)' => Holds(u, j)
      BY <1>1, <1>5, <1>7, <1>8, NobodyTakes
    <2>. QED BY <1>1, <1>5, <2>1, OwnedShrinks
  <1>19. Remembered'
    BY <1>1, <1>4, <1>5, <1>7, <1>8, RememberedKept DEF stateVars, flagVars
  <1>20. Calm
    BY <1>1, <1>4, <1>5, <1>7, <1>8, CalmShrinks DEF EventFrames
  <1>. QED
    BY <1>13, <1>14, <1>15, <1>16, <1>17, <1>18, <1>19, <1>20 DEF TaskInv

LEMMA UnregisteredTasks ==
  ASSUME TaskInv, NEW t \in Threads, Unregistered(t)
  PROVE  TaskInv' /\ Calm
  <1>1. Types /\ Shapes /\ Counted /\ Fresh /\ OwnedOnce /\ Remembered
    BY DEF TaskInv
  <1>2. /\ InCall(t, "unlock") /\ Return(t, <<>>)
        /\ executorLock' = IF executorLock = t THEN None ELSE executorLock
        /\ UNCHANGED <<plan, eventVars, taskVars, stateVars, flagVars, held, active, phase>>
    BY DEF Unregistered
  <1>3. calls[t] # <<>> /\ calls[t][1][1] = "unlock" /\ TopTasks(t) = {}
    BY <1>1, <1>2, TopFrame
  <1>4. executorLock = t
    BY <1>1, <1>3 DEF Shapes, Shaped
  <1>5. Turns(t, <<>>)
    <2>1. <<>> \in Seq(Frames)
      OBVIOUS
    <2>. QED BY <1>1, <1>2, <1>3, <2>1, ReturnTurns
  <1>6. Types'
    <2>1. calls' \in [Threads -> Seq(Frames)]
      BY <1>1, <1>5, TurnsCalls
    <2>2. PlanEvents' = PlanEvents /\ PlanTasks' = PlanTasks /\ Frames' = Frames
      BY <1>2, PlanSame
    <2>. QED BY <1>1, <1>2, <2>1, <2>2 DEF Types, stateVars, taskVars, eventVars, flagVars
  <1>7. \A i \in 1 .. Len(<<>>) : <<>>[i][1] \notin {"deschedule", "unlock"}
    BY EmptyList
  <1>8. Shapes' /\ Holding' /\ OwnedOnce' /\ Remembered'
    BY <1>2, <1>3, <1>4, <1>5, <1>6, <1>7, CallStep DEF taskVars, stateVars, flagVars
  <1>9. Live' = Live
    BY <1>1, <1>2, <1>3, <1>5, EmptyList, SameLive DEF taskVars
  <1>10. phase # "destroyed"
    BY <1>1, <1>3 DEF Counted
  <1>11. Counted'
    BY <1>1, <1>2, <1>9, <1>10 DEF Counted, taskVars
  <1>12. Fresh'
    BY <1>1, <1>2, <1>9 DEF Fresh, Begun, eventVars
  <1>13. Calm
    BY <1>1, <1>2, <1>3, <1>5, EmptyList, CalmShrinks DEF taskVars, EventFrames
  <1>. QED BY <1>6, <1>8, <1>11, <1>12, <1>13 DEF TaskInv

\* Calls that end in dropping the reference to the task.
LEMMA LeaveIs ==
  ASSUME NEW k \in PlanTasks, NEW a \in Seq(Frames), NEW m, m = a \o <<<<"release", k>>>>,
         \A f \in Range(a) : f[1] \in {"parent", "finalize", "unblock"}
  PROVE  /\ m \in Seq(Frames) /\ m # <<>> /\ m[Len(m)][1] = "release"
         /\ Range(m) = Range(a) \cup {<<"release", k>>}
         /\ \A i \in 1 .. Len(m) : m[i][1] \notin {"deschedule", "unlock", "wake"}
         /\ TasksIn(Range(m)) = {k}
  <1>1. PICK f : f = <<"release", k>>
    OBVIOUS
  <1>2. PICK b : b = <<f>>
    OBVIOUS
  <1>3. b \in Seq(Frames) /\ Len(b) = 1 /\ b[1] = f /\ Range(b) = {f}
    <2>1. b = <<<<"release", k>>>>
      BY <1>1, <1>2
    <2>. QED BY <1>1, <2>1, OneFrameIs
  <1>4. m = a \o b
    BY <1>1, <1>2
  <1>5. m \in Seq(Frames) /\ Range(m) = Range(a) \cup {f}
    BY <1>3, <1>4, RangeOfBoth
  <1>a. a \in Seq(Frames) /\ \A g \in Range(a) : g[1] \in {"parent", "finalize", "unblock"}
    OBVIOUS
  <1>b. f[1] = "release" /\ f[2] = k
    BY <1>1
  <1>6. m # <<>> /\ m[Len(m)] = f
    <2>1. PICK n \in Nat : n = Len(a)
      OBVIOUS
    <2>2. Len(m) = n + 1 /\ \A i \in 1 .. n + 1 : m[i] = IF i <= n THEN a[i] ELSE b[i - n]
      <3>1. Len(m) = Len(a) + Len(b)
            /\ \A i \in 1 .. Len(a) + Len(b) : m[i] = IF i <= Len(a) THEN a[i] ELSE b[i - Len(a)]
        <4>1. a \in Seq(Frames) /\ b \in Seq(Frames)
          BY <1>3
        <4>. QED BY ONLY <1>4, <4>1
      <3>. QED BY ONLY <1>3, <2>1, <3>1
    <2>3. n + 1 \in 1 .. n + 1 /\ ~(n + 1 <= n) /\ (n + 1) - n = 1 /\ n + 1 # 0
      BY ONLY n \in Nat
    <2>4. m[n + 1] = f
      BY ONLY <1>3, <2>2, <2>3
    <2>5. m # <<>>
      BY ONLY <2>2, <2>3, EmptyList
    <2>. QED BY ONLY <2>2, <2>4, <2>5
  <1>7. \A i \in 1 .. Len(m) : m[i][1] \notin {"deschedule", "unlock", "wake"}
    <2>1. \A i \in 1 .. Len(m) : m[i] \in Range(m)
      BY ONLY <1>5, RangeAt
    <2>. QED BY ONLY <1>a, <1>b, <1>5, <2>1
  <1>8. TasksIn(Range(m)) = {k}
    BY ONLY <1>a, <1>b, <1>5 DEF TasksIn
  <1>9. m[Len(m)][1] = "release"
    BY ONLY <1>b, <1>6
  <1>. QED BY ONLY <1>1, <1>5, <1>6, <1>7, <1>8, <1>9

\* Calls that are no calls about tasks.
LEMMA PlainList ==
  ASSUME NEW m \in Seq(Frames), \A f \in Range(m) : f[1] \in {"parent", "finalize", "unblock"}
  PROVE  /\ TasksIn(Range(m)) = {}
         /\ \A i \in 1 .. Len(m) : m[i][1] \notin {"deschedule", "unlock", "wake"}
  <1>1. \A i \in 1 .. Len(m) : m[i] \in Range(m)
    BY RangeAt
  <1>2. \A i \in 1 .. Len(m) : m[i][1] \notin {"deschedule", "unlock", "wake"}
    BY <1>1
  <1>3. TasksIn(Range(m)) = {}
    BY DEF TasksIn
  <1>. QED BY <1>2, <1>3

\* A thread in Task::Execute.
LEMMA ActiveIs ==
  ASSUME TaskInv, NEW t \in active
  PROVE  /\ t \in Threads /\ calls[t] = <<>> /\ TopTasks(t) = {} /\ Rest(calls[t]) = <<>>
         /\ held[t] \in PlanTasks /\ EventOf(held[t]) \in PlanEvents
         /\ PipelineOf(held[t]) \in plan.pipelines
         /\ PipelineOf(held[t]) = EventOf(held[t])[1]
         /\ TypeOf(held[t]) = EventOf(held[t])[2]
         /\ held[t] \in Live
         /\ phase \notin {"teardown", "destroyed"}
         /\ t = Client => phase = "after"
  <1>1. Types /\ Holding
    BY DEF TaskInv
  <1>2. t \in Threads /\ calls[t] = <<>> /\ held[t] # None /\ (t = Client => phase = "after")
    BY <1>1 DEF Holding, Types
  <1>3. held[t] \in PlanTasks
    BY <1>1, <1>2 DEF Types
  <1>4. TopTasks(t) = {} /\ Rest(calls[t]) = <<>>
    BY <1>2 DEF TopTasks, Rest
  <1>5. phase \notin {"teardown", "destroyed"}
    BY QuietEnd
  <1>6. held[t] \in Live
    BY <1>2 DEF Live, Referenced
  <1>. QED
    BY <1>2, <1>3, <1>4, <1>5, <1>6 DEF PlanTasks, PlanEvents, EventOf, PipelineOf, TypeOf

\* A thread leaves Task::Execute; the client may keep the task.
LEMMA SliceEnds ==
  ASSUME TaskInv, plan' = plan, Types', NEW t \in active, NEW k, k = held[t],
         NEW m, Turns(t, m), NEW h, h = None \/ (h = k /\ t = Client),
         \A i \in 1 .. Len(m) : m[i][1] \notin {"deschedule", "unlock", "wake"},
         t = Client \/ m[Len(m)][1] = "release",
         TasksIn(Range(m)) \subseteq {k}, k \in TasksIn(Range(m)) \/ h = k,
         held' = [held EXCEPT ![t] = h], active' = active \ {t},
         UNCHANGED <<queue, executorTasks, rescheduled, blockedTasks, cancelled,
                     executorLock, phase>>,
         \A e \in PlanEvents : needs'[e] = needs[e] \/ (e[2] = "inserted" /\ needs'[e] = 1),
         \A e \in PlanEvents : met'[e] = met[e] \/ met'[e] = met[e] + 1
  PROVE  TaskInv'
  <1>1. Types /\ Shapes /\ Holding /\ OwnedOnce /\ Remembered
    BY DEF TaskInv
  <1>2. /\ t \in Threads /\ calls[t] = <<>> /\ TopTasks(t) = {} /\ k \in PlanTasks
        /\ phase \notin {"teardown", "destroyed"} /\ (t = Client => phase = "after")
    BY ActiveIs
  <1>3. k # None /\ held'[t] = h /\ \A u \in Threads : u # t => held'[u] = held[u]
    BY <1>1, <1>2, PlanFacts DEF Types
  <1>4. \A u \in Threads : u # t => calls'[u] = calls[u]
    BY <1>1, <1>2, TurnsCalls
  <1>5. Shapes'
    BY <1>1, <1>2, TurnsShapes
  <1>6. \A u \in Threads : \A j \in PlanTasks : Holds(u, j)' => Holds(u, j)
    <2>. SUFFICES ASSUME NEW u \in Threads, NEW j \in PlanTasks, Holds(u, j)'
                  PROVE  Holds(u, j)
      OBVIOUS
    <2>1. CASE u = t
      <3>1. held'[t] = j
        BY <1>1, <1>2, <2>1, HoldsAfter
      <3>2. j # None
        BY <1>1, PlanFacts DEF Types
      <3>. QED BY <1>3, <2>1, <3>1, <3>2 DEF Holds
    <2>2. CASE u # t
      BY <1>1, <1>2, <1>3, <2>2, HoldsAfter
    <2>. QED BY <2>1, <2>2
  <1>7. Holding'
    <2>1. \A u \in active' : calls'[u] = <<>> /\ held'[u] # None
      BY <1>1, <1>3, <1>4 DEF Holding, Types
    <2>2. \A u \in Threads \ {Client} : held'[u] # None => u \in active'
      BY <1>1, <1>3 DEF Holding
    <2>3. \A u \in Threads : InCall(u, "deschedule")' => held'[u] = None
      <3>1. \A u \in Threads : InCall(u, "deschedule")' => InCall(u, "deschedule") /\ u # t
        BY <1>1, <1>2, HoldsAfter
      <3>. QED BY <1>1, <1>3, <3>1 DEF Holding
    <2>4. Client \in Threads
      BY DEF Threads
    <2>5. Client \in active' => phase' = "after"
      BY <1>1 DEF Holding
    <2>6. phase' \in {"execute", "reset", "asleep", "teardown", "destroyed"} =>
            calls'[Client] = <<>>
      BY <1>1, <1>2, <1>4, <2>4 DEF Holding
    <2>7. phase' \in {"mark", "drain", "asleep", "teardown", "destroyed"} =>
            held'[Client] = None
      BY <1>1, <1>2, <1>3, <2>4 DEF Holding
    <2>. QED BY <2>1, <2>2, <2>3, <2>5, <2>6, <2>7 DEF Holding
  <1>8. OwnedOnce'
    BY <1>1, <1>6, OwnedShrinks
  <1>9. Remembered'
    BY <1>1, <1>2, RememberedKept
  <1>10. Live' = Live
    BY <1>1, <1>2, <1>3, SameLive
  <1>. QED BY <1>2, <1>5, <1>7, <1>8, <1>9, <1>10, SameTasks

\* TaskFinishes, as the calls it makes.
LEMMA TaskFinishesIs ==
  ASSUME TaskInv, NEW t \in Threads, TaskFinishes(t), NEW k, k = held[t],
         NEW e, e = EventOf(k)
  PROVE  /\ t \in active /\ k \in PlanTasks /\ e \in PlanEvents
         /\ FinishTask(e)
         /\ active' = active \ {t} /\ held' = [held EXCEPT ![t] = None]
         /\ initialized' \subseteq initialized \cup {e[1]}
         /\ UNCHANGED <<plan, parents, needs, met, total, taskVars, canBlock, blockedTasks,
                        flagVars, executorLock, phase>>
         /\ \E a \in Seq(Frames), m \in Seq(Frames) :
              /\ a = IF e \in finished' THEN FinishCalls(e) ELSE <<>>
              /\ \A f \in Range(a) : f[1] \in {"parent", "finalize", "unblock"}
              /\ UniqueEvents(a)
              /\ m = a \o <<<<"release", k>>>>
              /\ Turns(t, m)
  <1>1. Types
    BY DEF TaskInv
  <1>2. /\ t \in active /\ FinishTask(e)
        /\ Leave(t, IF e \in finished' THEN FinishCalls(e) ELSE <<>>)
        /\ initialized' = IF TypeOf(k) = "initialize"
                          THEN initialized \cup {PipelineOf(k)} ELSE initialized
        /\ UNCHANGED <<plan, parents, needs, met, total, taskVars, canBlock, blockedTasks,
                       flagVars, executorLock, phase>>
    BY DEF TaskFinishes
  <1>3. k \in PlanTasks /\ e \in PlanEvents /\ PipelineOf(k) = e[1] /\ calls[t] = <<>>
    BY <1>2, ActiveIs
  <1>4. PICK a : a = IF e \in finished' THEN FinishCalls(e) ELSE <<>>
    OBVIOUS
  <1>5. /\ a \in Seq(Frames) /\ UniqueEvents(a)
        /\ \A f \in Range(a) : f[1] \in {"parent", "finalize", "unblock"}
    <2>1. CASE e \in finished'
      BY <1>1, <1>3, <1>4, <2>1, FinishCallsIs DEF ParentCalls
    <2>2. CASE e \notin finished'
      <3>1. a = <<>>
        BY <1>4, <2>2
      <3>2. \A i, j \in 1 .. Len(a) : i = j
        BY <3>1, EmptyList
      <3>. QED BY <3>1, <3>2, EmptyList DEF UniqueEvents
    <2>. QED BY <2>1, <2>2
  <1>6. PICK m : m = a \o <<<<"release", k>>>>
    OBVIOUS
  <1>7. m \in Seq(Frames)
    BY <1>3, <1>5, <1>6, LeaveIs
  <1>8. calls' = [calls EXCEPT ![t] = m]
    BY <1>2, <1>4, <1>6 DEF Leave
  <1>9. Turns(t, m)
    BY <1>1, <1>3, <1>7, <1>8, EnterTurns
  <1>10. active' = active \ {t} /\ held' = [held EXCEPT ![t] = None]
    BY <1>2 DEF Leave
  <1>. QED
    BY <1>2, <1>3, <1>4, <1>5, <1>6, <1>7, <1>9, <1>10

LEMMA TaskFinishesTasks ==
  ASSUME TaskInv, NEW t \in Threads, TaskFinishes(t)
  PROVE  TaskInv'
  <1>1. Types
    BY DEF TaskInv
  <1>2. PICK k, e : k = held[t] /\ e = EventOf(k)
    OBVIOUS
  <1>3. /\ t \in active /\ k \in PlanTasks /\ e \in PlanEvents
        /\ FinishTask(e)
        /\ active' = active \ {t} /\ held' = [held EXCEPT ![t] = None]
        /\ initialized' \subseteq initialized \cup {e[1]}
        /\ UNCHANGED <<plan, parents, needs, met, total, taskVars, canBlock, blockedTasks,
                       flagVars, executorLock, phase>>
    BY <1>2, TaskFinishesIs
  <1>4. PICK a \in Seq(Frames), m \in Seq(Frames) :
              /\ \A f \in Range(a) : f[1] \in {"parent", "finalize", "unblock"}
              /\ m = a \o <<<<"release", k>>>>
              /\ Turns(t, m)
    BY <1>2, TaskFinishesIs
  <1>5. /\ m[Len(m)][1] = "release" /\ TasksIn(Range(m)) = {k}
        /\ \A i \in 1 .. Len(m) : m[i][1] \notin {"deschedule", "unlock", "wake"}
    BY <1>3, <1>4, LeaveIs
  <1>6. Types'
    <2>1. calls' \in [Threads -> Seq(Frames)]
      BY <1>1, <1>4, TurnsCalls
    <2>2. PlanEvents' = PlanEvents /\ PlanTasks' = PlanTasks /\ Frames' = Frames
      BY <1>3, PlanSame
    <2>3. held' \in [Threads -> PlanTasks \cup {None}] /\ active' \subseteq Threads
      BY <1>1, <1>3 DEF Types
    <2>4. e \in Events
      BY <1>1, <1>3, PlanFacts DEF Types
    <2>5. done' \in [Events -> Nat] /\ finished' \subseteq PlanEvents
      BY <1>1, <1>3, <2>4 DEF Types, FinishTask
    <2>6. initialized' \subseteq plan.pipelines
      BY <1>1, <1>3 DEF Types, PlanEvents
    <2>. QED
      BY <1>1, <1>3, <2>1, <2>2, <2>3, <2>5, <2>6 DEF Types, taskVars, flagVars
  <1>7. PICK h : h = None
    OBVIOUS
  <1>. QED
    BY <1>2, <1>3, <1>4, <1>5, <1>6, <1>7, SliceEnds DEF taskVars, flagVars

\* InsertEvent, as what it changes and the calls it makes.
InsertEffect(t, k, e, new) ==
    /\ t \in active /\ k \in PlanTasks /\ e \in PlanEvents /\ new \in PlanEvents
    /\ e[2] = "finish" /\ e[1] \in plan.inserts /\ new # e
    /\ new[2] = "inserted" /\ new[1] = e[1]
    /\ parents' = IF cancelled THEN [parents EXCEPT ![e] = {}]
                  ELSE [parents EXCEPT ![new] = parents[e], ![e] = {new}]
    /\ needs' = [needs EXCEPT ![new] = 1]
    /\ done' = [done EXCEPT ![e] = @ + 1]
    /\ finished' = finished \cup {e}
    /\ active' = active \ {t} /\ held' = [held EXCEPT ![t] = None]
    /\ UNCHANGED <<plan, met, total, taskVars, stateVars, flagVars, executorLock, phase>>

InsertCalls(t, k, e, new) ==
    \E a \in Seq(Frames), m \in Seq(Frames) :
       /\ a = IF cancelled THEN <<>> ELSE <<<<"parent", new, e>>>>
       /\ Range(a) = IF cancelled THEN {} ELSE {<<"parent", new, e>>}
       /\ \A f \in Range(a) : f[1] \in {"parent", "finalize", "unblock"}
       /\ UniqueEvents(a)
       /\ m = a \o <<<<"release", k>>>>
       /\ Turns(t, m)

LEMMA InsertEventIs ==
  ASSUME TaskInv, NEW t \in Threads, InsertEvent(t), NEW k, k = held[t],
         NEW e, e = EventOf(k), NEW new, new = Stage(e[1], "inserted")
  PROVE  InsertEffect(t, k, e, new) /\ InsertCalls(t, k, e, new)
  <1>1. Types
    BY DEF TaskInv
  <1>2. t \in active
    BY DEF InsertEvent
  <1>3. /\ k \in PlanTasks /\ e \in PlanEvents /\ PipelineOf(k) = e[1] /\ TypeOf(k) = e[2]
        /\ calls[t] = <<>>
    BY <1>2, ActiveIs
  <1>4. /\ e[2] = "finish" /\ e[1] \in plan.inserts
        /\ parents' = IF cancelled THEN [parents EXCEPT ![e] = {}]
                      ELSE [parents EXCEPT ![new] = parents[e], ![e] = {new}]
        /\ needs' = [needs EXCEPT ![new] = 1]
        /\ done' = [done EXCEPT ![e] = @ + 1]
        /\ finished' = finished \cup {e}
        /\ Leave(t, IF cancelled THEN <<>> ELSE <<<<"parent", new, e>>>>)
        /\ UNCHANGED <<plan, met, total, taskVars, stateVars, flagVars, executorLock, phase>>
    BY <1>3 DEF InsertEvent
  <1>5. new \in PlanEvents /\ new[1] = e[1] /\ new[2] = "inserted" /\ new # e
    BY <1>3, <1>4 DEF PlanEvents, StageTypes, Stage
  <1>6. PICK a : a = IF cancelled THEN <<>> ELSE <<<<"parent", new, e>>>>
    OBVIOUS
  <1>7. /\ a \in Seq(Frames) /\ UniqueEvents(a)
        /\ Range(a) = IF cancelled THEN {} ELSE {<<"parent", new, e>>}
    <2>1. CASE cancelled
      <3>1. a = <<>>
        BY <1>6, <2>1
      <3>2. \A i, j \in 1 .. Len(a) : i = j
        BY <3>1, EmptyList
      <3>. QED BY <2>1, <3>1, <3>2, EmptyList DEF UniqueEvents
    <2>2. CASE ~cancelled
      <3>1. PICK f : f = <<"parent", new, e>>
        OBVIOUS
      <3>2. f \in Frames
        BY <1>3, <1>5, <3>1 DEF Frames
      <3>3. a = <<f>>
        BY <1>6, <2>2, <3>1
      <3>4. a \in Seq(Frames) /\ Len(a) = 1 /\ Range(a) = {f}
        BY ONLY <3>2, <3>3 DEF Range
      <3>5. \A i, j \in 1 .. Len(a) : i = j
        BY <3>4
      <3>. QED BY <2>2, <3>1, <3>4, <3>5 DEF UniqueEvents
    <2>. QED BY <2>1, <2>2
  <1>8. \A f \in Range(a) : f[1] \in {"parent", "finalize", "unblock"}
    BY <1>7
  <1>9. PICK m : m = a \o <<<<"release", k>>>>
    OBVIOUS
  <1>10. m \in Seq(Frames)
    BY <1>3, <1>7, <1>8, <1>9, LeaveIs
  <1>11. calls' = [calls EXCEPT ![t] = m]
    BY <1>4, <1>6, <1>9 DEF Leave
  <1>12. Turns(t, m)
    BY <1>1, <1>3, <1>10, <1>11, EnterTurns
  <1>13. active' = active \ {t} /\ held' = [held EXCEPT ![t] = None]
    BY <1>4 DEF Leave
  <1>. QED
    BY <1>2, <1>3, <1>4, <1>5, <1>6, <1>7, <1>8, <1>9, <1>10, <1>12, <1>13
       DEF InsertEffect, InsertCalls

LEMMA InsertEventTasks ==
  ASSUME TaskInv, NEW t \in Threads, InsertEvent(t)
  PROVE  TaskInv'
  <1>1. Types
    BY DEF TaskInv
  <1>2. PICK k, e, new : k = held[t] /\ e = EventOf(k) /\ new = Stage(e[1], "inserted")
    OBVIOUS
  <1>0. InsertEffect(t, k, e, new) /\ InsertCalls(t, k, e, new)
    BY <1>2, InsertEventIs
  <1>3. /\ t \in active /\ k \in PlanTasks /\ e \in PlanEvents /\ new \in PlanEvents
        /\ new # e /\ new[2] = "inserted"
        /\ parents' = IF cancelled THEN [parents EXCEPT ![e] = {}]
                      ELSE [parents EXCEPT ![new] = parents[e], ![e] = {new}]
        /\ needs' = [needs EXCEPT ![new] = 1]
        /\ done' = [done EXCEPT ![e] = @ + 1]
        /\ finished' = finished \cup {e}
        /\ active' = active \ {t} /\ held' = [held EXCEPT ![t] = None]
        /\ UNCHANGED <<plan, met, total, taskVars, stateVars, flagVars, executorLock, phase>>
    BY <1>0 DEF InsertEffect
  <1>4. PICK a \in Seq(Frames), m \in Seq(Frames) :
              /\ \A f \in Range(a) : f[1] \in {"parent", "finalize", "unblock"}
              /\ m = a \o <<<<"release", k>>>>
              /\ Turns(t, m)
    BY <1>0 DEF InsertCalls
  <1>5. /\ m[Len(m)][1] = "release" /\ TasksIn(Range(m)) = {k}
        /\ \A i \in 1 .. Len(m) : m[i][1] \notin {"deschedule", "unlock", "wake"}
    BY <1>3, <1>4, LeaveIs
  <1>6. e \in Events /\ new \in Events
    BY <1>1, <1>3, PlanFacts DEF Types
  <1>7. Types'
    <2>1. calls' \in [Threads -> Seq(Frames)]
      BY <1>1, <1>4, TurnsCalls
    <2>2. PlanEvents' = PlanEvents /\ PlanTasks' = PlanTasks /\ Frames' = Frames
      BY <1>3, PlanSame
    <2>3. held' \in [Threads -> PlanTasks \cup {None}] /\ active' \subseteq Threads
      BY <1>1, <1>3 DEF Types
    <2>4. done' \in [Events -> Nat] /\ finished' \subseteq PlanEvents /\ needs' \in [Events -> Nat]
      BY SMTT(40), <1>1, <1>3, <1>6 DEF Types
    <2>5. parents' \in [Events -> SUBSET Events]
      BY <1>1, <1>3, <1>6 DEF Types
    <2>6. \A d \in PlanEvents : parents'[d] \subseteq PlanEvents
      <3>. TAKE d \in PlanEvents
      <3>1. d \in Events /\ parents[d] \subseteq PlanEvents /\ parents[e] \subseteq PlanEvents
        BY <1>1, <1>3, PlanFacts DEF Types
      <3>2. parents'[d] \in {parents[d], {}, parents[e], {new}}
        BY <1>1, <1>3, <1>6, <3>1 DEF Types
      <3>. QED BY <1>3, <3>1, <3>2
    <2>. QED
      BY <1>1, <1>3, <2>1, <2>2, <2>3, <2>4, <2>5, <2>6 DEF Types, taskVars, flagVars, stateVars
  <1>8. PICK h : h = None
    OBVIOUS
  <1>9. \A d \in PlanEvents : needs'[d] = needs[d] \/ (d[2] = "inserted" /\ needs'[d] = 1)
    BY <1>1, <1>3, <1>6, PlanFacts DEF Types
  <1>. QED
    BY <1>2, <1>3, <1>4, <1>5, <1>7, <1>8, <1>9, SliceEnds DEF taskVars, flagVars, stateVars

LEMMA TaskFailsTasks ==
  ASSUME TaskInv, NEW t \in Threads, TaskFails(t)
  PROVE  TaskInv' /\ Calm
  <1>1. Types /\ Shapes
    BY DEF TaskInv
  <1>2. PICK k, h : k = held[t] /\ h = IF t = Client THEN k ELSE None
    OBVIOUS
  <1>3. /\ t \in active /\ error' = TRUE /\ interrupted' = TRUE /\ active' = active \ {t}
        /\ UNCHANGED <<plan, eventVars, taskVars, stateVars, cancelled, completed, result,
                       executorLock, phase>>
    BY DEF TaskFails
  <1>4. k \in PlanTasks /\ calls[t] = <<>>
    BY <1>2, <1>3, ActiveIs
  <1>5. held' = [held EXCEPT ![t] = h]
    BY <1>1, <1>2 DEF TaskFails, Types
  <1>6. PICK a \in Seq(Frames) : a = PushErrorCalls /\ Range(a) = UnblockCalls
    BY <1>1, PushErrorIs
  <1>7. \A f \in Range(a) : f[1] \in {"parent", "finalize", "unblock"}
    BY <1>6 DEF UnblockCalls
  <1>8. PICK m : m = a \o IF t = Client THEN <<>> ELSE <<<<"release", k>>>>
    OBVIOUS
  <1>9. calls' = [calls EXCEPT ![t] = m]
    BY <1>2, <1>6, <1>8 DEF TaskFails
  <1>10. /\ m \in Seq(Frames)
         /\ \A i \in 1 .. Len(m) : m[i][1] \notin {"deschedule", "unlock", "wake"}
         /\ t = Client \/ m[Len(m)][1] = "release"
         /\ TasksIn(Range(m)) \subseteq {k} /\ (k \in TasksIn(Range(m)) \/ h = k)
         /\ Range(m) \subseteq UnblockCalls \cup {<<"release", k>>}
    <2>1. CASE t = Client
      <3>1. m = a /\ h = k
        BY <1>2, <1>8, <2>1, ConcatEmptySeq
      <3>. QED BY <1>6, <1>7, <2>1, <3>1, PlainList
    <2>2. CASE t # Client
      <3>1. m = a \o <<<<"release", k>>>>
        BY <1>8, <2>2
      <3>2. /\ m \in Seq(Frames) /\ m[Len(m)][1] = "release" /\ TasksIn(Range(m)) = {k}
            /\ \A i \in 1 .. Len(m) : m[i][1] \notin {"deschedule", "unlock", "wake"}
            /\ Range(m) = Range(a) \cup {<<"release", k>>}
        BY <1>4, <1>7, <3>1, LeaveIs
      <3>. QED BY <1>6, <3>2
    <2>. QED BY <2>1, <2>2
  <1>11. Turns(t, m)
    BY <1>1, <1>4, <1>9, <1>10, EnterTurns
  <1>12. Types'
    <2>1. calls' \in [Threads -> Seq(Frames)]
      BY <1>1, <1>11, TurnsCalls
    <2>2. PlanEvents' = PlanEvents /\ PlanTasks' = PlanTasks /\ Frames' = Frames
      BY <1>3, PlanSame
    <2>3. held' \in [Threads -> PlanTasks \cup {None}] /\ active' \subseteq Threads
      BY <1>1, <1>2, <1>3, <1>4, <1>5 DEF Types
    <2>. QED
      BY <1>1, <1>3, <2>1, <2>2, <2>3 DEF Types, taskVars, eventVars, stateVars
  <1>13. h = None \/ (h = k /\ t = Client)
    BY <1>2
  <1>14. TaskInv'
    BY <1>2, <1>3, <1>5, <1>10, <1>11, <1>12, <1>13, SliceEnds DEF taskVars, eventVars, stateVars
  <1>15. Calm
    <2>1. \A f \in Range(m) : f[1] \notin EventFrames
      BY <1>10 DEF UnblockCalls, EventFrames
    <2>2. \A i \in 1 .. Len(m) : m[i] \in Range(m)
      BY <1>10, RangeAt
    <2>3. \A i \in 1 .. Len(m) : m[i][1] \notin EventFrames /\ m[i][1] # "deschedule"
      BY <1>10, <2>1, <2>2
    <2>4. held'[t] = h /\ \A u \in Threads : u # t => held'[u] = held[u]
      BY <1>1, <1>5 DEF Types
    <2>. QED BY <1>1, <1>2, <1>3, <1>4, <1>11, <1>13, <2>3, <2>4, CalmShrinks DEF taskVars
  <1>. QED BY <1>14, <1>15

LEMMA TaskBlocksTasks ==
  ASSUME TaskInv, NEW t \in Threads, TaskBlocks(t)
  PROVE  TaskInv' /\ Calm
  <1>1. Types /\ Shapes /\ Holding /\ OwnedOnce /\ Remembered
    BY DEF TaskInv
  <1>2. PICK k, p : k = held[t] /\ p = PipelineOf(k)
    OBVIOUS
  <1>3. t \in active
    BY DEF TaskBlocks
  <1>4. /\ k \in PlanTasks /\ calls[t] = <<>> /\ TopTasks(t) = {} /\ p \in plan.pipelines
        /\ phase \notin {"teardown", "destroyed"} /\ (t = Client => phase = "after")
    BY <1>2, <1>3, ActiveIs
  <1>5. PICK f, g : f = <<"deschedule", k>> /\ g = <<"release", k>>
    OBVIOUS
  <1>6. PICK m : m = <<f, g>>
    OBVIOUS
  <1>7. /\ m \in Seq(Frames) /\ Len(m) = 2 /\ m[1] = f /\ m[2] = g /\ m # <<>>
        /\ f[1] = "deschedule" /\ f[2] = k /\ g[1] = "release" /\ g[2] = k
    <2>1. f \in Frames /\ g \in Frames
      BY <1>4, <1>5 DEF Frames, TaskFrames
    <2>2. f[1] = "deschedule" /\ f[2] = k /\ g[1] = "release" /\ g[2] = k
      BY <1>5
    <2>. QED BY ONLY <1>6, <2>1, <2>2
  <1>8. /\ blockedTasks' = [blockedTasks EXCEPT ![p] = @ \cup {k}]
        /\ active' = active \ {t} /\ held' = [held EXCEPT ![t] = None]
        /\ calls' = [calls EXCEPT ![t] = m]
        /\ UNCHANGED <<plan, eventVars, taskVars, initialized, canBlock, flagVars,
                       executorLock, phase>>
    <2>1. <<f>> \o <<g>> = m
      <3>1. <<f>> \in Seq(Frames) /\ g \in Frames
        BY <1>4, <1>5 DEF Frames, TaskFrames
      <3>2. <<g>> \in Seq(Frames) /\ Len(<<f>>) = 1 /\ Len(<<g>>) = 1 /\ <<f>>[1] = f /\ <<g>>[1] = g
        BY ONLY <3>1
      <3>3. PICK x, y : x = <<f>> /\ y = <<g>>
        OBVIOUS
      <3>4. PICK z : z = x \o y
        OBVIOUS
      <3>5. x \in Seq(Frames) /\ y \in Seq(Frames) /\ Len(x) = 1 /\ Len(y) = 1 /\ x[1] = f /\ y[1] = g
        BY ONLY <3>1, <3>2, <3>3
      <3>6. z \in Seq(Frames) /\ Len(z) = 2 /\ z[1] = f /\ z[2] = g
        <4>1. /\ z \in Seq(Frames) /\ Len(z) = 1 + 1
              /\ \A i \in 1 .. 1 + 1 : z[i] = IF i <= 1 THEN x[i] ELSE y[i - 1]
          BY ONLY <3>4, <3>5, ConcatProperties
        <4>2. 1 + 1 = 2 /\ 1 \in 1 .. 2 /\ 2 \in 1 .. 2 /\ ~(2 <= 1) /\ 1 <= 1 /\ 2 - 1 = 1
          OBVIOUS
        <4>. QED BY ONLY <3>5, <4>1, <4>2
      <3>7. \A i \in 1 .. Len(z) : i = 1 \/ i = 2
        BY ONLY <3>6
      <3>8. z = m
        <4>1. Len(z) = Len(m) /\ \A i \in 1 .. Len(z) : z[i] = m[i]
          BY ONLY <1>7, <3>6, <3>7
        <4>. QED BY ONLY <1>7, <3>6, <4>1, SeqEqual
      <3>. QED BY ONLY <3>3, <3>4, <3>8
    <2>. QED BY <1>2, <1>5, <2>1 DEF TaskBlocks, Leave
  <1>9. Turns(t, m)
    BY <1>1, <1>3, <1>4, <1>7, <1>8, EnterTurns DEF Types
  <1>10. t \in Threads /\ calls'[t] = m /\ \A u \in Threads : u # t => calls'[u] = calls[u]
    BY <1>1, <1>3, <1>8 DEF Types
  <1>11. k # None /\ held'[t] = None /\ \A u \in Threads : u # t => held'[u] = held[u]
    BY <1>1, <1>4, <1>8, PlanFacts DEF Types
  <1>12. Types'
    <2>1. calls' \in [Threads -> Seq(Frames)]
      BY <1>1, <1>9, TurnsCalls
    <2>2. PlanEvents' = PlanEvents /\ PlanTasks' = PlanTasks /\ Frames' = Frames
      BY <1>8, PlanSame
    <2>3. held' \in [Threads -> PlanTasks \cup {None}] /\ active' \subseteq Threads
      BY <1>1, <1>8 DEF Types
    <2>4. p \in AllPipelines
      BY <1>1, <1>4, PlanFacts DEF Types
    <2>5. /\ blockedTasks' \in [AllPipelines -> SUBSET PlanTasks]
          /\ \A q \in AllPipelines : \A j \in blockedTasks'[q] : PipelineOf(j) = q
      BY <1>1, <1>2, <1>4, <1>8, <2>4 DEF Types
    <2>. QED
      BY <1>1, <1>8, <2>1, <2>2, <2>3, <2>5 DEF Types, taskVars, eventVars, flagVars
  <1>13. Shapes'
    <2>1. Shaped(t, m)'
      <3>1. \A i \in 2 .. Len(m) : i = 2
        BY <1>7
      <3>. QED BY <1>5, <1>7, <3>1 DEF Shaped
    <2>2. ASSUME NEW u \in Threads, u # t PROVE Shaped(u, calls[u])'
      <3>1. Shaped(u, calls[u])
        BY <1>1 DEF Shapes
      <3>. QED BY <1>8, <1>10, <2>2, <3>1 DEF Shaped
    <2>. QED BY <1>10, <2>1, <2>2 DEF Shapes
  <1>14. InCall(t, "deschedule")' /\ Head(calls'[t])[2] = k
    BY <1>7, <1>10 DEF InCall
  <1>15. ASSUME NEW u \in Threads, u # t
         PROVE  (InCall(u, "deschedule")' <=> InCall(u, "deschedule"))
                /\ Head(calls'[u]) = Head(calls[u])
    BY <1>10, <1>15 DEF InCall
  <1>16. \A u \in Threads : \A j \in PlanTasks : Holds(u, j)' => Holds(u, j)
    <2>. SUFFICES ASSUME NEW u \in Threads, NEW j \in PlanTasks, Holds(u, j)'
                  PROVE  Holds(u, j)
      OBVIOUS
    <2>1. CASE u = t
      <3>1. j # None
        BY <1>1, PlanFacts DEF Types
      <3>. QED BY <1>2, <1>11, <1>14, <2>1, <3>1 DEF Holds
    <2>2. CASE u # t
      BY <1>11, <1>15, <2>2 DEF Holds
    <2>. QED BY <2>1, <2>2
  <1>17. Holding'
    <2>1. \A u \in active' : calls'[u] = <<>> /\ held'[u] # None
      BY <1>1, <1>8, <1>10, <1>11 DEF Holding, Types
    <2>2. \A u \in Threads \ {Client} : held'[u] # None => u \in active'
      BY <1>1, <1>8, <1>11 DEF Holding
    <2>3. \A u \in Threads : InCall(u, "deschedule")' => held'[u] = None
      BY <1>1, <1>11, <1>15 DEF Holding
    <2>4. Client \in Threads
      BY DEF Threads
    <2>5. Client \in active' => phase' = "after"
      BY <1>1, <1>8 DEF Holding
    <2>6. phase' \in {"execute", "reset", "asleep", "teardown", "destroyed"} =>
            calls'[Client] = <<>>
      BY <1>1, <1>4, <1>8, <1>10, <2>4 DEF Holding
    <2>7. phase' \in {"mark", "drain", "asleep", "teardown", "destroyed"} =>
            held'[Client] = None
      BY <1>1, <1>4, <1>8, <1>11, <2>4 DEF Holding
    <2>. QED BY <2>1, <2>2, <2>3, <2>5, <2>6, <2>7 DEF Holding
  <1>18. OwnedOnce'
    BY <1>1, <1>8, <1>16, OwnedShrinks DEF taskVars
  <1>19. Remembered'
    <2>1. ASSUME ~cancelled, NEW j \in PlanTasks, Parking(j)' PROVE Woken(j)'
      <3>1. CASE j = k
        <4>1. p \in AllPipelines
          BY <1>1, <1>4, PlanFacts DEF Types
        <4>2. k \in blockedTasks'[p]
          BY <1>1, <1>8, <4>1 DEF Types
        <4>. QED BY <1>2, <3>1, <4>2 DEF Woken
      <3>2. CASE j # k
        <4>1. Parking(j)
          <5>1. CASE j \in rescheduled'
            BY <1>8, <5>1 DEF Parking, taskVars
          <5>2. CASE j \notin rescheduled'
            <6>1. PICK u \in Threads : InCall(u, "deschedule")' /\ Head(calls'[u])[2] = j
              BY <2>1, <5>2 DEF Parking
            <6>2. u # t
              BY <1>14, <3>2, <6>1
            <6>. QED BY <1>15, <6>1, <6>2 DEF Parking
          <5>. QED BY <5>1, <5>2
        <4>2. Woken(j)
          BY <1>1, <2>1, <4>1 DEF Remembered
        <4>3. PICK w : w = <<"wake", j>>
          OBVIOUS
        <4>4. Has(w) => Has(w)'
          BY <1>1, <1>4, <1>9, <1>10, TurnsHas
        <4>5. PipelineOf(j) \in AllPipelines
          BY <1>1, PlanFacts DEF PlanTasks, PlanEvents, PipelineOf, Types
        <4>6. blockedTasks[PipelineOf(j)] \subseteq blockedTasks'[PipelineOf(j)]
          BY <1>1, <1>8, <4>5 DEF Types
        <4>. QED BY <4>2, <4>3, <4>4, <4>6 DEF Woken
      <3>. QED BY <3>1, <3>2
    <2>2. PlanTasks' = PlanTasks
      BY <1>8, PlanSame
    <2>. QED BY <1>1, <1>8, <2>1, <2>2 DEF Remembered, flagVars, taskVars
  <1>20. Live' = Live
    <2>1. Range(m) = {f, g}
      <3>1. DOMAIN m = 1 .. 2
        BY ONLY <1>6
      <3>. QED BY ONLY <1>7, <3>1 DEF Range
    <2>2. TasksIn(Range(m)) = {k}
      BY ONLY <1>7, <2>1 DEF TasksIn
    <2>. QED BY <1>1, <1>2, <1>4, <1>8, <1>9, <1>10, <1>11, <2>2, SameLive DEF taskVars
  <1>21. TaskInv'
    BY <1>4, <1>8, <1>12, <1>13, <1>17, <1>18, <1>19, <1>20, SameTasks DEF eventVars, taskVars
  <1>22. Calm
    <2>1. \A j \in PlanTasks : Owned(j)' => Owned(j)
      BY <1>8, <1>16 DEF Owned, taskVars
    <2>2. \A i \in 1 .. Len(m) : m[i][1] \notin EventFrames
      <3>1. \A i \in 1 .. Len(m) : i = 1 \/ i = 2
        BY <1>7
      <3>. QED BY <1>7, <3>1 DEF EventFrames
    <2>3. ASSUME NEW x, x[1] \in EventFrames PROVE Has(x)' <=> Has(x)
      <3>1. x \notin Range(m)
        BY <1>7, <2>2, <2>3 DEF Range
      <3>. QED BY <1>1, <1>4, <1>9, <1>10, <3>1, TurnsHas
    <2>4. Once => Once'
      BY <1>1, <1>9, <1>10, <2>2, TurnsOnce
    <2>. QED BY <2>1, <2>3, <2>4 DEF Calm
  <1>. QED BY <1>21, <1>22

\* A thread takes the first task of the queue, or the client the one it kept.
Takes(t, k) ==
    \/ queue # <<>> /\ k = Head(queue) /\ queue' = Tail(queue) /\ held[t] = None
    \/ t = Client /\ held[t] = k /\ k # None /\ queue' = queue

LEMMA QueueTail ==
  ASSUME Types, queue # <<>>
  PROVE  /\ Tail(queue) \in Seq(PlanTasks) /\ Head(queue) \in PlanTasks
         /\ Range(queue) = {Head(queue)} \cup Range(Tail(queue))
  <1>1. queue \in Seq(PlanTasks)
    BY DEF Types
  <1>2. Tail(queue) \in Seq(PlanTasks) /\ Head(queue) \in PlanTasks /\ Head(queue) = queue[1]
    BY <1>1, HeadTailProperties
  <1>3. Range(queue) = (IF queue = <<>> THEN {} ELSE {queue[1]}) \cup Range(Rest(queue))
    BY <1>1, RangeSplit
  <1>4. Rest(queue) = Tail(queue)
    BY DEF Rest
  <1>. QED BY <1>2, <1>3, <1>4

\* What Start does, and what becomes of the reference: the thread enters the
\* calls m and is left with h.
StartEffect(t, k) ==
    \E m \in Seq(Frames), h \in {k, None} :
       /\ Turns(t, m) /\ held' = [held EXCEPT ![t] = h]
       /\ t # Client => h = None \/ m = <<>>
       /\ \A i \in 1 .. Len(m) : m[i][1] \notin {"deschedule", "unlock", "wake"}
       /\ t = Client \/ m = <<>> \/ m[Len(m)][1] = "release"
       /\ TasksIn(Range(m)) \subseteq {k} /\ (k \in TasksIn(Range(m)) \/ h = k)
       /\ \A f \in Range(m) : f[1] \notin EventFrames
       /\ error' \in {error, TRUE}
       /\ \/ active' = active \cup {t} /\ m = <<>> /\ h = k /\ error' = error
          \/ active' = active /\ (h = k => t = Client)

LEMMA StartIs ==
  ASSUME Types, NEW t \in Threads, calls[t] = <<>>, NEW k \in PlanTasks, Start(t, k)
  PROVE  StartEffect(t, k)
  <1>1. CASE interrupted /\ TypeOf(k) = "execute"
    <2>1. PICK a \in Seq(Frames) : a = PushErrorCalls /\ Range(a) = UnblockCalls
      BY PushErrorIs
    <2>2. \A f \in Range(a) : f[1] \in {"parent", "finalize", "unblock"}
                              /\ f[1] \notin EventFrames
      BY <2>1 DEF UnblockCalls, EventFrames
    <2>3. PICK m : m = a \o IF t = Client THEN <<>> ELSE <<<<"release", k>>>>
      OBVIOUS
    <2>4. PICK h : h = IF t = Client THEN k ELSE None
      OBVIOUS
    <2>5. /\ calls' = [calls EXCEPT ![t] = m] /\ held' = [held EXCEPT ![t] = h]
          /\ active' = active /\ error' = TRUE
      BY <1>1, <2>1, <2>3, <2>4 DEF Start
    <2>6. CASE t = Client
      <3>1. m = a /\ h = k
        BY <2>3, <2>4, <2>6, ConcatEmptySeq
      <3>2. /\ TasksIn(Range(m)) = {}
            /\ \A i \in 1 .. Len(m) : m[i][1] \notin {"deschedule", "unlock", "wake"}
        BY <2>2, <3>1, PlainList
      <3>3. Turns(t, m)
        BY <2>5, <3>1, EnterTurns
      <3>. QED BY <2>2, <2>5, <2>6, <3>1, <3>2, <3>3 DEF StartEffect
    <2>7. CASE t # Client
      <3>1. m = a \o <<<<"release", k>>>> /\ h = None
        BY <2>3, <2>4, <2>7
      <3>2. /\ m \in Seq(Frames) /\ m[Len(m)][1] = "release" /\ TasksIn(Range(m)) = {k}
            /\ Range(m) = Range(a) \cup {<<"release", k>>}
            /\ \A i \in 1 .. Len(m) : m[i][1] \notin {"deschedule", "unlock", "wake"}
        BY <2>2, <3>1, LeaveIs
      <3>3. Turns(t, m)
        BY <2>5, <3>2, EnterTurns
      <3>4. \A f \in Range(m) : f[1] \notin EventFrames
        BY <2>2, <3>2 DEF EventFrames
      <3>5. h = None /\ (h = k => t = Client)
        BY <3>1, PlanFacts DEF Types
      <3>. QED BY <2>5, <2>7, <3>2, <3>3, <3>4, <3>5 DEF StartEffect
    <2>. QED BY <2>6, <2>7
  <1>2. CASE ~(interrupted /\ TypeOf(k) = "execute")
    <2>1. /\ active' = active \cup {t} /\ held' = [held EXCEPT ![t] = k]
          /\ UNCHANGED <<error, calls>>
      BY <1>2 DEF Start
    <2>2. Turns(t, <<>>)
      BY <2>1, StayTurns
    <2>3. <<>> \in Seq(Frames) /\ Range(<<>>) = {} /\ \A i \in 1 .. Len(<<>>) : FALSE
      BY EmptyList
    <2>4. PICK m \in Seq(Frames) : m = <<>> /\ Range(m) = {} /\ \A i \in 1 .. Len(m) : FALSE
      BY <2>3
    <2>5. TasksIn(Range(m)) = {}
      BY <2>4 DEF TasksIn
    <2>6. Turns(t, m)
      BY <2>2, <2>4
    <2>. QED BY <2>1, <2>4, <2>5, <2>6 DEF StartEffect
  <1>. QED BY <1>1, <1>2

LEMMA StartTasks ==
  ASSUME TaskInv, NEW t \in Threads, calls[t] = <<>>, t \notin active, NEW k,
         Takes(t, k), Start(t, k),
         UNCHANGED <<plan, eventVars, executorTasks, rescheduled, stateVars,
                     cancelled, completed, result, interrupted, executorLock>>,
         t = Client => phase = "execute" /\ phase' = "after",
         t # Client => phase' = phase
  PROVE  TaskInv' /\ Calm
  <1>1. Types /\ Shapes /\ Holding /\ OwnedOnce /\ Remembered
    BY DEF TaskInv
  <1>2. k \in PlanTasks /\ k # None
    <2>1. None \notin PlanTasks
      BY <1>1, PlanFacts DEF Types
    <2>2. CASE queue # <<>> /\ k = Head(queue)
      BY <1>1, <2>1, <2>2, QueueTail
    <2>3. CASE held[t] = k /\ k # None
      BY <1>1, <2>3 DEF Types
    <2>. QED BY <2>2, <2>3 DEF Takes
  <1>20. StartEffect(t, k)
    BY <1>1, <1>2, StartIs
  <1>3. PICK m \in Seq(Frames), h \in {k, None} :
            /\ Turns(t, m) /\ held' = [held EXCEPT ![t] = h]
            /\ t # Client => h = None \/ m = <<>>
            /\ \A i \in 1 .. Len(m) : m[i][1] \notin {"deschedule", "unlock", "wake"}
            /\ t = Client \/ m = <<>> \/ m[Len(m)][1] = "release"
            /\ TasksIn(Range(m)) \subseteq {k} /\ (k \in TasksIn(Range(m)) \/ h = k)
            /\ error' \in {error, TRUE}
            /\ \A f \in Range(m) : f[1] \notin EventFrames
            /\ \/ active' = active \cup {t} /\ m = <<>> /\ h = k
               \/ active' = active /\ (h = k => t = Client)
    BY ONLY <1>20 DEF StartEffect
  <1>4. TopTasks(t) = {} /\ Rest(calls[t]) = <<>>
    BY DEF TopTasks, Rest
  <1>5. held'[t] = h /\ \A u \in Threads : u # t => held'[u] = held[u]
    BY <1>1, <1>3 DEF Types
  <1>6. calls' \in [Threads -> Seq(Frames)] /\ \A u \in Threads : u # t => calls'[u] = calls[u]
    BY <1>1, <1>3, TurnsCalls
  <1>7. phase \notin {"teardown", "destroyed"} /\ phase' \notin {"teardown", "destroyed"}
    <2>1. CASE t = Client
      BY <2>1
    <2>2. CASE t # Client
      <3>1. queue # <<>>
        BY <2>2 DEF Takes
      <3>. QED BY <2>2, <3>1, QuietEnd
    <2>. QED BY <2>1, <2>2
  <1>8. queue' \in Seq(PlanTasks) /\ Range(queue) \subseteq Range(queue') \cup {k}
        /\ Range(queue') \subseteq Range(queue)
        /\ (k \in Range(queue) \/ held[t] = k)
    <2>1. CASE queue # <<>> /\ k = Head(queue) /\ queue' = Tail(queue)
      BY <1>1, <2>1, QueueTail
    <2>2. CASE held[t] = k /\ queue' = queue
      BY <1>1, <2>2 DEF Types
    <2>. QED BY <2>1, <2>2 DEF Takes
  <1>9. Types'
    <2>1. PlanEvents' = PlanEvents /\ PlanTasks' = PlanTasks /\ Frames' = Frames
      BY PlanSame
    <2>2. held' \in [Threads -> PlanTasks \cup {None}] /\ active' \subseteq Threads
      BY <1>1, <1>2, <1>3 DEF Types
    <2>3. error' \in BOOLEAN /\ phase' \in Phases
      BY <1>1, <1>3 DEF Types, Phases
    <2>. QED
      BY <1>1, <1>6, <1>8, <2>1, <2>2, <2>3 DEF Types, eventVars, stateVars
  <1>10. Shapes'
    BY <1>1, <1>3, TurnsShapes
  <1>11. calls'[t] = m
    <2>1. m \o <<>> = m
      BY <1>3, ConcatEmptySeq
    <2>. QED BY <1>1, <1>3, <1>4, <2>1 DEF Turns, Types
  <1>12. Holding'
    <2>1. \A u \in active' : calls'[u] = <<>> /\ held'[u] # None
      BY <1>1, <1>2, <1>3, <1>5, <1>6, <1>11 DEF Holding, Types
    <2>2. \A u \in Threads \ {Client} : held'[u] # None => u \in active'
      BY <1>1, <1>2, <1>3, <1>5 DEF Holding
    <2>3. \A u \in Threads : InCall(u, "deschedule")' => held'[u] = None
      <3>1. \A u \in Threads : InCall(u, "deschedule")' => InCall(u, "deschedule") /\ u # t
        BY <1>1, <1>3, HoldsAfter
      <3>. QED BY <1>1, <1>5, <3>1 DEF Holding
    <2>4. Client \in Threads
      BY DEF Threads
    <2>5. Client \in active' => phase' = "after"
      BY <1>1, <1>3 DEF Holding
    <2>6. phase' \in {"execute", "reset", "asleep", "teardown", "destroyed"} =>
            calls'[Client] = <<>>
      BY <1>1, <1>6, <2>4 DEF Holding
    <2>7. phase' \in {"mark", "drain", "asleep", "teardown", "destroyed"} =>
            held'[Client] = None
      BY <1>1, <1>5, <2>4 DEF Holding
    <2>. QED BY <2>1, <2>2, <2>3, <2>5, <2>6, <2>7 DEF Holding
  <1>13. \A u \in Threads : \A j \in PlanTasks :
            Holds(u, j)' => Holds(u, j) \/ (u = t /\ j = k)
    <2>. SUFFICES ASSUME NEW u \in Threads, NEW j \in PlanTasks, Holds(u, j)'
                  PROVE  Holds(u, j) \/ (u = t /\ j = k)
      OBVIOUS
    <2>1. CASE u = t
      <3>1. held'[t] = j
        BY <1>1, <1>3, <2>1, HoldsAfter
      <3>2. j # None
        BY <1>1, PlanFacts DEF Types
      <3>. QED BY <1>5, <2>1, <3>1, <3>2
    <2>2. CASE u # t
      <3>1. held'[u] = held[u]
        BY <1>1, <1>5, <2>2 DEF Types
      <3>2. Holds(u, j)' <=> Holds(u, j)
        BY <1>1, <1>3, <2>2, <3>1, HoldsAfter
      <3>. QED BY <3>2
    <2>. QED BY <2>1, <2>2
  <1>14. OwnedOnce'
    <2>1. CASE queue # <<>> /\ k = Head(queue) /\ queue' = Tail(queue)
      BY <1>1, <1>13, <2>1, OwnedTaken
    <2>2. CASE held[t] = k /\ queue' = queue
      <3>1. Holds(t, k)
        BY <2>2 DEF Holds
      <3>. QED BY <1>1, <1>13, <2>2, <3>1, OwnedShrinks
    <2>. QED BY <2>1, <2>2 DEF Takes
  <1>15. Remembered'
    BY <1>1, <1>3, RememberedKept DEF stateVars
  <1>16. Live' = Live
    <2>1. held[t] \in {None, k}
      BY DEF Takes
    <2>. QED BY <1>1, <1>3, <1>4, <1>5, <1>8, <2>1, SameLive
  <1>17. TaskInv'
    BY <1>7, <1>9, <1>10, <1>12, <1>14, <1>15, <1>16, SameTasks DEF eventVars
  <1>18. Calm
    <2>1. \A i \in 1 .. Len(m) : m[i] \in Range(m)
      BY <1>3, RangeAt
    <2>2. \A i \in 1 .. Len(m) : m[i][1] \notin EventFrames /\ m[i][1] # "deschedule"
      BY <1>3, <2>1
    <2>. QED BY <1>1, <1>3, <1>5, <1>8, <2>2, CalmShrinks
  <1>. QED BY <1>17, <1>18

LEMMA DequeueTasks ==
  ASSUME TaskInv, NEW t \in Threads, Dequeue(t)
  PROVE  TaskInv' /\ Calm
  <1>1. PICK k : k = Head(queue)
    OBVIOUS
  <1>2. /\ t \in Workers /\ calls[t] = <<>> /\ t \notin active /\ queue # <<>>
        /\ queue' = Tail(queue) /\ Start(t, k)
        /\ UNCHANGED <<plan, eventVars, executorTasks, rescheduled, stateVars,
                       cancelled, completed, result, interrupted, executorLock, phase>>
    BY <1>1 DEF Dequeue, Idle
  <1>3. t # Client
    BY <1>2, ExecutorAssumption
  <1>4. held[t] = None
    BY <1>2, <1>3 DEF TaskInv, Holding
  <1>5. Takes(t, k)
    BY <1>1, <1>2, <1>4 DEF Takes
  <1>. QED BY <1>2, <1>3, <1>5, StartTasks

LEMMA ExecuteTaskTasks ==
  ASSUME TaskInv, ExecuteTask
  PROVE  TaskInv' /\ Calm
  <1>1. PICK k : k = IF held[Client] = None THEN Head(queue) ELSE held[Client]
    OBVIOUS
  <1>2. /\ Client \in Threads /\ calls[Client] = <<>> /\ Client \notin active
        /\ phase = "execute" /\ phase' = "after"
        /\ UNCHANGED <<plan, eventVars, executorTasks, rescheduled, stateVars,
                       cancelled, completed, result, interrupted, executorLock>>
    BY DEF ExecuteTask, Driving, Idle, Threads
  <1>3. Takes(Client, k) /\ Start(Client, k)
    <2>1. CASE held[Client] = None
      BY <1>1, <2>1 DEF ExecuteTask, Takes
    <2>2. CASE held[Client] # None
      BY <1>1, <2>2 DEF ExecuteTask, Takes
    <2>. QED BY <2>1, <2>2
  <1>. QED BY <1>2, <1>3, StartTasks

-----------------------------------------------------------------------------
(* Steps that leave the tasks where they are *)

LEMMA QuietStep ==
  ASSUME TaskInv, Types', Holding', Remembered',
         UNCHANGED <<plan, needs, met, calls, held, queue, rescheduled, executorLock,
                     executorTasks>>,
         phase' \in {"teardown", "destroyed"} => executorTasks = 0,
         phase' = "destroyed" => \A t \in Threads : calls[t] = <<>>
  PROVE  TaskInv' /\ Calm
  <1>1. PlanTasks' = PlanTasks
    BY PlanSame
  <1>2. Live' = Live
    BY DEF Live, Referenced, FrameTasks
  <1>3. Shapes'
    BY DEF TaskInv, Shapes, Shaped
  <1>4. Counted'
    BY <1>2 DEF TaskInv, Counted
  <1>5. Fresh'
    BY <1>2 DEF TaskInv, Fresh, Begun
  <1>6. OwnedOnce'
    <2>1. \A u \in Threads : \A k \in PlanTasks : Holds(u, k)' => Holds(u, k)
      BY DEF Holds, InCall
    <2>. QED BY <2>1, OwnedShrinks DEF TaskInv
  <1>7. Calm
    BY DEF Calm, Owned, Holds, InCall, Has, Once
  <1>. QED BY <1>3, <1>4, <1>5, <1>6, <1>7 DEF TaskInv

LEMMA SameRemembered ==
  ASSUME Remembered, UNCHANGED <<plan, calls, rescheduled, blockedTasks, cancelled>>
  PROVE  Remembered'
  <1>1. PlanTasks' = PlanTasks
    BY PlanSame
  <1>2. \A k \in PlanTasks : (Parking(k)' <=> Parking(k)) /\ (Woken(k)' <=> Woken(k))
    BY DEF Parking, Woken, InCall, Has
  <1>. QED BY <1>1, <1>2 DEF Remembered

LEMMA OneTask ==
  ASSUME NEW k, NEW name \in {"wake", "release"}
  PROVE  TasksIn({<<name, k>>}) = {k}
  <1>1. PICK f : f = <<name, k>>
    OBVIOUS
  <1>2. f[1] = name /\ f[2] = k
    BY <1>1
  <1>3. {g \in {f} : g[1] \in {"wake", "deschedule", "release"}} = {f}
    BY <1>2
  <1>4. TasksIn({f}) = {g[2] : g \in {f}}
    BY <1>3 DEF TasksIn
  <1>5. TasksIn({f}) = {k}
    BY ONLY <1>2, <1>4
  <1>. QED BY ONLY <1>1, <1>5

LEMMA CallbackTasks ==
  ASSUME TaskInv, NEW t \in Threads, Callback(t)
  PROVE  TaskInv' /\ Calm
  <1>1. Types /\ Shapes /\ Holding /\ OwnedOnce /\ Remembered
    BY DEF TaskInv
  <1>2. /\ t \in Wakers /\ calls[t] = <<>> /\ t \notin active /\ t # Client
        /\ UNCHANGED <<plan, eventVars, taskVars, initialized, canBlock, flagVars, held,
                       active, executorLock, phase>>
    BY ExecutorAssumption DEF Callback, Idle
  <1>3. PICK p \in plan.pipelines : \E k \in blockedTasks[p] :
           /\ blockedTasks' = [blockedTasks EXCEPT ![p] = @ \ {k}]
           /\ calls' = [calls EXCEPT ![t] = IF Alive(k) THEN <<<<"wake", k>>>> ELSE <<>>]
    BY DEF Callback
  <1>10. PICK k \in blockedTasks[p] :
           /\ blockedTasks' = [blockedTasks EXCEPT ![p] = @ \ {k}]
           /\ calls' = [calls EXCEPT ![t] = IF Alive(k) THEN <<<<"wake", k>>>> ELSE <<>>]
    BY <1>3
  <1>4. p \in AllPipelines /\ k \in PlanTasks /\ PipelineOf(k) = p /\ k # None
    BY <1>1, <1>10, PlanFacts DEF Types
  <1>5. PlanEvents' = PlanEvents /\ PlanTasks' = PlanTasks /\ Frames' = Frames
    BY <1>2, PlanSame
  <1>6. /\ blockedTasks' \in [AllPipelines -> SUBSET PlanTasks]
        /\ \A q \in AllPipelines : \A j \in blockedTasks'[q] : PipelineOf(j) = q
    BY <1>1, <1>10, <1>4 DEF Types
  <1>7. \A j \in PlanTasks : j # k /\ j \in blockedTasks[PipelineOf(j)] =>
            j \in blockedTasks'[PipelineOf(j)]
    <2>1. \A j \in PlanTasks : PipelineOf(j) \in AllPipelines
      BY <1>1, PlanFacts DEF PlanTasks, PlanEvents, PipelineOf, Types
    <2>. QED BY <1>1, <1>10, <1>4, <2>1 DEF Types
  <1>8. CASE ~Alive(k)
    <2>1. calls' = calls
      BY <1>1, <1>2, <1>10, <1>8 DEF Types
    <2>2. Types'
      BY <1>1, <1>2, <1>5, <1>6, <2>1 DEF Types, eventVars, taskVars, flagVars
    <2>3. Holding'
      BY <1>1, <1>2, <2>1 DEF Holding, InCall
    <2>4. Remembered'
      <3>1. \A j \in PlanTasks : Parking(j)' <=> Parking(j)
        BY <1>2, <2>1 DEF Parking, InCall, taskVars
      <3>2. \A j \in PlanTasks : Parking(j) => j # k
        BY <1>1, <1>8, ParkingAlive
      <3>3. \A j \in PlanTasks : Parking(j) /\ Woken(j) => Woken(j)'
        BY <1>7, <2>1, <3>2 DEF Woken, Has
      <3>. QED BY <1>1, <1>2, <1>5, <3>1, <3>3 DEF Remembered, flagVars, taskVars
    <2>5. phase' \in {"teardown", "destroyed"} => executorTasks = 0
      BY <1>2 DEF TaskInv, Counted
    <2>6. phase' = "destroyed" => \A u \in Threads : calls[u] = <<>>
      BY <1>2 DEF TaskInv, Counted
    <2>. QED BY <1>2, <2>1, <2>2, <2>3, <2>4, <2>5, <2>6, QuietStep
               DEF eventVars, taskVars
  <1>9. CASE Alive(k)
    <2>1. PICK m : m = <<<<"wake", k>>>>
      OBVIOUS
    <2>2. /\ m \in Seq(Frames) /\ Len(m) = 1 /\ m[1] = <<"wake", k>> /\ m # <<>>
          /\ Range(m) = {<<"wake", k>>}
      BY <1>4, <2>1, OneFrameIs
    <2>3. calls' = [calls EXCEPT ![t] = m]
      BY <1>10, <1>9, <2>1
    <2>4. Turns(t, m)
      BY <1>1, <1>2, <2>2, <2>3, EnterTurns
    <2>5. \A i \in 1 .. Len(m) : m[i][1] = "wake"
      BY <2>2
    <2>6. k \in Live
      BY <1>4, <1>9 DEF Alive, Live
    <2>7. phase \notin {"teardown", "destroyed"}
      BY <2>6, QuietEnd
    <2>8. Types'
      <3>1. calls' \in [Threads -> Seq(Frames)]
        BY <1>1, <2>4, TurnsCalls
      <3>. QED BY <1>1, <1>2, <1>5, <1>6, <3>1 DEF Types, eventVars, taskVars, flagVars
    <2>9. Shapes'
      <3>1. m[Len(m)][1] = "wake"
        BY <2>2
      <3>. QED BY <1>1, <1>2, <2>4, <2>5, <3>1, TurnsShapes
    <2>10. Holding'
      <3>1. \A u \in Threads : u # t => calls'[u] = calls[u]
        BY <1>1, <2>3 DEF Types
      <3>2. \A u \in Threads : InCall(u, "deschedule")' => InCall(u, "deschedule") /\ u # t
        BY <1>1, <2>4, <2>5, HoldsAfter
      <3>3. Client \in Threads
        BY DEF Threads
      <3>4. active \subseteq Threads
        BY <1>1 DEF Types
      <3>. QED BY <1>1, <1>2, <3>1, <3>2, <3>3, <3>4 DEF Holding
    <2>11. OwnedOnce'
      <3>1. \A u \in Threads : \A j \in PlanTasks : Holds(u, j)' => Holds(u, j)
        BY <1>1, <1>2, <2>4, <2>5, NobodyTakes
      <3>. QED BY <1>1, <1>2, <3>1, OwnedShrinks DEF taskVars
    <2>12. Remembered'
      <3>1. ASSUME NEW j \in PlanTasks, Parking(j), Woken(j)
            PROVE  Woken(j)'
        <4>1. PICK f : f = <<"wake", j>>
          OBVIOUS
        <4>2. CASE Has(f)
          <5>1. Has(f)'
            BY <1>1, <1>2, <2>4, <4>2, TurnsHas
          <5>. QED BY <4>1, <5>1 DEF Woken
        <4>3. CASE j # k /\ j \in blockedTasks[PipelineOf(j)]
          BY <1>7, <4>3 DEF Woken
        <4>4. CASE j = k
          <5>1. f \in Range(m)
            BY <2>2, <4>1, <4>4
          <5>2. Has(f)'
            BY <1>1, <2>4, <5>1, TurnsHas
          <5>. QED BY <4>1, <5>2 DEF Woken
        <4>. QED BY <3>1, <4>1, <4>2, <4>3, <4>4 DEF Woken
      <3>. QED BY <1>1, <1>2, <2>4, <2>5, <3>1, RememberedIf DEF taskVars, flagVars
    <2>13. Live' = Live
      <3>1. TasksIn(Range(m)) = {k}
        BY <2>2, OneTask
      <3>2. k \in Range(queue) \cup rescheduled \cup {held[t]} \cup TopTasks(t) \cup Kept(t)
        BY <1>1, <2>6, ReferencedIs DEF Live
      <3>3. TopTasks(t) = {}
        BY <1>2 DEF TopTasks
      <3>. QED BY <1>1, <1>2, <2>4, <3>1, <3>2, <3>3, SameLive DEF taskVars
    <2>14. TaskInv'
      BY <1>2, <2>7, <2>8, <2>9, <2>10, <2>11, <2>12, <2>13, SameTasks DEF eventVars, taskVars
    <2>15. Calm
      BY <1>1, <1>2, <2>4, <2>5, CalmShrinks DEF EventFrames, taskVars
    <2>. QED BY <2>14, <2>15
  <1>. QED BY <1>8, <1>9

-----------------------------------------------------------------------------
(* CancelTasks *)

\* The client takes references out of the executor to drop them.
LEMMA ClientDrops ==
  ASSUME TaskInv, Types', Remembered', plan' = plan, calls[Client] = <<>>,
         Client \notin active, NEW m, Turns(Client, m),
         \A i \in 1 .. Len(m) : m[i][1] = "release",
         held' = [held EXCEPT ![Client] = None], rescheduled' \subseteq rescheduled,
         queue' = queue \/ (queue # <<>> /\ queue' = Tail(queue)),
         Range(queue) \cup rescheduled \cup {held[Client]}
            \subseteq Range(queue') \cup rescheduled' \cup TasksIn(Range(m)) \cup {None},
         TasksIn(Range(m)) \subseteq Range(queue) \cup rescheduled \cup {held[Client]},
         UNCHANGED <<needs, met, active, executorTasks, executorLock>>,
         phase \notin {"teardown", "destroyed"}, phase' \in {"mark", "drain"}
  PROVE  TaskInv' /\ Calm
  <1>1. Types /\ Shapes /\ Holding /\ OwnedOnce /\ Remembered /\ Client \in Threads
    BY DEF TaskInv, Threads
  <1>2. held'[Client] = None /\ \A u \in Threads : u # Client => held'[u] = held[u]
    BY <1>1 DEF Types
  <1>3. /\ calls' \in [Threads -> Seq(Frames)]
        /\ \A u \in Threads : u # Client => calls'[u] = calls[u]
    BY <1>1, TurnsCalls
  <1>4. Shapes'
    BY <1>1, TurnsShapes
  <1>5. Holding'
    <2>1. \A u \in Threads : InCall(u, "deschedule")' => InCall(u, "deschedule") /\ u # Client
      BY <1>1, HoldsAfter
    <2>2. \A u \in active' : calls'[u] = <<>> /\ held'[u] # None
      BY <1>1, <1>2, <1>3 DEF Holding, Types
    <2>3. \A u \in Threads \ {Client} : held'[u] # None => u \in active'
      BY <1>1, <1>2 DEF Holding
    <2>4. \A u \in Threads : InCall(u, "deschedule")' => held'[u] = None
      BY <1>1, <1>2, <2>1 DEF Holding
    <2>. QED BY <1>2, <2>2, <2>3, <2>4 DEF Holding
  <1>6. \A u \in Threads : \A k \in PlanTasks : Holds(u, k)' => Holds(u, k)
    <2>. SUFFICES ASSUME NEW u \in Threads, NEW k \in PlanTasks, Holds(u, k)'
                  PROVE  Holds(u, k)
      OBVIOUS
    <2>1. k # None
      BY <1>1, PlanFacts DEF Types
    <2>2. CASE u = Client
      BY <1>1, <1>2, <2>1, <2>2, HoldsAfter
    <2>3. CASE u # Client
      BY <1>1, <1>2, <2>3, HoldsAfter
    <2>. QED BY <2>2, <2>3
  <1>7. OwnedOnce'
    <2>1. CASE queue' = queue
      BY <1>1, <1>6, <2>1, OwnedShrinks
    <2>2. CASE queue # <<>> /\ queue' = Tail(queue)
      BY <1>1, <1>6, <2>2, OwnedTaken
    <2>. QED BY <2>1, <2>2
  <1>8. Range(queue') \subseteq Range(queue)
    BY <1>1, QueueTail
  <1>9. TopTasks(Client) = {}
    BY DEF TopTasks
  <1>10. Live' = Live
    BY <1>1, <1>2, <1>8, <1>9, SameLive
  <1>11. TaskInv'
    BY <1>4, <1>5, <1>7, <1>10, SameTasks
  <1>12. Calm
    BY <1>1, <1>2, <1>8, CalmShrinks DEF EventFrames
  <1>. QED BY <1>11, <1>12

LEMMA ResetTaskTasks ==
  ASSUME TaskInv, ResetTask
  PROVE  TaskInv' /\ Calm
  <1>1. Types /\ Holding /\ Remembered /\ Client \in Threads
    BY DEF TaskInv, Threads
  <1>2. /\ phase = "reset" /\ phase' = "mark" /\ held' = [held EXCEPT ![Client] = None]
        /\ UNCHANGED <<plan, eventVars, taskVars, stateVars, flagVars, active, executorLock>>
    BY DEF ResetTask
  <1>3. calls[Client] = <<>> /\ Client \notin active
    BY <1>1, <1>2 DEF Holding
  <1>4. PICK m : m = IF held[Client] = None THEN <<>> ELSE <<<<"release", held[Client]>>>>
    OBVIOUS
  <1>5. calls' = [calls EXCEPT ![Client] = m]
    BY <1>4 DEF ResetTask
  <1>6. /\ m \in Seq(Frames) /\ \A i \in 1 .. Len(m) : m[i][1] = "release"
        /\ held[Client] \in TasksIn(Range(m)) \cup {None}
        /\ TasksIn(Range(m)) \subseteq {held[Client]}
    <2>1. CASE held[Client] = None
      <3>1. m = <<>>
        BY <1>4, <2>1
      <3>. QED BY <2>1, <3>1, EmptyList
    <2>2. CASE held[Client] # None
      <3>1. held[Client] \in PlanTasks
        BY <1>1, <2>2 DEF Types
      <3>2. m = <<<<"release", held[Client]>>>>
        BY <1>4, <2>2
      <3>3. /\ m \in Seq(Frames) /\ Len(m) = 1 /\ m[1] = <<"release", held[Client]>>
            /\ Range(m) = {<<"release", held[Client]>>}
        BY <3>1, <3>2, OneFrameIs
      <3>4. TasksIn(Range(m)) = {held[Client]}
        BY <3>3, OneTask
      <3>5. \A i \in 1 .. Len(m) : i = 1
        BY <3>3
      <3>6. m[1][1] = "release"
        BY <3>3
      <3>. QED BY <3>3, <3>4, <3>5, <3>6
    <2>. QED BY <2>1, <2>2
  <1>7. Turns(Client, m)
    BY <1>1, <1>3, <1>5, <1>6, EnterTurns
  <1>8. Types'
    <2>1. calls' \in [Threads -> Seq(Frames)]
      BY <1>1, <1>7, TurnsCalls
    <2>2. PlanEvents' = PlanEvents /\ PlanTasks' = PlanTasks /\ Frames' = Frames
      BY <1>2, PlanSame
    <2>3. held' \in [Threads -> PlanTasks \cup {None}] /\ phase' \in Phases
      BY <1>1, <1>2 DEF Types, Phases
    <2>. QED BY <1>1, <1>2, <2>1, <2>2, <2>3
            DEF Types, eventVars, taskVars, stateVars, flagVars
  <1>9. Remembered'
    <2>1. Shapes
      BY DEF TaskInv
    <2>. QED
      BY <1>1, <1>2, <1>3, <1>6, <1>7, <2>1, RememberedKept DEF stateVars, flagVars, taskVars
  <1>. QED BY <1>2, <1>3, <1>6, <1>7, <1>8, <1>9, ClientDrops DEF eventVars, taskVars

LEMMA MarkCancelledTasks ==
  ASSUME TaskInv, MarkCancelled
  PROVE  TaskInv' /\ Calm
  <1>1. Types /\ Holding /\ Client \in Threads
    BY DEF TaskInv, Threads
  <1>2. PICK s, m : s = SetToSeq(rescheduled) /\ m = [i \in DOMAIN s |-> <<"release", s[i]>>]
    OBVIOUS
  <1>3. /\ phase = "mark" /\ phase' = "drain" /\ calls[Client] = <<>> /\ Client \notin active
        /\ cancelled' = TRUE /\ rescheduled' = {} /\ calls' = [calls EXCEPT ![Client] = m]
        /\ UNCHANGED <<plan, eventVars, queue, executorTasks, stateVars, completed,
                       result, error, interrupted, held, active, executorLock>>
    BY <1>2 DEF MarkCancelled, Idle
  <1>4. rescheduled \subseteq PlanTasks /\ IsFiniteSet(rescheduled)
    BY <1>1, PlanFacts, FS_Subset DEF Types
  <1>5. m \in Seq(Frames) /\ Range(m) = {<<"release", k>> : k \in rescheduled}
    BY <1>2, <1>4, TaskListIs
  <1>6. TasksIn(Range(m)) = rescheduled
    BY <1>5, ListTasks
  <1>7. \A i \in 1 .. Len(m) : m[i][1] = "release"
    <2>1. \A i \in 1 .. Len(m) : m[i] \in Range(m)
      BY <1>5, RangeAt
    <2>. QED BY <1>5, <2>1
  <1>8. Turns(Client, m)
    BY <1>1, <1>3, <1>5, EnterTurns
  <1>9. held[Client] = None /\ held' = [held EXCEPT ![Client] = None]
    <2>1. held[Client] = None
      BY <1>1, <1>3 DEF Holding
    <2>. QED BY <1>1, <1>3, <2>1 DEF Types
  <1>10. Types'
    <2>1. calls' \in [Threads -> Seq(Frames)]
      BY <1>1, <1>8, TurnsCalls
    <2>2. PlanEvents' = PlanEvents /\ PlanTasks' = PlanTasks /\ Frames' = Frames
      BY <1>3, PlanSame
    <2>3. phase' \in Phases /\ cancelled' \in BOOLEAN /\ rescheduled' \subseteq PlanTasks
      BY <1>3 DEF Phases
    <2>. QED BY <1>1, <1>3, <2>1, <2>2, <2>3 DEF Types, eventVars, stateVars
  <1>11. Remembered'
    BY <1>3 DEF Remembered
  <1>. QED
    BY <1>3, <1>6, <1>7, <1>8, <1>9, <1>10, <1>11, ClientDrops DEF eventVars

LEMMA DrainTasksTasks ==
  ASSUME TaskInv, DrainTasks
  PROVE  TaskInv' /\ Calm
  <1>1. Types /\ Shapes /\ Holding /\ Remembered /\ Client \in Threads
    BY DEF TaskInv, Threads
  <1>2. /\ phase = "drain" /\ calls[Client] = <<>> /\ Client \notin active
        /\ UNCHANGED <<plan, eventVars, executorTasks, rescheduled, stateVars,
                       flagVars, held, active, executorLock>>
    BY DEF DrainTasks, Idle
  <1>3. held[Client] = None
    BY <1>1, <1>2 DEF Holding
  <1>4. PlanEvents' = PlanEvents /\ PlanTasks' = PlanTasks /\ Frames' = Frames
    BY <1>2, PlanSame
  <1>5. CASE /\ UNCHANGED <<queue, calls>>
             /\ phase' = "asleep" \/ (phase' = "teardown" /\ executorTasks = 0)
    <2>1. Types'
      BY <1>1, <1>2, <1>4, <1>5 DEF Types, Phases, eventVars, stateVars, flagVars
    <2>2. Holding'
      BY <1>1, <1>2, <1>3, <1>5 DEF Holding, InCall
    <2>3. Remembered'
      BY <1>1, <1>2, <1>5, SameRemembered DEF stateVars, flagVars
    <2>. QED BY <1>2, <1>5, <2>1, <2>2, <2>3, QuietStep DEF eventVars
  <1>6. CASE /\ queue # <<>> /\ queue' = Tail(queue) /\ phase' = phase
             /\ calls' = [calls EXCEPT ![Client] = <<<<"release", Head(queue)>>>>]
    <2>1. PICK k, m : k = Head(queue) /\ m = <<<<"release", k>>>>
      OBVIOUS
    <2>2. /\ Tail(queue) \in Seq(PlanTasks) /\ k \in PlanTasks
          /\ Range(queue) = {k} \cup Range(Tail(queue))
      BY <1>1, <1>6, <2>1, QueueTail
    <2>3. /\ m \in Seq(Frames) /\ Len(m) = 1 /\ m[1] = <<"release", k>>
          /\ Range(m) = {<<"release", k>>}
      BY <2>1, <2>2, OneFrameIs
    <2>4. TasksIn(Range(m)) = {k}
      BY <2>3, OneTask
    <2>5. \A i \in 1 .. Len(m) : m[i][1] = "release"
      BY <2>3
    <2>6. Turns(Client, m)
      BY <1>1, <1>2, <1>6, <2>1, <2>3, EnterTurns
    <2>7. held' = [held EXCEPT ![Client] = None]
      BY <1>1, <1>2, <1>3 DEF Types
    <2>8. Types'
      <3>1. calls' \in [Threads -> Seq(Frames)]
        BY <1>1, <2>6, TurnsCalls
      <3>. QED BY <1>1, <1>2, <1>4, <1>6, <2>2, <3>1
              DEF Types, eventVars, stateVars, flagVars
    <2>9. Remembered'
      BY <1>1, <1>2, <2>5, <2>6, RememberedKept DEF stateVars, flagVars
    <2>. QED
      BY <1>2, <1>3, <1>6, <2>2, <2>4, <2>5, <2>6, <2>7, <2>8, <2>9, ClientDrops
      DEF eventVars
  <1>. QED BY <1>5, <1>6 DEF DrainTasks

-----------------------------------------------------------------------------
(* What the client decides *)

\* The client moves on, or nothing happens, and no task is touched.
LEMMA ClientMoves ==
  ASSUME TaskInv,
         UNCHANGED <<plan, eventVars, taskVars, stateVars, cancelled, completed, held, calls,
                     executorLock>>,
         error' = error, interrupted' \in {interrupted, TRUE},
         result' \in {"NOT_READY", "FINISHED", "EXECUTION_ERROR"},
         active' = active \/ (active' = active \ {Client} /\ phase' = phase),
         \/ phase' = phase
         \/ /\ phase \in {"execute", "after"} /\ calls[Client] = <<>> /\ Client \notin active
            /\ phase' \in {"execute", "reset"}
         \/ phase = "teardown" /\ phase' = "destroyed" /\ \A t \in Threads : calls[t] = <<>>
  PROVE  TaskInv' /\ Calm
  <1>1. Types /\ Holding /\ Counted /\ Remembered /\ Client \in Threads
    BY DEF TaskInv, Threads
  <1>2. Types'
    <2>1. PlanEvents' = PlanEvents /\ PlanTasks' = PlanTasks /\ Frames' = Frames
      BY PlanSame
    <2>2. phase' \in Phases /\ active' \subseteq Threads /\ interrupted' \in BOOLEAN
      BY <1>1 DEF Types, Phases
    <2>. QED BY <1>1, <2>1, <2>2 DEF Types, eventVars, taskVars, stateVars
  <1>3. Holding'
    <2>1. /\ \A t \in active' : calls'[t] = <<>> /\ held'[t] # None
          /\ \A t \in Threads \ {Client} : held'[t] # None => t \in active'
          /\ \A t \in Threads : InCall(t, "deschedule")' => held'[t] = None
      BY <1>1 DEF Holding, InCall
    <2>2. /\ Client \in active' => phase' = "after"
          /\ phase' \in {"execute", "reset", "asleep", "teardown", "destroyed"} =>
               calls'[Client] = <<>>
          /\ phase' \in {"mark", "drain", "asleep", "teardown", "destroyed"} =>
               held'[Client] = None
      BY <1>1 DEF Holding
    <2>. QED BY <2>1, <2>2 DEF Holding
  <1>4. Remembered'
    BY <1>1, SameRemembered DEF stateVars, taskVars
  <1>5. phase' \in {"teardown", "destroyed"} => executorTasks = 0
    BY <1>1 DEF Counted
  <1>6. phase' = "destroyed" => \A t \in Threads : calls[t] = <<>>
    BY <1>1 DEF Counted
  <1>. QED BY <1>2, <1>3, <1>4, <1>5, <1>6, QuietStep DEF eventVars, taskVars

LEMMA ClientTasks ==
  ASSUME TaskInv,
         \/ TaskYields \/ Interrupt \/ TaskReturned \/ FailExecution \/ FinishExecution
         \/ Abandon \/ TearDown \/ UNCHANGED vars
  PROVE  TaskInv' /\ Calm
  <1>1. Types /\ Holding
    BY DEF TaskInv
  <1>2. result \in {"NOT_READY", "FINISHED", "EXECUTION_ERROR"}
    BY <1>1 DEF Types
  <1>3. CASE TaskYields
    <2>1. /\ active' = active \ {Client} /\ phase' = phase
          /\ UNCHANGED <<plan, eventVars, taskVars, stateVars, flagVars, held, calls,
                         executorLock>>
      BY <1>3 DEF TaskYields
    <2>. QED BY <1>2, <2>1, ClientMoves DEF flagVars
  <1>4. CASE Interrupt
    <2>1. /\ interrupted' = TRUE
          /\ UNCHANGED <<plan, eventVars, taskVars, stateVars, cancelled, completed, result,
                         error, held, active, calls, executorLock, phase>>
      BY <1>4 DEF Interrupt
    <2>. QED BY <1>2, <2>1, ClientMoves
  <1>5. CASE TaskReturned
    <2>1. /\ phase = "after" /\ phase' \in {"execute", "reset"}
          /\ result' \in {"NOT_READY", "FINISHED", "EXECUTION_ERROR"}
          /\ calls[Client] = <<>> /\ Client \notin active
          /\ UNCHANGED <<plan, eventVars, taskVars, stateVars, cancelled, completed, error,
                         interrupted, held, active, calls, executorLock>>
      BY <1>2, <1>5 DEF TaskReturned, Idle
    <2>. QED BY <2>1, ClientMoves
  <1>6. CASE FailExecution \/ FinishExecution
    <2>1. /\ phase = "execute" /\ phase' = "reset"
          /\ result' \in {"NOT_READY", "FINISHED", "EXECUTION_ERROR"}
          /\ calls[Client] = <<>> /\ Client \notin active
          /\ UNCHANGED <<plan, eventVars, taskVars, stateVars, cancelled, completed, error,
                         interrupted, held, active, calls, executorLock>>
      BY <1>6 DEF FailExecution, FinishExecution, Driving, Idle
    <2>. QED BY <2>1, ClientMoves
  <1>7. CASE Abandon
    <2>1. /\ phase = "execute" /\ phase' = "reset" /\ calls[Client] = <<>>
          /\ Client \notin active
          /\ UNCHANGED <<plan, eventVars, taskVars, stateVars, flagVars, held, active, calls,
                         executorLock>>
      BY <1>7 DEF Abandon, Idle
    <2>. QED BY <1>2, <2>1, ClientMoves DEF flagVars
  <1>8. CASE TearDown
    <2>1. /\ phase = "teardown" /\ executorLock = None /\ phase' = "destroyed"
          /\ UNCHANGED <<plan, eventVars, taskVars, stateVars, flagVars, held, active, calls,
                         executorLock>>
      BY <1>8 DEF TearDown
    <2>2. \A t \in Threads : calls[t] = <<>>
      BY <2>1, QuietEnd, ExecutorAssumption
    <2>. QED BY <1>2, <2>1, <2>2, ClientMoves DEF flagVars
  <1>9. CASE UNCHANGED vars
    BY <1>2, <1>9, ClientMoves DEF vars, flagVars
  <1>. QED BY <1>3, <1>4, <1>5, <1>6, <1>7, <1>8, <1>9

-----------------------------------------------------------------------------
(* The tasks, in every step *)

LEMMA NextTasks ==
  ASSUME TaskInv, [Next]_vars
  PROVE  TaskInv'
  <1>1. CASE \E t \in Threads : Step(t)
    BY <1>1, CompleteDependencyTasks, ScheduleFailsTasks, FinalizeFinishTasks,
       PreventBlockingTasks, RescheduleTaskTasks, AddToBeRescheduledTasks,
       DropReferenceTasks, UnregisterTaskTasks, UnregisteredTasks DEF Step
  <1>2. CASE \E t \in Threads : Slice(t)
    BY <1>2, TaskFinishesTasks, InsertEventTasks, TaskBlocksTasks, TaskFailsTasks DEF Slice
  <1>3. CASE \E t \in Threads : Dequeue(t) \/ Callback(t)
    BY <1>3, DequeueTasks, CallbackTasks
  <1>4. CASE TaskYields \/ Interrupt \/ Abandon \/ Ended \/ UNCHANGED vars
    BY <1>4, ClientTasks DEF Ended
  <1>5. CASE ClientStep
    BY <1>5, ExecuteTaskTasks, ResetTaskTasks, MarkCancelledTasks, DrainTasksTasks,
       ClientTasks DEF ClientStep
  <1>. QED BY <1>1, <1>2, <1>3, <1>4, <1>5 DEF Next

-----------------------------------------------------------------------------
(* The stage graph *)

\* The finish stage a pipeline uses belongs to its meta-pipeline.
LEMMA OwnerIs ==
  ASSUME plan \in Plans, NEW p \in plan.pipelines
  PROVE  /\ plan.base[p] \in plan.pipelines /\ plan.base[plan.base[p]] = plan.base[p]
         /\ FinishOwner(plan, p) \in plan.pipelines
         /\ plan.base[FinishOwner(plan, p)] = plan.base[p]
         /\ FinishOwner(plan, FinishOwner(plan, p)) = FinishOwner(plan, p)
         /\ plan.base[p] = p => FinishOwner(plan, p) = p
         /\ FinishOwner(plan, plan.base[p]) = plan.base[p]
  <1>1. IsPlan(plan)
    BY PlanFacts
  <1>2. /\ plan.base \in [plan.pipelines -> plan.pipelines]
        /\ \A q \in plan.pipelines : plan.base[plan.base[q]] = plan.base[q]
        /\ plan.own \subseteq {q \in plan.pipelines : plan.base[q] # q}
        /\ plan.group \in [plan.pipelines -> plan.pipelines \cup {0}]
    BY <1>1 DEF IsPlan
  <1>3. \A q \in plan.pipelines : plan.group[q] # 0 =>
           /\ plan.group[q] \in plan.own /\ plan.group[plan.group[q]] = 0
           /\ plan.base[plan.group[q]] = plan.base[q]
    BY <1>1 DEF IsPlan
  <1>4. \A q \in plan.pipelines : plan.base[q] = q => FinishOwner(plan, q) = q
    BY DEF FinishOwner
  <1>5. CASE plan.base[p] = p
    BY <1>2, <1>4, <1>5
  <1>6. CASE plan.base[p] # p /\ plan.group[p] # 0
    <2>1. PICK g \in plan.pipelines : g = plan.group[p]
      BY <1>2, <1>6
    <2>2. FinishOwner(plan, p) = g
      BY <1>6, <2>1 DEF FinishOwner
    <2>3. g \in plan.own /\ plan.group[g] = 0 /\ plan.base[g] = plan.base[p] /\ plan.base[g] # g
      BY <1>2, <1>3, <1>6, <2>1
    <2>4. FinishOwner(plan, g) = g
      BY <2>3 DEF FinishOwner
    <2>. QED BY <1>2, <1>4, <1>6, <2>2, <2>3, <2>4
  <1>7. CASE plan.base[p] # p /\ plan.group[p] = 0 /\ p \in plan.own
    <2>1. FinishOwner(plan, p) = p
      BY <1>7 DEF FinishOwner
    <2>. QED BY <1>2, <1>4, <1>7, <2>1
  <1>8. CASE plan.base[p] # p /\ plan.group[p] = 0 /\ p \notin plan.own
    <2>1. FinishOwner(plan, p) = plan.base[p]
      BY <1>8 DEF FinishOwner
    <2>. QED BY <1>2, <1>4, <1>8, <2>1
  <1>. QED BY <1>5, <1>6, <1>7, <1>8

\* The stages of pipeline p.
StagesOf(p) ==
    {Stage(plan.base[p], "initialize"), Stage(p, "execute"),
     Stage(FinishOwner(plan, p), "prepare_finish"), Stage(FinishOwner(plan, p), "finish"),
     Stage(plan.base[p], "complete")}

LEMMA StackIs ==
  ASSUME NEW p
  PROVE  /\ StageStack(plan, p).initialize = Stage(plan.base[p], "initialize")
         /\ StageStack(plan, p).execute = Stage(p, "execute")
         /\ StageStack(plan, p).prepare_finish = Stage(FinishOwner(plan, p), "prepare_finish")
         /\ StageStack(plan, p).finish = Stage(FinishOwner(plan, p), "finish")
         /\ StageStack(plan, p).complete = Stage(plan.base[p], "complete")
  BY DEF StageStack

LEMMA StagesAre ==
  ASSUME NEW e
  PROVE  e \in Stages(plan) <=> \E p \in plan.pipelines : e \in StagesOf(p)
  <1>1. ASSUME NEW p
        PROVE  StagesOf(p) = LET s == StageStack(plan, p)
                             IN  {s.initialize, s.execute, s.prepare_finish, s.finish, s.complete}
    BY StackIs DEF StagesOf
  <1>. QED BY <1>1 DEF Stages

LEMMA StageIs ==
  ASSUME plan \in Plans, NEW e \in Stages(plan)
  PROVE  /\ e \in PlanEvents /\ e = <<e[1], e[2]>> /\ e[1] \in plan.pipelines
         /\ e[2] \in {"initialize", "execute", "prepare_finish", "finish", "complete"}
         /\ e[2] # "inserted"
         /\ e[2] \in {"initialize", "complete"} => plan.base[e[1]] = e[1]
         /\ e[2] \in {"prepare_finish", "finish"} => FinishOwner(plan, e[1]) = e[1]
  <1>1. PICK p \in plan.pipelines : e \in StagesOf(p)
    BY StagesAre
  <1>2. /\ plan.base[p] \in plan.pipelines /\ plan.base[plan.base[p]] = plan.base[p]
        /\ FinishOwner(plan, p) \in plan.pipelines
        /\ FinishOwner(plan, FinishOwner(plan, p)) = FinishOwner(plan, p)
    BY OwnerIs
  <1>3. \/ e = <<plan.base[p], "initialize">> \/ e = <<p, "execute">>
        \/ e = <<FinishOwner(plan, p), "prepare_finish">>
        \/ e = <<FinishOwner(plan, p), "finish">> \/ e = <<plan.base[p], "complete">>
    BY <1>1 DEF StagesOf, Stage
  <1>. QED BY <1>2, <1>3 DEF PlanEvents, StageTypes

LEMMA StagesIn ==
  ASSUME plan \in Plans, NEW p \in plan.pipelines
  PROVE  StagesOf(p) \subseteq Stages(plan) /\ StagesOf(p) \subseteq PlanEvents
  <1>1. StagesOf(p) \subseteq Stages(plan)
    BY StagesAre
  <1>. QED BY <1>1, StageIs

\* The dependencies join stages of the plan.
LEMMA GraphStages ==
  ASSUME plan \in Plans, NEW x \in Graph
  PROVE  \E e, d \in Stages(plan) : x = <<e, d>>
  <1>1. \A p \in plan.pipelines : plan.base[p] \in plan.pipelines
    BY OwnerIs
  <1>2. \A p \in plan.pipelines :
          LET s == StageStack(plan, p)
          IN  {s.initialize, s.execute, s.prepare_finish, s.finish, s.complete}
                 \subseteq Stages(plan)
    BY DEF Stages
  <1>3. CASE x \in UNION {BaseDependencies(plan, p) : p \in BasePipelines(plan)}
    <2>1. PICK p \in BasePipelines(plan) : x \in BaseDependencies(plan, p)
      BY <1>3
    <2>2. p \in plan.pipelines
      BY DEF BasePipelines
    <2>. QED BY <1>2, <2>1, <2>2 DEF BaseDependencies
  <1>4. CASE x \in UNION {MemberDependencies(plan, p) :
                            p \in plan.pipelines \ BasePipelines(plan)}
    <2>1. PICK p \in plan.pipelines : x \in MemberDependencies(plan, p)
      BY <1>4
    <2>. QED BY <1>1, <1>2, <2>1 DEF MemberDependencies
  <1>5. CASE x \in UNION {PipelineDependencies(plan, p) : p \in plan.pipelines}
    <2>1. PICK p \in plan.pipelines : x \in PipelineDependencies(plan, p)
      BY <1>5
    <2>2. /\ plan.deps[p] \subseteq plan.pipelines /\ plan.dataflow[p] \subseteq plan.pipelines
          /\ plan.intra[p] \subseteq plan.pipelines
      BY PlanFacts DEF IsPlan
    <2>. QED BY <1>2, <2>1, <2>2 DEF PipelineDependencies
  <1>6. CASE x \in SiblingDependencies(plan)
    <2>1. PICK c \in JoinBuilds(plan) \X JoinBuilds(plan) :
             x \in {<<StageStack(plan, c[1]).prepare_finish, StageStack(plan, c[2]).execute>>,
                    <<StageStack(plan, c[1]).finish, StageStack(plan, c[2]).prepare_finish>>}
      BY <1>6 DEF SiblingDependencies
    <2>2. c[1] \in plan.pipelines /\ c[2] \in plan.pipelines
      BY DEF JoinBuilds
    <2>. QED BY <1>2, <2>1, <2>2
  <1>. QED BY <1>3, <1>4, <1>5, <1>6 DEF Graph, BuildPipelineSchedule

LEMMA BaseEdges ==
  ASSUME plan \in Plans, NEW p \in plan.pipelines, plan.base[p] = p
  PROVE  /\ <<Stage(p, "execute"), Stage(p, "initialize")>> \in Graph
         /\ <<Stage(p, "prepare_finish"), Stage(p, "execute")>> \in Graph
         /\ <<Stage(p, "finish"), Stage(p, "prepare_finish")>> \in Graph
         /\ <<Stage(p, "complete"), Stage(p, "finish")>> \in Graph
  <1>1. BaseDependencies(plan, p) \subseteq Graph
    BY DEF Graph, BuildPipelineSchedule, BasePipelines
  <1>2. FinishOwner(plan, p) = p
    BY OwnerIs
  <1>. QED BY <1>1, <1>2, StackIs DEF BaseDependencies

LEMMA MemberEdges ==
  ASSUME plan \in Plans, NEW p \in plan.pipelines, plan.base[p] # p,
         NEW b, b = plan.base[p]
  PROVE  /\ plan.group[p] # 0 =>
              /\ FinishOwner(plan, p) = plan.group[p]
              /\ <<Stage(p, "execute"), Stage(b, "finish")>> \in Graph
              /\ <<Stage(plan.group[p], "prepare_finish"), Stage(p, "execute")>> \in Graph
         /\ plan.group[p] = 0 /\ p \in plan.own =>
              /\ FinishOwner(plan, p) = p
              /\ <<Stage(p, "execute"), Stage(b, "finish")>> \in Graph
              /\ <<Stage(p, "prepare_finish"), Stage(p, "execute")>> \in Graph
              /\ <<Stage(p, "finish"), Stage(p, "prepare_finish")>> \in Graph
              /\ <<Stage(b, "complete"), Stage(p, "finish")>> \in Graph
         /\ plan.group[p] = 0 /\ p \notin plan.own =>
              /\ FinishOwner(plan, p) = b
              /\ <<Stage(p, "execute"), Stage(b, "initialize")>> \in Graph
              /\ <<Stage(b, "prepare_finish"), Stage(p, "execute")>> \in Graph
  <1>1. MemberDependencies(plan, p) \subseteq Graph
    BY DEF Graph, BuildPipelineSchedule, BasePipelines
  <1>2. b \in plan.pipelines /\ plan.base[b] = b /\ FinishOwner(plan, b) = b
    BY OwnerIs
  <1>3. CASE plan.group[p] # 0
    <2>1. FinishOwner(plan, p) = plan.group[p]
      BY <1>3 DEF FinishOwner
    <2>2. MemberDependencies(plan, p) =
            {<<StageStack(plan, p).execute, StageStack(plan, b).finish>>,
             <<StageStack(plan, p).prepare_finish, StageStack(plan, p).execute>>}
      BY <1>3 DEF MemberDependencies
    <2>. QED BY <1>1, <1>2, <1>3, <2>1, <2>2, StackIs
  <1>4. CASE plan.group[p] = 0 /\ p \in plan.own
    <2>1. FinishOwner(plan, p) = p
      BY <1>4 DEF FinishOwner
    <2>2. MemberDependencies(plan, p) =
            {<<StageStack(plan, p).execute, StageStack(plan, b).finish>>,
             <<StageStack(plan, p).prepare_finish, StageStack(plan, p).execute>>,
             <<StageStack(plan, p).finish, StageStack(plan, p).prepare_finish>>,
             <<StageStack(plan, b).complete, StageStack(plan, p).finish>>}
      BY <1>4 DEF MemberDependencies
    <2>. QED BY <1>1, <1>2, <1>4, <2>1, <2>2, StackIs
  <1>5. CASE plan.group[p] = 0 /\ p \notin plan.own
    <2>1. FinishOwner(plan, p) = b
      BY <1>5 DEF FinishOwner
    <2>2. MemberDependencies(plan, p) =
            {<<StageStack(plan, p).execute, StageStack(plan, b).initialize>>,
             <<StageStack(plan, b).prepare_finish, StageStack(plan, p).execute>>}
      BY <1>5 DEF MemberDependencies
    <2>. QED BY <1>1, <1>2, <1>5, <2>1, <2>2, StackIs
  <1>. QED BY <1>3, <1>4, <1>5

\* The order of the stages of a pipeline, whichever finish stage it uses.
LEMMA Edges ==
  ASSUME plan \in Plans, NEW p \in plan.pipelines, NEW o, o = FinishOwner(plan, p)
  PROVE  /\ \E d \in Stages(plan) : <<Stage(p, "execute"), d>> \in Graph
         /\ <<Stage(o, "prepare_finish"), Stage(p, "execute")>> \in Graph
         /\ <<Stage(o, "finish"), Stage(o, "prepare_finish")>> \in Graph
         /\ <<Stage(plan.base[p], "complete"), Stage(o, "finish")>> \in Graph
  <1>1. PICK b \in plan.pipelines : b = plan.base[p]
    BY OwnerIs
  <1>2. plan.base[b] = b /\ FinishOwner(plan, b) = b
    BY <1>1, OwnerIs
  <1>3. Stage(b, "initialize") \in Stages(plan) /\ Stage(b, "finish") \in Stages(plan)
    BY <1>2, StagesIn DEF StagesOf
  <1>4. /\ <<Stage(b, "execute"), Stage(b, "initialize")>> \in Graph
        /\ <<Stage(b, "prepare_finish"), Stage(b, "execute")>> \in Graph
        /\ <<Stage(b, "finish"), Stage(b, "prepare_finish")>> \in Graph
        /\ <<Stage(b, "complete"), Stage(b, "finish")>> \in Graph
    BY <1>2, BaseEdges
  <1>5. CASE b = p
    BY <1>1, <1>2, <1>3, <1>4, <1>5
  <1>6. CASE b # p /\ plan.group[p] # 0
    <2>1. /\ o = plan.group[p]
          /\ <<Stage(p, "execute"), Stage(b, "finish")>> \in Graph
          /\ <<Stage(o, "prepare_finish"), Stage(p, "execute")>> \in Graph
      BY <1>1, <1>6, MemberEdges
    <2>2. /\ o \in plan.pipelines /\ plan.base[o] = b /\ plan.base[o] # o
          /\ o \in plan.own /\ plan.group[o] = 0
      <3>1. IsPlan(plan)
        BY PlanFacts
      <3>2. \A q \in plan.pipelines : plan.group[q] # 0 =>
               /\ plan.group[q] \in plan.own /\ plan.group[plan.group[q]] = 0
               /\ plan.base[plan.group[q]] = plan.base[q]
        BY <3>1 DEF IsPlan
      <3>3. plan.own \subseteq {q \in plan.pipelines : plan.base[q] # q}
        BY <3>1 DEF IsPlan
      <3>. QED BY <1>1, <1>6, <2>1, <3>2, <3>3
    <2>3. /\ <<Stage(o, "finish"), Stage(o, "prepare_finish")>> \in Graph
          /\ <<Stage(b, "complete"), Stage(o, "finish")>> \in Graph
      BY <2>2, MemberEdges
    <2>. QED BY <1>1, <1>3, <2>1, <2>3
  <1>7. CASE b # p /\ plan.group[p] = 0 /\ p \in plan.own
    <2>1. /\ o = p
          /\ <<Stage(p, "execute"), Stage(b, "finish")>> \in Graph
          /\ <<Stage(p, "prepare_finish"), Stage(p, "execute")>> \in Graph
          /\ <<Stage(p, "finish"), Stage(p, "prepare_finish")>> \in Graph
          /\ <<Stage(b, "complete"), Stage(p, "finish")>> \in Graph
      BY <1>1, <1>7, MemberEdges
    <2>. QED BY <1>1, <1>3, <2>1
  <1>8. CASE b # p /\ plan.group[p] = 0 /\ p \notin plan.own
    <2>1. /\ o = b
          /\ <<Stage(p, "execute"), Stage(b, "initialize")>> \in Graph
          /\ <<Stage(b, "prepare_finish"), Stage(p, "execute")>> \in Graph
      BY <1>1, <1>8, MemberEdges
    <2>. QED BY <1>1, <1>3, <1>4, <2>1
  <1>. QED BY <1>5, <1>6, <1>7, <1>8

LEMMA CrossEdges ==
  ASSUME plan \in Plans, NEW p \in plan.pipelines
  PROVE  /\ \A d \in plan.deps[p] :
              d \in plan.pipelines /\ <<Stage(p, "execute"), Stage(plan.base[d], "complete")>> \in Graph
         /\ \A q \in plan.pipelines :
              p # q /\ plan.build[p] # 0 /\ plan.build[q] = plan.build[p] =>
                 <<Stage(p, "finish"), Stage(q, "prepare_finish")>> \in Graph
  <1>1. IsPlan(plan)
    BY PlanFacts
  <1>2. ASSUME NEW d \in plan.deps[p]
        PROVE  d \in plan.pipelines /\ <<Stage(p, "execute"), Stage(plan.base[d], "complete")>> \in Graph
    <2>1. d \in plan.pipelines
      BY <1>1 DEF IsPlan
    <2>2. PipelineDependencies(plan, p) \subseteq Graph
      BY DEF Graph, BuildPipelineSchedule
    <2>3. <<StageStack(plan, p).execute, StageStack(plan, d).complete>>
             \in PipelineDependencies(plan, p)
      BY DEF PipelineDependencies
    <2>. QED BY <2>1, <2>2, <2>3, StackIs
  <1>3. ASSUME NEW q \in plan.pipelines, p # q, plan.build[p] # 0,
               plan.build[q] = plan.build[p]
        PROVE  <<Stage(p, "finish"), Stage(q, "prepare_finish")>> \in Graph
    <2>1. plan.base[p] = p /\ plan.base[q] = q
      BY <1>1, <1>3 DEF IsPlan
    <2>2. FinishOwner(plan, p) = p /\ FinishOwner(plan, q) = q
      BY <2>1, OwnerIs
    <2>3. PICK c : c = <<p, q>>
      OBVIOUS
    <2>4. c \in {x \in JoinBuilds(plan) \X JoinBuilds(plan) :
                    x[1] # x[2] /\ plan.build[x[1]] = plan.build[x[2]]}
      BY <1>3, <2>3 DEF JoinBuilds
    <2>5. <<StageStack(plan, p).finish, StageStack(plan, q).prepare_finish>>
             \in SiblingDependencies(plan)
      BY <2>3, <2>4 DEF SiblingDependencies
    <2>. QED BY <2>2, <2>5, StackIs DEF Graph, BuildPipelineSchedule
  <1>. QED BY <1>2, <1>3

\* Only the initialize stages depend on nothing.
LEMMA FirstStages ==
  ASSUME plan \in Plans, NEW e \in Stages(plan), \A d : <<e, d>> \notin Graph
  PROVE  e[2] = "initialize"
  <1>1. PICK p \in plan.pipelines : e \in StagesOf(p)
    BY StagesAre
  <1>2. PICK o : o = FinishOwner(plan, p)
    OBVIOUS
  <1>3. /\ \E d \in Stages(plan) : <<Stage(p, "execute"), d>> \in Graph
        /\ <<Stage(o, "prepare_finish"), Stage(p, "execute")>> \in Graph
        /\ <<Stage(o, "finish"), Stage(o, "prepare_finish")>> \in Graph
        /\ <<Stage(plan.base[p], "complete"), Stage(o, "finish")>> \in Graph
    BY <1>2, Edges
  <1>4. e = Stage(plan.base[p], "initialize")
    BY <1>1, <1>2, <1>3 DEF StagesOf
  <1>. QED BY <1>4 DEF Stage

\* The dependencies and the dependents of an event.
LEMMA DepsAre ==
  ASSUME plan \in Plans, NEW e, NEW d
  PROVE  /\ d \in Deps(e) <=> <<e, d>> \in Graph
         /\ e \in Children(d) <=> <<e, d>> \in Graph
         /\ <<e, d>> \in Graph => e \in Stages(plan) /\ d \in Stages(plan)
         /\ IsFiniteSet(Deps(e))
  <1>1. <<e, d>> \in Graph => e \in Stages(plan) /\ d \in Stages(plan)
    <2>1. ASSUME <<e, d>> \in Graph PROVE e \in Stages(plan) /\ d \in Stages(plan)
      <3>1. PICK x, y \in Stages(plan) : <<e, d>> = <<x, y>>
        BY <2>1, GraphStages
      <3>. QED BY <3>1
    <2>. QED BY <2>1
  <1>2. Stages(plan) \subseteq PlanEvents
    BY StageIs
  <1>3. IsFiniteSet(Deps(e))
    BY PlanFacts, FS_Subset DEF Deps
  <1>. QED BY <1>1, <1>2, <1>3 DEF Deps, Children

-----------------------------------------------------------------------------
(* What the invariant says of stages that have begun *)

\* An event that was scheduled has heard from all it depends on.
LEMMA AllReported ==
  ASSUME ExecutorInv, NEW e \in Stages(plan), Begun(e), NEW d, <<e, d>> \in Graph
  PROVE  d \in Stages(plan) /\ d \in finished /\ Begun(d) /\ Done(d)
  <1>1. Types /\ Dependencies /\ Scheduling /\ plan \in Plans
    BY DEF ExecutorInv, TaskInv, EventInv, Types
  <1>2. IsFiniteSet(Deps(e)) /\ d \in Deps(e) /\ d \in Stages(plan)
    BY <1>1, DepsAre
  <1>3. Reported(e) \subseteq Deps(e)
    BY DEF Reported
  <1>4. needs[e] = Cardinality(Deps(e)) /\ met[e] = Cardinality(Reported(e)) /\ met[e] >= needs[e]
    BY <1>1 DEF Dependencies, Begun
  <1>5. /\ IsFiniteSet(Reported(e)) /\ Cardinality(Reported(e)) <= Cardinality(Deps(e))
        /\ Cardinality(Reported(e)) = Cardinality(Deps(e)) => Reported(e) = Deps(e)
    BY <1>2, <1>3, FS_Subset
  <1>6. Cardinality(Reported(e)) \in Nat /\ Cardinality(Deps(e)) \in Nat
    BY <1>2, <1>5, FS_CardinalityType
  <1>7. Reported(e) = Deps(e)
    BY <1>4, <1>5, <1>6
  <1>8. Done(d)
    BY <1>2, <1>7 DEF Reported
  <1>9. d \in finished /\ d \in PlanEvents
    BY <1>1, <1>2, <1>8, StageIs DEF Done
  <1>10. Begun(d)
    BY <1>1, <1>9 DEF Scheduling, SchedulingAt
  <1>. QED BY <1>2, <1>8, <1>9, <1>10

\* A complete event is the last of its meta-pipeline.
LEMMA MetaDone ==
  ASSUME ExecutorInv, NEW q \in plan.pipelines, Stage(plan.base[q], "complete") \in finished
  PROVE  /\ StagesOf(q) \subseteq finished
         /\ needs[Stage(q, "inserted")] > 0 => Stage(q, "inserted") \in finished
  <1>1. Types /\ Dependencies /\ Scheduling /\ plan \in Plans
    BY DEF ExecutorInv, TaskInv, EventInv, Types
  <1>2. PICK b \in plan.pipelines : b = plan.base[q]
    BY <1>1, OwnerIs
  <1>3. plan.base[b] = b /\ FinishOwner(plan, b) = b
    BY <1>1, <1>2, OwnerIs
  <1>4. PICK o \in plan.pipelines : o = FinishOwner(plan, q)
    BY <1>1, OwnerIs
  <1>5. /\ <<Stage(o, "prepare_finish"), Stage(q, "execute")>> \in Graph
        /\ <<Stage(o, "finish"), Stage(o, "prepare_finish")>> \in Graph
        /\ <<Stage(b, "complete"), Stage(o, "finish")>> \in Graph
    BY <1>1, <1>2, <1>4, Edges
  <1>6. /\ <<Stage(b, "execute"), Stage(b, "initialize")>> \in Graph
        /\ <<Stage(b, "prepare_finish"), Stage(b, "execute")>> \in Graph
        /\ <<Stage(b, "finish"), Stage(b, "prepare_finish")>> \in Graph
        /\ <<Stage(b, "complete"), Stage(b, "finish")>> \in Graph
    BY <1>1, <1>3, BaseEdges
  <1>7. Stage(b, "complete") \in finished /\ Stage(b, "complete") \in Stages(plan)
        /\ Stage(b, "complete") \in PlanEvents
    BY <1>1, <1>2, StagesIn DEF StagesOf
  <1>8. Begun(Stage(b, "complete"))
    BY <1>1, <1>7 DEF Scheduling, SchedulingAt
  <1>9. /\ Stage(o, "finish") \in finished /\ Begun(Stage(o, "finish"))
        /\ Done(Stage(o, "finish")) /\ Stage(o, "finish") \in Stages(plan)
    BY <1>5, <1>7, <1>8, AllReported
  <1>10. /\ Stage(o, "prepare_finish") \in finished /\ Begun(Stage(o, "prepare_finish"))
         /\ Stage(o, "prepare_finish") \in Stages(plan)
    BY <1>5, <1>9, AllReported
  <1>11. Stage(q, "execute") \in finished
    BY <1>5, <1>10, AllReported
  <1>12. Stage(b, "finish") \in Stages(plan) /\ Begun(Stage(b, "finish"))
    BY <1>6, <1>7, <1>8, AllReported
  <1>13. Stage(b, "prepare_finish") \in Stages(plan) /\ Begun(Stage(b, "prepare_finish"))
    BY <1>6, <1>12, AllReported
  <1>14. Stage(b, "execute") \in Stages(plan) /\ Begun(Stage(b, "execute"))
    BY <1>6, <1>13, AllReported
  <1>15. Stage(b, "initialize") \in finished
    BY <1>6, <1>14, AllReported
  <1>16. ASSUME needs[Stage(q, "inserted")] > 0
         PROVE  Stage(q, "inserted") \in finished
    <2>1. PICK e : e = Stage(q, "inserted")
      OBVIOUS
    <2>2. e \in PlanEvents /\ e[2] = "inserted" /\ e[1] = q /\ Finish(e) = Stage(q, "finish")
      BY <2>1 DEF PlanEvents, StageTypes, Stage, Finish
    <2>3. needs[e] \in {0, 1} /\ (needs[e] = 1 => Finish(e) \in Stages(plan))
      BY <1>1, <2>2 DEF Dependencies
    <2>4. Stage(q, "finish") \in Stages(plan)
      BY <1>16, <2>1, <2>2, <2>3
    <2>5. Stage(q, "finish")[2] = "finish" /\ Stage(q, "finish")[1] = q
      BY DEF Stage
    <2>6. o = q
      BY <1>1, <1>4, <2>4, <2>5, StageIs
    <2>7. Rerouted(Stage(q, "finish")) /\ Inserted(Stage(q, "finish")) = e
      BY <1>16, <2>1, <2>5 DEF Rerouted, Inserted
    <2>. QED BY <1>9, <2>1, <2>6, <2>7 DEF Done
  <1>. QED BY <1>2, <1>4, <1>7, <1>9, <1>10, <1>11, <1>15, <1>16 DEF StagesOf

LEMMA OrderFollows ==
  ASSUME ExecutorInv
  PROVE  PipelineOrder
  <1>1. Types /\ Dependencies /\ Scheduling /\ plan \in Plans
    BY DEF ExecutorInv, TaskInv, EventInv, Types
  <1>2. ASSUME NEW p \in plan.pipelines, total[Stage(p, "execute")] > 0, NEW d \in plan.deps[p]
        PROVE  MetaPipelineDone(d)
    <2>1. Stage(p, "execute") \in Stages(plan) /\ Stage(p, "execute") \in PlanEvents
      BY <1>1, StagesIn DEF StagesOf
    <2>2. Begun(Stage(p, "execute"))
      BY <1>1, <1>2, <2>1 DEF Scheduling, SchedulingAt
    <2>3. d \in plan.pipelines
          /\ <<Stage(p, "execute"), Stage(plan.base[d], "complete")>> \in Graph
      BY <1>1, CrossEdges
    <2>4. Stage(plan.base[d], "complete") \in finished
      BY <2>1, <2>2, <2>3, AllReported
    <2>5. ASSUME NEW q \in plan.pipelines, plan.base[q] = plan.base[d]
          PROVE  /\ StagesOf(q) \subseteq finished
                 /\ needs[Stage(q, "inserted")] > 0 => Stage(q, "inserted") \in finished
      BY <2>4, <2>5, MetaDone
    <2>. QED BY <2>5, StackIs DEF MetaPipelineDone, StagesOf
  <1>3. ASSUME NEW p \in plan.pipelines, total[Stage(p, "finish")] > 0, p \in JoinBuilds(plan),
               NEW q \in JoinBuilds(plan), plan.build[q] = plan.build[p]
        PROVE  Stage(q, "prepare_finish") \in finished
    <2>1. plan.base[p] = p /\ plan.build[p] # 0 /\ q \in plan.pipelines
      BY <1>1, <1>3, PlanFacts DEF IsPlan, JoinBuilds
    <2>2. FinishOwner(plan, p) = p
      BY <1>1, <2>1, OwnerIs
    <2>3. Stage(p, "finish") \in Stages(plan) /\ Stage(p, "finish") \in PlanEvents
      BY <1>1, <2>2, StagesIn DEF StagesOf
    <2>4. Begun(Stage(p, "finish"))
      BY <1>1, <1>3, <2>3 DEF Scheduling, SchedulingAt
    <2>5. <<Stage(p, "finish"), Stage(q, "prepare_finish")>> \in Graph
      <3>1. CASE p = q
        BY <1>1, <2>1, <3>1, BaseEdges
      <3>2. CASE p # q
        BY <1>1, <1>3, <2>1, <3>2, CrossEdges
      <3>. QED BY <3>1, <3>2
    <2>. QED BY <2>3, <2>4, <2>5, AllReported
  <1>. QED BY <1>2, <1>3 DEF PipelineOrder

\* When all meta-pipelines are complete, every event is.
LEMMA AllDone ==
  ASSUME ExecutorInv, completed >= TotalPipelines, NEW e \in PlanEvents,
         e \in Stages(plan) \/ needs[e] > 0
  PROVE  e \in finished
  <1>1. Types /\ Dependencies /\ Completion /\ plan \in Plans
    BY DEF ExecutorInv, TaskInv, EventInv, Types
  <1>2. IsFiniteSet(BasePipelines(plan))
    BY <1>1, PlanFacts, FS_Subset DEF BasePipelines
  <1>3. Finalized \subseteq BasePipelines(plan)
    BY DEF Finalized
  <1>4. /\ IsFiniteSet(Finalized) /\ Cardinality(Finalized) <= Cardinality(BasePipelines(plan))
        /\ Cardinality(Finalized) = Cardinality(BasePipelines(plan)) =>
             Finalized = BasePipelines(plan)
    BY <1>2, <1>3, FS_Subset
  <1>5. Cardinality(Finalized) \in Nat /\ Cardinality(BasePipelines(plan)) \in Nat
    BY <1>2, <1>4, FS_CardinalityType
  <1>6. completed = Cardinality(Finalized)
    BY <1>1 DEF Completion
  <1>7. Finalized = BasePipelines(plan)
    BY <1>4, <1>5, <1>6 DEF TotalPipelines
  <1>8. ASSUME NEW q \in plan.pipelines
        PROVE  /\ StagesOf(q) \subseteq finished
               /\ needs[Stage(q, "inserted")] > 0 => Stage(q, "inserted") \in finished
    <2>1. plan.base[q] \in BasePipelines(plan)
      BY <1>1, OwnerIs DEF BasePipelines
    <2>2. Stage(plan.base[q], "complete") \in finished
      BY <1>7, <2>1 DEF Finalized
    <2>. QED BY <2>2, MetaDone
  <1>9. CASE e \in Stages(plan)
    <2>1. PICK p \in plan.pipelines : e \in StagesOf(p)
      BY <1>9, StagesAre
    <2>. QED BY <1>8, <2>1
  <1>10. CASE e \notin Stages(plan) /\ needs[e] > 0
    <2>1. e[2] = "inserted"
      BY <1>1, <1>10 DEF Dependencies
    <2>2. e[1] \in plan.pipelines /\ e = Stage(e[1], "inserted")
      BY <2>1 DEF PlanEvents, Stage
    <2>. QED BY <1>8, <1>10, <2>2
  <1>. QED BY <1>9, <1>10

LEMMA SuccessFollows ==
  ASSUME ExecutorInv
  PROVE  SuccessIsReal
  <1>1. Types /\ Dependencies /\ Scheduling /\ Completion /\ plan \in Plans
    BY DEF ExecutorInv, TaskInv, EventInv, Types
  <1>2. ASSUME result = "FINISHED", NEW e \in Events, e \in Stages(plan) \/ needs[e] > 0
        PROVE  ~error /\ e \in finished /\ done[e] = Cardinality(ScheduledTasks(e))
    <2>1. ~error /\ completed >= TotalPipelines
      BY <1>1, <1>2 DEF Completion
    <2>2. e \in PlanEvents
      BY <1>1, <1>2, StageIs DEF Scheduling, SchedulingAt
    <2>3. e \in finished
      BY <1>2, <2>1, <2>2, AllDone
    <2>. QED BY <1>1, <2>1, <2>2, <2>3 DEF Scheduling, SchedulingAt
  <1>3. result = "FINISHED" => ~error
    BY <1>1 DEF Completion
  <1>. QED BY <1>2, <1>3 DEF SuccessIsReal

-----------------------------------------------------------------------------
(* The properties of the runs *)

LEMMA AtMostOne ==
  ASSUME NEW S, \A x, y \in S : x = y
  PROVE  Cardinality(S) \in {0, 1} /\ (S = {} => Cardinality(S) = 0)
  <1>1. CASE S = {}
    BY <1>1, FS_EmptySet
  <1>2. CASE S # {}
    <2>1. PICK x : S = {x}
      BY <1>2
    <2>. QED BY <1>2, <2>1, FS_Singleton
  <1>. QED BY <1>1, <1>2

LEMMA TypesFollow ==
  ASSUME ExecutorInv
  PROVE  TypeOK
  <1>1. Types /\ Scheduling /\ Completion /\ plan \in Plans
    BY DEF ExecutorInv, TaskInv, EventInv, Types
  <1>2. PlanEvents \subseteq Events /\ PlanTasks \subseteq Tasks /\ plan.pipelines \subseteq AllPipelines
    BY <1>1, PlanFacts
  <1>3. ASSUME NEW e \in Events PROVE total[e] \in 0 .. MaxThreads /\ done[e] \in 0 .. MaxThreads
    <2>1. MaxThreads \in Nat /\ total[e] \in Nat /\ done[e] \in Nat
      BY <1>1, ExecutorAssumption DEF Types
    <2>2. CASE e \in PlanEvents
      <3>1. Cardinality(ScheduledTasks(e)) \in 0 .. MaxThreads
        BY <1>1, <2>2, ScheduledIs
      <3>2. total[e] \in {0, Cardinality(ScheduledTasks(e))}
            /\ done[e] + Cardinality(Open(e)) <= total[e]
        BY <1>1, <2>2 DEF Scheduling, SchedulingAt
      <3>3. Cardinality(Open(e)) \in Nat
        <4>1. IsFiniteSet(Open(e))
          BY <1>1, PlanFacts, FS_Subset DEF Open
        <4>. QED BY <4>1, FS_CardinalityType
      <3>. QED BY <2>1, <3>1, <3>2, <3>3
    <2>3. CASE e \notin PlanEvents
      BY <1>1, <2>1, <2>3 DEF Scheduling, SchedulingAt
    <2>. QED BY <2>2, <2>3
  <1>4. total \in [Events -> 0 .. MaxThreads] /\ done \in [Events -> 0 .. MaxThreads]
    BY <1>1, <1>3 DEF Types
  <1>5. completed \in 0 .. TotalPipelines
    <2>1. IsFiniteSet(BasePipelines(plan))
      BY <1>1, PlanFacts, FS_Subset DEF BasePipelines
    <2>2. Finalized \subseteq BasePipelines(plan)
      BY DEF Finalized
    <2>3. IsFiniteSet(Finalized) /\ Cardinality(Finalized) <= Cardinality(BasePipelines(plan))
      BY <2>1, <2>2, FS_Subset
    <2>4. Cardinality(Finalized) \in Nat /\ Cardinality(BasePipelines(plan)) \in Nat
      BY <2>1, <2>3, FS_CardinalityType
    <2>. QED BY <1>1, <2>3, <2>4 DEF Completion, TotalPipelines
  <1>6. Range(queue) \subseteq Tasks /\ rescheduled \subseteq Tasks
    <2>1. queue \in Seq(PlanTasks) /\ rescheduled \subseteq PlanTasks
      BY <1>1 DEF Types
    <2>2. Range(queue) \subseteq PlanTasks
      BY <2>1 DEF Range
    <2>. QED BY <1>2, <2>1, <2>2
  <1>7. finished \subseteq Events /\ initialized \subseteq AllPipelines
    BY <1>1, <1>2 DEF Types
  <1>8. /\ blockedTasks \in [AllPipelines -> SUBSET Tasks]
        /\ held \in [Threads -> Tasks \cup {None}]
    BY <1>1, <1>2 DEF Types
  <1>9. {cancelled, error, interrupted} \subseteq BOOLEAN
    BY <1>1 DEF Types
  <1>. QED
    BY <1>1, <1>4, <1>5, <1>6, <1>7, <1>8, <1>9 DEF Types, TypeOK, Phases

LEMMA AccountsFollow ==
  ASSUME ExecutorInv
  PROVE  TasksAccounted
  <1>1. Types /\ OwnedOnce /\ Remembered /\ plan \in Plans
    BY DEF ExecutorInv, TaskInv, Types
  <1>2. ASSUME NEW k \in Referenced(calls) \ {None} PROVE Owners(k) <= 1
    <2>1. k \in PlanTasks
      BY <1>1, LiveIs DEF Live
    <2>2. PICK A, B : /\ A = {i \in DOMAIN queue : queue[i] = k}
                      /\ B = {t \in Threads : held[t] = k
                                \/ (InCall(t, "deschedule") /\ Head(calls[t])[2] = k)}
      OBVIOUS
    <2>3. \A i, j \in A : i = j
      BY <1>1, <2>2 DEF OwnedOnce
    <2>4. B = {t \in Threads : Holds(t, k)}
      BY <2>2 DEF Holds
    <2>5. \A t, u \in B : t = u
      BY <1>1, <2>1, <2>4 DEF OwnedOnce
    <2>6. A = {} \/ (B = {} /\ k \notin rescheduled)
      BY <1>1, <2>2, <2>4 DEF OwnedOnce
    <2>7. B = {} \/ k \notin rescheduled
      BY <1>1, <2>4 DEF OwnedOnce
    <2>8. Cardinality(A) \in {0, 1} /\ (A = {} => Cardinality(A) = 0)
      BY <2>3, AtMostOne
    <2>9. Cardinality(B) \in {0, 1} /\ (B = {} => Cardinality(B) = 0)
      BY <2>5, AtMostOne
    <2>10. Owners(k) = Cardinality(A) + Cardinality(B) + IF k \in rescheduled THEN 1 ELSE 0
      BY <2>2 DEF Owners
    <2>. QED BY <2>6, <2>7, <2>8, <2>9, <2>10
  <1>3. NoTaskForgotten
    <2>1. ASSUME NEW k \in rescheduled
          PROVE  k \in blockedTasks[PipelineOf(k)] \/ Has(<<"wake", k>>)
      <3>1. k \in PlanTasks /\ Parking(k)
        BY <1>1 DEF Types, Parking
      <3>2. Woken(k)
        BY <1>1, <3>1 DEF Remembered
      <3>. QED BY <3>2 DEF Woken
    <2>. QED BY <2>1 DEF NoTaskForgotten, Has
  <1>. QED BY <1>2, <1>3, TypesFollow DEF TasksAccounted, TaskOwnedOnce

LEMMA EndFollows ==
  ASSUME TaskInv
  PROVE  NothingOutlives
  <1>1. Types /\ Counted /\ Client \in Threads
    BY DEF TaskInv, Threads
  <1>2. ASSUME phase \in {"teardown", "destroyed"}
        PROVE  rescheduled = {} /\ active = {} /\ Referenced(calls) = {None}
    <2>1. /\ Live = {} /\ active = {} /\ rescheduled = {}
          /\ \A t \in Threads : held[t] = None
      BY <1>2, QuietEnd
    <2>2. None \in Referenced(calls)
      BY <1>1, <2>1, ReferencedIs
    <2>. QED BY <2>1, <2>2 DEF Live
  <1>3. phase = "destroyed" => \A t \in Threads : calls[t] = <<>>
    BY <1>1 DEF Counted
  <1>. QED BY <1>2, <1>3 DEF NothingOutlives

-----------------------------------------------------------------------------
(* The initial states *)

\* The stages that depend on nothing, and their tasks.
First == {e \in Stages(plan) : ~\E d \in Graph : d[1] = e}
FirstTasks == {<<e, 1>> : e \in First}

LEMMA FirstIs ==
  ASSUME plan \in Plans
  PROVE  /\ IsFiniteSet(FirstTasks) /\ FirstTasks \subseteq PlanTasks
         /\ Cardinality(FirstTasks) = Cardinality(First)
         /\ \A e \in First : /\ e \in PlanEvents /\ e[2] = "initialize" /\ Deps(e) = {}
                             /\ ScheduledTasks(e) = {<<e, 1>>}
  <1>1. First \subseteq PlanEvents /\ IsFiniteSet(First)
    BY StageIs, PlanFacts, FS_Subset DEF First
  <1>2. 1 \in 1 .. MaxThreads
    BY ExecutorAssumption
  <1>3. FirstTasks \subseteq PlanTasks
    BY <1>1, <1>2 DEF FirstTasks, PlanTasks
  <1>4. ExistsBijection(First, FirstTasks)
    <2>1. PICK g : g = [e \in First |-> <<e, 1>>]
      OBVIOUS
    <2>2. g \in Bijection(First, FirstTasks)
      BY <2>1 DEF Bijection, Injection, Surjection, IsInjective, FirstTasks
    <2>. QED BY <2>2 DEF ExistsBijection
  <1>5. IsFiniteSet(FirstTasks) /\ Cardinality(FirstTasks) = Cardinality(First)
    BY <1>1, <1>4, FS_Bijection
  <1>6. ASSUME NEW e \in First
        PROVE  e[2] = "initialize" /\ Deps(e) = {} /\ ScheduledTasks(e) = {<<e, 1>>}
    <2>1. \A d : <<e, d>> \notin Graph
      <3>. SUFFICES ASSUME NEW d, <<e, d>> \in Graph PROVE FALSE
        OBVIOUS
      <3>1. PICK x : x = <<e, d>>
        OBVIOUS
      <3>2. x \in Graph /\ x[1] = e
        BY <3>1
      <3>. QED BY <3>2 DEF First
    <2>2. e[2] = "initialize"
      BY <2>1, FirstStages DEF First
    <2>3. Deps(e) = {}
      BY <2>1 DEF Deps
    <2>. QED BY <1>1, <2>2, <2>3, ScheduledIs
  <1>. QED BY <1>1, <1>3, <1>5, <1>6

\* An event's dependencies, counted as edges of the graph.
LEMMA DepsCounted ==
  ASSUME plan \in Plans, NEW e, NEW E, E = {x \in Graph : x[1] = e}
  PROVE  Cardinality(E) = Cardinality(Deps(e)) /\ IsFiniteSet(E)
  <1>1. PICK g : g = [d \in Deps(e) |-> <<e, d>>]
    OBVIOUS
  <1>2. \A d \in Deps(e) : <<e, d>> \in E
    <2>. SUFFICES ASSUME NEW d \in Deps(e) PROVE <<e, d>> \in E
      OBVIOUS
    <2>1. PICK x : x = <<e, d>>
      OBVIOUS
    <2>2. x \in Graph /\ x[1] = e
      BY <2>1, DepsAre
    <2>. QED BY <2>1, <2>2
  <1>3. \A x \in E : \E d \in Deps(e) : x = <<e, d>>
    <2>. SUFFICES ASSUME NEW x \in E PROVE \E d \in Deps(e) : x = <<e, d>>
      OBVIOUS
    <2>1. PICK y, d \in Stages(plan) : x = <<y, d>>
      BY GraphStages
    <2>2. y = e /\ d \in Deps(e)
      BY <2>1, DepsAre
    <2>. QED BY <2>1, <2>2
  <1>4. g \in Bijection(Deps(e), E)
    <2>1. g \in [Deps(e) -> E]
      BY <1>1, <1>2
    <2>2. \A c, d \in Deps(e) : g[c] = g[d] => c = d
      BY <1>1
    <2>3. \A x \in E : \E d \in Deps(e) : g[d] = x
      BY <1>1, <1>3
    <2>. QED BY <2>1, <2>2, <2>3 DEF Bijection, Injection, Surjection, IsInjective
  <1>5. IsFiniteSet(Deps(e))
    BY DepsAre
  <1>. QED BY <1>4, <1>5, FS_Bijection DEF ExistsBijection

LEMMA InitIs ==
  ASSUME Init
  PROVE  /\ plan \in Plans
         /\ parents = [e \in Events |-> Children(e)]
         /\ needs = [e \in Events |-> Cardinality(Deps(e))]
         /\ total = [e \in Events |-> IF e \in First THEN 1 ELSE 0]
         /\ queue = SetToSeq(FirstTasks) /\ executorTasks = Cardinality(First)
  <1>1. plan \in Plans
    BY DEF Init
  <1>2. /\ parents = [e \in Events |-> {x[1] : x \in {y \in Graph : y[2] = e}}]
        /\ needs = [e \in Events |-> Cardinality({x \in Graph : x[1] = e})]
        /\ total = [e \in Events |-> IF e \in First THEN 1 ELSE 0]
        /\ queue = SetToSeq(FirstTasks) /\ executorTasks = Cardinality(First)
    BY DEF Init, Graph, First, FirstTasks
  <1>3. ASSUME NEW e PROVE {x[1] : x \in {y \in Graph : y[2] = e}} = Children(e)
    <2>1. ASSUME NEW x \in Graph, x[2] = e PROVE x[1] \in Children(e)
      <3>1. PICK c, d \in Stages(plan) : x = <<c, d>>
        BY <1>1, GraphStages
      <3>2. x[1] = c /\ d = e
        BY <2>1, <3>1
      <3>. QED BY <1>1, <3>1, <3>2, DepsAre
    <2>2. ASSUME NEW c \in Children(e) PROVE \E x \in Graph : x[2] = e /\ x[1] = c
      <3>1. PICK x : x = <<c, e>>
        OBVIOUS
      <3>2. x \in Graph /\ x[1] = c /\ x[2] = e
        BY <1>1, <3>1, DepsAre
      <3>. QED BY <3>2
    <2>. QED BY <2>1, <2>2
  <1>4. \A e : Cardinality({x \in Graph : x[1] = e}) = Cardinality(Deps(e))
    BY <1>1, DepsCounted
  <1>. QED BY <1>1, <1>2, <1>3, <1>4

LEMMA InitTasks ==
  ASSUME Init
  PROVE  TaskInv
  <1>1. /\ plan \in Plans
        /\ parents = [e \in Events |-> Children(e)]
        /\ needs = [e \in Events |-> Cardinality(Deps(e))]
        /\ total = [e \in Events |-> IF e \in First THEN 1 ELSE 0]
        /\ queue = SetToSeq(FirstTasks) /\ executorTasks = Cardinality(First)
    BY InitIs
  <1>2. /\ IsFiniteSet(FirstTasks) /\ FirstTasks \subseteq PlanTasks
        /\ Cardinality(FirstTasks) = Cardinality(First)
        /\ \A e \in First : e \in PlanEvents /\ e[2] = "initialize" /\ Deps(e) = {}
    BY <1>1, FirstIs
  <1>3. /\ queue \in Seq(FirstTasks) /\ Len(queue) = Cardinality(FirstTasks)
        /\ \A i, j \in 1 .. Cardinality(FirstTasks) : queue[i] = queue[j] => i = j
        /\ Range(queue) = FirstTasks
    BY <1>1, <1>2, ListOfSet
  <1>4. /\ met = [e \in Events |-> 0] /\ done = [e \in Events |-> 0] /\ finished = {}
        /\ rescheduled = {} /\ cancelled = FALSE /\ completed = 0 /\ result = "NOT_READY"
        /\ error = FALSE /\ interrupted = FALSE /\ initialized = {}
        /\ canBlock = [p \in AllPipelines |-> TRUE] /\ blockedTasks = [p \in AllPipelines |-> {}]
        /\ held = [t \in Threads |-> None] /\ active = {}
        /\ calls = [t \in Threads |-> <<>>] /\ executorLock = None /\ phase = "execute"
    BY DEF Init
  <1>5. Types
    <2>1. /\ \A e \in Events : Cardinality(Deps(e)) \in Nat /\ Children(e) \subseteq PlanEvents
          /\ PlanEvents \subseteq Events
      <3>1. \A e : IsFiniteSet(Deps(e))
        BY <1>1, DepsAre
      <3>2. \A e : Children(e) \subseteq PlanEvents
        BY DEF Children
      <3>. QED BY <1>1, <3>1, <3>2, FS_CardinalityType, PlanFacts
    <2>2. parents \in [Events -> SUBSET Events] /\ \A e \in PlanEvents : parents[e] \subseteq PlanEvents
      BY <1>1, <2>1
    <2>3. needs \in [Events -> Nat] /\ total \in [Events -> Nat]
      BY <1>1, <2>1
    <2>4. queue \in Seq(PlanTasks)
      BY <1>2, <1>3
    <2>5. executorTasks \in Nat
      BY <1>1, <1>2, FS_CardinalityType
    <2>6. met \in [Events -> Nat] /\ done \in [Events -> Nat]
      BY <1>4
    <2>7. calls \in [Threads -> Seq(Frames)] /\ held \in [Threads -> PlanTasks \cup {None}]
      BY <1>4
    <2>8. /\ canBlock \in [AllPipelines -> BOOLEAN]
          /\ blockedTasks \in [AllPipelines -> SUBSET PlanTasks]
          /\ \A p \in AllPipelines : \A k \in blockedTasks[p] : PipelineOf(k) = p
      BY <1>4
    <2>. QED BY <1>1, <1>4, <2>2, <2>3, <2>4, <2>5, <2>6, <2>7, <2>8 DEF Types, Phases
  <1>6. \A t \in Threads : calls[t] = <<>> /\ held[t] = None
    BY <1>4
  <1>7. Shapes
    BY <1>6 DEF Shapes, Shaped
  <1>8. Holding
    <2>1. Client \in Threads
      BY DEF Threads
    <2>. QED BY <1>4, <1>6, <2>1 DEF Holding, InCall
  <1>9. Live = FirstTasks
    <2>1. Client \in Threads
      BY DEF Threads
    <2>2. \A t \in Threads : FrameTasks(calls[t]) = {}
      BY <1>6 DEF FrameTasks
    <2>3. None \notin PlanTasks
      BY <1>1, PlanFacts
    <2>. QED BY <1>2, <1>3, <1>4, <1>6, <2>2, <2>3 DEF Live, Referenced
  <1>10. Counted
    BY <1>1, <1>2, <1>4, <1>9 DEF Counted
  <1>11. Fresh
    <2>1. ASSUME NEW e \in First PROVE Begun(e)
      <3>1. e \in Events /\ Cardinality(Deps(e)) = 0 /\ e[2] # "inserted"
        BY <1>1, <1>2, PlanFacts, FS_EmptySet
      <3>2. needs[e] = 0 /\ met[e] = 0
        BY <1>1, <1>4, <3>1
      <3>. QED BY <3>1, <3>2 DEF Begun
    <2>. QED BY <1>9, <2>1 DEF Fresh, FirstTasks, EventOf
  <1>12. \A t \in Threads : \A k \in PlanTasks : ~Holds(t, k)
    BY <1>1, <1>6, PlanFacts DEF Holds, InCall
  <1>13. OwnedOnce
    <2>1. DOMAIN queue = 1 .. Cardinality(FirstTasks) /\ \A i \in DOMAIN queue : queue[i] \in PlanTasks
      BY <1>2, <1>3
    <2>. QED BY <1>3, <1>4, <1>12, <2>1 DEF OwnedOnce
  <1>14. Remembered
    BY <1>4, <1>6 DEF Remembered, Parking, InCall
  <1>. QED BY <1>5, <1>7, <1>8, <1>10, <1>11, <1>13, <1>14 DEF TaskInv

LEMMA InitEvents ==
  ASSUME Init
  PROVE  EventInv
  <1>1. /\ plan \in Plans
        /\ parents = [e \in Events |-> Children(e)]
        /\ needs = [e \in Events |-> Cardinality(Deps(e))]
        /\ total = [e \in Events |-> IF e \in First THEN 1 ELSE 0]
        /\ queue = SetToSeq(FirstTasks)
    BY InitIs
  <1>2. /\ IsFiniteSet(FirstTasks) /\ FirstTasks \subseteq PlanTasks
        /\ \A e \in First : /\ e \in PlanEvents /\ e[2] = "initialize" /\ Deps(e) = {}
                            /\ ScheduledTasks(e) = {<<e, 1>>}
    BY <1>1, FirstIs
  <1>3. Range(queue) = FirstTasks
    BY <1>1, <1>2, ListOfSet
  <1>4. /\ met = [e \in Events |-> 0] /\ done = [e \in Events |-> 0] /\ finished = {}
        /\ rescheduled = {} /\ completed = 0 /\ result = "NOT_READY"
        /\ held = [t \in Threads |-> None] /\ calls = [t \in Threads |-> <<>>]
    BY DEF Init
  <1>5. \A t \in Threads : calls[t] = <<>> /\ held[t] = None
    BY <1>4
  <1>6. \A f : ~Has(f)
    BY <1>5 DEF Has
  <1>7. PlanEvents \subseteq Events /\ Stages(plan) \subseteq PlanEvents
    BY <1>1, PlanFacts, StageIs
  <1>8. \A e : e \notin Stages(plan) => Deps(e) = {}
    BY <1>1, DepsAre
  <1>9. \A e \in Events : e \notin Stages(plan) => needs[e] = 0
    BY <1>1, <1>8, FS_EmptySet
  <1>10. Dependencies
    <2>1. ASSUME NEW e \in Stages(plan)
          PROVE  /\ needs[e] = Cardinality(Deps(e)) /\ met[e] = Cardinality(Reported(e))
                 /\ parents[e] = Children(e)
      <3>1. Reported(e) = {}
        BY <1>4 DEF Reported, Done
      <3>. QED BY <1>1, <1>4, <1>7, <3>1, FS_EmptySet
    <2>2. ASSUME NEW e \in PlanEvents, e \notin Stages(plan)
          PROVE  needs[e] = 0 /\ met[e] = 0
      BY <1>4, <1>7, <1>9, <2>2
    <2>3. \A e \in PlanEvents : e[2] = "inserted" => e \notin Stages(plan)
      BY <1>1, StageIs
    <2>. QED BY <2>1, <2>2, <2>3 DEF Dependencies
  <1>11. CallsMade
    <2>1. Once
      BY <1>5 DEF Once
    <2>. QED BY <1>6, <2>1 DEF CallsMade, Calls
  <1>12. Scheduling
    <2>1. ASSUME NEW e \in PlanEvents
          PROVE  /\ total[e] \in {0, Cardinality(ScheduledTasks(e))}
                 /\ total[e] > 0 => Begun(e) /\ e \in Stages(plan)
                 /\ done[e] + Cardinality(Open(e)) <= total[e]
      <3>1. Open(e) = {k \in FirstTasks : EventOf(k) = e}
        <4>1. \A k \in PlanTasks : Owned(k) <=> k \in FirstTasks
          <5>1. \A k \in PlanTasks : (\E i \in DOMAIN queue : queue[i] = k) <=> k \in FirstTasks
            BY <1>3 DEF Range
          <5>2. \A t \in Threads : \A k \in PlanTasks : ~Holds(t, k)
            BY <1>1, <1>5, PlanFacts DEF Holds, InCall
          <5>. QED BY <1>4, <5>1, <5>2 DEF Owned
        <4>. QED BY <1>2, <4>1 DEF Open
      <3>2. CASE e \in First
        <4>1. total[e] = 1 /\ done[e] = 0 /\ met[e] = 0 /\ needs[e] = 0 /\ e[2] # "inserted"
          BY <1>1, <1>2, <1>4, <1>7, <3>2, FS_EmptySet
        <4>2. ScheduledTasks(e) = {<<e, 1>>}
          BY <1>2, <3>2
        <4>3. Open(e) = {<<e, 1>>}
          BY <3>1, <3>2 DEF FirstTasks, EventOf
        <4>4. Cardinality(Open(e)) = 1 /\ Cardinality(ScheduledTasks(e)) = 1
          BY <4>2, <4>3, FS_Singleton
        <4>. QED BY <3>2, <4>1, <4>4 DEF Begun, First
      <3>3. CASE e \notin First
        <4>1. total[e] = 0 /\ done[e] = 0
          BY <1>1, <1>4, <1>7, <3>3
        <4>2. Open(e) = {}
          BY <3>1, <3>3 DEF FirstTasks, EventOf
        <4>. QED BY <4>1, <4>2, FS_EmptySet
      <3>. QED BY <3>2, <3>3
    <2>2. \A e \in Events \ PlanEvents : total[e] = 0 /\ done[e] = 0 /\ needs[e] = 0
      BY <1>1, <1>2, <1>4, <1>7, <1>9
    <2>. QED BY <1>4, <2>1, <2>2 DEF Scheduling, SchedulingAt
  <1>13. Completion
    <2>1. Finalized = {}
      BY <1>4 DEF Finalized
    <2>. QED BY <1>4, <1>6, <2>1, FS_EmptySet DEF Completion
  <1>. QED BY <1>10, <1>11, <1>12, <1>13 DEF EventInv

-----------------------------------------------------------------------------
(* Calls between events *)

\* The stage on behalf of which event d calls its parents.
From(d) == IF d[2] = "inserted" THEN Finish(d) ELSE d

\* Stage y has told x that it is done.
Told(x, y) == Done(y) /\ ~Reports(x, y)

\* A step in which the calls arr, pairs <<x, d>>, arrive, and the events fin
\* are finished and begin to call their parents.
Moves(arr, fin) ==
    /\ plan' = plan /\ needs' = needs /\ parents' = parents
    /\ finished' = finished \cup fin
    /\ \A x, z \in PlanEvents :
         Calls(x, z)' <=> (Calls(x, z) /\ <<x, z>> \notin arr) \/ (z \in fin /\ x \in parents[z])

Ready(w) ==
    /\ w \in PlanEvents /\ w \notin finished /\ parents[w] = Children(From(w))
    /\ w[2] = "inserted" => needs[w] = 1

LEMMA InsertedIs ==
  ASSUME NEW d \in PlanEvents
  PROVE  /\ Inserted(d) \in PlanEvents /\ Finish(d) \in PlanEvents
         /\ Inserted(d)[2] = "inserted" /\ Finish(d)[2] = "finish"
         /\ Inserted(d)[1] = d[1] /\ Finish(d)[1] = d[1]
         /\ d[2] = "inserted" => Inserted(Finish(d)) = d
         /\ d[2] = "finish" => Finish(Inserted(d)) = d /\ From(Inserted(d)) = d
  BY DEF PlanEvents, StageTypes, Inserted, Finish, Stage, From

\* A call of a stage is made for one it depends on that is done.
LEMMA CallIs ==
  ASSUME ExecutorInv, NEW x \in Stages(plan), NEW d \in PlanEvents, Calls(x, d)
  PROVE  /\ d \in finished /\ From(d) \in Deps(x) /\ Done(From(d))
         /\ d[2] = "inserted" => Rerouted(From(d)) /\ needs[d] = 1 /\ Inserted(From(d)) = d
         /\ d[2] # "inserted" => ~Rerouted(d)
  <1>1. Types /\ Dependencies /\ CallsMade /\ Scheduling /\ plan \in Plans
    BY DEF ExecutorInv, TaskInv, EventInv, Types
  <1>2. x \in PlanEvents /\ x[2] # "inserted"
    BY <1>1, StageIs
  <1>3. /\ d \in finished
        /\ \/ x \in Children(d) /\ d[2] # "inserted" /\ ~Rerouted(d)
           \/ x \in Children(Finish(d)) /\ d[2] = "inserted"
           \/ x = Inserted(d)
    BY <1>1, <1>2 DEF CallsMade
  <1>4. x # Inserted(d)
    BY <1>2, InsertedIs
  <1>5. CASE d[2] = "inserted"
    <2>1. From(d) = Finish(d) /\ x \in Children(Finish(d))
      BY <1>3, <1>4, <1>5 DEF From
    <2>2. Finish(d) \in Deps(x)
      BY <1>1, <2>1, DepsAre
    <2>3. needs[d] = 1
      BY <1>1, <1>3, <1>5 DEF Scheduling, SchedulingAt
    <2>4. Finish(d) \in finished
      BY <1>1, <1>5, <2>3 DEF Dependencies
    <2>5. Finish(d)[2] = "finish" /\ Inserted(Finish(d)) = d
      BY <1>5, InsertedIs
    <2>6. Rerouted(Finish(d)) /\ Done(Finish(d))
      BY <1>3, <2>3, <2>4, <2>5 DEF Rerouted, Done
    <2>. QED BY <1>3, <1>5, <2>1, <2>2, <2>3, <2>5, <2>6
  <1>6. CASE d[2] # "inserted"
    <2>1. From(d) = d /\ x \in Children(d) /\ ~Rerouted(d)
      BY <1>3, <1>4, <1>6 DEF From
    <2>2. d \in Deps(x)
      BY <1>1, <2>1, DepsAre
    <2>. QED BY <1>3, <1>6, <2>1, <2>2 DEF Done
  <1>. QED BY <1>5, <1>6

LEMMA ToldStep ==
  ASSUME ExecutorInv, NEW arr, NEW fin, Moves(arr, fin),
         arr \subseteq PlanEvents \X PlanEvents, \A c \in arr : Calls(c[1], c[2]),
         \A w \in fin : Ready(w),
         NEW x \in Stages(plan), NEW y \in Deps(x)
  PROVE  Told(x, y)' <=> Told(x, y) \/ \E d \in PlanEvents : <<x, d>> \in arr /\ y = From(d)
  <1>1. Types /\ Dependencies /\ CallsMade /\ Scheduling /\ plan \in Plans
    BY DEF ExecutorInv, TaskInv, EventInv, Types
  <1>2. y \in Stages(plan) /\ x \in Children(y) /\ x \in PlanEvents /\ y \in PlanEvents
    BY <1>1, DepsAre, StageIs
  <1>3. y[2] # "inserted" /\ x[2] # "inserted" /\ From(y) = y
    BY <1>1, <1>2, StageIs DEF From
  <1>4. PICK i \in PlanEvents : /\ i = Inserted(y) /\ i[2] = "inserted"
                                /\ y[2] = "finish" => Finish(i) = y /\ From(i) = y
    BY <1>2, InsertedIs
  <1>5. \A z \in PlanEvents : Calls(x, z)' <=>
            (Calls(x, z) /\ <<x, z>> \notin arr) \/ (z \in fin /\ x \in parents[z])
    BY <1>2 DEF Moves
  <1>6. \A d \in PlanEvents : <<x, d>> \in arr => Calls(x, d)
    <2>. SUFFICES ASSUME NEW d \in PlanEvents, <<x, d>> \in arr PROVE Calls(x, d)
      OBVIOUS
    <2>1. PICK c : c = <<x, d>>
      OBVIOUS
    <2>2. Calls(c[1], c[2]) /\ c[1] = x /\ c[2] = d
      BY <2>1
    <2>. QED BY <2>2
  <1>7. CASE \E w \in fin : From(w) = y
    <2>1. PICK w \in fin : From(w) = y
      BY <1>7
    <2>2. w \in PlanEvents /\ w \notin finished /\ x \in parents[w]
      BY <1>2, <2>1 DEF Ready
    <2>3. Calls(x, w)'
      BY <1>5, <2>2
    <2>4. CASE w[2] = "inserted"
      <3>1. needs[w] = 1 /\ Finish(w) = y /\ y[2] = "finish" /\ i = w
        BY <1>4, <2>1, <2>2, <2>4, InsertedIs DEF From, Ready
      <3>2. Rerouted(y) /\ ~Done(y)
        BY <1>4, <2>2, <3>1 DEF Rerouted, Done
      <3>3. Reports(x, y)'
        BY <1>4, <2>3, <3>1 DEF Reports, Inserted
      <3>4. ASSUME NEW d \in PlanEvents, <<x, d>> \in arr, y = From(d) PROVE FALSE
        <4>1. Done(From(d))
          BY <1>6, <3>4, CallIs
        <4>. QED BY <3>2, <3>4, <4>1
      <3>. QED BY <3>2, <3>3, <3>4 DEF Told
    <2>5. CASE w[2] # "inserted"
      <3>1. w = y
        BY <2>1, <2>5 DEF From
      <3>2. ~Done(y)
        BY <2>2, <3>1 DEF Done
      <3>3. Reports(x, y)'
        BY <2>3, <3>1 DEF Reports
      <3>4. ASSUME NEW d \in PlanEvents, <<x, d>> \in arr, y = From(d) PROVE FALSE
        <4>1. Done(From(d))
          BY <1>6, <3>4, CallIs
        <4>. QED BY <3>2, <3>4, <4>1
      <3>. QED BY <3>2, <3>3, <3>4 DEF Told
    <2>. QED BY <2>4, <2>5
  <1>8. CASE ~\E w \in fin : From(w) = y
    <2>1. y \notin fin /\ (y[2] = "finish" => i \notin fin)
      BY <1>3, <1>4, <1>8
    <2>2. Done(y)' <=> Done(y)
      BY <1>4, <2>1 DEF Done, Rerouted, Moves, Inserted
    <2>3. /\ Calls(x, y)' <=> (Calls(x, y) /\ <<x, y>> \notin arr)
          /\ y[2] = "finish" => (Calls(x, i)' <=> (Calls(x, i) /\ <<x, i>> \notin arr))
      BY <1>2, <1>5, <2>1
    <2>4. Reports(x, y)' <=> Calls(x, y)' \/ (y[2] = "finish" /\ Calls(x, i)')
      BY <1>4 DEF Reports, Inserted
    <2>5. Reports(x, y) <=> Calls(x, y) \/ (y[2] = "finish" /\ Calls(x, i))
      BY <1>4 DEF Reports
    <2>6. ASSUME NEW d \in PlanEvents, <<x, d>> \in arr, y = From(d)
          PROVE  Told(x, y)'
      <3>1. /\ Calls(x, d) /\ Done(y)
            /\ d[2] = "inserted" => Rerouted(y) /\ i = d
            /\ d[2] # "inserted" => ~Rerouted(d)
        BY <1>4, <1>6, <2>6, CallIs
      <3>2. CASE d[2] = "inserted"
        <4>1. i = d /\ Rerouted(y) /\ y[2] = "finish"
          BY <3>1, <3>2 DEF Rerouted
        <4>2. ~Calls(x, i)'
          BY <2>3, <2>6, <4>1
        <4>3. ~Calls(x, y)
          BY <1>2, <1>3, <4>1, CallIs
        <4>. QED BY <2>2, <2>3, <2>4, <3>1, <4>2, <4>3 DEF Told
      <3>3. CASE d[2] # "inserted"
        <4>1. d = y /\ ~Rerouted(y)
          BY <2>6, <3>1, <3>3 DEF From
        <4>2. ~Calls(x, y)'
          BY <2>3, <2>6, <4>1
        <4>3. y[2] = "finish" => ~Calls(x, i)
          BY <1>4, <4>1, CallIs
        <4>. QED BY <2>2, <2>3, <2>4, <3>1, <4>2, <4>3 DEF Told
      <3>. QED BY <3>2, <3>3
    <2>7. ASSUME ~\E d \in PlanEvents : <<x, d>> \in arr /\ y = From(d)
          PROVE  Told(x, y)' <=> Told(x, y)
      <3>1. <<x, y>> \notin arr /\ (y[2] = "finish" => <<x, i>> \notin arr)
        BY <1>2, <1>3, <1>4, <2>7
      <3>. QED BY <2>2, <2>3, <2>4, <2>5, <3>1 DEF Told
    <2>. QED BY <2>6, <2>7
  <1>. QED BY <1>7, <1>8

\* The dependencies are counted in such a step.
LEMMA MovesEvents ==
  ASSUME ExecutorInv, Types', NEW arr, NEW fin, Moves(arr, fin),
         \A w \in fin : Ready(w), Once',
         \/ arr = {} /\ met' = met
         \/ \E e, d \in PlanEvents : /\ arr = {<<e, d>>} /\ Calls(e, d)
                                     /\ met' = [met EXCEPT ![e] = @ + 1]
  PROVE  Dependencies' /\ CallsMade'
  <1>1. Types /\ Dependencies /\ CallsMade /\ Scheduling /\ plan \in Plans
    BY DEF ExecutorInv, TaskInv, EventInv, Types
  <1>2. /\ plan' = plan /\ needs' = needs /\ parents' = parents
        /\ finished' = finished \cup fin
    BY DEF Moves
  <1>3. /\ PlanEvents' = PlanEvents /\ Stages(plan)' = Stages(plan)
        /\ \A e : Deps(e)' = Deps(e) /\ Children(e)' = Children(e)
    BY <1>2, PlanSame DEF Deps, Children, Graph
  <1>4. PlanEvents \subseteq Events /\ met \in [Events -> Nat]
    BY <1>1, PlanFacts DEF Types
  <1>5. \A x \in PlanEvents : x[2] = "inserted" => \A d : x \notin Children(d)
    BY <1>1, DepsAre, StageIs
  \* the calls an inserted event gets
  <1>6. ASSUME NEW x \in PlanEvents, x[2] = "inserted", NEW d \in PlanEvents, Calls(x, d)
        PROVE  d = Finish(x) /\ needs[x] = 1 /\ met[x] = 0
    <2>1. x = Inserted(d) /\ d[2] = "finish" /\ needs[x] = 1 /\ met[x] = 0
      BY <1>1, <1>5, <1>6 DEF CallsMade
    <2>. QED BY <2>1, InsertedIs
  <1>7. /\ arr \subseteq PlanEvents \X PlanEvents
        /\ \A x, d \in PlanEvents : <<x, d>> \in arr => Calls(x, d) /\ met'[x] = met[x] + 1
        /\ \A x \in PlanEvents : (\A d \in PlanEvents : <<x, d>> \notin arr) => met'[x] = met[x]
        /\ \A c, b \in arr : c = b
        /\ \A c \in arr : Calls(c[1], c[2])
    <2>1. CASE arr = {} /\ met' = met
      BY <2>1
    <2>2. CASE \E e, d \in PlanEvents : /\ arr = {<<e, d>>} /\ Calls(e, d)
                                        /\ met' = [met EXCEPT ![e] = @ + 1]
      <3>1. PICK e \in PlanEvents : \E d \in PlanEvents :
               arr = {<<e, d>>} /\ Calls(e, d) /\ met' = [met EXCEPT ![e] = @ + 1]
        BY <2>2
      <3>2. PICK d \in PlanEvents :
               arr = {<<e, d>>} /\ Calls(e, d) /\ met' = [met EXCEPT ![e] = @ + 1]
        BY <3>1
      <3>3. met'[e] = met[e] + 1 /\ \A x \in PlanEvents : x # e => met'[x] = met[x]
        BY <1>4, <3>2
      <3>4. PICK c : c = <<e, d>>
        OBVIOUS
      <3>5. \A b \in arr : Calls(b[1], b[2])
        <4>1. c[1] = e /\ c[2] = d /\ \A b \in arr : b = c
          BY <3>2, <3>4
        <4>. QED BY <3>2, <4>1
      <3>6. \A x, z \in PlanEvents : <<x, z>> \in arr <=> x = e /\ z = d
        BY <3>2
      <3>. QED BY <3>2, <3>3, <3>5, <3>6
    <2>. QED BY <2>1, <2>2
  <1>8. \A x, z \in PlanEvents : Calls(x, z)' <=>
            (Calls(x, z) /\ <<x, z>> \notin arr) \/ (z \in fin /\ x \in parents[z])
    BY DEF Moves
  <1>9. ASSUME NEW x \in Stages(plan)
        PROVE  met'[x] = Cardinality(Reported(x)')
    <2>1. x \in PlanEvents /\ met[x] = Cardinality(Reported(x))
      BY <1>1, StageIs DEF Dependencies
    <2>2. \A y \in Deps(x) : Told(x, y)' <=>
              Told(x, y) \/ \E d \in PlanEvents : <<x, d>> \in arr /\ y = From(d)
      BY <1>7, ToldStep
    <2>3. Reported(x) = {y \in Deps(x) : Told(x, y)}
      BY DEF Reported, Told
    <2>4. Reported(x)' = {y \in Deps(x) : Told(x, y)'}
      BY <1>3 DEF Reported, Told
    <2>5. CASE \A d \in PlanEvents : <<x, d>> \notin arr
      <3>1. Reported(x)' = Reported(x)
        BY <2>2, <2>3, <2>4, <2>5
      <3>. QED BY <1>7, <2>1, <2>5, <3>1
    <2>6. CASE \E d \in PlanEvents : <<x, d>> \in arr
      <3>1. PICK d \in PlanEvents : <<x, d>> \in arr
        BY <2>6
      <3>2. /\ Calls(x, d) /\ met'[x] = met[x] + 1
            /\ \A z \in PlanEvents : <<x, z>> \in arr => z = d
        <4>1. Calls(x, d) /\ met'[x] = met[x] + 1
          BY <1>7, <2>1, <3>1
        <4>2. \A z \in PlanEvents : <<x, z>> \in arr => <<x, z>> = <<x, d>>
          BY <1>7, <3>1
        <4>. QED BY <4>1, <4>2
      <3>3. /\ From(d) \in Deps(x)
            /\ d[2] = "inserted" => Rerouted(From(d)) /\ Inserted(From(d)) = d
        BY <3>2, CallIs
      <3>4. ~Told(x, From(d))
        <4>1. CASE d[2] = "inserted"
          <5>1. From(d)[2] = "finish" /\ Inserted(From(d)) = d
            BY <3>3, <4>1 DEF Rerouted
          <5>. QED BY <3>2, <5>1 DEF Told, Reports
        <4>2. CASE d[2] # "inserted"
          <5>1. From(d) = d
            BY <4>2 DEF From
          <5>. QED BY <3>2, <5>1 DEF Told, Reports
        <4>. QED BY <4>1, <4>2
      <3>5. Reported(x)' = Reported(x) \cup {From(d)} /\ From(d) \notin Reported(x)
        BY <2>2, <2>3, <2>4, <3>1, <3>2, <3>3, <3>4
      <3>6. IsFiniteSet(Reported(x))
        BY <1>1, <2>3, DepsAre, FS_Subset
      <3>7. Cardinality(Reported(x)') = Cardinality(Reported(x)) + 1
        BY <3>5, <3>6, FS_AddElement
      <3>. QED BY <2>1, <3>2, <3>7
    <2>. QED BY <2>5, <2>6
  <1>10. Dependencies'
    <2>1. ASSUME NEW x \in Stages(plan)
          PROVE  /\ needs'[x] = Cardinality(Deps(x)') /\ met'[x] = Cardinality(Reported(x)')
                 /\ x \notin finished' => parents'[x] = Children(x)'
      BY <1>1, <1>2, <1>3, <1>9 DEF Dependencies
    <2>2. ASSUME NEW x \in PlanEvents, x[2] = "inserted"
          PROVE  /\ needs'[x] \in {0, 1} /\ met'[x] <= needs'[x]
                 /\ needs'[x] = 1 => Finish(x) \in Stages(plan) /\ Finish(x) \in finished'
                 /\ needs'[x] = 1 /\ (met'[x] = 1 \/ \E d \in PlanEvents : Calls(x, d)') =>
                      parents'[x] = Children(Finish(x))
      <3>1. /\ needs[x] \in {0, 1} /\ met[x] <= needs[x]
            /\ needs[x] = 1 => Finish(x) \in Stages(plan) /\ Finish(x) \in finished
            /\ needs[x] = 1 /\ (met[x] = 1 \/ \E d \in PlanEvents : Calls(x, d)) =>
                 parents[x] = Children(Finish(x))
        BY <1>1, <2>2 DEF Dependencies
      <3>2. ASSUME NEW d \in PlanEvents, Calls(x, d)' PROVE Calls(x, d)
        <4>1. Calls(x, d) \/ (d \in fin /\ x \in parents[d])
          BY <1>8, <3>2
        <4>2. d \in fin => x \notin parents[d]
          BY <1>5, <2>2 DEF Ready
        <4>. QED BY <4>1, <4>2
      <3>3. CASE \A d \in PlanEvents : <<x, d>> \notin arr
        BY <1>2, <1>7, <3>1, <3>2, <3>3
      <3>4. CASE \E d \in PlanEvents : <<x, d>> \in arr
        <4>1. PICK d \in PlanEvents : <<x, d>> \in arr
          BY <3>4
        <4>2. Calls(x, d) /\ met'[x] = met[x] + 1
          BY <1>7, <4>1
        <4>3. needs[x] = 1 /\ met[x] = 0
          BY <1>6, <2>2, <4>2
        <4>. QED BY <1>2, <3>1, <4>2, <4>3
      <3>. QED BY <3>3, <3>4
    <2>3. \A x : Finish(x)' = Finish(x) /\ Children(Finish(x))' = Children(Finish(x))
      BY <1>3 DEF Finish
    <2>4. \A e \in PlanEvents \ Stages(plan) : e[2] # "inserted" => needs'[e] = 0
      BY <1>1, <1>2 DEF Dependencies
    <2>. QED BY <1>3, <2>1, <2>2, <2>3, <2>4 DEF Dependencies
  <1>11. CallsMade'
    <2>. SUFFICES ASSUME NEW x \in PlanEvents, NEW z \in PlanEvents, Calls(x, z)'
                  PROVE  /\ z \in finished'
                         /\ \/ x \in Children(z) /\ z[2] # "inserted" /\ ~Rerouted(z)
                            \/ x \in Children(Finish(z)) /\ z[2] = "inserted"
                            \/ x = Inserted(z) /\ z[2] = "finish" /\ needs[x] = 1 /\ met'[x] = 0
      <3>1. \A z : /\ (Rerouted(z)' <=> Rerouted(z)) /\ Inserted(z)' = Inserted(z)
                   /\ Children(z)' = Children(z) /\ Children(Finish(z))' = Children(Finish(z))
        BY <1>2, <1>3 DEF Rerouted, Inserted, Finish
      <3>. QED BY <1>2, <1>3, <3>1 DEF CallsMade
    <2>1. CASE Calls(x, z) /\ <<x, z>> \notin arr
      <3>1. /\ z \in finished
            /\ \/ x \in Children(z) /\ z[2] # "inserted" /\ ~Rerouted(z)
               \/ x \in Children(Finish(z)) /\ z[2] = "inserted"
               \/ x = Inserted(z) /\ z[2] = "finish" /\ needs[x] = 1 /\ met[x] = 0
        BY <1>1, <2>1 DEF CallsMade
      <3>2. ASSUME x = Inserted(z) PROVE met'[x] = met[x]
        <4>1. x[2] = "inserted"
          BY <3>2, InsertedIs
        <4>2. ASSUME NEW d \in PlanEvents, <<x, d>> \in arr PROVE FALSE
          <5>1. Calls(x, d)
            BY <1>7, <4>2
          <5>2. d = Finish(x) /\ z = Finish(x)
            BY <1>6, <2>1, <4>1, <5>1
          <5>. QED BY <2>1, <4>2, <5>2
        <4>. QED BY <1>7, <4>2
      <3>. QED BY <1>2, <3>1, <3>2
    <2>2. CASE z \in fin /\ x \in parents[z]
      <3>1. Ready(z)
        BY <2>2
      <3>2. x \in Children(From(z)) /\ z \notin finished
        BY <2>2, <3>1 DEF Ready
      <3>3. CASE z[2] = "inserted"
        BY <1>2, <2>2, <3>2, <3>3 DEF From
      <3>4. CASE z[2] # "inserted"
        <4>1. x \in Children(z)
          BY <3>2, <3>4 DEF From
        <4>2. ~Rerouted(z)
          <5>1. PICK i \in PlanEvents : /\ i = Inserted(z) /\ i[2] = "inserted"
                                        /\ z[2] = "finish" => Finish(i) = z
            BY InsertedIs
          <5>2. needs[i] \in {0, 1} /\ (needs[i] = 1 => Finish(i) \in finished)
            BY <1>1, <5>1 DEF Dependencies
          <5>. QED BY <3>2, <5>1, <5>2 DEF Rerouted
        <4>. QED BY <1>2, <2>2, <3>4, <4>1, <4>2
      <3>. QED BY <3>3, <3>4
    <2>. QED BY <1>8, <2>1, <2>2
  <1>. QED BY <1>10, <1>11

\* The calls a list m makes are those of the events fin that are finished.
Announces(m, fin) ==
    \A f : f[1] \in EventFrames =>
       (f \in Range(m) <=> \E w \in fin : \/ f \in ParentCalls(w)
                                          \/ w[2] = "complete" /\ f = <<"finalize", w>>)

\* Thread t is in the call of an event that arr stands for, or in none.
Arrives(t, arr) ==
    \/ calls[t] = <<>> /\ arr = {}
    \/ \E e, d \in PlanEvents : /\ calls[t] # <<>> /\ calls[t][1] = <<"parent", e, d>>
                                /\ arr = {<<e, d>>}

\* The frames of the events after the step.
FramesMove(arr, fin) ==
    /\ Moves(arr, fin) /\ Once'
    /\ \A c, b \in PlanEvents : <<c, b>> \in arr => Calls(c, b)
    /\ \A x \in PlanEvents : Has(<<"finalize", x>>)' <=>
          Has(<<"finalize", x>>) \/ (x \in fin /\ x[2] = "complete")

\* A thread ends the call of an event, if it is in one, and makes those of the
\* events that it finishes.
LEMMA CallsMove ==
  ASSUME ExecutorInv, NEW t \in Threads, NEW m, Turns(t, m), UniqueEvents(m),
         NEW fin, Announces(m, fin), \A w \in fin : Ready(w),
         plan' = plan, needs' = needs, parents' = parents, finished' = finished \cup fin,
         NEW arr, Arrives(t, arr)
  PROVE  FramesMove(arr, fin)
  <1>1. Types /\ CallsMade /\ Completion /\ Once /\ plan \in Plans /\ m \in Seq(Frames)
    BY DEF ExecutorInv, TaskInv, EventInv, Types, CallsMade, Turns
  <1>2. ASSUME NEW f, f[1] \in EventFrames, f \in Range(m)
        PROVE  ~Has(f)
    <2>1. PICK w \in fin : f \in ParentCalls(w) \/ (w[2] = "complete" /\ f = <<"finalize", w>>)
      BY <1>2 DEF Announces
    <2>2. w \in PlanEvents /\ w \notin finished
      BY DEF Ready
    <2>3. CASE f \in ParentCalls(w)
      <3>1. PICK x \in parents[w] : f = <<"parent", x, w>>
        BY <2>3 DEF ParentCalls
      <3>2. x \in PlanEvents
        BY <1>1, <2>2, <3>1 DEF Types
      <3>3. ~Calls(x, w)
        BY <1>1, <2>2, <3>2 DEF CallsMade
      <3>. QED BY <3>1, <3>3 DEF Calls
    <2>4. CASE w[2] = "complete" /\ f = <<"finalize", w>>
      BY <1>1, <2>2, <2>4 DEF Completion
    <2>. QED BY <2>1, <2>3, <2>4
  <1>3. Once'
    <2>1. DOMAIN m = 1 .. Len(m)
      BY <1>1, LenProperties
    <2>2. \A i \in 1 .. Len(m) : m[i][1] \in EventFrames => ~Has(m[i])
      BY <1>2, <2>1 DEF Range
    <2>. QED BY <1>1, <2>2, TurnsOnce DEF UniqueEvents
  <1>4. ASSUME NEW x \in PlanEvents
        PROVE  <<"finalize", x>> \in Range(m) <=> x \in fin /\ x[2] = "complete"
    <2>1. PICK f : f = <<"finalize", x>>
      OBVIOUS
    <2>2. f[1] = "finalize" /\ f[1] \in EventFrames
      BY <2>1 DEF EventFrames
    <2>3. \A w \in fin : f \notin ParentCalls(w)
      BY <2>1 DEF ParentCalls
    <2>4. f \in Range(m) <=> \E w \in fin : w[2] = "complete" /\ f = <<"finalize", w>>
      BY <2>2, <2>3 DEF Announces
    <2>. QED BY <2>1, <2>4
  <1>5. ASSUME NEW x \in PlanEvents, NEW z \in PlanEvents
        PROVE  <<"parent", x, z>> \in Range(m) <=> z \in fin /\ x \in parents[z]
    <2>1. PICK f : f = <<"parent", x, z>>
      OBVIOUS
    <2>2. f[1] = "parent" /\ f[1] \in EventFrames
      BY <2>1 DEF EventFrames
    <2>3. \A w : f # <<"finalize", w>>
      BY <2>1
    <2>4. f \in Range(m) <=> \E w \in fin : f \in ParentCalls(w)
      BY <2>2, <2>3 DEF Announces
    <2>5. \A w : f \in ParentCalls(w) <=> w = z /\ x \in parents[z]
      BY <2>1 DEF ParentCalls
    <2>. QED BY <2>1, <2>4, <2>5
  <1>6. CASE calls[t] = <<>> /\ arr = {}
    <2>1. \A f : Has(f)' <=> Has(f) \/ f \in Range(m)
      BY <1>1, <1>6, TurnsHas
    <2>2. \A x, z \in PlanEvents : Calls(x, z)' <=> Calls(x, z) \/ (z \in fin /\ x \in parents[z])
      BY <1>5, <2>1 DEF Calls
    <2>. QED BY <1>3, <1>4, <1>6, <2>1, <2>2 DEF Moves, FramesMove
  <1>7. CASE \E e, d \in PlanEvents : /\ calls[t] # <<>> /\ calls[t][1] = <<"parent", e, d>>
                                      /\ arr = {<<e, d>>}
    <2>1. PICK e \in PlanEvents : \E d \in PlanEvents :
             calls[t] # <<>> /\ calls[t][1] = <<"parent", e, d>> /\ arr = {<<e, d>>}
      BY <1>7
    <2>2. PICK d \in PlanEvents :
             calls[t] # <<>> /\ calls[t][1] = <<"parent", e, d>> /\ arr = {<<e, d>>}
      BY <2>1
    <2>3. PICK g : g = <<"parent", e, d>>
      OBVIOUS
    <2>4. calls[t] # <<>> /\ calls[t][1] = g /\ g[1] \in EventFrames
      BY <2>2, <2>3 DEF EventFrames
    <2>5. Has(g)
      <3>1. calls[t] \in Seq(Frames)
        BY <1>1 DEF Types
      <3>2. 1 \in DOMAIN calls[t]
        BY <2>4, <3>1
      <3>. QED BY <2>4, <3>2 DEF Has
    <2>6. g \notin Range(m)
      BY <1>2, <2>4, <2>5
    <2>7. \A f : f[1] \in EventFrames =>
             (Has(f)' <=> (Has(f) /\ f # g) \/ f \in Range(m))
      <3>1. \A f : /\ f \in Range(m) => Has(f)'
                   /\ Has(f) /\ f # g => Has(f)'
                   /\ Has(f)' => Has(f) \/ f \in Range(m)
        BY <1>1, <2>4, TurnsHas
      <3>2. ~Has(g)'
        BY <1>1, <2>4, <2>6, TurnsDrops
      <3>. QED BY <3>1, <3>2
    <2>8. \A x, z \in PlanEvents : <<x, z>> \in arr <=> <<"parent", x, z>> = g
      BY <2>2, <2>3
    <2>9. \A x, z \in PlanEvents : Calls(x, z)' <=>
             (Calls(x, z) /\ <<x, z>> \notin arr) \/ (z \in fin /\ x \in parents[z])
      <3>. SUFFICES ASSUME NEW x \in PlanEvents, NEW z \in PlanEvents
                    PROVE  Calls(x, z)' <=> (Calls(x, z) /\ <<x, z>> \notin arr)
                                            \/ (z \in fin /\ x \in parents[z])
        OBVIOUS
      <3>1. PICK f : f = <<"parent", x, z>>
        OBVIOUS
      <3>2. f[1] \in EventFrames
        BY <3>1 DEF EventFrames
      <3>3. Has(f)' <=> (Has(f) /\ f # g) \/ f \in Range(m)
        BY <2>7, <3>2
      <3>. QED BY <1>5, <2>8, <3>1, <3>3 DEF Calls
    <2>10. ASSUME NEW x \in PlanEvents
           PROVE  Has(<<"finalize", x>>)' <=>
                    Has(<<"finalize", x>>) \/ (x \in fin /\ x[2] = "complete")
      <3>1. PICK f : f = <<"finalize", x>>
        OBVIOUS
      <3>2. f[1] \in EventFrames /\ f # g
        BY <2>3, <3>1 DEF EventFrames
      <3>3. Has(f)' <=> Has(f) \/ f \in Range(m)
        BY <2>7, <3>2
      <3>. QED BY <1>4, <3>1, <3>3
    <2>11. \A x, z \in PlanEvents : <<x, z>> \in arr => Calls(x, z)
      BY <2>5, <2>8 DEF Calls
    <2>. QED BY <1>3, <2>9, <2>10, <2>11 DEF Moves, FramesMove
  <1>. QED BY <1>6, <1>7 DEF Arrives

\* Executor::completed_pipelines in such a step.
LEMMA CompletionKept ==
  ASSUME ExecutorInv, plan' = plan, completed' = completed, NEW fin,
         finished' = finished \cup fin, fin \subseteq PlanEvents, fin \cap finished = {},
         \A x \in PlanEvents : Has(<<"finalize", x>>)' <=>
               Has(<<"finalize", x>>) \/ (x \in fin /\ x[2] = "complete"),
         result' = "FINISHED" => ~error' /\ completed >= TotalPipelines
  PROVE  Completion'
  <1>1. Completion /\ plan \in Plans
    BY DEF ExecutorInv, TaskInv, EventInv, Types
  <1>2. PlanEvents' = PlanEvents /\ TotalPipelines' = TotalPipelines
        /\ BasePipelines(plan)' = BasePipelines(plan)
    BY PlanSame
  <1>3. Finalized' = Finalized
    <2>1. ASSUME NEW b \in BasePipelines(plan)
          PROVE  (Stage(b, "complete") \in finished' /\ ~Finalizing(b)') <=>
                 (Stage(b, "complete") \in finished /\ ~Finalizing(b))
      <3>1. PICK x \in PlanEvents : x = Stage(b, "complete") /\ x[2] = "complete"
        <4>1. Stage(b, "complete") \in PlanEvents /\ Stage(b, "complete")[2] = "complete"
          BY DEF BasePipelines, PlanEvents, StageTypes, Stage
        <4>. QED BY <4>1
      <3>2. Finalizing(b)' <=> Has(<<"finalize", x>>)'
        BY <3>1 DEF Finalizing, Stage
      <3>3. Finalizing(b) <=> Has(<<"finalize", x>>)
        BY <3>1 DEF Finalizing
      <3>. QED BY <3>1, <3>2, <3>3
    <2>. QED BY <1>2, <2>1 DEF Finalized, Stage
  <1>4. \A x \in PlanEvents : Has(<<"finalize", x>>)' => x \in finished' /\ x[2] = "complete"
    BY <1>1 DEF Completion
  <1>. QED BY <1>1, <1>2, <1>3, <1>4 DEF Completion

-----------------------------------------------------------------------------
(* The tasks of an event *)

LEMMA OpenIs ==
  ASSUME Types, NEW e
  PROVE  IsFiniteSet(Open(e)) /\ Cardinality(Open(e)) \in Nat
  <1>1. IsFiniteSet(PlanTasks)
    BY PlanFacts DEF Types
  <1>2. IsFiniteSet(Open(e))
    BY <1>1, FS_Subset DEF Open
  <1>. QED BY <1>2, FS_CardinalityType

\* An event that the step does not concern.
LEMMA ScheduledKept ==
  ASSUME ExecutorInv, Types', plan' = plan, NEW e \in PlanEvents,
         total'[e] = total[e], done'[e] = done[e], e \in finished' <=> e \in finished,
         \A k \in PlanTasks : EventOf(k) = e /\ Owned(k)' => Owned(k),
         Begun(e) => Begun(e)', needs[e] = 1 => needs'[e] = 1, ~error' => ~error
  PROVE  SchedulingAt(e)'
  <1>1. Types /\ SchedulingAt(e) /\ e \in Events
    BY PlanFacts DEF ExecutorInv, TaskInv, EventInv, Types, Scheduling
  <1>2. Open(e)' \subseteq Open(e)
    BY PlanSame DEF Open
  <1>3. IsFiniteSet(Open(e)) /\ Cardinality(Open(e)) \in Nat
    BY <1>1, OpenIs
  <1>4. Cardinality(Open(e)') <= Cardinality(Open(e)) /\ Cardinality(Open(e)') \in Nat
    BY <1>2, <1>3, FS_Subset, FS_CardinalityType
  <1>5. total[e] \in Nat /\ done[e] \in Nat
    BY <1>1 DEF Types
  <1>6. ScheduledTasks(e)' = ScheduledTasks(e)
    BY PlanSame
  <1>7. done'[e] + Cardinality(Open(e)') <= total'[e]
    BY <1>1, <1>3, <1>4, <1>5 DEF SchedulingAt
  <1>. QED BY <1>1, <1>6, <1>7 DEF SchedulingAt

\* What is left to do of a task that is owned by someone.
LEMMA OwnedIs ==
  ASSUME ExecutorInv, NEW k \in PlanTasks, Owned(k), NEW e, e = EventOf(k)
  PROVE  /\ e \in PlanEvents /\ e \notin finished /\ Begun(e)
         /\ done[e] \in Nat /\ total[e] \in Nat /\ done[e] < total[e] /\ k \in Open(e)
         /\ total[e] = Cardinality(ScheduledTasks(e))
         /\ e \in Stages(plan) \/ e[2] = "inserted"
         /\ Ready(e)
         /\ result # "FINISHED"
  <1>1. Types /\ Dependencies /\ Scheduling /\ Completion /\ plan \in Plans
    BY DEF ExecutorInv, TaskInv, EventInv, Types
  <1>2. e \in PlanEvents /\ k \in Open(e)
    BY DEF PlanTasks, EventOf, Open
  <1>3. SchedulingAt(e) /\ e \in Events
    BY <1>1, <1>2, PlanFacts DEF Scheduling
  <1>4. done[e] \in Nat /\ total[e] \in Nat /\ met[e] \in Nat /\ needs[e] \in Nat
    BY <1>1, <1>3 DEF Types
  <1>5. Cardinality(Open(e)) \in Nat /\ Cardinality(Open(e)) > 0
    <2>1. IsFiniteSet(Open(e)) /\ Cardinality(Open(e)) \in Nat
      BY <1>1, OpenIs
    <2>2. Cardinality(Open(e)) # 0
      BY <1>2, <2>1, FS_EmptySet
    <2>. QED BY <2>1, <2>2
  <1>6. done[e] + Cardinality(Open(e)) <= total[e]
    BY <1>3 DEF SchedulingAt
  <1>7. done[e] < total[e] /\ total[e] > 0
    BY ONLY <1>4, <1>5, <1>6
  <1>8. e \notin finished /\ Begun(e) /\ total[e] = Cardinality(ScheduledTasks(e))
    BY <1>3, <1>4, <1>7 DEF SchedulingAt
  <1>9. e \in Stages(plan) \/ e[2] = "inserted"
    BY <1>3, <1>7 DEF SchedulingAt
  <1>10. e[2] = "inserted" => needs[e] = 1 /\ met[e] = 1
    <2>1. e[2] = "inserted" => needs[e] \in {0, 1} /\ met[e] <= needs[e] /\ met[e] >= 1
      BY <1>1, <1>2, <1>8 DEF Dependencies, Begun
    <2>. QED BY <1>4, <2>1
  <1>11. Ready(e)
    <2>1. CASE e[2] = "inserted"
      <3>1. parents[e] = Children(Finish(e))
        BY <1>1, <1>2, <1>10, <2>1 DEF Dependencies
      <3>. QED BY <1>2, <1>8, <1>10, <2>1, <3>1 DEF Ready, From
    <2>2. CASE e[2] # "inserted"
      <3>1. parents[e] = Children(e)
        BY <1>1, <1>8, <1>9, <2>2 DEF Dependencies
      <3>. QED BY <1>2, <1>8, <2>2, <3>1 DEF Ready, From
    <2>. QED BY <2>1, <2>2
  <1>12. result # "FINISHED"
    <2>1. e \in Stages(plan) \/ needs[e] > 0
      BY <1>9, <1>10
    <2>2. completed >= TotalPipelines => e \in finished
      BY <1>2, <2>1, AllDone
    <2>. QED BY <1>1, <1>8, <2>2 DEF Completion
  <1>. QED BY <1>2, <1>4, <1>7, <1>8, <1>9, <1>11, <1>12

\* An event whose last dependency is about to be counted.
LEMMA CalledIs ==
  ASSUME ExecutorInv, NEW e \in PlanEvents, NEW d \in PlanEvents, Calls(e, d),
         met[e] + 1 = needs[e]
  PROVE  /\ e \notin finished /\ total[e] = 0 /\ done[e] = 0 /\ Open(e) = {}
         /\ e \in Stages(plan) \/ e[2] = "inserted"
         /\ e[2] = "inserted" => needs[e] = 1 /\ met[e] = 0
         /\ e[2] # "inserted" => Ready(e) /\ result # "FINISHED"
  <1>1. Types /\ Dependencies /\ CallsMade /\ Scheduling /\ Completion /\ plan \in Plans
    BY DEF ExecutorInv, TaskInv, EventInv, Types
  <1>2. SchedulingAt(e) /\ e \in Events
    BY <1>1, PlanFacts DEF Scheduling
  <1>3. done[e] \in Nat /\ total[e] \in Nat /\ met[e] \in Nat /\ needs[e] \in Nat
    BY <1>1, <1>2 DEF Types
  <1>4. ~Begun(e)
    BY <1>3 DEF Begun
  <1>5. e \notin finished /\ total[e] = 0
    BY <1>2, <1>3, <1>4 DEF SchedulingAt
  <1>6. IsFiniteSet(Open(e)) /\ Cardinality(Open(e)) \in Nat
    BY <1>1, OpenIs
  <1>7. done[e] = 0 /\ Cardinality(Open(e)) = 0
    BY <1>2, <1>3, <1>5, <1>6 DEF SchedulingAt
  <1>8. Open(e) = {}
    BY <1>6, <1>7, FS_EmptySet
  <1>9. \/ e \in Children(d) \/ e \in Children(Finish(d))
        \/ e = Inserted(d) /\ needs[e] = 1 /\ met[e] = 0
    BY <1>1 DEF CallsMade
  <1>10. \A x : e \in Children(x) => e \in Stages(plan) /\ e[2] # "inserted"
    BY <1>1, DepsAre, StageIs
  <1>11. Inserted(d)[2] = "inserted"
    BY InsertedIs
  <1>12. ASSUME e[2] # "inserted"
         PROVE  Ready(e) /\ result # "FINISHED"
    <2>1. e \in Stages(plan)
      BY <1>9, <1>10, <1>11, <1>12
    <2>2. parents[e] = Children(e)
      BY <1>1, <1>5, <2>1 DEF Dependencies
    <2>3. completed >= TotalPipelines => e \in finished
      BY <2>1, AllDone
    <2>. QED BY <1>1, <1>5, <1>12, <2>2, <2>3 DEF Ready, From, Completion
  <1>. QED BY <1>5, <1>7, <1>8, <1>9, <1>10, <1>11, <1>12

\* Nothing but the event e of the step is concerned.
LEMMA SchedulingStep ==
  ASSUME ExecutorInv, Types', plan' = plan, NEW e \in PlanEvents, SchedulingAt(e)',
         \A x \in PlanEvents : x # e =>
            /\ total'[x] = total[x] /\ done'[x] = done[x] /\ needs'[x] = needs[x]
            /\ met'[x] = met[x] /\ (x \in finished' <=> x \in finished),
         \A k \in PlanTasks : EventOf(k) # e /\ Owned(k)' => Owned(k),
         ~error' => ~error,
         \A x \in Events \ PlanEvents :
            total'[x] = total[x] /\ done'[x] = done[x] /\ needs'[x] = needs[x]
  PROVE  Scheduling'
  <1>1. \A x \in Events \ PlanEvents : total[x] = 0 /\ done[x] = 0 /\ needs[x] = 0
    BY DEF ExecutorInv, EventInv, Scheduling
  <1>2. ASSUME NEW x \in PlanEvents, x # e PROVE SchedulingAt(x)'
    <2>1. Begun(x) => Begun(x)'
      BY <1>2 DEF Begun
    <2>. QED BY <1>2, <2>1, ScheduledKept
  <1>. QED BY <1>1, <1>2, PlanSame DEF Scheduling

-----------------------------------------------------------------------------
(* Steps that leave the events alone *)

LEMMA EventQuiet ==
  ASSUME ExecutorInv, TaskInv', Calm,
         UNCHANGED <<plan, parents, needs, met, total, done, finished, completed>>,
         ~error' => ~error,
         result' = "FINISHED" => ~error' /\ completed >= TotalPipelines
  PROVE  EventInv'
  <1>1. Types' /\ Once
    BY DEF ExecutorInv, TaskInv, EventInv, CallsMade
  <1>2. /\ \A k \in PlanTasks : Owned(k)' => Owned(k)
        /\ \A f : f[1] \in EventFrames => (Has(f)' <=> Has(f))
        /\ Once'
    BY <1>1 DEF Calm
  <1>3. \A x, z \in PlanEvents : Calls(x, z)' <=> Calls(x, z)
    <2>1. \A x, z : <<"parent", x, z>>[1] \in EventFrames
      BY DEF EventFrames
    <2>. QED BY <1>2, <2>1 DEF Calls
  <1>4. \A x : Has(<<"finalize", x>>)' <=> Has(<<"finalize", x>>)
    <2>1. \A x : <<"finalize", x>>[1] \in EventFrames
      BY DEF EventFrames
    <2>. QED BY <1>2, <2>1
  <1>5. Moves({}, {})
    BY <1>3 DEF Moves
  <1>6. Dependencies' /\ CallsMade'
    BY <1>1, <1>2, <1>5, MovesEvents
  <1>7. Scheduling'
    <2>1. \A e \in PlanEvents : SchedulingAt(e)'
      <3>. SUFFICES ASSUME NEW e \in PlanEvents PROVE SchedulingAt(e)'
        OBVIOUS
      <3>1. Begun(e) => Begun(e)'
        BY DEF Begun
      <3>. QED BY <1>1, <1>2, <3>1, ScheduledKept
    <2>2. \A x \in Events \ PlanEvents : total[x] = 0 /\ done[x] = 0 /\ needs[x] = 0
      BY DEF ExecutorInv, EventInv, Scheduling
    <2>. QED BY <2>1, <2>2, PlanSame DEF Scheduling
  <1>8. Completion'
    <2>1. finished' = finished \cup {} /\ {} \subseteq PlanEvents /\ {} \cap finished = {}
      OBVIOUS
    <2>2. \A x \in PlanEvents : Has(<<"finalize", x>>)' <=>
               Has(<<"finalize", x>>) \/ (x \in {} /\ x[2] = "complete")
      BY <1>4
    <2>. QED BY <2>1, <2>2, CompletionKept
  <1>. QED BY <1>6, <1>7, <1>8 DEF EventInv

\* The result of a query that goes on.
LEMMA ResultIs ==
  ASSUME ExecutorInv
  PROVE  result = "FINISHED" => ~error /\ completed >= TotalPipelines
  BY DEF ExecutorInv, EventInv, Completion

LEMMA CallQuiet ==
  ASSUME ExecutorInv, NEW t \in Threads,
         \/ PreventBlocking(t) \/ RescheduleTask(t) \/ AddToBeRescheduled(t)
         \/ DropReference(t) \/ UnregisterTask(t) \/ Unregistered(t)
         \/ TaskBlocks(t) \/ Callback(t)
  PROVE  EventInv'
  <1>1. TaskInv
    BY DEF ExecutorInv
  <1>2. TaskInv' /\ Calm
    BY <1>1, PreventBlockingTasks, RescheduleTaskTasks, AddToBeRescheduledTasks,
       DropReferenceTasks, UnregisterTaskTasks, UnregisteredTasks, TaskBlocksTasks,
       CallbackTasks
  <1>3. UNCHANGED <<plan, eventVars, flagVars>>
    BY DEF PreventBlocking, RescheduleTask, AddToBeRescheduled, DropReference,
           UnregisterTask, Unregistered, TaskBlocks, Callback
  <1>. QED BY <1>2, <1>3, ResultIs, EventQuiet DEF eventVars, flagVars

LEMMA TaskFailsEvents ==
  ASSUME ExecutorInv, NEW t \in Threads, TaskFails(t)
  PROVE  EventInv'
  <1>1. TaskInv /\ t \in active
    BY DEF ExecutorInv, TaskFails
  <1>2. TaskInv' /\ Calm
    BY <1>1, TaskFailsTasks
  <1>3. held[t] \in PlanTasks
    BY <1>1, ActiveIs
  <1>4. Owned(held[t])
    BY DEF Owned, Holds
  <1>5. result # "FINISHED"
    BY <1>3, <1>4, OwnedIs
  <1>6. error' = TRUE /\ UNCHANGED <<plan, eventVars, completed, result>>
    BY DEF TaskFails
  <1>. QED BY <1>2, <1>5, <1>6, EventQuiet DEF eventVars

LEMMA StartEvents ==
  ASSUME ExecutorInv, NEW t \in Threads, calls[t] = <<>>, NEW k, Takes(t, k), Start(t, k),
         TaskInv', Calm, UNCHANGED <<plan, eventVars, completed, result>>
  PROVE  EventInv'
  <1>1. Types
    BY DEF ExecutorInv, TaskInv
  <1>2. k \in PlanTasks /\ Owned(k)
    <2>1. CASE queue # <<>> /\ k = Head(queue)
      <3>1. queue \in Seq(PlanTasks)
        BY <1>1 DEF Types
      <3>2. Head(queue) \in PlanTasks /\ Head(queue) = queue[1]
        BY <2>1, <3>1, HeadTailProperties
      <3>3. 1 \in DOMAIN queue
        BY <2>1, <3>1
      <3>. QED BY <2>1, <3>2, <3>3 DEF Owned
    <2>2. CASE held[t] = k /\ k # None
      BY <1>1, <2>2 DEF Types, Owned, Holds
    <2>. QED BY <2>1, <2>2 DEF Takes
  <1>3. error' \in {error, TRUE}
    BY DEF Start
  <1>4. result # "FINISHED"
    BY <1>2, OwnedIs
  <1>5. ~error' => ~error
    BY <1>3
  <1>. QED BY <1>4, <1>5, EventQuiet DEF eventVars

LEMMA DequeueEvents ==
  ASSUME ExecutorInv, NEW t \in Threads, Dequeue(t)
  PROVE  EventInv'
  <1>1. TaskInv
    BY DEF ExecutorInv
  <1>2. TaskInv' /\ Calm
    BY <1>1, DequeueTasks
  <1>3. /\ calls[t] = <<>> /\ t \notin active /\ queue # <<>> /\ t # Client
        /\ queue' = Tail(queue) /\ Start(t, Head(queue))
        /\ UNCHANGED <<plan, eventVars, completed, result>>
    BY ExecutorAssumption DEF Dequeue, Idle
  <1>4. held[t] = None
    BY <1>1, <1>3 DEF TaskInv, Holding
  <1>5. Takes(t, Head(queue))
    BY <1>3, <1>4 DEF Takes
  <1>. QED BY <1>2, <1>3, <1>5, StartEvents

LEMMA ClientEvents ==
  ASSUME ExecutorInv, TaskYields \/ Interrupt \/ ClientStep \/ Abandon \/ UNCHANGED vars
  PROVE  EventInv'
  <1>1. TaskInv
    BY DEF ExecutorInv
  <1>2. CASE ExecuteTask
    <2>1. TaskInv' /\ Calm
      BY <1>1, <1>2, ExecuteTaskTasks
    <2>2. Client \in Threads /\ calls[Client] = <<>>
      BY <1>2 DEF ExecuteTask, Driving, Idle, Threads
    <2>3. PICK k : Takes(Client, k) /\ Start(Client, k)
      BY <1>2 DEF ExecuteTask, Takes
    <2>4. UNCHANGED <<plan, eventVars, completed, result>>
      BY <1>2 DEF ExecuteTask
    <2>. QED BY <2>1, <2>2, <2>3, <2>4, StartEvents
  <1>3. CASE ResetTask \/ MarkCancelled \/ DrainTasks
    <2>1. TaskInv' /\ Calm
      BY <1>1, <1>3, ResetTaskTasks, MarkCancelledTasks, DrainTasksTasks
    <2>2. UNCHANGED <<plan, eventVars, completed, result, error>>
      BY <1>3 DEF ResetTask, MarkCancelled, DrainTasks, flagVars
    <2>. QED BY <2>1, <2>2, ResultIs, EventQuiet DEF eventVars
  <1>4. CASE \/ TaskYields \/ Interrupt \/ TaskReturned \/ FailExecution \/ FinishExecution
             \/ Abandon \/ TearDown \/ UNCHANGED vars
    <2>1. TaskInv' /\ Calm
      BY <1>1, <1>4, ClientTasks
    <2>2. UNCHANGED <<plan, eventVars, completed, error>>
      BY <1>4 DEF TaskYields, Interrupt, TaskReturned, FailExecution, FinishExecution,
                  Abandon, TearDown, vars, flagVars
    <2>3. result' = "FINISHED" => result = "FINISHED" \/ (~error /\ completed >= TotalPipelines)
      BY <1>4 DEF TaskYields, Interrupt, TaskReturned, FailExecution, FinishExecution,
                  Abandon, TearDown, vars, flagVars, Driving
    <2>. QED BY <2>1, <2>2, <2>3, ResultIs, EventQuiet DEF eventVars
  <1>. QED BY <1>2, <1>3, <1>4 DEF ClientStep

-----------------------------------------------------------------------------
(* Steps of the events *)

LEMMA FinalizeFinishEvents ==
  ASSUME ExecutorInv, NEW t \in Threads, FinalizeFinish(t)
  PROVE  EventInv'
  <1>1. /\ TaskInv /\ Types /\ Shapes /\ Once /\ Completion /\ Scheduling /\ plan \in Plans
    BY DEF ExecutorInv, TaskInv, EventInv, CallsMade, Types
  <1>2. /\ Turns(t, <<>>) /\ completed' = completed + 1
        /\ UNCHANGED <<plan, eventVars, taskVars, stateVars, cancelled, result, error,
                       interrupted, held, active, executorLock, phase>>
    BY <1>1, FinalizeFinishIs
  <1>3. TaskInv' /\ Types'
    BY <1>1, FinalizeFinishTasks DEF TaskInv
  <1>4. InCall(t, "finalize")
    BY DEF FinalizeFinish
  <1>5. PICK e \in PlanEvents : calls[t][1] = <<"finalize", e>> /\ calls[t] # <<>>
                                /\ calls[t] \in Seq(Frames)
    BY <1>1, <1>4, TopFrame
  <1>6. PICK g : g = <<"finalize", e>>
    OBVIOUS
  <1>7. calls[t][1] = g /\ g[1] \in EventFrames /\ Range(<<>>) = {} /\ Len(<<>>) = 0
    BY <1>5, <1>6, EmptyList DEF EventFrames
  <1>8. Has(g)
    <2>1. 1 \in DOMAIN calls[t]
      BY <1>5
    <2>. QED BY <1>7, <2>1 DEF Has
  <1>9. \A f : f[1] \in EventFrames => (Has(f)' <=> Has(f) /\ f # g)
    <2>1. \A f : (Has(f) /\ f # g => Has(f)') /\ (Has(f)' => Has(f))
      BY <1>1, <1>2, <1>7, TurnsHas
    <2>2. ~Has(g)'
      BY <1>1, <1>2, <1>5, <1>7, TurnsDrops
    <2>. QED BY <2>1, <2>2
  <1>10. Once'
    <2>1. /\ \A i, j \in 1 .. Len(<<>>) : <<>>[i] = <<>>[j] /\ <<>>[i][1] \in EventFrames => i = j
          /\ \A i \in 1 .. Len(<<>>) : <<>>[i][1] \in EventFrames => ~Has(<<>>[i])
      BY <1>7
    <2>. QED BY <1>1, <1>2, <2>1, TurnsOnce
  <1>11. Moves({}, {})
    <2>1. ASSUME NEW x, NEW z PROVE Calls(x, z)' <=> Calls(x, z)
      <3>1. PICK f : f = <<"parent", x, z>>
        OBVIOUS
      <3>2. f[1] \in EventFrames /\ f # g
        BY <1>6, <3>1 DEF EventFrames
      <3>. QED BY <1>9, <3>1, <3>2 DEF Calls
    <2>. QED BY <1>2, <2>1 DEF Moves, eventVars
  <1>12. Dependencies' /\ CallsMade'
    BY <1>2, <1>3, <1>10, <1>11, MovesEvents DEF eventVars
  <1>13. Scheduling'
    <2>1. \A u \in Threads : \A k \in PlanTasks : Holds(u, k)' => Holds(u, k)
      BY <1>1, <1>2, <1>7, NobodyTakes
    <2>2. \A k \in PlanTasks : Owned(k)' => Owned(k)
      BY <1>2, <2>1 DEF Owned, taskVars
    <2>3. SchedulingAt(e)'
      <3>1. Begun(e) => Begun(e)'
        BY <1>2 DEF Begun, eventVars
      <3>. QED BY <1>2, <1>3, <2>2, <3>1, ScheduledKept DEF eventVars
    <2>. QED BY <1>2, <1>3, <2>2, <2>3, SchedulingStep DEF eventVars
  <1>14. Completion'
    <2>1. e \in finished /\ e[2] = "complete"
      BY <1>1, <1>6, <1>8 DEF Completion
    <2>2. e \in Stages(plan)
      BY <1>1, <2>1 DEF Scheduling, SchedulingAt
    <2>3. PICK b \in BasePipelines(plan) : e = Stage(b, "complete")
      <3>1. e = <<e[1], e[2]>> /\ e[1] \in plan.pipelines /\ plan.base[e[1]] = e[1]
        BY <1>1, <2>1, <2>2, StageIs
      <3>2. e[1] \in BasePipelines(plan) /\ e = Stage(e[1], "complete")
        BY <2>1, <3>1 DEF BasePipelines, Stage
      <3>. QED BY <3>2
    <2>4. b \notin Finalized
      BY <1>6, <1>8, <2>3 DEF Finalized, Finalizing
    <2>5. Finalized' = Finalized \cup {b}
      <3>1. ASSUME NEW a \in BasePipelines(plan)
            PROVE  Finalizing(a)' <=> Finalizing(a) /\ a # b
        <4>1. PICK f : f = <<"finalize", Stage(a, "complete")>>
          OBVIOUS
        <4>2. f[1] \in EventFrames /\ (f = g <=> a = b)
          BY <1>6, <2>3, <4>1 DEF EventFrames, Stage
        <4>3. Finalizing(a)' <=> Has(f)'
          BY <4>1 DEF Finalizing, Stage
        <4>4. Finalizing(a) <=> Has(f)
          BY <4>1 DEF Finalizing
        <4>. QED BY <1>9, <4>2, <4>3, <4>4
      <3>2. BasePipelines(plan)' = BasePipelines(plan) /\ finished' = finished
        BY <1>2 DEF eventVars
      <3>. QED BY <2>1, <2>3, <3>1, <3>2 DEF Finalized, Stage
    <2>6. IsFiniteSet(Finalized)
      <3>1. Finalized \subseteq plan.pipelines /\ IsFiniteSet(plan.pipelines)
        BY <1>1, PlanFacts DEF Finalized, BasePipelines
      <3>. QED BY <3>1, FS_Subset
    <2>7. Cardinality(Finalized') = Cardinality(Finalized) + 1
      BY <2>4, <2>5, <2>6, FS_AddElement
    <2>8. \A x \in PlanEvents : Has(<<"finalize", x>>)' => Has(<<"finalize", x>>)
      <3>1. \A x : <<"finalize", x>>[1] \in EventFrames
        BY DEF EventFrames
      <3>. QED BY <1>9, <3>1
    <2>9. result' = "FINISHED" => ~error' /\ completed' >= TotalPipelines'
      <3>1. completed \in Nat /\ TotalPipelines \in Nat
        <4>1. BasePipelines(plan) \subseteq plan.pipelines /\ IsFiniteSet(plan.pipelines)
          BY <1>1, PlanFacts DEF BasePipelines
        <4>2. IsFiniteSet(BasePipelines(plan))
          BY <4>1, FS_Subset
        <4>. QED BY <1>1, <4>2, FS_CardinalityType DEF TotalPipelines, Types
      <3>2. TotalPipelines' = TotalPipelines
        BY <1>2, PlanSame
      <3>3. result = "FINISHED" => ~error /\ completed >= TotalPipelines
        BY ResultIs
      <3>. QED BY <1>2, <3>1, <3>2, <3>3
    <2>10. PlanEvents' = PlanEvents /\ finished' = finished
      BY <1>2, PlanSame DEF eventVars
    <2>. QED BY <1>1, <1>2, <2>7, <2>8, <2>9, <2>10 DEF Completion
  <1>. QED BY <1>12, <1>13, <1>14 DEF EventInv

\* A call of CompleteDependency arrives, and the event that is called may be
\* finished by it.
LEMMA ArrivalStep ==
  ASSUME ExecutorInv, TaskInv', NEW t \in Threads, NEW e \in PlanEvents, NEW d \in PlanEvents,
         calls[t] # <<>>, calls[t][1] = <<"parent", e, d>>,
         NEW m, Turns(t, m), UniqueEvents(m), NEW fin, Announces(m, fin),
         fin = {} \/ (fin = {e} /\ Ready(e)),
         plan' = plan, needs' = needs, parents' = parents, completed' = completed,
         done' = done, finished' = finished \cup fin, met' = [met EXCEPT ![e] = @ + 1],
         result' = result, error' = error \/ (error' = TRUE /\ result # "FINISHED"),
         \A x \in Events : x # e => total'[x] = total[x],
         \A k \in PlanTasks : EventOf(k) # e /\ Owned(k)' => Owned(k),
         SchedulingAt(e)'
  PROVE  EventInv'
  <1>1. Types' /\ Types /\ plan \in Plans
    BY DEF ExecutorInv, TaskInv, Types
  <1>2. PICK arr : arr = {<<e, d>>}
    OBVIOUS
  <1>3. \A w \in fin : Ready(w)
    OBVIOUS
  <1>4. /\ Moves(arr, fin) /\ Once'
        /\ \A c, b \in PlanEvents : <<c, b>> \in arr => Calls(c, b)
        /\ \A x \in PlanEvents : Has(<<"finalize", x>>)' <=>
              Has(<<"finalize", x>>) \/ (x \in fin /\ x[2] = "complete")
    <2>1. Arrives(t, arr)
      BY <1>2 DEF Arrives
    <2>2. FramesMove(arr, fin)
      BY <1>3, <2>1, CallsMove
    <2>. QED BY <2>2 DEF FramesMove
  <1>5. Calls(e, d)
    BY <1>2, <1>4
  <1>6. Dependencies' /\ CallsMade'
    BY <1>1, <1>2, <1>3, <1>4, <1>5, MovesEvents
  <1>7. PlanEvents \subseteq Events /\ met \in [Events -> Nat]
    BY <1>1, PlanFacts DEF Types
  <1>8. Scheduling'
    <2>1. \A x \in PlanEvents : x # e =>
            /\ total'[x] = total[x] /\ done'[x] = done[x] /\ needs'[x] = needs[x]
            /\ met'[x] = met[x] /\ (x \in finished' <=> x \in finished)
      BY <1>7
    <2>2. \A x \in Events \ PlanEvents :
            total'[x] = total[x] /\ done'[x] = done[x] /\ needs'[x] = needs[x]
      OBVIOUS
    <2>3. ~error' => ~error
      OBVIOUS
    <2>. QED BY <1>1, <2>1, <2>2, <2>3, SchedulingStep
  <1>9. Completion'
    <2>1. fin \subseteq PlanEvents /\ fin \cap finished = {}
      BY DEF Ready
    <2>2. result' = "FINISHED" => ~error' /\ completed >= TotalPipelines
      BY ResultIs
    <2>. QED BY <1>4, <2>1, <2>2, CompletionKept
  <1>. QED BY <1>6, <1>8, <1>9 DEF EventInv

\* What is announced when nothing, or event e, is finished.
LEMMA NothingAnnounced ==
  ASSUME NEW m, \A f \in Range(m) : f[1] \notin EventFrames
  PROVE  Announces(m, {})
  BY DEF Announces

LEMMA FinishAnnounced ==
  ASSUME Types, NEW e \in PlanEvents, NEW m, NEW R, Range(m) = Range(FinishCalls(e)) \cup R,
         \A f \in R : f[1] \notin EventFrames
  PROVE  Announces(m, {e})
  <1>1. Range(FinishCalls(e)) = ParentCalls(e)
          \cup (IF e[2] = "complete" THEN {<<"finalize", e>>} ELSE {})
    BY FinishCallsIs
  <1>2. \A f : f \in Range(FinishCalls(e)) <=>
          f \in ParentCalls(e) \/ (e[2] = "complete" /\ f = <<"finalize", e>>)
    BY <1>1
  <1>. QED BY <1>2 DEF Announces

LEMMA CompleteDependencyEvents ==
  ASSUME ExecutorInv, NEW t \in Threads, CompleteDependency(t)
  PROVE  EventInv'
  <1>1. TaskInv /\ Types /\ Shapes /\ Scheduling /\ plan \in Plans
    BY DEF ExecutorInv, TaskInv, EventInv, Types
  <1>2. TaskInv' /\ Types'
    BY <1>1, CompleteDependencyTasks DEF TaskInv
  <1>3. InCall(t, "parent")
    BY DEF CompleteDependency
  <1>4. PICK e \in PlanEvents : e = calls[t][1][2]
    BY <1>1, <1>3, TopFrame
  <1>5. PICK d \in PlanEvents : calls[t] # <<>> /\ calls[t][1] = <<"parent", e, d>>
                                /\ calls[t] \in Seq(Frames)
    BY <1>1, <1>3, <1>4, TopFrame
  <1>6. /\ met' = [met EXCEPT ![e] = @ + 1]
        /\ UNCHANGED <<plan, parents, needs, done, rescheduled, stateVars, flagVars, held,
                       active, executorLock>>
    BY <1>1, <1>4, DependencyCases
  <1>7. Calls(e, d)
    <2>1. 1 \in DOMAIN calls[t]
      BY <1>5
    <2>. QED BY <1>5, <2>1 DEF Calls, Has
  <1>8. e \in Events /\ met[e] \in Nat /\ needs[e] \in Nat /\ met'[e] = met[e] + 1
        /\ needs'[e] = needs[e] /\ done[e] \in Nat /\ total[e] \in Nat
        /\ total \in [Events -> Nat]
    BY <1>1, <1>6, PlanFacts DEF Types
  <1>9. Begun(e) => Begun(e)'
    BY <1>8 DEF Begun
  <1>10. UniqueEvents(<<>>) /\ Announces(<<>>, {}) /\ Len(<<>>) = 0 /\ Range(<<>>) = {}
    BY EmptyList, NothingAnnounced DEF UniqueEvents
  <1>11. ASSUME NEW m, Turns(t, m), \A i \in 1 .. Len(m) : m[i][1] # "deschedule",
                NEW k \in PlanTasks, Owned(k)', k \notin Range(queue') \/ queue' = queue
         PROVE  Owned(k)
    <2>1. \A u \in Threads : Holds(u, k)' => Holds(u, k)
      BY <1>1, <1>6, <1>11, NobodyTakes
    <2>2. ASSUME \E i \in DOMAIN queue' : queue'[i] = k PROVE k \in Range(queue')
      BY <2>2 DEF Range
    <2>. QED BY <1>6, <1>11, <2>1, <2>2 DEF Owned
  <1>12. CASE /\ met[e] + 1 = needs[e] /\ ScheduledTasks(e) # {}
              /\ SetTasks(e) /\ Turns(t, <<>>) /\ finished' = finished
    <2>1. /\ e \notin finished /\ total[e] = 0 /\ done[e] = 0 /\ Open(e) = {}
          /\ e \in Stages(plan) \/ e[2] = "inserted"
      BY <1>7, <1>12, CalledIs
    <2>2. /\ IsFiniteSet(ScheduledTasks(e)) /\ ScheduledTasks(e) \subseteq PlanTasks
          /\ \A k \in ScheduledTasks(e) : EventOf(k) = e
          /\ Cardinality(ScheduledTasks(e)) \in Nat
      BY <1>1, ScheduledIs
    <2>3. PICK s : /\ s = SetToSeq(ScheduledTasks(e)) /\ s \in Seq(ScheduledTasks(e))
                   /\ Len(s) = Cardinality(ScheduledTasks(e)) /\ Range(s) = ScheduledTasks(e)
      BY <2>2, ListOfSet
    <2>4. total' = [total EXCEPT ![e] = Len(s)] /\ queue' = queue \o s
      BY <1>12, <2>3 DEF SetTasks
    <2>5. queue \in Seq(PlanTasks) /\ s \in Seq(PlanTasks)
      BY <1>1, <2>2, <2>3 DEF Types
    <2>6. Range(queue') = Range(queue) \cup ScheduledTasks(e)
      BY <2>3, <2>4, <2>5, RangeOfBoth
    <2>7. \A k \in PlanTasks : Owned(k)' => Owned(k) \/ k \in ScheduledTasks(e)
      <3>. SUFFICES ASSUME NEW k \in PlanTasks, Owned(k)', k \notin ScheduledTasks(e)
                    PROVE  Owned(k)
        OBVIOUS
      <3>1. CASE k \in Range(queue)
        BY <3>1 DEF Owned, Range
      <3>2. CASE k \notin Range(queue)
        BY <1>10, <1>11, <1>12, <2>6, <3>2
      <3>. QED BY <3>1, <3>2
    <2>8. \A k \in PlanTasks : EventOf(k) # e /\ Owned(k)' => Owned(k)
      BY <2>2, <2>7
    <2>9. total'[e] = Cardinality(ScheduledTasks(e)) /\ \A x \in Events : x # e => total'[x] = total[x]
      BY <1>8, <2>3, <2>4
    <2>10. SchedulingAt(e)'
      <3>1. Open(e)' \subseteq ScheduledTasks(e)
        BY <1>6, <2>1, <2>7, PlanSame DEF Open
      <3>2. Cardinality(Open(e)') <= Cardinality(ScheduledTasks(e))
            /\ Cardinality(Open(e)') \in Nat
        BY <2>2, <3>1, FS_Subset, FS_CardinalityType
      <3>3. Begun(e)'
        BY <1>8, <1>12 DEF Begun
      <3>4. ScheduledTasks(e)' = ScheduledTasks(e) /\ Stages(plan)' = Stages(plan)
        BY <1>6, PlanSame
      <3>5. done'[e] = 0 /\ e \notin finished'
        BY <1>6, <1>12, <2>1
      <3>. QED BY <2>1, <2>2, <2>9, <3>2, <3>3, <3>4, <3>5 DEF SchedulingAt
    <2>. QED BY <1>2, <1>5, <1>6, <1>10, <1>12, <2>8, <2>9, <2>10, ArrivalStep DEF flagVars
  <1>13. CASE /\ met[e] + 1 = needs[e] /\ ScheduledTasks(e) = {}
              /\ Turns(t, FinishCalls(e)) /\ finished' = finished \cup {e}
              /\ UNCHANGED <<queue, executorTasks, total, phase>>
    <2>1. e[2] = "complete"
      BY <1>1, <1>13, ScheduledIs
    <2>2. /\ e \notin finished /\ total[e] = 0 /\ done[e] = 0 /\ Open(e) = {} /\ Ready(e)
          /\ e \in Stages(plan)
      BY <1>7, <1>13, <2>1, CalledIs
    <2>3. PICK m : m = FinishCalls(e)
      OBVIOUS
    <2>4. m \in Seq(Frames) /\ UniqueEvents(m) /\ Announces(m, {e})
      <3>1. PICK R : R = {}
        OBVIOUS
      <3>2. Announces(m, {e})
        <4>1. Range(m) = Range(FinishCalls(e)) \cup R /\ \A f \in R : f[1] \notin EventFrames
          BY <2>3, <3>1
        <4>. QED BY <1>1, <4>1, FinishAnnounced
      <3>. QED BY <1>1, <2>3, <3>2, FinishCallsIs
    <2>5. \A i \in 1 .. Len(m) : m[i][1] # "deschedule"
      <3>1. \A f \in Range(m) : f[1] \in {"parent", "finalize"}
        BY <1>1, <2>3, FinishCallsIs DEF ParentCalls
      <3>2. DOMAIN m = 1 .. Len(m)
        BY <2>4, LenProperties
      <3>. QED BY <3>1, <3>2 DEF Range
    <2>6. \A k \in PlanTasks : Owned(k)' => Owned(k)
      BY <1>11, <1>13, <2>3, <2>5
    <2>7. SchedulingAt(e)'
      <3>1. Open(e)' = {}
        BY <1>6, <2>2, <2>6, PlanSame DEF Open
      <3>2. Begun(e)'
        BY <1>8, <1>13 DEF Begun
      <3>3. ScheduledTasks(e)' = {} /\ Stages(plan)' = Stages(plan)
        BY <1>6, <1>13, PlanSame
      <3>4. total'[e] = 0 /\ done'[e] = 0
        BY <1>6, <1>13, <2>2
      <3>. QED BY <2>1, <2>2, <3>1, <3>2, <3>3, <3>4, FS_EmptySet DEF SchedulingAt
    <2>. QED BY <1>2, <1>5, <1>6, <1>13, <2>2, <2>3, <2>4, <2>6, <2>7, ArrivalStep DEF flagVars
  <1>14. CASE /\ Turns(t, <<>>) /\ finished' = finished
              /\ UNCHANGED <<queue, executorTasks, total, phase>>
    <2>1. \A k \in PlanTasks : Owned(k)' => Owned(k)
      BY <1>10, <1>11, <1>14
    <2>2. SchedulingAt(e)'
      BY <1>2, <1>6, <1>9, <1>14, <2>1, ScheduledKept DEF flagVars
    <2>. QED BY <1>2, <1>5, <1>6, <1>10, <1>14, <2>1, <2>2, ArrivalStep DEF flagVars
  <1>. QED BY <1>1, <1>4, <1>12, <1>13, <1>14, DependencyCases

LEMMA ScheduleFailsEvents ==
  ASSUME ExecutorInv, NEW t \in Threads, ScheduleFails(t)
  PROVE  EventInv'
  <1>1. TaskInv /\ Types /\ Shapes /\ Scheduling /\ plan \in Plans
    BY DEF ExecutorInv, TaskInv, EventInv, Types
  <1>2. TaskInv' /\ Types'
    BY <1>1, ScheduleFailsTasks DEF TaskInv
  <1>3. InCall(t, "parent")
    BY DEF ScheduleFails
  <1>4. PICK e, m : e = calls[t][1][2] /\ m = PushErrorCalls \o FinishCalls(e)
    OBVIOUS
  <1>5. PICK d \in PlanEvents : calls[t] # <<>> /\ calls[t][1] = <<"parent", e, d>>
                                /\ calls[t] \in Seq(Frames)
    BY <1>1, <1>3, <1>4, TopFrame
  <1>7. /\ e \in PlanEvents /\ e[2] = "execute" /\ met[e] + 1 = needs[e]
        /\ met' = [met EXCEPT ![e] = @ + 1]
        /\ finished' = finished \cup {e} /\ error' = TRUE
        /\ Turns(t, m)
        /\ Range(m) = UnblockCalls \cup ParentCalls(e)
        /\ UNCHANGED <<plan, parents, needs, total, done, taskVars, stateVars, cancelled,
                       completed, result, held, active, executorLock, phase>>
    <2>1. ScheduleFailsEffect(t, e, m)
      BY <1>1, <1>4, ScheduleFailsIs
    <2>. QED BY <2>1 DEF ScheduleFailsEffect
  <1>8. Calls(e, d)
    <2>1. 1 \in DOMAIN calls[t]
      BY <1>5
    <2>. QED BY <1>5, <2>1 DEF Calls, Has
  <1>9. /\ e \notin finished /\ total[e] = 0 /\ done[e] = 0 /\ Open(e) = {} /\ Ready(e)
        /\ e \in Stages(plan) /\ result # "FINISHED"
    BY <1>7, <1>8, CalledIs
  <1>10. e \in Events /\ met[e] \in Nat /\ needs[e] \in Nat /\ met'[e] = met[e] + 1
         /\ needs'[e] = needs[e]
    BY <1>1, <1>7, PlanFacts DEF Types
  <1>11. UniqueEvents(m) /\ Announces(m, {e})
    <2>1. PICK a \in Seq(Frames) : a = PushErrorCalls /\ Range(a) = UnblockCalls
      BY <1>1, PushErrorIs
    <2>2. PICK b \in Seq(Frames) : /\ b = FinishCalls(e) /\ UniqueEvents(b)
                                   /\ Range(b) = Range(FinishCalls(e))
      BY <1>1, <1>7, FinishCallsIs
    <2>3. \A f \in Range(a) : f[1] \notin EventFrames
      BY <2>1 DEF UnblockCalls, EventFrames
    <2>4. UniqueEvents(a)
      BY <2>3, UniqueOther
    <2>5. UniqueEvents(a \o b)
      BY <2>2, <2>3, <2>4, UniqueBoth
    <2>6. m = a \o b /\ Range(m) = Range(b) \cup Range(a)
      BY <1>4, <2>1, <2>2, RangeOfBoth
    <2>. QED BY <1>1, <1>7, <2>2, <2>3, <2>5, <2>6, FinishAnnounced
  <1>12. \A k \in PlanTasks : Owned(k)' => Owned(k)
    <2>1. \A f \in Range(m) : f[1] # "deschedule"
      BY <1>7 DEF UnblockCalls, ParentCalls
    <2>2. DOMAIN m = 1 .. Len(m)
      BY <1>7, LenProperties DEF Turns
    <2>3. \A i \in 1 .. Len(m) : m[i][1] # "deschedule"
      BY <2>1, <2>2 DEF Range
    <2>4. \A u \in Threads : \A k \in PlanTasks : Holds(u, k)' => Holds(u, k)
      BY <1>1, <1>7, <2>3, NobodyTakes
    <2>. QED BY <1>7, <2>4 DEF Owned, taskVars
  <1>13. SchedulingAt(e)'
    <2>1. Open(e)' = {}
      BY <1>7, <1>9, <1>12, PlanSame DEF Open
    <2>2. Begun(e)'
      BY <1>7, <1>10 DEF Begun
    <2>3. Stages(plan)' = Stages(plan) /\ total'[e] = 0 /\ done'[e] = 0 /\ error'
      BY <1>7, <1>9
    <2>. QED BY <1>7, <1>9, <2>1, <2>2, <2>3, FS_EmptySet DEF SchedulingAt
  <1>. QED BY <1>2, <1>5, <1>7, <1>9, <1>11, <1>12, <1>13, ArrivalStep

\* A slice that is over gives its task up.
LEMMA LeaveOpen ==
  ASSUME ExecutorInv, NEW t \in active, NEW k, k = held[t], NEW e, e = EventOf(k),
         plan' = plan, NEW m, Turns(t, m),
         \A i \in 1 .. Len(m) : m[i][1] # "deschedule",
         held' = [held EXCEPT ![t] = None], queue' = queue, rescheduled' = rescheduled
  PROVE  /\ t \in Threads /\ calls[t] = <<>> /\ k \in PlanTasks /\ Owned(k)
         /\ \A j \in PlanTasks : Owned(j)' => Owned(j)
         /\ Open(e)' \subseteq Open(e) \ {k}
         /\ Cardinality(Open(e)') \in Nat
         /\ Cardinality(Open(e)') + 1 <= Cardinality(Open(e))
  <1>1. TaskInv /\ Types /\ Shapes /\ OwnedOnce /\ plan \in Plans
    BY DEF ExecutorInv, TaskInv, Types
  <1>2. t \in Threads /\ calls[t] = <<>> /\ k \in PlanTasks /\ None \notin PlanTasks
    BY <1>1, ActiveIs, PlanFacts
  <1>3. Holds(t, k) /\ Owned(k)
    BY <1>2 DEF Holds, Owned
  <1>4. ASSUME NEW j \in PlanTasks, NEW u \in Threads, Holds(u, j)'
        PROVE  Holds(u, j) /\ u # t
    <2>1. CASE u = t
      <3>1. Holds(t, j)' <=> held'[t] = j
        BY <1>1, <1>2, HoldsAfter
      <3>2. held'[t] = None
        BY <1>1, <1>2 DEF Types
      <3>. QED BY <1>2, <1>4, <2>1, <3>1, <3>2
    <2>2. CASE u # t
      <3>1. held'[u] = held[u]
        BY <1>1, <1>2, <2>2 DEF Types
      <3>2. Holds(u, j)' <=> Holds(u, j)
        BY <1>1, <1>2, <2>2, <3>1, HoldsAfter
      <3>. QED BY <1>4, <2>2, <3>2
    <2>. QED BY <2>1, <2>2
  <1>5. \A j \in PlanTasks : Owned(j)' => Owned(j)
    BY <1>4 DEF Owned
  <1>6. ~Owned(k)'
    <2>1. \A i \in DOMAIN queue : queue[i] # k
      BY <1>1, <1>2, <1>3 DEF OwnedOnce
    <2>2. k \notin rescheduled
      BY <1>1, <1>2, <1>3 DEF OwnedOnce
    <2>3. \A u \in Threads : Holds(u, k) => u = t
      BY <1>1, <1>2, <1>3 DEF OwnedOnce
    <2>. QED BY <1>2, <1>4, <2>1, <2>2, <2>3 DEF Owned
  <1>7. k \in Open(e) /\ Open(e)' \subseteq Open(e) \ {k}
    BY <1>2, <1>3, <1>5, <1>6, PlanSame DEF Open
  <1>8. IsFiniteSet(Open(e)) /\ Cardinality(Open(e)) \in Nat
    BY <1>1, OpenIs
  <1>9. /\ IsFiniteSet(Open(e) \ {k})
        /\ Cardinality(Open(e) \ {k}) = Cardinality(Open(e)) - 1
    BY <1>7, <1>8, FS_RemoveElement
  <1>10. /\ IsFiniteSet(Open(e)') /\ Cardinality(Open(e)') \in Nat
         /\ Cardinality(Open(e)') <= Cardinality(Open(e) \ {k})
    BY <1>7, <1>9, FS_Subset, FS_CardinalityType
  <1>11. Cardinality(Open(e)') + 1 <= Cardinality(Open(e))
    BY <1>8, <1>9, <1>10
  <1>. QED BY <1>2, <1>3, <1>5, <1>7, <1>10, <1>11

LEMMA TaskFinishesEvents ==
  ASSUME ExecutorInv, NEW t \in Threads, TaskFinishes(t)
  PROVE  EventInv'
  <1>1. TaskInv /\ Types /\ Shapes /\ Scheduling /\ plan \in Plans
    BY DEF ExecutorInv, TaskInv, EventInv, Types
  <1>2. TaskInv' /\ Types'
    BY <1>1, TaskFinishesTasks DEF TaskInv
  <1>3. PICK k, e : k = held[t] /\ e = EventOf(k)
    OBVIOUS
  <1>4. /\ t \in active /\ k \in PlanTasks /\ e \in PlanEvents
        /\ FinishTask(e)
        /\ active' = active \ {t} /\ held' = [held EXCEPT ![t] = None]
        /\ UNCHANGED <<plan, parents, needs, met, total, taskVars, canBlock, blockedTasks,
                       flagVars, executorLock, phase>>
        /\ \E a \in Seq(Frames), m \in Seq(Frames) :
             /\ a = IF e \in finished' THEN FinishCalls(e) ELSE <<>>
             /\ \A f \in Range(a) : f[1] \in {"parent", "finalize", "unblock"}
             /\ UniqueEvents(a)
             /\ m = a \o <<<<"release", k>>>>
             /\ Turns(t, m)
    BY <1>1, <1>3, TaskFinishesIs
  <1>5. PICK a \in Seq(Frames), m \in Seq(Frames) :
             /\ a = IF e \in finished' THEN FinishCalls(e) ELSE <<>>
             /\ \A f \in Range(a) : f[1] \in {"parent", "finalize", "unblock"}
             /\ UniqueEvents(a)
             /\ m = a \o <<<<"release", k>>>>
             /\ Turns(t, m)
    BY <1>4
  <1>6. PICK r : r = <<<<"release", k>>>>
    OBVIOUS
  <1>7. r \in Seq(Frames) /\ Range(r) = {<<"release", k>>}
    BY <1>4, <1>6, OneFrameIs
  <1>8. \A f \in Range(r) : f[1] \notin EventFrames
    <2>1. <<"release", k>>[1] \notin EventFrames
      BY DEF EventFrames
    <2>. QED BY <1>7, <2>1
  <1>9. UniqueEvents(m)
    <2>1. UniqueEvents(r)
      BY <1>7, <1>8, UniqueOther
    <2>2. UniqueEvents(a \o r)
      BY <1>5, <1>7, <1>8, <2>1, UniqueBoth
    <2>. QED BY <1>5, <1>6, <2>2
  <1>10. /\ Range(m) = Range(a) \cup {<<"release", k>>}
         /\ \A i \in 1 .. Len(m) : m[i][1] \notin {"deschedule", "unlock", "wake"}
    BY <1>4, <1>5, LeaveIs
  <1>11. /\ calls[t] = <<>> /\ Owned(k)
         /\ \A j \in PlanTasks : Owned(j)' => Owned(j)
         /\ Cardinality(Open(e)') \in Nat
         /\ Cardinality(Open(e)') + 1 <= Cardinality(Open(e))
    BY ZenonT(60), <1>3, <1>4, <1>5, <1>10, LeaveOpen DEF taskVars
  <1>12. /\ e \notin finished /\ Begun(e) /\ Ready(e)
         /\ done[e] \in Nat /\ total[e] \in Nat /\ done[e] < total[e]
         /\ total[e] = Cardinality(ScheduledTasks(e))
         /\ e \in Stages(plan) \/ e[2] = "inserted"
    BY <1>3, <1>4, <1>11, OwnedIs
  <1>13. /\ done' = [done EXCEPT ![e] = @ + 1]
         /\ finished' = IF done[e] + 1 = total[e] THEN finished \cup {e} ELSE finished
    BY <1>4 DEF FinishTask
  <1>14. PICK fin : fin = IF done[e] + 1 = total[e] THEN {e} ELSE {}
    OBVIOUS
  <1>15. finished' = finished \cup fin /\ (e \in finished' <=> done[e] + 1 = total[e])
         /\ \A w \in fin : Ready(w)
    BY <1>12, <1>13, <1>14
  <1>16. Announces(m, fin)
    <2>1. CASE done[e] + 1 = total[e]
      <3>1. a = FinishCalls(e) /\ fin = {e}
        BY <1>5, <1>14, <1>15, <2>1
      <3>2. Range(m) = Range(FinishCalls(e)) \cup Range(r)
        BY <1>7, <1>10, <3>1
      <3>. QED BY <1>1, <1>4, <1>8, <3>1, <3>2, FinishAnnounced
    <2>2. CASE done[e] + 1 # total[e]
      <3>1. a = <<>> /\ fin = {}
        BY <1>5, <1>14, <1>15, <2>2
      <3>2. Range(m) = Range(r)
        BY <1>7, <1>10, <3>1, EmptyList
      <3>. QED BY <1>8, <3>1, <3>2, NothingAnnounced
    <2>. QED BY <2>1, <2>2
  <1>17. /\ Moves({}, fin) /\ Once'
         /\ \A x \in PlanEvents : Has(<<"finalize", x>>)' <=>
              Has(<<"finalize", x>>) \/ (x \in fin /\ x[2] = "complete")
    <2>1. Arrives(t, {})
      BY <1>11 DEF Arrives
    <2>2. FramesMove({}, fin)
      BY <1>4, <1>5, <1>9, <1>15, <1>16, <2>1, CallsMove
    <2>. QED BY <2>2 DEF FramesMove
  <1>18. Dependencies' /\ CallsMade'
    BY <1>2, <1>4, <1>15, <1>17, MovesEvents
  <1>19. Scheduling'
    <2>1. e \in Events /\ done \in [Events -> Nat] /\ PlanEvents \subseteq Events
      BY <1>1, <1>4, PlanFacts DEF Types
    <2>2. done'[e] = done[e] + 1 /\ \A x \in Events : x # e => done'[x] = done[x]
      BY <1>13, <2>1
    <2>3. SchedulingAt(e)'
      <3>1. SchedulingAt(e)
        BY <1>1, <1>4 DEF Scheduling
      <3>2. ScheduledTasks(e)' = ScheduledTasks(e) /\ Stages(plan)' = Stages(plan)
        BY <1>4, PlanSame
      <3>3. Begun(e)' /\ total'[e] = total[e] /\ needs'[e] = needs[e]
        BY <1>4, <1>12 DEF Begun
      <3>4. Cardinality(Open(e)) \in Nat
        BY <1>1, OpenIs
      <3>5. done[e] + Cardinality(Open(e)) <= total[e]
        BY <3>1 DEF SchedulingAt
      <3>6. done'[e] + Cardinality(Open(e)') <= total'[e]
        BY <1>11, <1>12, <2>2, <3>3, <3>4, <3>5
      <3>7. e[2] = "inserted" => needs[e] = 1
        BY <1>12 DEF Ready
      <3>8. e \in finished' => done'[e] = total'[e]
        BY <1>15, <2>2, <3>3
      <3>. QED BY <1>12, <3>2, <3>3, <3>6, <3>7, <3>8 DEF SchedulingAt
    <2>4. \A x \in PlanEvents : x # e =>
            /\ total'[x] = total[x] /\ done'[x] = done[x] /\ needs'[x] = needs[x]
            /\ met'[x] = met[x] /\ (x \in finished' <=> x \in finished)
      BY <1>4, <1>13, <2>1, <2>2
    <2>5. \A x \in Events \ PlanEvents :
            total'[x] = total[x] /\ done'[x] = done[x] /\ needs'[x] = needs[x]
      BY <1>4, <2>2
    <2>. QED BY <1>2, <1>4, <1>11, <2>3, <2>4, <2>5, SchedulingStep DEF flagVars
  <1>20. Completion'
    <2>1. fin \subseteq PlanEvents /\ fin \cap finished = {}
      BY <1>15 DEF Ready
    <2>. QED BY <1>4, <1>15, <1>17, <2>1, ResultIs, CompletionKept DEF flagVars
  <1>. QED BY <1>18, <1>19, <1>20 DEF EventInv

LEMMA InsertEventEvents ==
  ASSUME ExecutorInv, NEW t \in Threads, InsertEvent(t)
  PROVE  EventInv'
  <1>1. /\ TaskInv /\ Types /\ Shapes /\ Dependencies /\ CallsMade /\ Once /\ Scheduling
        /\ Completion /\ plan \in Plans
    BY DEF ExecutorInv, TaskInv, EventInv, Types, CallsMade
  <1>2. TaskInv' /\ Types'
    BY <1>1, InsertEventTasks DEF TaskInv
  <1>3. PICK k, e, new : k = held[t] /\ e = EventOf(k) /\ new = Stage(e[1], "inserted")
    OBVIOUS
  <1>4. InsertEffect(t, k, e, new) /\ InsertCalls(t, k, e, new)
    BY <1>1, <1>3, InsertEventIs
  <1>5. /\ t \in active /\ k \in PlanTasks /\ e \in PlanEvents /\ new \in PlanEvents
        /\ e[2] = "finish" /\ new # e /\ new[2] = "inserted" /\ new[1] = e[1]
        /\ parents' = IF cancelled THEN [parents EXCEPT ![e] = {}]
                      ELSE [parents EXCEPT ![new] = parents[e], ![e] = {new}]
        /\ needs' = [needs EXCEPT ![new] = 1]
        /\ done' = [done EXCEPT ![e] = @ + 1]
        /\ finished' = finished \cup {e}
        /\ held' = [held EXCEPT ![t] = None]
        /\ UNCHANGED <<plan, met, total, queue, executorTasks, rescheduled>>
        /\ UNCHANGED <<cancelled, completed, result, error>>
    BY <1>4 DEF InsertEffect, taskVars, flagVars
  <1>6. PICK a \in Seq(Frames), m \in Seq(Frames) :
          /\ Range(a) = IF cancelled THEN {} ELSE {<<"parent", new, e>>}
          /\ \A f \in Range(a) : f[1] \in {"parent", "finalize", "unblock"}
          /\ UniqueEvents(a)
          /\ m = a \o <<<<"release", k>>>>
          /\ Turns(t, m)
    BY <1>4 DEF InsertCalls
  <1>7. /\ Range(m) = Range(a) \cup {<<"release", k>>}
        /\ \A i \in 1 .. Len(m) : m[i][1] \notin {"deschedule", "unlock", "wake"}
    BY <1>5, <1>6, LeaveIs
  <1>8. UniqueEvents(m)
    <2>1. PICK r : r = <<<<"release", k>>>>
      OBVIOUS
    <2>2. r \in Seq(Frames) /\ Range(r) = {<<"release", k>>}
      BY <1>5, <2>1, OneFrameIs
    <2>3. \A f \in Range(r) : f[1] \notin EventFrames
      <3>1. <<"release", k>>[1] \notin EventFrames
        BY DEF EventFrames
      <3>. QED BY <2>2, <3>1
    <2>4. UniqueEvents(r)
      BY <2>2, <2>3, UniqueOther
    <2>5. UniqueEvents(a \o r)
      BY <1>6, <2>2, <2>3, <2>4, UniqueBoth
    <2>. QED BY <1>6, <2>1, <2>5
  <1>9. /\ calls[t] = <<>> /\ Owned(k)
        /\ \A j \in PlanTasks : Owned(j)' => Owned(j)
        /\ Cardinality(Open(e)') \in Nat
        /\ Cardinality(Open(e)') + 1 <= Cardinality(Open(e))
    BY <1>3, <1>5, <1>6, <1>7, LeaveOpen
  \* the finish event and the new one before the step
  <1>10. /\ e \notin finished /\ Begun(e)
         /\ done[e] \in Nat /\ total[e] \in Nat /\ done[e] < total[e]
         /\ total[e] = Cardinality(ScheduledTasks(e)) /\ e \in Stages(plan)
    BY <1>3, <1>5, <1>9, OwnedIs
  <1>11. total[e] = 1 /\ done[e] = 0
    <2>1. ScheduledTasks(e) = {<<e, 1>>}
      BY <1>1, <1>5, ScheduledIs
    <2>2. Cardinality(ScheduledTasks(e)) = 1
      BY <2>1, FS_Singleton
    <2>. QED BY <1>10, <2>2
  <1>12. /\ PlanEvents \subseteq Events /\ e \in Events /\ new \in Events
         /\ needs \in [Events -> Nat] /\ met \in [Events -> Nat] /\ done \in [Events -> Nat]
         /\ total \in [Events -> Nat] /\ parents \in [Events -> SUBSET Events]
    BY <1>1, <1>5, PlanFacts DEF Types
  <1>13. new = Inserted(e) /\ Finish(new) = e
    <2>1. new = Inserted(e)
      BY <1>3 DEF Inserted
    <2>. QED BY <1>5, <2>1, InsertedIs
  <1>14. needs[new] = 0 /\ met[new] = 0 /\ new \notin finished /\ total[new] = 0 /\ done[new] = 0
         /\ Cardinality(Open(new)) = 0 /\ new \notin Stages(plan)
    <2>1. needs[new] = 0 /\ met[new] = 0
      BY <1>1, <1>5, <1>10, <1>12, <1>13 DEF Dependencies
    <2>2. SchedulingAt(new) /\ ~Begun(new)
      BY <1>1, <1>5, <2>1 DEF Scheduling, Begun
    <2>3. new \notin finished /\ total[new] = 0
      BY <1>12, <2>2 DEF SchedulingAt
    <2>4. Cardinality(Open(new)) \in Nat
      BY <1>1, OpenIs
    <2>5. done[new] = 0 /\ Cardinality(Open(new)) = 0
      BY <1>12, <2>2, <2>3, <2>4 DEF SchedulingAt
    <2>6. new \notin Stages(plan)
      BY <1>1, <1>5, StageIs
    <2>. QED BY <2>1, <2>3, <2>5, <2>6
  \* the step
  <1>15. /\ needs'[new] = 1 /\ \A x \in Events : x # new => needs'[x] = needs[x]
         /\ done'[e] = 1 /\ \A x \in Events : x # e => done'[x] = done[x]
         /\ \A x \in Events : x # e /\ x # new => parents'[x] = parents[x]
         /\ ~cancelled => parents'[new] = parents[e]
    BY <1>5, <1>11, <1>12
  <1>16. PICK g : g = <<"parent", new, e>>
    OBVIOUS
  <1>17. \A f : f[1] \in EventFrames => (f \in Range(m) <=> ~cancelled /\ f = g)
    <2>1. <<"release", k>>[1] \notin EventFrames
      BY DEF EventFrames
    <2>2. g[1] \in EventFrames
      BY <1>16 DEF EventFrames
    <2>. QED BY <1>6, <1>7, <1>16, <2>1, <2>2
  <1>18. ~Has(g)
    <2>1. ~Calls(new, e)
      BY <1>1, <1>5, <1>10 DEF CallsMade
    <2>. QED BY <1>16, <2>1 DEF Calls
  <1>19. Once'
    <2>1. DOMAIN m = 1 .. Len(m)
      BY <1>6, LenProperties
    <2>2. \A i \in 1 .. Len(m) : m[i][1] \in EventFrames => ~Has(m[i])
      BY <1>17, <1>18, <2>1 DEF Range
    <2>. QED BY <1>1, <1>6, <1>8, <2>2, TurnsOnce DEF UniqueEvents
  <1>20. \A f : f[1] \in EventFrames => (Has(f)' <=> Has(f) \/ (~cancelled /\ f = g))
    <2>1. \A f : Has(f)' <=> Has(f) \/ f \in Range(m)
      BY <1>1, <1>6, <1>9, TurnsHas
    <2>. QED BY <1>17, <2>1
  <1>21. \A x, z \in PlanEvents : Calls(x, z)' <=> Calls(x, z) \/ (~cancelled /\ x = new /\ z = e)
    <2>. SUFFICES ASSUME NEW x \in PlanEvents, NEW z \in PlanEvents
                  PROVE  Calls(x, z)' <=> Calls(x, z) \/ (~cancelled /\ x = new /\ z = e)
      OBVIOUS
    <2>1. PICK f : f = <<"parent", x, z>>
      OBVIOUS
    <2>2. f[1] \in EventFrames /\ (f = g <=> x = new /\ z = e)
      BY <1>16, <2>1 DEF EventFrames
    <2>. QED BY <1>20, <2>1, <2>2 DEF Calls
  <1>22. \A x : Has(<<"finalize", x>>)' <=> Has(<<"finalize", x>>)
    <2>. SUFFICES ASSUME NEW x PROVE Has(<<"finalize", x>>)' <=> Has(<<"finalize", x>>)
      OBVIOUS
    <2>1. PICK f : f = <<"finalize", x>>
      OBVIOUS
    <2>2. f[1] \in EventFrames /\ f # g
      BY <1>16, <2>1 DEF EventFrames
    <2>. QED BY <1>20, <2>1, <2>2
  <1>23. /\ PlanEvents' = PlanEvents /\ Stages(plan)' = Stages(plan)
         /\ \A x : Deps(x)' = Deps(x) /\ Children(x)' = Children(x)
         /\ \A x : Finish(x)' = Finish(x) /\ Inserted(x)' = Inserted(x)
    BY <1>5, PlanSame DEF Deps, Children, Graph, Finish, Inserted
  <1>24. \A d : new \notin Children(d)
    BY <1>1, <1>14, DepsAre
  <1>25. \A d \in PlanEvents : ~Calls(new, d)
    BY <1>1, <1>5, <1>14, <1>24 DEF CallsMade
  <1>26. ASSUME NEW x \in Stages(plan)
         PROVE  Reported(x)' = Reported(x)
    <2>1. x \in PlanEvents /\ x # new
      BY <1>1, <1>14, StageIs
    <2>2. ASSUME NEW y \in Deps(x)
          PROVE  (Done(y)' /\ ~Reports(x, y)') <=> (Done(y) /\ ~Reports(x, y))
      <3>1. y \in PlanEvents /\ Inserted(y) \in PlanEvents /\ y # new
        BY <1>1, <1>14, DepsAre, InsertedIs DEF Deps
      <3>2. Reports(x, y)' <=> Reports(x, y)
        BY <1>21, <1>23, <2>1, <3>1 DEF Reports
      <3>3. CASE y = e
        <4>1. ~Done(y)
          BY <1>10, <3>3 DEF Done
        <4>2. new \notin finished' /\ needs'[new] > 0
          BY <1>5, <1>14, <1>15
        <4>3. ~Done(y)'
          BY <1>5, <1>13, <1>23, <3>3, <4>2 DEF Done, Rerouted
        <4>. QED BY <4>1, <4>3
      <3>4. CASE y # e
        <4>1. y[2] = "finish" => Inserted(y) # new
          BY <1>13, <3>1, <3>4, InsertedIs
        <4>2. y[2] = "finish" => Inserted(y) # e
          BY <1>5, <3>1, InsertedIs
        <4>3. /\ y \in finished' <=> y \in finished
              /\ y[2] = "finish" => /\ Inserted(y) \in finished' <=> Inserted(y) \in finished
                                    /\ needs'[Inserted(y)] = needs[Inserted(y)]
          BY <1>5, <1>12, <1>15, <3>1, <3>4, <4>1, <4>2
        <4>4. Done(y)' <=> Done(y)
          BY <1>23, <4>3 DEF Done, Rerouted
        <4>. QED BY <3>2, <4>4
      <3>. QED BY <3>3, <3>4
    <2>. QED BY <1>23, <2>2 DEF Reported
  <1>27. Dependencies'
    <2>1. ASSUME NEW x \in Stages(plan)
          PROVE  /\ needs'[x] = Cardinality(Deps(x)') /\ met'[x] = Cardinality(Reported(x)')
                 /\ x \notin finished' => parents'[x] = Children(x)'
      <3>1. x \in PlanEvents /\ x # new /\ x \in Events
        BY <1>1, <1>12, <1>14, StageIs
      <3>2. /\ needs[x] = Cardinality(Deps(x)) /\ met[x] = Cardinality(Reported(x))
            /\ x \notin finished => parents[x] = Children(x)
        BY <1>1 DEF Dependencies
      <3>3. x \notin finished' => x \notin finished /\ parents'[x] = parents[x]
        BY <1>5, <1>15, <3>1
      <3>. QED BY <1>5, <1>15, <1>23, <1>26, <3>1, <3>2, <3>3
    <2>2. ASSUME NEW x \in PlanEvents, x[2] = "inserted"
          PROVE  /\ needs'[x] \in {0, 1} /\ met'[x] <= needs'[x]
                 /\ needs'[x] = 1 => Finish(x) \in Stages(plan) /\ Finish(x) \in finished'
                 /\ needs'[x] = 1 /\ (met'[x] = 1 \/ \E d \in PlanEvents : Calls(x, d)') =>
                      parents'[x] = Children(Finish(x))
      <3>1. CASE x = new
        <4>1. needs'[x] = 1 /\ met'[x] = 0
          BY <1>5, <1>14, <1>15, <3>1
        <4>2. Finish(x) = e /\ e \in Stages(plan) /\ e \in finished'
          BY <1>5, <1>10, <1>13, <3>1
        <4>3. parents[e] = Children(e)
          BY <1>1, <1>10 DEF Dependencies
        <4>4. (\E d \in PlanEvents : Calls(x, d)') => ~cancelled
          BY <1>5, <1>21, <1>25, <3>1
        <4>. QED BY <1>15, <3>1, <4>1, <4>2, <4>3, <4>4
      <3>2. CASE x # new
        <4>1. /\ needs[x] \in {0, 1} /\ met[x] <= needs[x]
              /\ needs[x] = 1 => Finish(x) \in Stages(plan) /\ Finish(x) \in finished
              /\ needs[x] = 1 /\ (met[x] = 1 \/ \E d \in PlanEvents : Calls(x, d)) =>
                   parents[x] = Children(Finish(x))
          BY <1>1, <2>2 DEF Dependencies
        <4>2. /\ needs'[x] = needs[x] /\ met'[x] = met[x] /\ parents'[x] = parents[x]
              /\ \A d \in PlanEvents : Calls(x, d)' <=> Calls(x, d)
          BY <1>5, <1>12, <1>15, <1>21, <2>2, <3>2
        <4>. QED BY <1>5, <4>1, <4>2
      <3>. QED BY <3>1, <3>2
    <2>3. \A x \in PlanEvents \ Stages(plan) : x[2] # "inserted" => needs'[x] = 0
      BY <1>1, <1>5, <1>12, <1>15 DEF Dependencies
    <2>. QED BY <1>23, <2>1, <2>2, <2>3 DEF Dependencies
  <1>28. CallsMade'
    <2>1. ASSUME NEW x \in PlanEvents, NEW z \in PlanEvents, Calls(x, z)'
          PROVE  /\ z \in finished'
                 /\ \/ x \in Children(z) /\ z[2] # "inserted" /\ ~Rerouted(z)'
                    \/ x \in Children(Finish(z)) /\ z[2] = "inserted"
                    \/ x = Inserted(z) /\ z[2] = "finish" /\ needs'[x] = 1 /\ met'[x] = 0
      <3>1. CASE x = new /\ z = e
        BY <1>5, <1>13, <1>14, <1>15, <3>1
      <3>2. CASE Calls(x, z)
        <4>1. /\ z \in finished
              /\ \/ x \in Children(z) /\ z[2] # "inserted" /\ ~Rerouted(z)
                 \/ x \in Children(Finish(z)) /\ z[2] = "inserted"
                 \/ x = Inserted(z) /\ z[2] = "finish" /\ needs[x] = 1 /\ met[x] = 0
          BY <1>1, <3>2 DEF CallsMade
        <4>2. z # e /\ z \in finished'
          BY <1>5, <1>10, <4>1
        <4>3. z[2] = "finish" => Inserted(z) # new /\ Inserted(z) \in PlanEvents
          BY <1>13, <4>2, InsertedIs
        <4>4. Rerouted(z)' <=> Rerouted(z)
          BY <1>12, <1>15, <1>23, <4>3 DEF Rerouted
        <4>5. needs[x] = 1 => needs'[x] = 1
          BY <1>12, <1>15
        <4>. QED BY <1>5, <4>1, <4>2, <4>4, <4>5
      <3>. QED BY <1>21, <2>1, <3>1, <3>2
    <2>. QED BY <1>19, <1>23, <2>1 DEF CallsMade
  <1>29. Scheduling'
    <2>1. ScheduledTasks(e)' = ScheduledTasks(e) /\ ScheduledTasks(new)' = ScheduledTasks(new)
      BY <1>5, PlanSame
    <2>2. SchedulingAt(e)'
      <3>1. Begun(e)'
        BY <1>5, <1>10, <1>12, <1>15 DEF Begun
      <3>2. Cardinality(Open(e)) \in Nat /\ done[e] + Cardinality(Open(e)) <= total[e]
        BY <1>1, <1>5, OpenIs DEF Scheduling, SchedulingAt
      <3>3. done'[e] + Cardinality(Open(e)') <= total'[e]
        BY <1>5, <1>9, <1>11, <1>15, <3>2
      <3>. QED BY <1>5, <1>10, <1>11, <1>15, <1>23, <2>1, <3>1, <3>3 DEF SchedulingAt
    <2>3. SchedulingAt(new)'
      <3>1. Open(new)' \subseteq Open(new)
        BY <1>5, <1>9, PlanSame DEF Open
      <3>2. IsFiniteSet(Open(new))
        BY <1>1, OpenIs
      <3>3. Cardinality(Open(new)') = 0
        <4>1. Open(new) = {}
          BY <1>14, <3>2, FS_EmptySet
        <4>. QED BY <3>1, <4>1, FS_EmptySet
      <3>4. total'[new] = 0 /\ done'[new] = 0 /\ new \notin finished'
        BY <1>5, <1>12, <1>14, <1>15
      <3>. QED BY <3>3, <3>4 DEF SchedulingAt
    <2>4. ASSUME NEW x \in PlanEvents, x # e, x # new PROVE SchedulingAt(x)'
      <3>1. /\ total'[x] = total[x] /\ done'[x] = done[x] /\ needs'[x] = needs[x]
            /\ met'[x] = met[x] /\ (x \in finished' <=> x \in finished)
        BY <1>5, <1>12, <1>15, <2>4
      <3>2. Begun(x) => Begun(x)'
        BY <3>1 DEF Begun
      <3>. QED BY <1>2, <1>5, <1>9, <3>1, <3>2, ScheduledKept
    <2>5. \A x \in Events \ PlanEvents : total'[x] = 0 /\ done'[x] = 0 /\ needs'[x] = 0
      BY <1>1, <1>5, <1>12, <1>15 DEF Scheduling
    <2>. QED BY <1>23, <2>2, <2>3, <2>4, <2>5 DEF Scheduling
  <1>30. Completion'
    <2>1. {e} \subseteq PlanEvents /\ {e} \cap finished = {}
      BY <1>5, <1>10
    <2>2. \A x \in PlanEvents : Has(<<"finalize", x>>)' <=>
            Has(<<"finalize", x>>) \/ (x \in {e} /\ x[2] = "complete")
      BY <1>5, <1>22
    <2>. QED BY <1>5, <2>1, <2>2, ResultIs, CompletionKept
  <1>. QED BY <1>27, <1>28, <1>29, <1>30 DEF EventInv

-----------------------------------------------------------------------------
(* The events, in every step *)

LEMMA NextEvents ==
  ASSUME ExecutorInv, [Next]_vars
  PROVE  EventInv'
  <1>1. CASE \E t \in Threads : Step(t)
    BY <1>1, CompleteDependencyEvents, ScheduleFailsEvents, FinalizeFinishEvents,
       CallQuiet DEF Step
  <1>2. CASE \E t \in Threads : Slice(t)
    BY <1>2, TaskFinishesEvents, InsertEventEvents, TaskFailsEvents, CallQuiet DEF Slice
  <1>3. CASE \E t \in Threads : Dequeue(t) \/ Callback(t)
    BY <1>3, DequeueEvents, CallQuiet
  <1>4. CASE TaskYields \/ Interrupt \/ ClientStep \/ Abandon \/ Ended \/ UNCHANGED vars
    BY <1>4, ClientEvents DEF Ended
  <1>. QED BY <1>1, <1>2, <1>3, <1>4 DEF Next

-----------------------------------------------------------------------------
(* What is proved *)

\* The bookkeeping of a statement's execution is right in every reachable
\* state: executor_tasks counts the tasks that exist, each of them is queued,
\* parked or with one thread and will be woken if parked, an event counts each
\* dependency once and each of its tasks once, and completed_pipelines counts
\* the complete events whose FinalizeFinish is through.
THEOREM ExecutorCorrect == Spec => []ExecutorInv
  <1>1. Init => ExecutorInv
    BY InitTasks, InitEvents DEF ExecutorInv
  <1>2. ExecutorInv /\ [Next]_vars => ExecutorInv'
    <2>. SUFFICES ASSUME ExecutorInv, [Next]_vars PROVE ExecutorInv'
      OBVIOUS
    <2>1. TaskInv'
      BY NextTasks DEF ExecutorInv
    <2>2. EventInv'
      BY NextEvents
    <2>. QED BY <2>1, <2>2 DEF ExecutorInv
  <1>. QED BY <1>1, <1>2, PTL DEF Spec

\* For every plan and any number of threads, no pipeline runs before the sinks
\* it reads from are complete, the events these inserted included, and no join
\* build finalizes before all its siblings have announced their memory.
THEOREM StagesInOrder == Spec => []PipelineOrder
  <1>1. ExecutorInv => PipelineOrder
    BY OrderFollows
  <1>. QED BY <1>1, ExecutorCorrect, PTL

\* However RescheduleTask and AddToBeRescheduled interleave, no task is queued,
\* held or parked twice, and a parked one of a running query will be woken.
THEOREM NoTaskLostOrDoubled == Spec => []TasksAccounted
  <1>1. ExecutorInv => TasksAccounted
    BY AccountsFollow
  <1>. QED BY <1>1, ExecutorCorrect, PTL

\* CancelTasks does not return while a task exists, and the executor is not
\* destroyed while a thread is inside UnregisterTask.
THEOREM ExecutorOutlivesItsTasks == Spec => []NothingOutlives
  <1>1. ExecutorInv => NothingOutlives
    BY EndFollows DEF ExecutorInv
  <1>. QED BY <1>1, ExecutorCorrect, PTL

\* FinishExecution reports FINISHED only for a statement without an error that
\* has run every task of every stage and of every event its sinks inserted.
THEOREM FinishedIsFinished == Spec => []SuccessIsReal
  <1>1. ExecutorInv => SuccessIsReal
    BY SuccessFollows
  <1>. QED BY <1>1, ExecutorCorrect, PTL
=============================================================================
