------------------------------ MODULE Executor ------------------------------
(***************************************************************************)
(* The execution of one statement: src/src/parallel/executor.cpp with its   *)
(* events (event.cpp, pipeline_*_event.cpp), its tasks (executor_task.cpp,  *)
(* pipeline.cpp), the wake-up of blocked tasks (interrupt.cpp) and the      *)
(* queue of the task scheduler (task_scheduler*.cpp).                       *)
(*                                                                         *)
(* The client thread drives the statement (Executor::ExecuteTask), worker   *)
(* threads take tasks from the queue, and waker threads complete the        *)
(* asynchronous work a task blocked on.  The client ends the statement with *)
(* CancelTasks, also after a success, and then destroys the executor.       *)
(*                                                                         *)
(* A thread that is inside a call carries the rest of the call in calls[t]: *)
(*   <<"parent", e, d>>   Event::CompleteDependency of e, called by d       *)
(*   <<"finalize", e>>    Event::FinalizeFinish of e                        *)
(*   <<"unblock", p>>     PushError's loop body for pipeline p              *)
(*   <<"wake", k>>        Executor::RescheduleTask of k, holding k          *)
(*   <<"deschedule", k>>  Executor::AddToBeRescheduled of k, holding k      *)
(*   <<"release", k>>     dropping a reference to k                         *)
(*   <<"unlock", k>>      the end of UnregisterTask, under executor_lock    *)
(***************************************************************************)
EXTENDS PipelineSchedule, Sequences, SequencesExt

CONSTANTS
    Plans,       \* the query plans, see PipelineSchedule
    Workers,     \* worker threads of the task scheduler
    Wakers,      \* threads that complete asynchronous work
    Client,      \* the thread that runs the statement
    None,        \* no task, no thread
    MaxThreads,  \* tasks of one event
    MaxParks,    \* how often tasks block
    MaxYields,   \* how often the client returns with an unfinished task
    MaxFaults    \* exceptions thrown by tasks, by scheduling, or interrupts

VARIABLES
    plan,          \* the physical plan
    parents,       \* Event::parents
    needs,         \* Event::total_dependencies
    met,           \* Event::finished_dependencies
    total,         \* Event::total_tasks
    done,          \* Event::finished_tasks
    finished,      \* events with Event::finished set
    queue,         \* the tasks of this producer in the scheduler's queue
    executorTasks, \* Executor::executor_tasks
    rescheduled,   \* Executor::to_be_rescheduled_tasks
    cancelled,     \* Executor::cancelled
    completed,     \* Executor::completed_pipelines
    result,        \* Executor::execution_result
    error,         \* TaskErrorManager::has_error
    interrupted,   \* ClientContext::interrupt_state
    initialized,   \* pipelines whose source or sink state exists
    canBlock,      \* StateWithBlockableTasks::can_block
    blockedTasks,  \* StateWithBlockableTasks::blocked_tasks
    held,          \* the task a thread holds in a variable of its own
    active,        \* threads inside Task::Execute
    calls,         \* the rest of the calls a thread is in
    executorLock,  \* the owner of executor_lock across steps
    phase,         \* what the client is doing
    parks, yields, faults

eventVars == <<parents, needs, met, total, done, finished>>
taskVars  == <<queue, executorTasks, rescheduled>>
stateVars == <<initialized, canBlock, blockedTasks>>
flagVars  == <<cancelled, completed, result, error, interrupted>>
bounds    == <<parks, yields, faults>>
vars == <<plan, eventVars, taskVars, stateVars, flagVars, held, active, calls,
          executorLock, phase, bounds>>

Threads == Workers \cup Wakers \cup {Client}

ASSUME ExecutorAssumption ==
    /\ IsFiniteSet(Workers) /\ IsFiniteSet(Wakers)
    /\ Workers \cap Wakers = {} /\ Client \notin Workers \cup Wakers
    /\ None \notin Threads
    /\ MaxThreads \in Nat \ {0}
    /\ \A p \in Plans : IsPlan(p) /\ \A q \in p.pipelines : p.threads[q] \in 1..MaxThreads

AllPipelines == UNION {p.pipelines : p \in Plans}
StageTypes == {"initialize", "execute", "prepare_finish", "finish", "complete",
               "inserted"}
Events == AllPipelines \X StageTypes
Tasks == Events \X (1..MaxThreads)

ASSUME NoneAssumption == None \notin Tasks

EventOf(k) == k[1]
PipelineOf(k) == k[1][1]
TypeOf(k) == k[1][2]

\* total_pipelines: the number of meta-pipelines.
TotalPipelines == Cardinality(BasePipelines(plan))

(* ---------------------------- references ---------------------------- *)

\* The tasks the frames of a thread refer to.
FrameTasks(c) == {c[i][2] : i \in {j \in DOMAIN c : c[j][1] \in {"wake", "deschedule", "release"}}}

\* shared_ptr<Task>: the tasks referred to, when the frames are c.
Referenced(c) ==
    Range(queue) \cup rescheduled \cup {held[t] : t \in Threads}
    \cup UNION {FrameTasks(c[t]) : t \in Threads}

\* weak_ptr<Task>::lock succeeds.
Alive(k) == k \in Referenced(calls)

\* The reference thread t is about to drop is not the only one.
Shared(t) == Head(calls[t])[2] \in Referenced([calls EXCEPT ![t] = Tail(@)])

(* ------------------------------ events ------------------------------ *)

\* The tasks Schedule creates for event e.
ScheduledTasks(e) ==
    CASE e[2] = "complete" -> {}
      [] e[2] = "execute"  -> {<<e, i>> : i \in 1..plan.threads[e[1]]}
      [] OTHER             -> {<<e, 1>>}

\* What an event does when it is finished: complete a dependency of each
\* parent, then FinalizeFinish, which only the complete event defines.
FinishCalls(e) ==
    LET order == SetToSeq(parents[e])
    IN  [i \in DOMAIN order |-> <<"parent", order[i], e>>]
        \o IF e[2] = "complete" THEN <<<<"finalize", e>>>> ELSE <<>>

\* Event::SetTasks and TaskScheduler::ScheduleTasks: the constructors have
\* registered the tasks, the queue signals the workers and the producer.
SetTasks(e) ==
    LET new == SetToSeq(ScheduledTasks(e))
    IN  /\ total' = [total EXCEPT ![e] = Len(new)]
        /\ executorTasks' = executorTasks + Len(new)
        /\ queue' = queue \o new
        /\ phase' = IF phase = "asleep" THEN "drain" ELSE phase

\* PushError: record the error, interrupt the query, then visit the pipelines.
PushErrorCalls == [p \in 1..Cardinality(plan.pipelines) |-> <<"unblock", p>>]

Init ==
    /\ plan \in Plans
    /\ LET graph == BuildPipelineSchedule(plan)
           first == {e \in Stages(plan) : ~\E d \in graph : d[1] = e}
       IN  /\ parents = [e \in Events |-> {d[1] : d \in {x \in graph : x[2] = e}}]
           /\ needs = [e \in Events |-> Cardinality({d \in graph : d[1] = e})]
           /\ total = [e \in Events |-> IF e \in first THEN 1 ELSE 0]
           /\ queue = SetToSeq({<<e, 1>> : e \in first})
           /\ executorTasks = Cardinality(first)
    /\ met = [e \in Events |-> 0]
    /\ done = [e \in Events |-> 0]
    /\ finished = {}
    /\ rescheduled = {}
    /\ cancelled = FALSE /\ completed = 0 /\ result = "NOT_READY"
    /\ error = FALSE /\ interrupted = FALSE
    /\ initialized = {}
    /\ canBlock = [p \in AllPipelines |-> TRUE]
    /\ blockedTasks = [p \in AllPipelines |-> {}]
    /\ held = [t \in Threads |-> None]
    /\ active = {}
    /\ calls = [t \in Threads |-> <<>>]
    /\ executorLock = None
    /\ phase = "execute"
    /\ parks = 0 /\ yields = 0 /\ faults = 0

(* ------------------------- inside a call ---------------------------- *)

InCall(t, name) == calls[t] # <<>> /\ Head(calls[t])[1] = name
Return(t, more) == calls' = [calls EXCEPT ![t] = more \o Tail(@)]

\* Event::CompleteDependency: the last dependency schedules the event, and an
\* event without tasks finishes at once.
CompleteDependency(t) ==
    /\ InCall(t, "parent")
    /\ LET e == Head(calls[t])[2]
           last == met[e] + 1 = needs[e]
       IN  /\ met' = [met EXCEPT ![e] = @ + 1]
           /\ IF last /\ ScheduledTasks(e) # {}
              THEN /\ SetTasks(e)
                   /\ Return(t, <<>>)
                   /\ UNCHANGED <<rescheduled, finished>>
              ELSE /\ finished' = IF last THEN finished \cup {e} ELSE finished
                   /\ Return(t, IF last THEN FinishCalls(e) ELSE <<>>)
                   /\ UNCHANGED <<taskVars, total, phase>>
    /\ UNCHANGED <<plan, parents, needs, done, stateVars, flagVars, held, active,
                   executorLock, bounds>>

\* PipelineEvent::Schedule catches an exception, which leaves the event without
\* tasks: it is finished although its pipeline never ran.
ScheduleFails(t) ==
    /\ InCall(t, "parent")
    /\ faults < MaxFaults
    /\ LET e == Head(calls[t])[2]
       IN  /\ e[2] = "execute" /\ met[e] + 1 = needs[e]
           /\ met' = [met EXCEPT ![e] = @ + 1]
           /\ finished' = finished \cup {e}
           /\ Return(t, PushErrorCalls \o FinishCalls(e))
    /\ error' = TRUE /\ interrupted' = TRUE
    /\ faults' = faults + 1
    /\ UNCHANGED <<plan, parents, needs, total, done, taskVars, stateVars, cancelled,
                   completed, result, held, active, executorLock, phase, parks, yields>>

\* PipelineCompleteEvent::FinalizeFinish.
FinalizeFinish(t) ==
    /\ InCall(t, "finalize")
    /\ completed' = completed + 1
    /\ Return(t, <<>>)
    /\ UNCHANGED <<plan, eventVars, taskVars, stateVars, cancelled, result, error,
                   interrupted, held, active, executorLock, phase, bounds>>

\* PushError for one pipeline: a pipeline whose states exist no longer lets
\* tasks block, and its blocked tasks are called back.
PreventBlocking(t) ==
    /\ InCall(t, "unblock")
    /\ LET p == Head(calls[t])[2]
           woken == SetToSeq({k \in blockedTasks[p] : Alive(k)})
       IN  IF plan.base[p] \in initialized
           THEN /\ canBlock' = [canBlock EXCEPT ![p] = FALSE]
                /\ blockedTasks' = [blockedTasks EXCEPT ![p] = {}]
                /\ Return(t, [i \in DOMAIN woken |-> <<"wake", woken[i]>>])
           ELSE /\ Return(t, <<>>)
                /\ UNCHANGED <<canBlock, blockedTasks>>
    /\ UNCHANGED <<plan, eventVars, taskVars, flagVars, initialized, held, active,
                   executorLock, phase, bounds>>

\* Mutant: a wake-up that finds its task not yet descheduled is dropped.
RescheduleTaskMutant(t) ==
    /\ InCall(t, "wake")
    /\ executorLock = None
    /\ LET k == Head(calls[t])[2]
       IN  /\ IF ~cancelled /\ k \in rescheduled
              THEN /\ rescheduled' = rescheduled \ {k}
                   /\ queue' = Append(queue, k)
              ELSE UNCHANGED <<rescheduled, queue>>
           /\ Return(t, <<<<"release", k>>>>)
    /\ UNCHANGED <<plan, eventVars, executorTasks, stateVars, flagVars, held, active,
                   executorLock, phase, bounds>>

\* Mutant: the task is queued without waiting until it has been descheduled.
RescheduleEarlyMutant(t) ==
    /\ InCall(t, "wake")
    /\ executorLock = None
    /\ LET k == Head(calls[t])[2]
       IN  /\ IF cancelled
              THEN UNCHANGED <<rescheduled, queue>>
              ELSE /\ rescheduled' = rescheduled \ {k}
                   /\ queue' = Append(queue, k)
           /\ Return(t, <<<<"release", k>>>>)
    /\ UNCHANGED <<plan, eventVars, executorTasks, stateVars, flagVars, held, active,
                   executorLock, phase, bounds>>

\* Executor::RescheduleTask: spin until the task has been descheduled, unless
\* the query is cancelled.
RescheduleTask(t) ==
    /\ InCall(t, "wake")
    /\ executorLock = None
    /\ LET k == Head(calls[t])[2]
       IN  /\ cancelled \/ k \in rescheduled
           /\ IF cancelled
              THEN UNCHANGED <<rescheduled, queue>>
              ELSE /\ rescheduled' = rescheduled \ {k}
                   /\ queue' = Append(queue, k)
           /\ Return(t, <<<<"release", k>>>>)
    /\ UNCHANGED <<plan, eventVars, executorTasks, stateVars, flagVars, held, active,
                   executorLock, phase, bounds>>

\* ExecutorTask::Deschedule, Executor::AddToBeRescheduled.
AddToBeRescheduled(t) ==
    /\ InCall(t, "deschedule")
    /\ executorLock = None
    /\ rescheduled' = IF cancelled THEN rescheduled
                      ELSE rescheduled \cup {Head(calls[t])[2]}
    /\ Return(t, <<>>)
    /\ UNCHANGED <<plan, eventVars, queue, executorTasks, stateVars, flagVars,
                   held, active, executorLock, phase, bounds>>

\* A reference is dropped and others remain.
DropReference(t) ==
    /\ InCall(t, "release")
    /\ Shared(t)
    /\ Return(t, <<>>)
    /\ UNCHANGED <<plan, eventVars, taskVars, stateVars, flagVars, held, active,
                   executorLock, phase, bounds>>

\* Mutant: the executor lock is not held while the counter is decremented.
UnregisterTaskMutant(t) ==
    /\ InCall(t, "release")
    /\ ~Shared(t)
    /\ executorTasks' = executorTasks - 1
    /\ phase' = IF phase = "asleep" THEN "drain" ELSE phase
    /\ Return(t, <<<<"unlock", Head(calls[t])[2]>>>>)
    /\ UNCHANGED <<plan, eventVars, queue, rescheduled, stateVars, flagVars,
                   held, active, executorLock, bounds>>

\* ~ExecutorTask, Executor::UnregisterTask: the last reference takes
\* executor_lock, decrements the counter and wakes the client.
UnregisterTask(t) ==
    /\ InCall(t, "release")
    /\ ~Shared(t)
    /\ executorLock = None
    /\ executorLock' = t
    /\ executorTasks' = executorTasks - 1
    /\ phase' = IF phase = "asleep" THEN "drain" ELSE phase
    /\ Return(t, <<<<"unlock", Head(calls[t])[2]>>>>)
    /\ UNCHANGED <<plan, eventVars, queue, rescheduled, stateVars, flagVars,
                   held, active, bounds>>

\* The end of UnregisterTask: task_reschedule is notified, the lock released.
Unregistered(t) ==
    /\ InCall(t, "unlock")
    /\ executorLock' = IF executorLock = t THEN None ELSE executorLock
    /\ Return(t, <<>>)
    /\ UNCHANGED <<plan, eventVars, taskVars, stateVars, flagVars, held, active, phase,
                   bounds>>

(* ------------------------- executing a task ------------------------- *)

Idle(t) == calls[t] = <<>> /\ t \notin active

\* A thread starts a slice of task k.  Pipeline tasks check for an interrupt
\* first and throw; the exception becomes an error of the executor.
Start(t, k) ==
    IF interrupted /\ TypeOf(k) = "execute"
    THEN /\ error' = TRUE
         /\ calls' = [calls EXCEPT ![t] = PushErrorCalls \o
                        IF t = Client THEN <<>> ELSE <<<<"release", k>>>>]
         /\ held' = [held EXCEPT ![t] = IF t = Client THEN k ELSE None]
         /\ UNCHANGED active
    ELSE /\ active' = active \cup {t}
         /\ held' = [held EXCEPT ![t] = k]
         /\ UNCHANGED <<error, calls>>

\* TaskScheduler::ExecuteForever, TryDequeueAndProcessTask: a worker takes the
\* next task.  The semaphore it waits on has at least one signal per queued
\* task, and is signalled again when a dequeue fails although tasks remain.
\* A worker runs a task to its end; under scheduler_process_partial, which is
\* off by default and left out, it would put it back after a slice.
Dequeue(t) ==
    /\ t \in Workers /\ Idle(t) /\ queue # <<>>
    /\ queue' = Tail(queue)
    /\ Start(t, Head(queue))
    /\ UNCHANGED <<plan, eventVars, executorTasks, rescheduled, stateVars, cancelled,
                   completed, result, interrupted, executorLock, phase, bounds>>

\* What the thread does with its reference after Execute has returned.
Leave(t, result_calls) ==
    /\ active' = active \ {t}
    /\ held' = [held EXCEPT ![t] = None]
    /\ calls' = [calls EXCEPT ![t] = result_calls \o <<<<"release", held[t]>>>>]

\* Event::FinishTask: the last task finishes the event.
FinishTask(e) ==
    /\ done' = [done EXCEPT ![e] = @ + 1]
    /\ finished' = IF done[e] + 1 = total[e] THEN finished \cup {e} ELSE finished

\* A task is done: PipelineTask, PipelineInitializeTask, PipelinePreFinishTask,
\* PipelineFinishTask and the tasks of an inserted event end in FinishTask.
TaskFinishes(t) ==
    /\ t \in active
    /\ LET k == held[t]
           e == EventOf(k)
       IN  /\ FinishTask(e)
           /\ Leave(t, IF e \in finished' THEN FinishCalls(e) ELSE <<>>)
           /\ initialized' = IF TypeOf(k) = "initialize"
                             THEN initialized \cup {PipelineOf(k)} ELSE initialized
    /\ UNCHANGED <<plan, parents, needs, met, total, taskVars, canBlock, blockedTasks,
                   flagVars, executorLock, phase, bounds>>

\* Mutant: the parents are not handed over to the inserted event.
InsertEventMutant(t) ==
    /\ t \in active
    /\ executorLock = None
    /\ LET k == held[t]
           e == EventOf(k)
           new == Stage(PipelineOf(k), "inserted")
       IN  /\ TypeOf(k) = "finish" /\ PipelineOf(k) \in plan.inserts
           /\ parents' = IF cancelled THEN [parents EXCEPT ![e] = {}]
                         ELSE [parents EXCEPT ![e] = @ \cup {new}]
           /\ needs' = [needs EXCEPT ![new] = 1]
           /\ done' = [done EXCEPT ![e] = @ + 1]
           /\ finished' = finished \cup {e}
           /\ Leave(t, FinishCalls(e) \o
                        IF cancelled THEN <<>> ELSE <<<<"parent", new, e>>>>)
    /\ UNCHANGED <<plan, met, total, taskVars, stateVars, flagVars, executorLock, phase,
                   bounds>>

\* A sink whose Finalize calls Event::InsertEvent: the new event takes over the
\* parents and depends on the finish event.  Executor::AddEvent drops it when
\* the query is cancelled; its weak pointer is then dead.
InsertEvent(t) ==
    /\ t \in active
    /\ executorLock = None
    /\ LET k == held[t]
           e == EventOf(k)
           new == Stage(PipelineOf(k), "inserted")
       IN  /\ TypeOf(k) = "finish" /\ PipelineOf(k) \in plan.inserts
           /\ parents' = IF cancelled THEN [parents EXCEPT ![e] = {}]
                         ELSE [parents EXCEPT ![new] = parents[e], ![e] = {new}]
           /\ needs' = [needs EXCEPT ![new] = 1]
           /\ done' = [done EXCEPT ![e] = @ + 1]
           /\ finished' = finished \cup {e}
           /\ Leave(t, IF cancelled THEN <<>> ELSE <<<<"parent", new, e>>>>)
    /\ UNCHANGED <<plan, met, total, taskVars, stateVars, flagVars, executorLock, phase,
                   bounds>>

\* StateWithBlockableTasks::BlockTask in a source, sink or Finalize: the task
\* returns TASK_BLOCKED and will be descheduled.
TaskBlocks(t) ==
    /\ t \in active /\ parks < MaxParks
    /\ LET k == held[t]
           p == PipelineOf(k)
       IN  /\ TypeOf(k) \in {"execute", "finish"} /\ p \in plan.async
           /\ canBlock[p]
           /\ blockedTasks' = [blockedTasks EXCEPT ![p] = @ \cup {k}]
           /\ Leave(t, <<<<"deschedule", k>>>>)
    /\ parks' = parks + 1
    /\ UNCHANGED <<plan, eventVars, taskVars, initialized, canBlock, flagVars,
                   executorLock, phase, yields, faults>>

\* ExecutorTask::Execute catches an exception of the task and calls PushError.
\* The client keeps its task, CancelTasks resets it.
TaskFails(t) ==
    /\ t \in active
    /\ faults < MaxFaults
    /\ error' = TRUE /\ interrupted' = TRUE
    /\ active' = active \ {t}
    /\ held' = [held EXCEPT ![t] = IF t = Client THEN @ ELSE None]
    /\ calls' = [calls EXCEPT ![t] = PushErrorCalls \o
                    IF t = Client THEN <<>> ELSE <<<<"release", held[t]>>>>]
    /\ faults' = faults + 1
    /\ UNCHANGED <<plan, eventVars, taskVars, stateVars, cancelled, completed, result,
                   executorLock, phase, parks, yields>>

\* TASK_NOT_FINISHED: the client processes a pipeline task partially.
TaskYields ==
    /\ Client \in active /\ yields < MaxYields
    /\ TypeOf(held[Client]) = "execute"
    /\ active' = active \ {Client}
    /\ yields' = yields + 1
    /\ UNCHANGED <<plan, eventVars, taskVars, stateVars, flagVars, held, calls,
                   executorLock, phase, parks, faults>>

\* Asynchronous work completes and InterruptState::Callback is made.
Callback(t) ==
    /\ t \in Wakers /\ Idle(t)
    /\ \E p \in plan.pipelines : \E k \in blockedTasks[p] :
        /\ blockedTasks' = [blockedTasks EXCEPT ![p] = @ \ {k}]
        /\ calls' = [calls EXCEPT ![t] = IF Alive(k) THEN <<<<"wake", k>>>> ELSE <<>>]
    /\ UNCHANGED <<plan, eventVars, taskVars, initialized, canBlock, flagVars, held,
                   active, executorLock, phase, bounds>>

(* ---------------------------- the client ---------------------------- *)

\* ClientContext::Interrupt from another thread.
Interrupt ==
    /\ phase \in {"execute", "after"} /\ ~interrupted /\ faults < MaxFaults
    /\ interrupted' = TRUE
    /\ faults' = faults + 1
    /\ UNCHANGED <<plan, eventVars, taskVars, stateVars, cancelled, completed, result,
                   error, held, active, calls, executorLock, phase, parks, yields>>

\* ExecuteTaskInternal lets the executor run unless the query was interrupted.
Driving == phase = "execute" /\ Idle(Client) /\ (interrupted => error)

\* Executor::ExecuteTask takes or resumes a task and processes a part of it.
ExecuteTask ==
    /\ Driving /\ completed < TotalPipelines
    /\ IF held[Client] = None
       THEN /\ queue # <<>>
            /\ queue' = Tail(queue)
            /\ Start(Client, Head(queue))
       ELSE /\ Start(Client, held[Client])
            /\ UNCHANGED queue
    /\ phase' = "after"
    /\ UNCHANGED <<plan, eventVars, executorTasks, rescheduled, stateVars,
                   cancelled, completed, result, interrupted, executorLock, bounds>>

\* After the slice: without an error the client returns NOT_READY, with one it
\* fails the execution and cancels the tasks.  It keeps an unfinished task for
\* the next call (scheduler_process_partial, left out, would put it back).
TaskReturned ==
    /\ phase = "after" /\ Idle(Client)
    /\ phase' = IF error THEN "reset" ELSE "execute"
    /\ result' = IF error THEN "EXECUTION_ERROR" ELSE result
    /\ UNCHANGED <<plan, eventVars, taskVars, stateVars, cancelled, completed, error,
                   interrupted, held, active, calls, executorLock, bounds>>

\* ExecuteTask finds no task and an error: FailExecution.
FailExecution ==
    /\ Driving /\ completed < TotalPipelines
    /\ held[Client] = None /\ queue = <<>> /\ error
    /\ result' = "EXECUTION_ERROR"
    /\ phase' = "reset"
    /\ UNCHANGED <<plan, eventVars, taskVars, stateVars, cancelled, completed, error,
                   interrupted, held, active, calls, executorLock, bounds>>

\* Mutant: completion alone decides the result.
FinishExecutionMutant ==
    /\ Driving /\ completed >= TotalPipelines
    /\ executorLock = None
    /\ result' = "FINISHED"
    /\ phase' = "reset"
    /\ UNCHANGED <<plan, eventVars, taskVars, stateVars, cancelled, completed, error,
                   interrupted, held, active, calls, executorLock, bounds>>

\* Executor::FinishExecution.
FinishExecution ==
    /\ Driving /\ completed >= TotalPipelines
    /\ executorLock = None
    /\ result' = IF error THEN "EXECUTION_ERROR" ELSE "FINISHED"
    /\ phase' = "reset"
    /\ UNCHANGED <<plan, eventVars, taskVars, stateVars, cancelled, completed, error,
                   interrupted, held, active, calls, executorLock, bounds>>

\* The result is closed early, or ExecuteTaskInternal throws on an interrupt.
Abandon ==
    /\ phase = "execute" /\ Idle(Client)
    /\ phase' = "reset"
    /\ UNCHANGED <<plan, eventVars, taskVars, stateVars, flagVars, held, active, calls,
                   executorLock, bounds>>

\* CancelTasks: task.reset().
ResetTask ==
    /\ phase = "reset"
    /\ phase' = "mark"
    /\ held' = [held EXCEPT ![Client] = None]
    /\ calls' = [calls EXCEPT ![Client] =
                    IF held[Client] = None THEN <<>> ELSE <<<<"release", held[Client]>>>>]
    /\ UNCHANGED <<plan, eventVars, taskVars, stateVars, flagVars, active, executorLock,
                   bounds>>

\* CancelTasks: under executor_lock the query becomes cancelled and the
\* descheduled tasks are taken; they are destroyed after the lock is released.
MarkCancelled ==
    /\ phase = "mark" /\ Idle(Client) /\ executorLock = None
    /\ cancelled' = TRUE
    /\ rescheduled' = {}
    /\ calls' = [calls EXCEPT ![Client] =
                    LET s == SetToSeq(rescheduled)
                    IN  [i \in DOMAIN s |-> <<"release", s[i]>>]]
    /\ phase' = "drain"
    /\ UNCHANGED <<plan, eventVars, queue, executorTasks, stateVars, completed,
                   result, error, interrupted, held, active, executorLock, bounds>>

\* CancelTasks: under producer_lock the client stops when no task is left,
\* discards a queued task, or sleeps until a task is queued or unregistered.
DrainTasks ==
    /\ phase = "drain" /\ Idle(Client)
    /\ \/ /\ executorTasks = 0
          /\ phase' = "teardown"
          /\ UNCHANGED <<queue, calls>>
       \/ /\ executorTasks # 0 /\ queue # <<>>
          /\ queue' = Tail(queue)
          /\ calls' = [calls EXCEPT ![Client] = <<<<"release", Head(queue)>>>>]
          /\ UNCHANGED phase
       \/ /\ executorTasks # 0 /\ queue = <<>>
          /\ phase' = "asleep"
          /\ UNCHANGED <<queue, calls>>
    /\ UNCHANGED <<plan, eventVars, executorTasks, rescheduled, stateVars,
                   flagVars, held, active, executorLock, bounds>>

\* CancelTasks clears pipelines and events; the executor is destroyed.
TearDown ==
    /\ phase = "teardown" /\ executorLock = None
    /\ phase' = "destroyed"
    /\ UNCHANGED <<plan, eventVars, taskVars, stateVars, flagVars, held, active, calls,
                   executorLock, bounds>>

\* The statement is over.
Ended == phase = "destroyed" /\ UNCHANGED vars

Step(t) ==
    \/ CompleteDependency(t) \/ ScheduleFails(t) \/ FinalizeFinish(t)
    \/ PreventBlocking(t) \/ RescheduleTask(t) \/ AddToBeRescheduled(t)
    \/ DropReference(t) \/ UnregisterTask(t) \/ Unregistered(t)

Slice(t) ==
    \/ TaskFinishes(t) \/ InsertEvent(t) \/ TaskBlocks(t) \/ TaskFails(t)

ClientStep ==
    \/ ExecuteTask \/ TaskReturned \/ FailExecution \/ FinishExecution
    \/ ResetTask \/ MarkCancelled \/ DrainTasks \/ TearDown

Next ==
    \/ \E t \in Threads : Step(t) \/ Slice(t) \/ Dequeue(t) \/ Callback(t)
    \/ TaskYields \/ Interrupt \/ ClientStep \/ Abandon \/ Ended

\* Calls and slices of a task end, workers and asynchronous completions run,
\* and the client keeps driving the statement; an interrupted query is ended.
Fairness ==
    /\ \A t \in Threads :
        /\ WF_vars(Step(t))
        /\ WF_vars(Slice(t))
        /\ WF_vars(Dequeue(t))
        /\ WF_vars(Callback(t))
    /\ WF_vars(ClientStep)
    /\ WF_vars(interrupted /\ Abandon)

Spec == Init /\ [][Next]_vars /\ Fairness
-----------------------------------------------------------------------------
(* Type invariant. *)
TypeOK ==
    /\ plan \in Plans
    /\ parents \in [Events -> SUBSET Events]
    /\ needs \in [Events -> Nat] /\ met \in [Events -> Nat]
    /\ total \in [Events -> 0..MaxThreads] /\ done \in [Events -> 0..MaxThreads]
    /\ finished \subseteq Events
    /\ Range(queue) \subseteq Tasks /\ rescheduled \subseteq Tasks
    /\ executorTasks \in Nat
    /\ {cancelled, error, interrupted} \subseteq BOOLEAN
    /\ completed \in 0..TotalPipelines
    /\ result \in {"NOT_READY", "FINISHED", "EXECUTION_ERROR"}
    /\ initialized \subseteq AllPipelines
    /\ canBlock \in [AllPipelines -> BOOLEAN]
    /\ blockedTasks \in [AllPipelines -> SUBSET Tasks]
    /\ held \in [Threads -> Tasks \cup {None}]
    /\ active \subseteq Threads
    /\ executorLock \in Threads \cup {None}
    /\ phase \in {"execute", "after", "reset", "mark", "drain", "asleep", "teardown",
                  "destroyed"}

\* Everything pipeline p's meta-pipeline has to do, an event its sink inserted
\* included, is done.
MetaPipelineDone(p) ==
    \A q \in plan.pipelines : plan.base[q] = plan.base[p] =>
        LET s == StageStack(plan, q)
        IN  /\ {s.initialize, s.execute, s.prepare_finish, s.finish} \subseteq finished
            /\ \A e \in {Stage(q, "inserted")} : needs[e] > 0 => e \in finished

\* No pipeline runs before the sinks it reads from are complete, and no join
\* build finalizes before all its siblings have announced their memory
\* (pipeline_schedule.cpp's comments on the two kinds of dependency), however
\* tasks and events of several threads interleave and sinks insert events.
PipelineOrder ==
    \A p \in plan.pipelines :
        /\ total[Stage(p, "execute")] > 0 => \A d \in plan.deps[p] : MetaPipelineDone(d)
        /\ total[Stage(p, "finish")] > 0 /\ p \in JoinBuilds(plan) =>
              \A q \in JoinBuilds(plan) : plan.build[q] = plan.build[p] =>
                    Stage(q, "prepare_finish") \in finished

\* How many places may run or queue task k.
Owners(k) ==
    Cardinality({i \in DOMAIN queue : queue[i] = k})
    + Cardinality({t \in Threads : held[t] = k \/ (InCall(t, "deschedule") /\ Head(calls[t])[2] = k)})
    + IF k \in rescheduled THEN 1 ELSE 0

\* A task is queued, held by one thread or parked, never two of these.
TaskOwnedOnce == \A k \in Referenced(calls) \ {None} : Owners(k) <= 1

\* A parked task of a running query still has its wake-up ahead of it: its
\* callback has not been made, or the thread making it is in RescheduleTask.
NoTaskForgotten ==
    \A k \in rescheduled :
        \/ k \in blockedTasks[PipelineOf(k)]
        \/ \E t \in Threads : \E i \in DOMAIN calls[t] : calls[t][i] = <<"wake", k>>

\* A wake-up that overtakes Deschedule neither lets two threads execute one
\* task nor gets lost and leaves the task parked for ever.
TasksAccounted == TypeOK /\ TaskOwnedOnce /\ NoTaskForgotten

\* When CancelTasks clears the pipelines, and after the executor is gone, no
\* task exists, none is parked (clearing the map under executor_lock would
\* destroy it there), and no thread is still inside a call on the executor.
NothingOutlives ==
    /\ phase \in {"teardown", "destroyed"} =>
            /\ rescheduled = {} /\ active = {}
            /\ Referenced(calls) = {None}
    /\ phase = "destroyed" => \A t \in Threads : calls[t] = <<>>

\* A statement reported as FINISHED had no error, and every stage of its plan,
\* and every event its sinks inserted, ran all its tasks: also when a failed
\* Schedule finished an event without running it.
SuccessIsReal ==
    result = "FINISHED" =>
        /\ ~error
        /\ \A e \in Events : e \in Stages(plan) \/ needs[e] > 0 =>
              e \in finished /\ done[e] = Cardinality(ScheduledTasks(e))

\* The statement always comes to an end and its executor is destroyed:
\* blocked tasks are woken, a failure is noticed, and CancelTasks never sleeps
\* while the last task goes away.
StatementEnds == <>(phase = "destroyed")
=============================================================================
