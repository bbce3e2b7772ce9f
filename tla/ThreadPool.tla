----------------------------- MODULE ThreadPool -----------------------------
(***************************************************************************)
(* The worker pool of src/src/threadpool: a queue per privilege tier, each *)
(* under its own mutex, atomic counters outside any mutex, and a condition *)
(* variable whose predicate is (stopping || queued > 0).                   *)
(*                                                                         *)
(* One step is one access to shared state: an atomic load or update, one   *)
(* critical section of a tier mutex, or one operation on the condition     *)
(* variable.  The state mutex is held between the evaluation of the wait   *)
(* predicate and the block (or the second test), which are steps of their  *)
(* own because producers touch `queued` and notify without that mutex.     *)
(***************************************************************************)
EXTENDS Integers, Sequences, FiniteSets

CONSTANTS
    Tasks,      \* the tasks ever offered to the pool; each is offered once
    Producers,  \* threads calling submit / enqueue / enqueue_batch
    Workers,    \* the pool's threads (worker_count_)
    Capacity,   \* queue_capacity, per tier; 0 disables the bound
    MaxBatch,   \* bound: tasks in one enqueue_batch call
    None        \* no task in hand

ASSUME PoolAssumption ==
    /\ IsFiniteSet(Tasks) /\ None \notin Tasks
    /\ IsFiniteSet(Producers)
    /\ IsFiniteSet(Workers) /\ Workers # {}
    /\ Capacity \in Nat
    /\ MaxBatch \in Nat

Tier == {"High", "Low"}

VARIABLES
    queue,      \* high_queue_ and low_queue_, by tier
    queued,     \* counters_.queued, as the integer whose residue mod 2^64 it is
    running,    \* counters_.running
    enqueued,   \* counters_.enqueued
    executed,   \* counters_.executed
    dropped,    \* counters_.dropped
    stopping,   \* counters_.stopping
    wpc, hand,  \* per worker: program counter, task moved out of a queue
    ppc, call,  \* per producer: program counter, [tier, todo, accepted] of its call
    spc,        \* program counter of the thread in shutdown()
    fresh,      \* tasks not offered yet
    done,       \* history: tasks that ran to completion
    atStop,     \* history: tasks in a queue when stopping was set
    racing      \* history: producers inside a call when stopping was set

counters == <<queued, running, enqueued, executed, dropped>>
history  == <<atStop, racing>>
vars == <<queue, counters, stopping, wpc, hand, ppc, call, spc, fresh, done, history>>

NoCall == [tier |-> "Low", todo |-> {}, accepted |-> 0]

Init ==
    /\ queue = [t \in Tier |-> <<>>]
    /\ queued = 0 /\ running = 0 /\ enqueued = 0 /\ executed = 0 /\ dropped = 0
    /\ stopping = FALSE
    /\ wpc = [w \in Workers |-> "lock"]
    /\ hand = [w \in Workers |-> None]
    /\ ppc = [p \in Producers |-> "idle"]
    /\ call = [p \in Producers |-> NoCall]
    /\ spc = "idle"
    /\ fresh = Tasks
    /\ done = {}
    /\ atStop = {} /\ racing = {}

-----------------------------------------------------------------------------
(* State-mutex and condition-variable vocabulary.                          *)

\* state_mutex_ is held exactly by a worker between its predicate and its
\* block, or between its predicate and its second test.
MutexFree == \A w \in Workers : wpc[w] \notin {"park", "test"}

Waiting == {w \in Workers : wpc[w] = "waiting"}

\* The wait predicate; size_t makes a wrapped counter greater than zero.
WorkPending == stopping \/ queued # 0

\* work_cv_.notify_one(): no effect when nobody is blocked.
NotifyOne ==
    IF Waiting = {}
    THEN UNCHANGED wpc
    ELSE \E w \in Waiting : wpc' = [wpc EXCEPT ![w] = "lock"]

\* work_cv_.notify_all().
NotifyAll == wpc' = [w \in Workers |-> IF wpc[w] = "waiting" THEN "lock" ELSE wpc[w]]

-----------------------------------------------------------------------------
(* Producers: submit, enqueue (one task) and enqueue_batch (several).      *)

\* The unlocked load of `stopping` at the head of every submission; true
\* throws, so the tasks of the call are refused.
BeginCall(p) ==
    /\ ppc[p] = "idle"
    /\ \E S \in SUBSET fresh, tier \in Tier :
          /\ S # {} /\ Cardinality(S) <= MaxBatch
          /\ fresh' = fresh \ S
          /\ IF stopping
             THEN UNCHANGED <<ppc, call>>
             ELSE /\ ppc' = [ppc EXCEPT ![p] = "push"]
                  /\ call' = [call EXCEPT ![p] =
                                [tier |-> tier, todo |-> S, accepted |-> 0]]
    /\ UNCHANGED <<queue, counters, stopping, wpc, hand, spc, done, history>>

Full(tier) == Capacity > 0 /\ Len(queue[tier]) >= Capacity

\* Mutant of Push: the first task that meets a full tier ends the batch.
PushUntilFull(p) ==
    /\ ppc[p] = "push"
    /\ \E t \in call[p].todo :
          /\ IF Full(call[p].tier)
             THEN /\ dropped' = dropped + 1
                  /\ call' = [call EXCEPT ![p].todo = {}]
                  /\ ppc' = [ppc EXCEPT ![p] = "notify"]
                  /\ UNCHANGED queue
             ELSE /\ queue' = [queue EXCEPT ![call[p].tier] = Append(@, t)]
                  /\ call' = [call EXCEPT ![p].todo = @ \ {t}, ![p].accepted = @ + 1]
                  /\ ppc' = [ppc EXCEPT ![p] = "count"]
                  /\ UNCHANGED dropped
    /\ UNCHANGED <<queued, running, enqueued, executed, stopping, wpc, hand, spc,
                   fresh, done, history>>

\* enqueue_locked, inside the tier mutex: reject when full, else push.
Push(p) ==
    /\ ppc[p] = "push"
    /\ \E t \in call[p].todo :
          /\ IF Full(call[p].tier)
             THEN /\ dropped' = dropped + 1
                  /\ call' = [call EXCEPT ![p].todo = @ \ {t}]
                  /\ ppc' = [ppc EXCEPT ![p] =
                               IF call[p].todo = {t} THEN "notify" ELSE "push"]
                  /\ UNCHANGED queue
             ELSE /\ queue' = [queue EXCEPT ![call[p].tier] = Append(@, t)]
                  /\ call' = [call EXCEPT ![p].todo = @ \ {t}, ![p].accepted = @ + 1]
                  /\ ppc' = [ppc EXCEPT ![p] = "count"]
                  /\ UNCHANGED dropped
    /\ UNCHANGED <<queued, running, enqueued, executed, stopping, wpc, hand, spc,
                   fresh, done, history>>

\* enqueue_locked, after the tier mutex is released: queued.fetch_add.
CountQueued(p) ==
    /\ ppc[p] = "count"
    /\ queued' = queued + 1
    /\ ppc' = [ppc EXCEPT ![p] = "count2"]
    /\ UNCHANGED <<queue, running, enqueued, executed, dropped, stopping, wpc, hand,
                   call, spc, fresh, done, history>>

\* ... then enqueued.fetch_add, and on to the next task of a batch.
CountEnqueued(p) ==
    /\ ppc[p] = "count2"
    /\ enqueued' = enqueued + 1
    /\ ppc' = [ppc EXCEPT ![p] = IF call[p].todo = {} THEN "notify" ELSE "push"]
    /\ UNCHANGED <<queue, queued, running, executed, dropped, stopping, wpc, hand,
                   call, spc, fresh, done, history>>

\* The notify after the tier mutex is released, without state_mutex_: nobody
\* when nothing was accepted, one worker for one task, all for a batch.
Notify(p) ==
    /\ ppc[p] = "notify"
    /\ CASE call[p].accepted = 0 -> UNCHANGED wpc
         [] call[p].accepted = 1 -> NotifyOne
         [] OTHER -> NotifyAll
    /\ ppc' = [ppc EXCEPT ![p] = "idle"]
    /\ call' = [call EXCEPT ![p] = NoCall]
    /\ UNCHANGED <<queue, counters, stopping, hand, spc, fresh, done, history>>

Produce(p) == Push(p) \/ CountQueued(p) \/ CountEnqueued(p) \/ Notify(p)

-----------------------------------------------------------------------------
(* Workers: worker_thread.                                                 *)

\* Take state_mutex_ and evaluate the wait predicate.
Lock(w) ==
    /\ wpc[w] = "lock"
    /\ MutexFree
    /\ wpc' = [wpc EXCEPT ![w] = IF WorkPending THEN "test" ELSE "park"]
    /\ UNCHANGED <<queue, counters, stopping, hand, ppc, call, spc, fresh, done, history>>

\* condition_variable::wait: release the mutex and block, in one step.
Park(w) ==
    /\ wpc[w] = "park"
    /\ wpc' = [wpc EXCEPT ![w] = "waiting"]
    /\ UNCHANGED <<queue, counters, stopping, hand, ppc, call, spc, fresh, done, history>>

\* A condition variable may wake a thread that nobody notified.
SpuriousWakeup(w) ==
    /\ wpc[w] = "waiting"
    /\ wpc' = [wpc EXCEPT ![w] = "lock"]
    /\ UNCHANGED <<queue, counters, stopping, hand, ppc, call, spc, fresh, done, history>>

\* Mutant of Test: exit as soon as the pool is stopping.
TestStoppingOnly(w) ==
    /\ wpc[w] = "test"
    /\ wpc' = [wpc EXCEPT ![w] = IF stopping THEN "exited" ELSE "popHigh"]
    /\ UNCHANGED <<queue, counters, stopping, hand, ppc, call, spc, fresh, done, history>>

\* The exit test, a second load of `queued`; either way the mutex is released.
Test(w) ==
    /\ wpc[w] = "test"
    /\ wpc' = [wpc EXCEPT ![w] = IF stopping /\ queued = 0 THEN "exited" ELSE "popHigh"]
    /\ UNCHANGED <<queue, counters, stopping, hand, ppc, call, spc, fresh, done, history>>

\* Mutant of Pop: the front is copied out of the queue and not removed.
PopWithoutRemove(w, tier, here, otherwise) ==
    /\ wpc[w] = here
    /\ IF queue[tier] = <<>>
       THEN /\ wpc' = [wpc EXCEPT ![w] = otherwise]
            /\ UNCHANGED hand
       ELSE /\ hand' = [hand EXCEPT ![w] = Head(queue[tier])]
            /\ wpc' = [wpc EXCEPT ![w] = "uncount"]
    /\ UNCHANGED <<queue, counters, stopping, ppc, call, spc, fresh, done, history>>

\* Move the front of one tier's queue into the worker's hand, if there is one.
Pop(w, tier, here, otherwise) ==
    /\ wpc[w] = here
    /\ IF queue[tier] = <<>>
       THEN /\ wpc' = [wpc EXCEPT ![w] = otherwise]
            /\ UNCHANGED <<queue, hand>>
       ELSE /\ hand' = [hand EXCEPT ![w] = Head(queue[tier])]
            /\ queue' = [queue EXCEPT ![tier] = Tail(@)]
            /\ wpc' = [wpc EXCEPT ![w] = "uncount"]
    /\ UNCHANGED <<counters, stopping, ppc, call, spc, fresh, done, history>>

PopHigh(w) == Pop(w, "High", "popHigh", "popLow")
PopLow(w)  == Pop(w, "Low", "popLow", "lock")

\* Mutant of Uncount: the counter is left alone after a pop.
UncountForgotten(w) ==
    /\ wpc[w] = "uncount"
    /\ wpc' = [wpc EXCEPT ![w] = "start"]
    /\ UNCHANGED <<queue, counters, stopping, hand, ppc, call, spc, fresh, done, history>>

\* queued.fetch_sub, after the queue gave up the task.
Uncount(w) ==
    /\ wpc[w] = "uncount"
    /\ queued' = queued - 1
    /\ wpc' = [wpc EXCEPT ![w] = "start"]
    /\ UNCHANGED <<queue, running, enqueued, executed, dropped, stopping, hand, ppc,
                   call, spc, fresh, done, history>>

\* running.fetch_add, then the task body begins.
Start(w) ==
    /\ wpc[w] = "start"
    /\ running' = running + 1
    /\ wpc' = [wpc EXCEPT ![w] = "run"]
    /\ UNCHANGED <<queue, queued, enqueued, executed, dropped, stopping, hand, ppc,
                   call, spc, fresh, done, history>>

\* Mutant of Finish: the task object is not released after it ran.
FinishKeepsTask(w) ==
    /\ wpc[w] = "run"
    /\ running' = running - 1
    /\ done' = done \cup {hand[w]}
    /\ wpc' = [wpc EXCEPT ![w] = "tally"]
    /\ UNCHANGED <<queue, queued, enqueued, executed, dropped, stopping, hand, ppc,
                   call, spc, fresh, history>>

\* The task returns or throws (both are swallowed), then running.fetch_sub.
Finish(w) ==
    /\ wpc[w] = "run"
    /\ running' = running - 1
    /\ done' = done \cup {hand[w]}
    /\ hand' = [hand EXCEPT ![w] = None]
    /\ wpc' = [wpc EXCEPT ![w] = "tally"]
    /\ UNCHANGED <<queue, queued, enqueued, executed, dropped, stopping, ppc, call,
                   spc, fresh, history>>

\* executed.fetch_add and shutdown_cv_.notify_all, back to the top of the loop.
Tally(w) ==
    /\ wpc[w] = "tally"
    /\ executed' = executed + 1
    /\ wpc' = [wpc EXCEPT ![w] = "lock"]
    /\ UNCHANGED <<queue, queued, running, enqueued, dropped, stopping, hand, ppc,
                   call, spc, fresh, done, history>>

Work(w) ==
    \/ Lock(w) \/ Park(w) \/ Test(w) \/ PopHigh(w) \/ PopLow(w)
    \/ Uncount(w) \/ Start(w) \/ Finish(w) \/ Tally(w)

-----------------------------------------------------------------------------
(* shutdown(): one thread calls it (the destructor or drain_and_stop).     *)

InQueue == {t \in Tasks : \E tier \in Tier : \E i \in 1..Len(queue[tier]) : queue[tier][i] = t}

\* Mutant of Stop: the store is made without state_mutex_.
StopUnlocked ==
    /\ spc = "idle"
    /\ stopping' = TRUE
    /\ spc' = "notify"
    /\ atStop' = InQueue
    /\ racing' = {p \in Producers : ppc[p] # "idle"}
    /\ UNCHANGED <<queue, counters, wpc, hand, ppc, call, fresh, done>>

\* Set `stopping` under state_mutex_.
Stop ==
    /\ spc = "idle"
    /\ MutexFree
    /\ stopping' = TRUE
    /\ spc' = "notify"
    /\ atStop' = InQueue
    /\ racing' = {p \in Producers : ppc[p] # "idle"}
    /\ UNCHANGED <<queue, counters, wpc, hand, ppc, call, fresh, done>>

\* work_cv_.notify_all(), outside the mutex.
StopNotify ==
    /\ spc = "notify"
    /\ NotifyAll
    /\ spc' = "grace"
    /\ UNCHANGED <<queue, counters, stopping, hand, ppc, call, fresh, done, history>>

\* shutdown_cv_.wait_for: ends when the counters read zero or on the timeout,
\* and its result is ignored, so it may end in any state.
Grace ==
    /\ spc = "grace"
    /\ spc' = "join"
    /\ UNCHANGED <<queue, counters, stopping, wpc, hand, ppc, call, fresh, done, history>>

\* Mutant of Join: shutdown returns after the grace period without joining.
JoinAfterGrace ==
    /\ spc = "join"
    /\ spc' = "joined"
    /\ UNCHANGED <<queue, counters, stopping, wpc, hand, ppc, call, fresh, done, history>>

\* thread.join() on every worker.
Join ==
    /\ spc = "join"
    /\ \A w \in Workers : wpc[w] = "exited"
    /\ spc' = "joined"
    /\ UNCHANGED <<queue, counters, stopping, wpc, hand, ppc, call, fresh, done, history>>

Shutdown == StopNotify \/ Grace \/ Join

Next ==
    \/ \E p \in Producers : BeginCall(p) \/ Produce(p)
    \/ \E w \in Workers : Work(w) \/ SpuriousWakeup(w)
    \/ Stop
    \/ Shutdown

Spec == Init /\ [][Next]_vars

\* The scheduler runs every thread that can run; a call, a shutdown and a
\* spurious wakeup need never happen.
Fairness ==
    /\ \A p \in Producers : WF_vars(Produce(p))
    /\ \A w \in Workers : WF_vars(Work(w))
    /\ WF_vars(Shutdown)

FairSpec == Spec /\ Fairness

-----------------------------------------------------------------------------
(* Properties.                                                             *)

WorkersAt(S)   == {w \in Workers : wpc[w] \in S}
ProducersAt(S) == {p \in Producers : ppc[p] \in S}
QueueLength    == Len(queue["High"]) + Len(queue["Low"])

WorkerPC   == {"lock", "park", "waiting", "test", "popHigh", "popLow", "uncount",
               "start", "run", "tally", "exited"}
ProducerPC == {"idle", "push", "count", "count2", "notify"}
Call       == [tier : Tier, todo : SUBSET Tasks, accepted : Nat]
Holding(w) == wpc[w] \in {"uncount", "start", "run"}

\* Every variable keeps its type; in particular a worker holds a task exactly
\* between the pop and the end of the task (worker_thread).
TypeOK ==
    /\ queue \in [Tier -> Seq(Tasks)]
    /\ queued \in Int /\ running \in Int
    /\ enqueued \in Nat /\ executed \in Nat /\ dropped \in Nat
    /\ stopping \in BOOLEAN
    /\ wpc \in [Workers -> WorkerPC]
    /\ hand \in [Workers -> Tasks \cup {None}]
    /\ \A w \in Workers : hand[w] \in Tasks <=> Holding(w)
    /\ ppc \in [Producers -> ProducerPC]
    /\ call \in [Producers -> Call]
    /\ spc \in {"idle", "notify", "grace", "join", "joined"}
    /\ fresh \subseteq Tasks /\ done \subseteq Tasks
    /\ atStop \subseteq Tasks /\ racing \subseteq Producers

\* The atomic counters drift from the queues only by the updates that are on
\* their way: `queued` lags a push and a pop, `running` is the number of task
\* bodies in progress, and no accepted task is missing from enqueued minus
\* executed.  When every thread is at rest the counters are exact, although
\* enqueue_locked and worker_thread update them outside every mutex and
\* `queued` can pass below zero.
Accounting ==
    /\ queued = QueueLength - Cardinality(ProducersAt({"count"}))
                            + Cardinality(WorkersAt({"uncount"}))
    /\ running = Cardinality(WorkersAt({"run"}))
    /\ enqueued + Cardinality(ProducersAt({"count", "count2"}))
         = executed + QueueLength
             + Cardinality(WorkersAt({"uncount", "start", "run", "tally"}))

\* No task body runs twice: each increment of `executed` (or one about to
\* happen) is a different task, whatever the interleaving of pops.
RunsOnce == Cardinality(done) = executed + Cardinality(WorkersAt({"tally"}))

\* shutdown() drains: if no submission was in progress when `stopping` was
\* set, then once every worker is joined the queues are empty and every
\* accepted task has run.
QuietShutdownDrains ==
    spc = "joined" /\ racing = {} => InQueue = {} /\ executed = enqueued

\* Why QuietShutdownDrains holds: with no submission in progress when
\* `stopping` was set there is none later, so the first worker whose exit test
\* reads queued = 0 reads it when the queues are empty, and they stay empty.
DrainInv ==
    /\ stopping <=> spc # "idle"
    /\ stopping /\ racing = {} => \A p \in Producers : ppc[p] = "idle"
    /\ \A w \in Workers : wpc[w] = "exited" => stopping
    /\ racing = {} /\ (\E w \in Workers : wpc[w] = "exited") => QueueLength = 0
    /\ spc = "joined" => \A w \in Workers : wpc[w] = "exited"

\* shutdown() returns: once `stopping` is set every worker reaches its exit
\* and is joined, because the store is made under state_mutex_ (a worker
\* cannot be between its predicate and its block) and is followed by
\* notify_all.
ShutdownTerminates == stopping ~> spc = "joined"

\* The pool implements its abstract specification: where each task is
\* decides its abstract status, and the pool is closed once joined.
TaskStatus(t) ==
    CASE t \in fresh \/ \E p \in Producers : t \in call[p].todo -> "offered"
      [] t \in InQueue -> "accepted"
      [] \E w \in Workers : hand[w] = t -> "running"
      [] t \in done -> "done"
      [] OTHER -> "rejected"

\* thread_pool.h: "Submissions beyond a tier's capacity are dropped and counted".
\* No tier outgrows its capacity, and until a shutdown refuses submissions with an
\* exception, `dropped` is the number of tasks offered that went nowhere: each task
\* of a batch that meets a full tier, and no other, although other producers and
\* the workers change the tier between the tasks of the batch.
OverflowCounted ==
    /\ Capacity > 0 => \A tier \in Tier : Len(queue[tier]) <= Capacity
    /\ ~stopping => dropped = Cardinality({t \in Tasks : TaskStatus(t) = "rejected"})

Abstract == INSTANCE TaskPool
    WITH MaxRunning <- Cardinality(Workers),
         status <- [t \in Tasks |-> TaskStatus(t)],
         closed <- spc = "joined"

\* ThreadPool refines TaskPool: tasks are accepted or rejected once, run at
\* most once and on at most worker_count_ threads, and nothing runs once
\* shutdown() has joined the workers.
ImplementsTaskPool == Abstract!Spec

\* thread_pool.h, shutdown(): it "drains any still-queued work, then joins all
\* workers".  A task that sat in a queue when `stopping` was set has run when
\* the join returns.
ShutdownDrainsQueued == spc = "joined" => atStop \subseteq done

\* thread_pool.h, class comment: the wait on the predicate is
\* "lost-wakeup-free".  A task in a queue of a pool that is not stopping is
\* eventually taken by a worker.
LostWakeupFree ==
    \A t \in Tasks : t \in InQueue ~> (t \notin InQueue \/ stopping)
=============================================================================
