----------------------------- MODULE ThreadPool -----------------------------
(***************************************************************************)
(* The thread pool (class ThreadPool) with its only user, Disk::preload:   *)
(* the owner makes a pool, enqueues one task per track, waits for the      *)
(* futures in order, and leaves the scope, also by an exception, so that   *)
(* the destructor stops and joins the workers.                             *)
(*                                                                         *)
(* What is done while the mutex is held is one step.  A worker that waits  *)
(* on the condition variable may wake up without a notification.           *)
(***************************************************************************)
EXTENDS Sequences, FiniteSets, Integers

CONSTANTS
    Workers,         \* the threads of the pool
    N                \* number of tasks the owner enqueues

ASSUME ThreadPoolAssumption ==
    /\ IsFiniteSet(Workers) /\ Workers # {}
    /\ N \in Nat

Tasks == 1..N

VARIABLES
    queue,           \* _tasks
    stop,            \* _stop
    worker,          \* per worker: where it is in its loop
    task,            \* per worker: the task it has taken, 0 for none
    results,         \* per task: the state of its future
    owner,           \* where the owner is
    next,            \* the task it enqueues, or whose future it asks
    thrown,          \* the task whose exception leaves preload, 0 for none
    starts           \* the tasks in the order they were started, for the properties

poolVars == <<queue, stop, worker, task, results, owner, next, thrown, starts>>

\* A worker takes the mutex, waits on the condition variable, runs or has ended.
WorkerPlaces == {"lock", "wait", "run", "ended"}
OwnerPlaces == {"enqueue", "notify", "get", "stop", "notifyAll", "join", "done"}

PoolInit ==
    /\ queue = << >>
    /\ stop = FALSE
    /\ worker = [w \in Workers |-> "lock"]
    /\ task = [w \in Workers |-> 0]
    /\ results = [t \in Tasks |-> "none"]
    /\ owner = IF N = 0 THEN "stop" ELSE "enqueue"
    /\ next = 1
    /\ thrown = 0
    /\ starts = << >>

-----------------------------------------------------------------------------
(* A worker.                                                               *)

\* Mutant: a stopped worker leaves the queue behind.
Ends_AtOnce == stop

\* The loop is left when the pool is stopped and nothing is left to do.
Ends == stop /\ queue = << >>

\* Mutant: the oldest task is run and the newest one popped.
Pop_Newest == SubSeq(queue, 1, Len(queue) - 1)

Pop == Tail(queue)

End(w) ==
    /\ worker[w] = "lock"
    /\ Ends
    /\ worker' = [worker EXCEPT ![w] = "ended"]
    /\ UNCHANGED <<queue, stop, task, results, owner, next, thrown, starts>>

Take(w) ==
    /\ worker[w] = "lock"
    /\ ~Ends
    /\ queue # << >>
    /\ worker' = [worker EXCEPT ![w] = "run"]
    /\ task' = [task EXCEPT ![w] = Head(queue)]
    /\ starts' = Append(starts, Head(queue))
    /\ queue' = Pop
    /\ UNCHANGED <<stop, results, owner, next, thrown>>

\* The predicate does not hold: the mutex is given up and the thread waits.
Wait(w) ==
    /\ worker[w] = "lock"
    /\ ~Ends
    /\ queue = << >>
    /\ worker' = [worker EXCEPT ![w] = "wait"]
    /\ UNCHANGED <<queue, stop, task, results, owner, next, thrown, starts>>

\* The condition variable may wake a thread at any time.
WakeUp(w) ==
    /\ worker[w] = "wait"
    /\ worker' = [worker EXCEPT ![w] = "lock"]
    /\ UNCHANGED <<queue, stop, task, results, owner, next, thrown, starts>>

\* The task reads its track; an exception is kept for its future.
Run(w) ==
    /\ worker[w] = "run"
    /\ \E r \in {"value", "error"} : results' = [results EXCEPT ![task[w]] = r]
    /\ worker' = [worker EXCEPT ![w] = "lock"]
    /\ task' = [task EXCEPT ![w] = 0]
    /\ UNCHANGED <<queue, stop, owner, next, thrown, starts>>

-----------------------------------------------------------------------------
(* The owner.                                                              *)

Item == next

Enqueue ==
    /\ owner = "enqueue"
    /\ queue' = IF stop THEN queue ELSE Append(queue, Item)
    /\ owner' = "notify"
    /\ UNCHANGED <<stop, worker, task, results, next, thrown, starts>>

\* Mutant: nobody is notified.
Woken_None(ws) == worker

\* The threads that are notified go on to take the mutex.
Woken(ws) == [w \in Workers |-> IF w \in ws THEN "lock" ELSE worker[w]]

Waiting == {w \in Workers : worker[w] = "wait"}

\* notify_one: some thread that waits, if there is one.
NotifyOne ==
    /\ owner = "notify"
    /\ IF Waiting = {} THEN UNCHANGED worker
       ELSE \E w \in Waiting : worker' = Woken({w})
    /\ owner' = IF next < N THEN "enqueue" ELSE "get"
    /\ next' = IF next < N THEN next + 1 ELSE 1
    /\ UNCHANGED <<queue, stop, task, results, thrown, starts>>

\* Mutant: preload does not look at its futures and leaves at once.
Ready_Always(t) == TRUE

Ready(t) == results[t] # "none"

\* future::get of the next future: the exception of its task leaves preload.
Get ==
    /\ owner = "get"
    /\ Ready(next)
    /\ IF results[next] = "error"
       THEN thrown' = next /\ owner' = "stop" /\ UNCHANGED next
       ELSE /\ owner' = IF next < N THEN "get" ELSE "stop"
            /\ next' = IF next < N THEN next + 1 ELSE next
            /\ UNCHANGED thrown
    /\ UNCHANGED <<queue, stop, worker, task, results, starts>>

\* The destructor: the flag under the mutex, then the notification.
Stop ==
    /\ owner = "stop"
    /\ stop' = TRUE
    /\ owner' = "notifyAll"
    /\ UNCHANGED <<queue, worker, task, results, next, thrown, starts>>

\* Mutant: one thread is notified of the end.
AllWaiting_One == IF Waiting = {} THEN {} ELSE {CHOOSE w \in Waiting : TRUE}

AllWaiting == Waiting

NotifyAll ==
    /\ owner = "notifyAll"
    /\ worker' = Woken(AllWaiting)
    /\ owner' = "join"
    /\ UNCHANGED <<queue, stop, task, results, next, thrown, starts>>

Joined == \A w \in Workers : worker[w] = "ended"

Join ==
    /\ owner = "join"
    /\ Joined
    /\ owner' = "done"
    /\ UNCHANGED <<queue, stop, worker, task, results, next, thrown, starts>>

\* The next disk is preloaded by a new pool.
Again ==
    /\ owner = "done"
    /\ queue' = << >>
    /\ stop' = FALSE
    /\ worker' = [w \in Workers |-> "lock"]
    /\ task' = [w \in Workers |-> 0]
    /\ results' = [t \in Tasks |-> "none"]
    /\ owner' = IF N = 0 THEN "stop" ELSE "enqueue"
    /\ next' = 1
    /\ thrown' = 0
    /\ starts' = << >>

Loop(w) == End(w) \/ Take(w) \/ Wait(w) \/ Run(w)

Preloading == Enqueue \/ NotifyOne \/ Get \/ Stop \/ NotifyAll \/ Join

PoolNext == Preloading \/ Again \/ \E w \in Workers : Loop(w) \/ WakeUp(w)

PoolSpec == PoolInit /\ [][PoolNext]_poolVars

\* Every thread that can run runs; nothing wakes a thread unless it is notified.
PoolFairSpec == PoolSpec /\ WF_poolVars(Preloading) /\ \A w \in Workers : WF_poolVars(Loop(w))

-----------------------------------------------------------------------------
(* Properties.                                                             *)

Running == {w \in Workers : worker[w] = "run"}

\* Every variable has its type.
PoolTypeOK ==
    /\ queue \in Seq(Tasks)
    /\ stop \in BOOLEAN
    /\ worker \in [Workers -> WorkerPlaces]
    /\ task \in [Workers -> Tasks \cup {0}]
    /\ results \in [Tasks -> {"none", "value", "error"}]
    /\ owner \in OwnerPlaces
    /\ next \in 1..N + 1
    /\ thrown \in Tasks \cup {0}
    /\ starts \in Seq(Tasks)

Locking == {w \in Workers : worker[w] = "lock"}

\* Notifications that were earned by a task in the queue and not sent yet.
Unsent == IF owner = "notify" THEN 1 ELSE 0

\* No thread sleeps while there is more work than threads that are on their way
\* to it: a notification that finds nobody waiting is not missed later.
NoSleepBesideWork ==
    Waiting # {} =>
        Len(queue) <= Cardinality(Locking) + Unsent

\* The tasks start in the order they were enqueued, none is lost, none runs twice.
StartedInOrder ==
    /\ \A k \in 1..Len(starts) : starts[k] = k
    /\ \A k \in 1..Len(queue) : queue[k] = Len(starts) + k

\* When preload has returned or thrown, no thread uses the disk any more and all
\* tasks were run.
NothingRunsAfter ==
    owner = "done" => Running = {} /\ \A t \in Tasks : results[t] # "none"

\* Preload ends: no notification is missed, the threads end and the owner gets all futures.
PreloadEnds == owner = "enqueue" ~> owner = "done"

\* The pool does what preload promises: a call that has returned or thrown shows
\* when the destructor has joined the threads.
Promise == INSTANCE Preload WITH
    outcome <- IF owner # "done" THEN <<"running", 0>>
               ELSE IF thrown = 0 THEN <<"returned", 0>> ELSE <<"threw", thrown>>

ImplementsPreload == Promise!FairSpec

=============================================================================
