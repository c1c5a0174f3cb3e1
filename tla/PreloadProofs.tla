--------------------------- MODULE PreloadProofs ---------------------------
(***************************************************************************)
(* Theorems about preloading and what it runs.  ThreadPool, for any number *)
(* of threads and of tasks: the types, the order of the tasks, no thread   *)
(* sleeps beside work, nothing runs after preload, and every step is a     *)
(* step of Preload.  DemandDisk, for any threads, tracks and amounts: what *)
(* is marked as loaded is there (CachedIsLoaded), a read makes a bounded   *)
(* number of loads when its amounts do not start over (LoadsAreBounded)    *)
(* and all that they grant (RetriesAreMade, RescansAreMade), and it stores *)
(* the best of its loads (BestIsKept).                                     *)
(***************************************************************************)
EXTENDS ThreadPool, DemandDisk, RetryPolicyProofs, FiniteSetTheorems, TLAPS

(***************************************************************************)
(* The thread pool and its owner                                           *)
(***************************************************************************)

\* How many tasks the owner has put into the queue.
Enqueued == CASE owner = "enqueue" -> next - 1
              [] owner = "notify"  -> next
              [] OTHER             -> N

Leaving == {"stop", "notifyAll", "join", "done"}

\* The task that is enqueued or asked for is one.
PoolTypeInv ==
    /\ PoolTypeOK
    /\ owner \in {"enqueue", "notify", "get"} => next \in Tasks

\* The tasks that were enqueued are those started and those in the queue.
QueueInv ==
    /\ StartedInOrder
    /\ Len(starts) + Len(queue) = Enqueued

\* A started task runs on one thread or its future is ready.
RunInv ==
    /\ \A w \in Workers : worker[w] = "run" <=> task[w] # 0
    /\ \A w \in Workers : task[w] \in 0..Len(starts)
    /\ \A v, w \in Workers : task[v] = task[w] /\ task[v] # 0 => v = w
    /\ \A t \in Tasks :
          results[t] = "none" <=> t > Len(starts) \/ \E w \in Workers : task[w] = t

\* The flag is set by the destructor, and threads end only then.
StopInv ==
    /\ stop <=> owner \in {"notifyAll", "join", "done"}
    /\ \A w \in Workers : worker[w] = "ended" => stop /\ queue = << >>
    /\ owner = "done" => \A w \in Workers : worker[w] = "ended"

\* The futures before the one that is asked for have their values.
FuturesInv ==
    /\ owner = "get" => \A t \in Tasks : t < next => results[t] = "value"
    /\ thrown # 0 => /\ owner \in Leaving /\ thrown \in Tasks
                     /\ results[thrown] = "error"
                     /\ \A t \in Tasks : t < thrown => results[t] = "value"
    /\ owner \in Leaving /\ thrown = 0 => \A t \in Tasks : results[t] = "value"

PoolInv == PoolTypeInv /\ QueueInv /\ RunInv /\ StopInv /\ FuturesInv /\ NoSleepBesideWork

-----------------------------------------------------------------------------
(* Types.                                                                  *)

LEMMA EmptyTasks == << >> \in Seq(Tasks) /\ Len(<< >>) = 0
OBVIOUS

LEMMA FirstPlace ==
    /\ (IF N = 0 THEN "stop" ELSE "enqueue") \in OwnerPlaces
    /\ 1 \in 1..N + 1
    /\ (IF N = 0 THEN "stop" ELSE "enqueue") \in {"enqueue", "notify", "get"} => 1 \in Tasks
BY ThreadPoolAssumption DEF OwnerPlaces, Tasks

LEMMA PoolTypeInit == PoolInit => PoolTypeInv
BY EmptyTasks, FirstPlace DEF PoolInit, PoolTypeInv, PoolTypeOK, WorkerPlaces

LEMMA PoolTypeNext == PoolTypeInv /\ [PoolNext]_poolVars => PoolTypeInv'
<1> SUFFICES ASSUME PoolTypeInv, [PoolNext]_poolVars PROVE PoolTypeInv'
  OBVIOUS
<1> USE DEF PoolTypeInv, PoolTypeOK, WorkerPlaces, OwnerPlaces
<1>1. ASSUME NEW w \in Workers, End(w) PROVE PoolTypeInv'
  BY <1>1 DEF End
<1>2. ASSUME NEW w \in Workers, Take(w) PROVE PoolTypeInv'
  BY <1>2 DEF Take, Pop
<1>3. ASSUME NEW w \in Workers, Wait(w) PROVE PoolTypeInv'
  BY <1>3 DEF Wait
<1>4. ASSUME NEW w \in Workers, WakeUp(w) PROVE PoolTypeInv'
  BY <1>4 DEF WakeUp
<1>5. ASSUME NEW w \in Workers, Run(w) PROVE PoolTypeInv'
  BY <1>5 DEF Run
<1>6. CASE Enqueue
  BY <1>6 DEF Enqueue, Item
<1>7. CASE NotifyOne
  BY <1>7, ThreadPoolAssumption DEF NotifyOne, Woken, Tasks
<1>8. CASE Get
  <2>1. next \in Tasks /\ N \in Nat /\ next \in Int
    BY <1>8, ThreadPoolAssumption DEF Get, Tasks
  <2>2. CASE results[next] = "error"
    BY <1>8, <2>1, <2>2 DEF Get
  <2>3. CASE results[next] # "error"
    <3>1. owner' = (IF next < N THEN "get" ELSE "stop")
          /\ next' = (IF next < N THEN next + 1 ELSE next)
          /\ UNCHANGED <<queue, stop, worker, task, results, starts, thrown>>
      BY <1>8, <2>3 DEF Get
    <3>2. next' \in Tasks /\ next' \in 1..N + 1 /\ owner' \in OwnerPlaces
      BY <2>1, <3>1 DEF Tasks
    <3> QED  BY <3>1, <3>2
  <2> QED  BY <2>2, <2>3
<1>9. CASE Stop
  BY <1>9 DEF Stop
<1>10. CASE NotifyAll
  BY <1>10 DEF NotifyAll, Woken
<1>11. CASE Join
  BY <1>11 DEF Join
<1>12. CASE Again
  BY <1>12, EmptyTasks, FirstPlace DEF Again
<1>13. CASE UNCHANGED poolVars
  BY <1>13 DEF poolVars
<1> QED  BY <1>1, <1>2, <1>3, <1>4, <1>5, <1>6, <1>7, <1>8, <1>9, <1>10, <1>11, <1>12, <1>13
         DEF PoolNext, Preloading, Loop

-----------------------------------------------------------------------------
(* The order of the tasks.                                                 *)

LEMMA QueueInit == PoolInit => QueueInv
BY EmptyTasks, ThreadPoolAssumption DEF PoolInit, QueueInv, StartedInOrder, Enqueued

\* Steps that leave the queue and the count of what was enqueued alone.
LEMMA QueueKept ==
    ASSUME QueueInv, UNCHANGED <<queue, starts>>, Enqueued' = Enqueued
    PROVE  QueueInv'
BY DEF QueueInv, StartedInOrder

LEMMA QueueNext == PoolTypeInv /\ QueueInv /\ StopInv /\ [PoolNext]_poolVars => QueueInv'
<1> SUFFICES ASSUME PoolTypeInv, QueueInv, StopInv, [PoolNext]_poolVars PROVE QueueInv'
  OBVIOUS
<1>1. ASSUME NEW w \in Workers, End(w) \/ Wait(w) \/ WakeUp(w) \/ Run(w) PROVE QueueInv'
  <2>1. UNCHANGED <<queue, starts, owner, next>>
    BY <1>1 DEF End, Wait, WakeUp, Run
  <2> QED  BY <2>1, QueueKept DEF Enqueued
<1>2. ASSUME NEW w \in Workers, Take(w) PROVE QueueInv'
  <2>1. queue \in Seq(Tasks) /\ queue # << >> /\ starts \in Seq(Tasks)
        /\ queue' = Tail(queue) /\ starts' = Append(starts, queue[1])
        /\ UNCHANGED <<owner, next>>
    BY <1>2 DEF Take, Pop, PoolTypeInv, PoolTypeOK
  <2>2. Len(queue') = Len(queue) - 1 /\ Len(starts') = Len(starts) + 1
        /\ Len(queue) \in Nat /\ Len(starts) \in Nat /\ Len(queue) > 0
    BY <2>1
  <2>3. \A k \in 1..Len(queue') : queue'[k] = queue[k + 1]
    BY <2>1, <2>2
  <2>4. \A k \in 1..Len(starts') :
           starts'[k] = IF k = Len(starts) + 1 THEN queue[1] ELSE starts[k]
    BY <2>1, <2>2
  <2>5. queue[1] = Len(starts) + 1
    BY <2>2 DEF QueueInv, StartedInOrder
  <2>6. StartedInOrder'
    BY <2>2, <2>3, <2>4, <2>5 DEF QueueInv, StartedInOrder
  <2>7. Enqueued' = Enqueued
    BY <2>1 DEF Enqueued
  <2>8. Len(starts') + Len(queue') = Len(starts) + Len(queue)
    BY <2>2
  <2> QED  BY <2>6, <2>7, <2>8 DEF QueueInv
<1>3. CASE Enqueue
  <2>1. owner = "enqueue" /\ owner' = "notify" /\ ~stop /\ next \in Nat
        /\ queue' = Append(queue, next) /\ queue \in Seq(Tasks) /\ next \in Tasks
        /\ UNCHANGED <<starts, next>>
    BY <1>3, ThreadPoolAssumption DEF Enqueue, Item, StopInv, PoolTypeInv, PoolTypeOK, Tasks
  <2>2. Len(queue') = Len(queue) + 1 /\ Len(queue) \in Nat /\ Len(starts) \in Nat
    BY <2>1 DEF PoolTypeInv, PoolTypeOK
  <2>3. \A k \in 1..Len(queue') :
           queue'[k] = IF k = Len(queue) + 1 THEN next ELSE queue[k]
    BY <2>1, <2>2
  <2>4. Len(starts) + Len(queue) = next - 1 /\ Enqueued' = next
    BY <2>1 DEF QueueInv, Enqueued
  <2> QED  BY <2>1, <2>2, <2>3, <2>4 DEF QueueInv, StartedInOrder
<1>4. CASE NotifyOne
  <2>1. owner = "notify" /\ next \in Tasks /\ N \in Nat /\ next \in Nat
        /\ UNCHANGED <<queue, starts>>
    BY <1>4, ThreadPoolAssumption DEF NotifyOne, PoolTypeInv, Tasks
  <2>2. Enqueued = next
    BY <2>1 DEF Enqueued
  <2>3. CASE next < N
    <3>1. owner' = "enqueue" /\ next' = next + 1
      BY <1>4, <2>3 DEF NotifyOne
    <3> QED  BY <2>1, <2>2, <3>1, QueueKept DEF Enqueued
  <2>4. CASE ~(next < N)
    <3>1. owner' = "get" /\ next = N
      BY <1>4, <2>1, <2>4 DEF NotifyOne, Tasks
    <3> QED  BY <2>1, <2>2, <3>1, QueueKept DEF Enqueued
  <2> QED  BY <2>3, <2>4
<1>5. CASE Get \/ Stop \/ NotifyAll \/ Join
  <2>1. owner \notin {"enqueue", "notify"} /\ owner' \notin {"enqueue", "notify"}
        /\ UNCHANGED <<queue, starts>>
    BY <1>5 DEF Get, Stop, NotifyAll, Join
  <2> QED  BY <2>1, QueueKept DEF Enqueued
<1>6. CASE Again
  BY <1>6, EmptyTasks, ThreadPoolAssumption DEF Again, QueueInv, StartedInOrder, Enqueued
<1>7. CASE UNCHANGED poolVars
  BY <1>7, QueueKept DEF poolVars, Enqueued
<1> QED  BY <1>1, <1>2, <1>3, <1>4, <1>5, <1>6, <1>7 DEF PoolNext, Preloading, Loop

-----------------------------------------------------------------------------
(* A started task is run by one thread or has its result.                  *)

LEMMA RunInit == PoolInit => RunInv
BY EmptyTasks DEF PoolInit, RunInv, Tasks

\* Steps that start and finish nothing.
LEMMA RunKept ==
    ASSUME RunInv, UNCHANGED <<task, results, starts>>,
           \A w \in Workers : worker'[w] = "run" <=> worker[w] = "run"
    PROVE  RunInv'
BY DEF RunInv

LEMMA RunNext == PoolTypeInv /\ QueueInv /\ RunInv /\ [PoolNext]_poolVars => RunInv'
<1> SUFFICES ASSUME PoolTypeInv, QueueInv, RunInv, [PoolNext]_poolVars PROVE RunInv'
  OBVIOUS
<1>1. ASSUME NEW w \in Workers, End(w) \/ Wait(w) \/ WakeUp(w) PROVE RunInv'
  <2>1. UNCHANGED <<task, results, starts>>
        /\ \A v \in Workers : worker'[v] = "run" <=> worker[v] = "run"
    BY <1>1 DEF End, Wait, WakeUp, PoolTypeInv, PoolTypeOK
  <2> QED  BY <2>1, RunKept
<1>2. ASSUME NEW w \in Workers, Take(w) PROVE RunInv'
  <2>1. queue \in Seq(Tasks) /\ queue # << >> /\ starts \in Seq(Tasks)
        /\ task' = [task EXCEPT ![w] = queue[1]] /\ starts' = Append(starts, queue[1])
        /\ worker' = [worker EXCEPT ![w] = "run"] /\ worker[w] = "lock"
        /\ results' = results
    BY <1>2 DEF Take, PoolTypeInv, PoolTypeOK
  <2>2. Len(starts) \in Nat /\ Len(starts') = Len(starts) + 1 /\ Len(queue) > 0
        /\ Len(queue) \in Nat
    BY <2>1
  <2> DEFINE t == queue[1]
             n == Len(starts)
  <2>3. t = n + 1 /\ t \in Tasks
    BY <2>1, <2>2 DEF QueueInv, StartedInOrder
  <2>4. task[w] = 0 /\ \A v \in Workers : task[v] \in 0..n
    BY <2>1 DEF RunInv
  <2>5. task \in [Workers -> Tasks \cup {0}] /\ worker \in [Workers -> WorkerPlaces]
    BY DEF PoolTypeInv, PoolTypeOK
  <2>6. task'[w] = t /\ worker'[w] = "run"
        /\ \A v \in Workers \ {w} : task'[v] = task[v] /\ worker'[v] = worker[v]
    BY <2>1, <2>5
  <2>7. n \in Nat /\ Len(starts') = n + 1
    BY <2>2
  <2> HIDE DEF t, n
  <2>8. \A v \in Workers : worker'[v] = "run" <=> task'[v] # 0
    BY <2>3, <2>6, <2>7 DEF RunInv
  <2>9. \A v \in Workers : task'[v] \in 0..Len(starts')
    BY <2>3, <2>4, <2>6, <2>7
  <2>10. \A u, v \in Workers : task'[u] = task'[v] /\ task'[u] # 0 => u = v
    <3>1. \A v \in Workers \ {w} : task'[v] # t
      BY <2>3, <2>4, <2>6, <2>7
    <3> QED  BY <2>6, <3>1 DEF RunInv
  <2>11. \A x \in Tasks :
            results'[x] = "none" <=> x > Len(starts') \/ \E v \in Workers : task'[v] = x
    <3> SUFFICES ASSUME NEW x \in Tasks
                 PROVE  results[x] = "none" <=> x > n + 1 \/ \E v \in Workers : task'[v] = x
      BY <2>1, <2>7
    <3>1. results[x] = "none" <=> x > n \/ \E v \in Workers : task[v] = x
      BY DEF RunInv, n
    <3>2. x \in Nat /\ x # 0
      BY ThreadPoolAssumption DEF Tasks
    <3>3. CASE x = t
      BY <2>3, <2>6, <2>7, <3>1, <3>3
    <3>4. CASE x # t
      <4>1. (\E v \in Workers : task'[v] = x) <=> (\E v \in Workers : task[v] = x)
        BY <2>4, <2>6, <3>2, <3>4
      <4>2. x > n + 1 <=> x > n
        BY <2>3, <2>7, <3>2, <3>4
      <4> QED  BY <3>1, <4>1, <4>2
    <3> QED  BY <3>3, <3>4
  <2> QED  BY <2>8, <2>9, <2>10, <2>11 DEF RunInv
<1>3. ASSUME NEW w \in Workers, Run(w) PROVE RunInv'
  <2>1. worker[w] = "run" /\ worker' = [worker EXCEPT ![w] = "lock"]
        /\ task' = [task EXCEPT ![w] = 0] /\ starts' = starts
    BY <1>3 DEF Run
  <2>2. PICK r \in {"value", "error"} : results' = [results EXCEPT ![task[w]] = r]
    BY <1>3 DEF Run
  <2>3. task \in [Workers -> Tasks \cup {0}] /\ worker \in [Workers -> WorkerPlaces]
        /\ results \in [Tasks -> {"none", "value", "error"}] /\ 0 \notin Tasks
    BY DEF PoolTypeInv, PoolTypeOK, Tasks
  <2>4. task[w] # 0 /\ task[w] \in Tasks /\ task[w] \in 0..Len(starts)
    BY <2>1, <2>3 DEF RunInv
  <2>5. task'[w] = 0 /\ worker'[w] = "lock"
        /\ \A v \in Workers \ {w} : task'[v] = task[v] /\ worker'[v] = worker[v]
    BY <2>1, <2>3
  <2>6. Len(starts) \in Nat
    BY DEF PoolTypeInv, PoolTypeOK
  <2>7. \A x \in Tasks :
           results'[x] = "none" <=> x > Len(starts) \/ \E v \in Workers : task'[v] = x
    <3> SUFFICES ASSUME NEW x \in Tasks
                 PROVE  results'[x] = "none"
                          <=> x > Len(starts) \/ \E v \in Workers : task'[v] = x
      OBVIOUS
    <3>1. results[x] = "none" <=> x > Len(starts) \/ \E v \in Workers : task[v] = x
      BY DEF RunInv
    <3>2. CASE x = task[w]
      <4>1. results'[x] # "none"
        BY <2>2, <2>3, <3>2
      <4>2. ~ \E v \in Workers : task'[v] = x
        BY <2>3, <2>4, <2>5, <3>2 DEF RunInv
      <4>3. ~(x > Len(starts))
        BY <2>4, <2>6, <3>2
      <4> QED  BY <4>1, <4>2, <4>3
    <3>3. CASE x # task[w]
      <4>1. results'[x] = results[x]
        BY <2>2, <2>3, <3>3
      <4>2. (\E v \in Workers : task'[v] = x) <=> (\E v \in Workers : task[v] = x)
        BY <2>3, <2>5, <3>3
      <4> QED  BY <3>1, <4>1, <4>2
    <3> QED  BY <3>2, <3>3
  <2>8. /\ \A v \in Workers : worker'[v] = "run" <=> task'[v] # 0
        /\ \A v \in Workers : task'[v] \in 0..Len(starts)
        /\ \A u, v \in Workers : task'[u] = task'[v] /\ task'[u] # 0 => u = v
    BY <2>5, <2>6 DEF RunInv
  <2> QED  BY <2>1, <2>7, <2>8 DEF RunInv
<1>4. CASE NotifyOne \/ NotifyAll
  <2>1. UNCHANGED <<task, results, starts>>
        /\ \A v \in Workers : worker'[v] = "run" <=> worker[v] = "run"
    BY <1>4 DEF NotifyOne, NotifyAll, Woken, Waiting, AllWaiting
  <2> QED  BY <2>1, RunKept
<1>5. CASE Enqueue \/ Get \/ Stop \/ Join \/ UNCHANGED poolVars
  <2>1. UNCHANGED <<task, results, starts, worker>>
    BY <1>5 DEF Enqueue, Get, Stop, Join, poolVars
  <2> QED  BY <2>1, RunKept
<1>6. CASE Again
  BY <1>6, EmptyTasks DEF Again, RunInv, Tasks
<1> QED  BY <1>1, <1>2, <1>3, <1>4, <1>5, <1>6 DEF PoolNext, Preloading, Loop

-----------------------------------------------------------------------------
(* The end of the threads.                                                 *)

LEMMA StopInit == PoolInit => StopInv
BY DEF PoolInit, StopInv

LEMMA StopNext == PoolTypeInv /\ StopInv /\ [PoolNext]_poolVars => StopInv'
<1> SUFFICES ASSUME PoolTypeInv, StopInv, [PoolNext]_poolVars PROVE StopInv'
  OBVIOUS
<1> USE DEF StopInv, PoolTypeInv, PoolTypeOK, WorkerPlaces
<1>1. ASSUME NEW w \in Workers, End(w) PROVE StopInv'
  BY <1>1 DEF End, Ends
<1>2. ASSUME NEW w \in Workers, Take(w) PROVE StopInv'
  BY <1>2 DEF Take
<1>3. ASSUME NEW w \in Workers, Wait(w) PROVE StopInv'
  BY <1>3 DEF Wait
<1>4. ASSUME NEW w \in Workers, WakeUp(w) PROVE StopInv'
  BY <1>4 DEF WakeUp
<1>5. ASSUME NEW w \in Workers, Run(w) PROVE StopInv'
  BY <1>5 DEF Run
<1>6. CASE Enqueue
  BY <1>6 DEF Enqueue
<1>7. CASE NotifyOne
  BY <1>7 DEF NotifyOne, Woken
<1>8. CASE Get
  BY <1>8 DEF Get
<1>9. CASE Stop
  BY <1>9 DEF Stop
<1>10. CASE NotifyAll
  BY <1>10 DEF NotifyAll, Woken, AllWaiting, Waiting
<1>11. CASE Join
  BY <1>11 DEF Join, Joined
<1>12. CASE Again
  BY <1>12 DEF Again
<1>13. CASE UNCHANGED poolVars
  BY <1>13 DEF poolVars
<1> QED  BY <1>1, <1>2, <1>3, <1>4, <1>5, <1>6, <1>7, <1>8, <1>9, <1>10, <1>11, <1>12, <1>13
         DEF PoolNext, Preloading, Loop

-----------------------------------------------------------------------------
(* The futures.                                                            *)

LEMMA FuturesInit == PoolInit => FuturesInv
BY ThreadPoolAssumption DEF PoolInit, FuturesInv, Leaving, Tasks

\* Results that are there do not change.
LEMMA FuturesKept ==
    ASSUME FuturesInv, UNCHANGED <<owner, next, thrown>>,
           \A t \in Tasks : results[t] # "none" => results'[t] = results[t]
    PROVE  FuturesInv'
BY DEF FuturesInv

LEMMA FuturesNext == PoolTypeInv /\ RunInv /\ FuturesInv /\ [PoolNext]_poolVars => FuturesInv'
<1> SUFFICES ASSUME PoolTypeInv, RunInv, FuturesInv, [PoolNext]_poolVars PROVE FuturesInv'
  OBVIOUS
<1>1. ASSUME NEW w \in Workers, End(w) \/ Wait(w) \/ WakeUp(w) \/ Take(w)
      PROVE  FuturesInv'
  <2>1. UNCHANGED <<owner, next, thrown, results>>
    BY <1>1 DEF End, Wait, WakeUp, Take
  <2> QED  BY <2>1, FuturesKept
<1>2. ASSUME NEW w \in Workers, Run(w) PROVE FuturesInv'
  <2>1. UNCHANGED <<owner, next, thrown>>
    BY <1>2 DEF Run
  <2>2. PICK r \in {"value", "error"} : results' = [results EXCEPT ![task[w]] = r]
    BY <1>2 DEF Run
  <2>3. worker[w] = "run" /\ task[w] # 0 /\ task[w] \in Tasks
    BY <1>2 DEF Run, RunInv, PoolTypeInv, PoolTypeOK
  <2>4. results[task[w]] = "none"
    BY <2>3 DEF RunInv
  <2>5. \A t \in Tasks : results[t] # "none" => results'[t] = results[t]
    BY <2>2, <2>4 DEF PoolTypeInv, PoolTypeOK
  <2> QED  BY <2>1, <2>5, FuturesKept
<1>3. CASE Enqueue
  BY <1>3 DEF Enqueue, FuturesInv, Leaving
<1>4. CASE NotifyOne
  <2>1. thrown' = thrown /\ results' = results /\ owner = "notify"
        /\ (owner' = "enqueue" \/ (owner' = "get" /\ next' = 1))
    BY <1>4 DEF NotifyOne
  <2> QED  BY <2>1 DEF FuturesInv, Leaving, Tasks
<1>5. CASE Get
  <2>1. owner = "get" /\ results[next] # "none" /\ results' = results /\ next \in Tasks
        /\ next \in Int /\ N \in Nat /\ next <= N /\ thrown = 0
    BY <1>5, ThreadPoolAssumption DEF Get, Ready, PoolTypeInv, Tasks, FuturesInv, Leaving
  <2>2. \A t \in Tasks : t < next => results[t] = "value"
    BY <2>1 DEF FuturesInv
  <2>3. CASE results[next] = "error"
    <3>1. thrown' = next /\ owner' = "stop"
      BY <1>5, <2>3 DEF Get
    <3> QED  BY <2>1, <2>2, <2>3, <3>1 DEF FuturesInv, Leaving, Tasks
  <2>4. CASE results[next] # "error"
    <3>1. results[next] = "value"
      BY <2>1, <2>4 DEF PoolTypeInv, PoolTypeOK
    <3>2. thrown' = 0 /\ owner' = (IF next < N THEN "get" ELSE "stop")
          /\ next' = (IF next < N THEN next + 1 ELSE next)
      BY <1>5, <2>1, <2>4 DEF Get
    <3>3. \A t \in Tasks : t <= next => results[t] = "value"
      BY <2>1, <2>2, <3>1 DEF Tasks
    <3>4. CASE next < N
      <4>1. owner' = "get" /\ \A t \in Tasks : t < next' => results[t] = "value"
        BY <2>1, <3>2, <3>3, <3>4 DEF Tasks
      <4> QED  BY <2>1, <3>2, <4>1 DEF FuturesInv, Leaving
    <3>5. CASE ~(next < N)
      <4>1. owner' = "stop" /\ \A t \in Tasks : results[t] = "value"
        BY <2>1, <3>2, <3>3, <3>5 DEF Tasks
      <4> QED  BY <2>1, <3>2, <4>1 DEF FuturesInv, Leaving
    <3> QED  BY <3>4, <3>5
  <2> QED  BY <2>3, <2>4
<1>6. CASE Stop \/ NotifyAll \/ Join
  <2>1. owner \in Leaving /\ owner' \in Leaving /\ owner' # "get"
        /\ UNCHANGED <<results, next, thrown>>
    BY <1>6 DEF Stop, NotifyAll, Join, Leaving
  <2> QED  BY <2>1 DEF FuturesInv
<1>7. CASE Again
  BY <1>7, ThreadPoolAssumption DEF Again, FuturesInv, Leaving, Tasks
<1>8. CASE UNCHANGED poolVars
  BY <1>8, FuturesKept DEF poolVars
<1> QED  BY <1>1, <1>2, <1>3, <1>4, <1>5, <1>6, <1>7, <1>8 DEF PoolNext, Preloading, Loop

-----------------------------------------------------------------------------
(* Nobody sleeps beside work: the threads on their way to the queue are    *)
(* counted, so the steps that put a thread among them or take it out are   *)
(* looked at one by one.                                                   *)

LEMMA LockingCard ==
    ASSUME NEW w \in Workers
    PROVE  /\ Cardinality(Locking) \in Nat
           /\ Locking' = Locking \cup {w} /\ w \notin Locking
                => Cardinality(Locking') = Cardinality(Locking) + 1
           /\ Locking' = Locking \ {w} /\ w \in Locking
                => Cardinality(Locking') = Cardinality(Locking) - 1
<1>1. IsFiniteSet(Locking)
  <2>1. Locking \subseteq Workers
    BY DEF Locking
  <2> QED  BY <2>1, ThreadPoolAssumption, FS_Subset
<1>2. Cardinality(Locking) \in Nat
  BY <1>1, FS_CardinalityType
<1> QED  BY <1>1, <1>2, FS_AddElement, FS_RemoveElement

LEMMA SleepInit == PoolInit => NoSleepBesideWork
BY DEF PoolInit, NoSleepBesideWork, Waiting

LEMMA NobodyWaits == Waiting' = {} => NoSleepBesideWork'
BY DEF NoSleepBesideWork

LEMMA NoWork ==
    ASSUME queue' = << >>
    PROVE  NoSleepBesideWork'
<1>1. Len(queue') = 0
  BY EmptyTasks
<1>2. PICK w \in Workers : TRUE
  BY ThreadPoolAssumption
<1>3. IsFiniteSet(Locking')
  <2>1. Locking' \subseteq Workers
    BY DEF Locking
  <2> QED  BY <2>1, ThreadPoolAssumption, FS_Subset
<1>4. Cardinality(Locking') \in Nat /\ Unsent' \in Nat
  BY <1>3, FS_CardinalityType DEF Unsent
<1> QED  BY <1>1, <1>4 DEF NoSleepBesideWork

LEMMA SleepNext == PoolTypeInv /\ NoSleepBesideWork /\ [PoolNext]_poolVars => NoSleepBesideWork'
<1> SUFFICES ASSUME PoolTypeInv, NoSleepBesideWork, [PoolNext]_poolVars PROVE NoSleepBesideWork'
  OBVIOUS
<1>1. /\ queue \in Seq(Tasks) /\ Len(queue) \in Nat
      /\ worker \in [Workers -> WorkerPlaces]
      /\ Waiting # {} => Len(queue) <= Cardinality(Locking) + Unsent
  BY DEF PoolTypeInv, PoolTypeOK, NoSleepBesideWork
<1>2. ASSUME NEW w \in Workers, End(w) \/ Wait(w) PROVE NoSleepBesideWork'
  <2>1. queue' = << >>
    BY <1>2 DEF End, Wait, Ends
  <2> QED  BY <2>1, NoWork
<1>3. ASSUME NEW w \in Workers, Take(w) PROVE NoSleepBesideWork'
  <2>1. worker[w] = "lock" /\ worker' = [worker EXCEPT ![w] = "run"] /\ owner' = owner
        /\ queue # << >> /\ queue' = Tail(queue)
    BY <1>3 DEF Take, Pop
  <2>2. Locking' = Locking \ {w} /\ w \in Locking /\ Waiting' = Waiting /\ Unsent' = Unsent
    BY <1>1, <2>1 DEF Locking, Waiting, Unsent
  <2>3. Len(queue') = Len(queue) - 1
    BY <1>1, <2>1
  <2>4. Cardinality(Locking') = Cardinality(Locking) - 1 /\ Cardinality(Locking) \in Nat
    BY <2>2, LockingCard
  <2>5. Unsent \in Nat
    BY DEF Unsent
  <2> QED  BY <1>1, <2>2, <2>3, <2>4, <2>5 DEF NoSleepBesideWork
<1>4. ASSUME NEW w \in Workers, WakeUp(w) \/ Run(w) PROVE NoSleepBesideWork'
  <2>1. worker[w] # "lock" /\ worker' = [worker EXCEPT ![w] = "lock"]
        /\ owner' = owner /\ queue' = queue
    BY <1>4 DEF WakeUp, Run
  <2>2. Locking' = Locking \cup {w} /\ w \notin Locking /\ Waiting' \subseteq Waiting
        /\ Unsent' = Unsent
    BY <1>1, <2>1 DEF Locking, Waiting, Unsent
  <2>3. Cardinality(Locking') = Cardinality(Locking) + 1 /\ Cardinality(Locking) \in Nat
    BY <2>2, LockingCard
  <2>4. Unsent \in Nat
    BY DEF Unsent
  <2> QED  BY <1>1, <2>1, <2>2, <2>3, <2>4 DEF NoSleepBesideWork
<1>5. CASE Enqueue
  <2>1. worker' = worker /\ Unsent = 0 /\ Unsent' = 1
        /\ (queue' = queue \/ queue' = Append(queue, next)) /\ next \in Tasks
    BY <1>5 DEF Enqueue, Item, Unsent, PoolTypeInv
  <2>2. Len(queue') \in {Len(queue), Len(queue) + 1}
    BY <1>1, <2>1
  <2>3. PICK w \in Workers : TRUE
    BY ThreadPoolAssumption
  <2>4. Cardinality(Locking) \in Nat
    BY LockingCard
  <2>5. Locking' = Locking /\ Waiting' = Waiting
    BY <2>1 DEF Locking, Waiting
  <2> QED  BY <1>1, <2>1, <2>2, <2>4, <2>5 DEF NoSleepBesideWork
<1>6. CASE NotifyOne
  <2>1. CASE Waiting = {}
    <3>1. Waiting' = {}
      BY <1>6, <2>1 DEF NotifyOne, Waiting
    <3> QED  BY <3>1, NobodyWaits
  <2>2. CASE Waiting # {}
    <3>1. PICK w \in Waiting : worker' = Woken({w})
      BY <1>6, <2>2 DEF NotifyOne
    <3>2. queue' = queue /\ Unsent = 1 /\ Unsent' = 0
      BY <1>6 DEF NotifyOne, Unsent
    <3>3. w \in Workers /\ Locking' = Locking \cup {w} /\ w \notin Locking
      BY <3>1 DEF Locking, Waiting, Woken
    <3>4. Cardinality(Locking') = Cardinality(Locking) + 1 /\ Cardinality(Locking) \in Nat
      BY <3>3, LockingCard
    <3> QED  BY <1>1, <2>2, <3>2, <3>4 DEF NoSleepBesideWork
  <2> QED  BY <2>1, <2>2
<1>7. CASE NotifyAll
  <2>1. Waiting' = {}
    BY <1>7 DEF NotifyAll, Woken, AllWaiting, Waiting
  <2> QED  BY <2>1, NobodyWaits
<1>8. CASE Get \/ Stop \/ Join \/ UNCHANGED poolVars
  <2>1. queue' = queue /\ worker' = worker /\ Unsent' = Unsent
    BY <1>8 DEF Get, Stop, Join, poolVars, Unsent
  <2>2. Locking' = Locking /\ Waiting' = Waiting
    BY <2>1 DEF Locking, Waiting
  <2> QED  BY <2>1, <2>2 DEF NoSleepBesideWork
<1>9. CASE Again
  <2>1. queue' = << >>
    BY <1>9 DEF Again
  <2> QED  BY <2>1, NoWork
<1> QED  BY <1>2, <1>3, <1>4, <1>5, <1>6, <1>7, <1>8, <1>9 DEF PoolNext, Preloading, Loop

-----------------------------------------------------------------------------
(* The theorems.                                                           *)

LEMMA ThreadPoolInvariant == PoolSpec => []PoolInv
<1>1. PoolInit => PoolInv
  BY PoolTypeInit, QueueInit, RunInit, StopInit, FuturesInit, SleepInit DEF PoolInv
<1>2. PoolInv /\ [PoolNext]_poolVars => PoolInv'
  BY PoolTypeNext, QueueNext, RunNext, StopNext, FuturesNext, SleepNext DEF PoolInv
<1> QED  BY <1>1, <1>2, PTL DEF PoolSpec

\* Type correctness of the pool and its owner.
THEOREM ThreadPoolTypeOK == PoolSpec => []PoolTypeOK
<1>1. PoolInv => PoolTypeOK
  BY DEF PoolInv, PoolTypeInv
<1> QED  BY <1>1, ThreadPoolInvariant, PTL

\* No notification is missed: nobody sleeps while work outnumbers those awake.
THEOREM ThreadPoolNoSleep == PoolSpec => []NoSleepBesideWork
<1>1. PoolInv => NoSleepBesideWork
  BY DEF PoolInv
<1> QED  BY <1>1, ThreadPoolInvariant, PTL

\* The tasks start in the order they were enqueued, each of them once.
THEOREM ThreadPoolOrder == PoolSpec => []StartedInOrder
<1>1. PoolInv => StartedInOrder
  BY DEF PoolInv, QueueInv
<1> QED  BY <1>1, ThreadPoolInvariant, PTL

\* With the threads ended, all tasks were run.
LEMMA DoneMeansRun ==
    ASSUME PoolInv, \A w \in Workers : worker[w] = "ended"
    PROVE  /\ \A w \in Workers : task[w] = 0
           /\ \A t \in Tasks : results[t] # "none"
<1>1. \A w \in Workers : task[w] = 0
  BY DEF PoolInv, RunInv
<1>2. PICK w \in Workers : TRUE
  BY ThreadPoolAssumption
<1>3. stop /\ queue = << >>
  BY <1>2 DEF PoolInv, StopInv
<1>4. Len(starts) = N
  <2>1. owner \notin {"enqueue", "notify"}
    BY <1>3 DEF PoolInv, StopInv
  <2>2. Enqueued = N
    BY <2>1 DEF Enqueued
  <2>3. Len(starts) \in Nat
    BY DEF PoolInv, PoolTypeInv, PoolTypeOK
  <2> QED  BY <1>3, <2>2, <2>3, EmptyTasks, ThreadPoolAssumption DEF PoolInv, QueueInv
<1>5. \A t \in Tasks : ~(t > Len(starts)) /\ t # 0
  BY <1>4, ThreadPoolAssumption DEF Tasks
<1>6. \A t \in Tasks : results[t] # "none"
  BY <1>1, <1>5 DEF PoolInv, RunInv
<1> QED  BY <1>1, <1>6

\* When preload is left, no thread touches the disk and all tracks were read.
THEOREM ThreadPoolNothingAfter == PoolSpec => []NothingRunsAfter
<1>1. PoolInv => NothingRunsAfter
  <2> SUFFICES ASSUME PoolInv, owner = "done"
               PROVE  Running = {} /\ \A t \in Tasks : results[t] # "none"
    BY DEF NothingRunsAfter
  <2>1. \A w \in Workers : worker[w] = "ended"
    BY DEF PoolInv, StopInv
  <2> QED  BY <2>1, DoneMeansRun DEF Running
<1> QED  BY <1>1, ThreadPoolInvariant, PTL

-----------------------------------------------------------------------------
(* The pool implements what preload promises.                              *)

LEMMA PromiseInit == PoolInit => Promise!Init
<1>1. ASSUME PoolInit PROVE owner # "done"
  BY <1>1 DEF PoolInit
<1> QED  BY <1>1 DEF PoolInit, Promise!Init, Promise!Tracks, Promise!Running, Tasks

LEMMA PromiseNext == PoolInv /\ [PoolNext]_poolVars => [Promise!Next]_(Promise!vars)
<1> SUFFICES ASSUME PoolInv, [PoolNext]_poolVars PROVE [Promise!Next]_(Promise!vars)
  OBVIOUS
<1>1. Promise!Tracks = Tasks
  BY DEF Promise!Tracks, Tasks
<1>2. ASSUME UNCHANGED results, owner # "done", owner' # "done"
      PROVE  [Promise!Next]_(Promise!vars)
  BY <1>2 DEF Promise!vars
<1>3. ASSUME NEW w \in Workers, Run(w) PROVE [Promise!Next]_(Promise!vars)
  <2>1. worker[w] = "run" /\ owner' = owner
    BY <1>3 DEF Run
  <2>2. owner # "done"
    BY <2>1 DEF PoolInv, StopInv
  <2>3. task[w] # 0 /\ task[w] \in Tasks /\ results[task[w]] = "none"
    BY <2>1 DEF PoolInv, RunInv, PoolTypeInv, PoolTypeOK
  <2>4. PICK r \in {"value", "error"} : results' = [results EXCEPT ![task[w]] = r]
    BY <1>3 DEF Run
  <2>5. Promise!Read(task[w])
    BY <2>1, <2>2, <2>3, <2>4 DEF Promise!Read, Promise!Running
  <2> QED  BY <1>1, <2>3, <2>5 DEF Promise!Next, Promise!Work
<1>4. CASE Join
  <2>1. owner = "join" /\ owner' = "done" /\ results' = results /\ thrown' = thrown
        /\ \A w \in Workers : worker[w] = "ended"
    BY <1>4 DEF Join, Joined
  <2>2. \A t \in Tasks : results[t] # "none"
    BY <2>1, DoneMeansRun
  <2>3. CASE thrown = 0
    <3>1. \A t \in Tasks : results[t] = "value"
      BY <2>1, <2>3 DEF PoolInv, FuturesInv, Leaving
    <3>2. Promise!Return
      BY <1>1, <2>1, <2>3, <3>1 DEF Promise!Return, Promise!Running, Promise!Returned
    <3> QED  BY <3>2 DEF Promise!Next, Promise!Work
  <2>4. CASE thrown # 0
    <3>1. thrown \in Tasks /\ results[thrown] = "error"
          /\ \A t \in Tasks : t < thrown => results[t] = "value"
      BY <2>4 DEF PoolInv, FuturesInv
    <3>2. Promise!Throw(thrown)
      BY <1>1, <2>1, <2>2, <2>4, <3>1 DEF Promise!Throw, Promise!Running, Promise!Threw
    <3> QED  BY <1>1, <3>1, <3>2 DEF Promise!Next, Promise!Work
  <2> QED  BY <2>3, <2>4
<1>5. CASE Again
  <2>1. owner = "done" /\ owner' # "done" /\ results' = [t \in Tasks |-> "none"]
    BY <1>5 DEF Again
  <2>2. Promise!Again
    BY <1>1, <2>1 DEF Promise!Again, Promise!Running
  <2> QED  BY <2>2 DEF Promise!Next
<1>6. ASSUME NEW w \in Workers, End(w) \/ Take(w) \/ Wait(w) \/ WakeUp(w)
      PROVE  [Promise!Next]_(Promise!vars)
  <2>1. UNCHANGED <<results, owner, thrown>>
    BY <1>6 DEF End, Take, Wait, WakeUp
  <2> QED  BY <2>1 DEF Promise!vars
<1>7. CASE Enqueue \/ NotifyOne \/ Get \/ Stop \/ NotifyAll
  <2>1. UNCHANGED results /\ owner # "done" /\ owner' # "done"
    BY <1>7 DEF Enqueue, NotifyOne, Get, Stop, NotifyAll
  <2> QED  BY <2>1, <1>2
<1>8. CASE UNCHANGED poolVars
  BY <1>8 DEF poolVars, Promise!vars
<1> QED  BY <1>3, <1>4, <1>5, <1>6, <1>7, <1>8 DEF PoolNext, Preloading, Loop

\* Every behaviour of the pool is one of the promise; that the call ends is left
\* to the model checker.
THEOREM ThreadPoolImplements == PoolSpec => Promise!Spec
<1>1. PoolInit => Promise!Init
  BY PromiseInit
<1>2. PoolInv /\ [PoolNext]_poolVars => [Promise!Next]_(Promise!vars)
  BY PromiseNext
<1> QED  BY <1>1, <1>2, ThreadPoolInvariant, PTL DEF PoolSpec, Promise!Spec

(***************************************************************************)
(* The disk that loads on demand                                           *)
(***************************************************************************)

-----------------------------------------------------------------------------
(* Types.  A reader has been asked for a track, and one that goes on or    *)
(* stores keeps a track it has loaded.                                     *)

Consistent(b) ==
    /\ b.step # "idle" => b.track \in CylHeads
    /\ b.step \in {"ask", "rescan", "store"} => b.kept \in Loads

TypeInv == TypeOK /\ \A r \in Readers : Consistent(reading[r])

\* The revolutions counted stay a number.
LEMMA SpentType ==
    ASSUME NEW h \in [seen : SUBSET Loads, spent : Nat]
    PROVE  Spent(h) \in Nat
<1>1. /\ OptionPolicy(Rescans).initial \in Nat
      /\ OptionPolicy(Retries).initial \in Nat
  BY DemandDiskAssumption, PolicyTypes DEF Policy
<1>2. Enough \in Nat
  BY <1>1, DemandDiskAssumption DEF Enough
<1> QED  BY <1>2, DemandDiskAssumption DEF Spent

LEMMA TypeInit == Init => TypeInv
<1> SUFFICES ASSUME Init PROVE TypeInv
  OBVIOUS
<1>1. NoRead \in Reading /\ Consistent(NoRead)
  BY PolicyTypes, DemandDiskAssumption DEF NoRead, Reading, Steps, Consistent
<1>2. NoHistory \in [seen : SUBSET Loads, spent : Nat]
  BY DEF NoHistory
<1> QED  BY <1>1, <1>2 DEF Init, TypeInv, TypeOK

\* A step of one reader that keeps the types of its record keeps all types.
LEMMA ReaderTypes ==
    ASSUME TypeInv, NEW r \in Readers, NEW b \in Reading, Consistent(b),
           NEW h \in [seen : SUBSET Loads, spent : Nat],
           reading' = [reading EXCEPT ![r] = b],
           history' = [history EXCEPT ![r] = h],
           UNCHANGED <<trackdata, loaded, flipped>>
    PROVE  TypeInv'
BY DEF TypeInv, TypeOK

LEMMA TypeNext == TypeInv /\ [Next]_vars => TypeInv'
<1> SUFFICES ASSUME TypeInv, [Next]_vars PROVE TypeInv'
  OBVIOUS
<1>1. ASSUME NEW r \in Readers, Ask(r)
      PROVE  TypeInv'
  <2>1. PICK c \in CylHeads, u \in BOOLEAN :
           reading' = [reading EXCEPT ![r] =
              [@ EXCEPT !.step = IF u \/ c \notin loaded THEN "load" ELSE "fetch",
                        !.track = c]]
    BY <1>1 DEF Ask
  <2> DEFINE b == [reading[r] EXCEPT !.step = IF u \/ c \notin loaded THEN "load" ELSE "fetch",
                                     !.track = c]
  <2>2. reading' = [reading EXCEPT ![r] = b]
    BY <2>1 DEF TypeInv, TypeOK
  <2>3. b \in Reading /\ Consistent(b)
    BY DEF TypeInv, TypeOK, Reading, Consistent, Steps
  <2>4. history' = [history EXCEPT ![r] = history[r]]
        /\ history[r] \in [seen : SUBSET Loads, spent : Nat]
    BY <1>1 DEF Ask, TypeInv, TypeOK
  <2> HIDE DEF b
  <2> QED  BY <1>1, <2>2, <2>3, <2>4, ReaderTypes DEF Ask
<1>2. ASSUME NEW r \in Readers, FirstLoad(r)
      PROVE  TypeInv'
  <2>1. PICK t \in Loads :
          /\ reading' = [reading EXCEPT ![r] =
                [@ EXCEPT !.step = "ask", !.kept = t,
                   !.rescans = [OptionPolicy(Rescans) EXCEPT !.wasChange = DOMAIN t # {}],
                   !.retries = OptionPolicy(Retries)]]
          /\ history' = [history EXCEPT ![r] = [seen |-> {t}, spent |-> 0]]
    BY <1>2 DEF FirstLoad
  <2> DEFINE x == DOMAIN t # {}
             p == [OptionPolicy(Rescans) EXCEPT !.wasChange = x]
             q == OptionPolicy(Retries)
             b == [reading[r] EXCEPT !.step = "ask", !.kept = t, !.rescans = p, !.retries = q]
             h == [seen |-> {t}, spent |-> 0]
  <2>2. x \in BOOLEAN
    OBVIOUS
  <2>3. reading' = [reading EXCEPT ![r] = b] /\ history' = [history EXCEPT ![r] = h]
    BY <2>1 DEF TypeInv, TypeOK
  <2>4. reading[r] \in Reading /\ reading[r].track \in CylHeads
    BY <1>2 DEF FirstLoad, TypeInv, TypeOK, Consistent
  <2> HIDE DEF x
  <2>5. p \in Policy /\ q \in Policy
    BY <2>2, PolicyTypes, DemandDiskAssumption
  <2> HIDE DEF p, q
  <2>6. b \in Reading /\ Consistent(b)
    BY <2>4, <2>5 DEF Reading, Consistent, Steps
  <2>7. h \in [seen : SUBSET Loads, spent : Nat]
    OBVIOUS
  <2>8. UNCHANGED <<trackdata, loaded, flipped>>
    BY <1>2 DEF FirstLoad
  <2> HIDE DEF b, h
  <2> QED  BY <2>3, <2>6, <2>7, <2>8, ReaderTypes
<1>3. ASSUME NEW r \in Readers, AskMore(r)
      PROVE  TypeInv'
  <2> DEFINE o == reading[r]
             b == [o EXCEPT !.step = IF GoesOn(o) THEN "rescan" ELSE "store",
                            !.rescans = Asked(o.rescans),
                            !.retries = IF HasMoreRetry(o.rescans) THEN o.retries
                                        ELSE Asked(o.retries)]
  <2>1. reading' = [reading EXCEPT ![r] = b]
    BY <1>3 DEF AskMore, TypeInv, TypeOK
  <2>2. b \in Reading /\ Consistent(b)
    BY <1>3, PolicyTypes DEF AskMore, TypeInv, TypeOK, Reading, Consistent, Steps
  <2>3. history' = [history EXCEPT ![r] = history[r]]
        /\ history[r] \in [seen : SUBSET Loads, spent : Nat]
    BY <1>3 DEF AskMore, TypeInv, TypeOK
  <2>4. UNCHANGED <<trackdata, loaded, flipped>>
    BY <1>3 DEF AskMore
  <2> HIDE DEF b
  <2> QED  BY <2>1, <2>2, <2>3, <2>4, ReaderTypes
<1>4. ASSUME NEW r \in Readers, Rescan(r)
      PROVE  TypeInv'
  <2> DEFINE o == reading[r]
  <2>1. PICK t \in Loads :
          /\ reading' = [reading EXCEPT ![r] =
                [o EXCEPT !.step = "ask",
                          !.kept = IF Better(t, o.kept) THEN t ELSE o.kept,
                          !.rescans = Minus(IF Better(t, o.kept) THEN Changed(o.rescans)
                                            ELSE o.rescans, Revs),
                          !.retries = Minus(o.retries, Revs)]]
          /\ history' = [history EXCEPT ![r] =
                [seen |-> @.seen \cup {t}, spent |-> Spent(@)]]
    BY <1>4 DEF Rescan
  <2> DEFINE p == Minus(IF Better(t, o.kept) THEN Changed(o.rescans) ELSE o.rescans, Revs)
             q == Minus(o.retries, Revs)
             b == [o EXCEPT !.step = "ask", !.kept = IF Better(t, o.kept) THEN t ELSE o.kept,
                            !.rescans = p, !.retries = q]
             h == [seen |-> history[r].seen \cup {t}, spent |-> Spent(history[r])]
  <2>2. /\ o \in Reading /\ o.track \in CylHeads
        /\ o.rescans \in Policy /\ o.retries \in Policy /\ o.kept \in Loads
    BY <1>4 DEF Rescan, TypeInv, TypeOK, Reading, Consistent
  <2>3. p \in Policy /\ q \in Policy
    BY <2>2, PolicyTypes, DemandDiskAssumption
  <2>4. reading' = [reading EXCEPT ![r] = b] /\ history' = [history EXCEPT ![r] = h]
    BY <2>1 DEF TypeInv, TypeOK
  <2>5. h \in [seen : SUBSET Loads, spent : Nat]
    BY SpentType DEF TypeInv, TypeOK
  <2> HIDE DEF p, q
  <2>6. b \in Reading /\ Consistent(b)
    <3> HIDE DEF o
    <3> QED  BY <2>2, <2>3 DEF Reading, Consistent, Steps
  <2>7. UNCHANGED <<trackdata, loaded, flipped>>
    BY <1>4 DEF Rescan
  <2> HIDE DEF b, h
  <2> QED  BY <2>4, <2>5, <2>6, <2>7, ReaderTypes
<1>5. ASSUME NEW r \in Readers, Store(r)
      PROVE  TypeInv'
  <2>1. reading[r].track \in CylHeads /\ reading[r].kept \in Loads
    BY <1>5 DEF Store, TypeInv, Consistent
  <2>2. Stored(r) \in Track
    BY <2>1, DemandDiskAssumption DEF Stored, Track
  <2>3. reading' \in [Readers -> Reading] /\ \A s \in Readers : Consistent(reading'[s])
    BY <1>5 DEF Store, TypeInv, TypeOK, Reading, Consistent, Steps
  <2> QED  BY <1>5, <2>1, <2>2, <2>3 DEF Store, TypeInv, TypeOK
<1>6. ASSUME NEW r \in Readers, Fetch(r) \/ LoadFails(r)
      PROVE  TypeInv'
  <2>1. NoRead \in Reading /\ Consistent(NoRead)
    BY PolicyTypes, DemandDiskAssumption DEF NoRead, Reading, Steps, Consistent
  <2>2. NoHistory \in [seen : SUBSET Loads, spent : Nat]
    BY DEF NoHistory
  <2> QED  BY <1>6, <2>1, <2>2, ReaderTypes DEF Fetch, LoadFails
<1>7. CASE ClearCache
  BY <1>7 DEF ClearCache, Unmarked, TypeInv, TypeOK
<1>8. CASE Write
  <2>1. PICK c \in CylHeads, t \in Loads :
          /\ loaded' = loaded \cup {c}
          /\ trackdata' = [trackdata EXCEPT ![c] = [from |-> c, sectors |-> t]]
    BY <1>8 DEF Write
  <2>2. [from |-> c, sectors |-> t] \in Track
    BY DemandDiskAssumption DEF Track
  <2> QED  BY <1>8, <2>1, <2>2 DEF Write, TypeInv, TypeOK
<1>9. CASE Clear
  BY <1>9 DEF Clear, Unmarked, TypeInv, TypeOK
<1>10. CASE FlipSides
  <2>1. \A c \in CylHeads : OtherSide(c) \in CylHeads
    BY DEF OtherSide, CylHeads, Heads
  <2> QED  BY <1>10, <2>1 DEF FlipSides, TypeInv, TypeOK
<1>11. CASE UNCHANGED vars
  BY <1>11 DEF vars, TypeInv, TypeOK
<1> QED  BY <1>1, <1>2, <1>3, <1>4, <1>5, <1>6, <1>7, <1>8, <1>9, <1>10, <1>11
         DEF Next, Proceed

\* Every variable has its type, for every medium and all amounts of retries.
THEOREM DemandDiskTypes == Spec => []TypeInv
<1> QED  BY TypeInit, TypeNext, PTL DEF Spec

THEOREM DemandDiskTypeOK == Spec => []TypeOK
<1>1. TypeInv => TypeOK
  BY DEF TypeInv
<1> QED  BY <1>1, DemandDiskTypes, PTL

-----------------------------------------------------------------------------
(* The cache.  Store writes the track and its mark in one step, so that the *)
(* mark is right as long as the reader knows which track it was asked for.  *)

LEMMA CacheNext == TypeInv /\ CachedIsLoaded /\ [Next]_vars => CachedIsLoaded'
<1> SUFFICES ASSUME TypeInv, CachedIsLoaded, [Next]_vars PROVE CachedIsLoaded'
  OBVIOUS
<1>1. ASSUME NEW c \in CylHeads, NEW s \in Sectors,
             trackdata' = [trackdata EXCEPT ![c] = [from |-> c, sectors |-> s]],
             loaded' = loaded \cup {c}, flipped' = flipped
      PROVE  CachedIsLoaded'
  <2>1. [from |-> c, sectors |-> s] # Nothing
    BY DemandDiskAssumption DEF Track
  <2>2. loaded \subseteq CylHeads /\ DOMAIN trackdata = CylHeads
    BY DEF TypeInv, TypeOK
  <2> QED  BY <1>1, <2>1, <2>2 DEF CachedIsLoaded
<1>2. ASSUME NEW r \in Readers, Store(r)
      PROVE  CachedIsLoaded'
  <2>1. reading[r].track \in CylHeads /\ reading[r].kept \in Sectors
    BY <1>2, DemandDiskAssumption DEF Store, TypeInv, Consistent
  <2> QED  BY <1>1, <1>2, <2>1 DEF Store, Stored
<1>3. CASE Write
  <2>1. PICK c \in CylHeads, t \in Loads :
          /\ loaded' = loaded \cup {c}
          /\ trackdata' = [trackdata EXCEPT ![c] = [from |-> c, sectors |-> t]]
    BY <1>3 DEF Write
  <2> QED  BY <1>1, <1>3, <2>1, DemandDiskAssumption DEF Write
<1>4. ASSUME NEW r \in Readers, \/ Ask(r) \/ FirstLoad(r) \/ AskMore(r) \/ Rescan(r)
                                \/ Fetch(r) \/ LoadFails(r)
      PROVE  CachedIsLoaded'
  <2>1. UNCHANGED <<trackdata, loaded, flipped>>
    BY <1>4 DEF Ask, FirstLoad, AskMore, Rescan, Fetch, LoadFails
  <2> QED  BY <2>1 DEF CachedIsLoaded
<1>5. CASE ClearCache
  BY <1>5 DEF ClearCache, Unmarked, CachedIsLoaded
<1>6. CASE Clear
  <2>1. loaded' = {}
    BY <1>6 DEF Clear, Unmarked, TypeInv, TypeOK
  <2> QED  BY <2>1 DEF CachedIsLoaded
<1>7. CASE FlipSides
  BY <1>7 DEF FlipSides, CachedIsLoaded
<1>8. CASE UNCHANGED vars
  BY <1>8 DEF vars, CachedIsLoaded
<1> QED  BY <1>2, <1>3, <1>4, <1>5, <1>6, <1>7, <1>8 DEF Next, Proceed

\* For every number of threads and tracks: until the sides are swapped, a track
\* marked as loaded is there and was read at its own place.
THEOREM DemandDiskCache == Spec => []CachedIsLoaded
<1>1. Init => CachedIsLoaded
  BY DEF Init, CachedIsLoaded
<1> QED  BY <1>1, CacheNext, DemandDiskTypes, PTL DEF Spec

-----------------------------------------------------------------------------
(* The bound.  Without starting over, what a counter still grants and what *)
(* the read has spent add up to the amount; a rescan follows only when one *)
(* of the two still grants something.                                      *)

Larger == IF Rescans > Retries THEN Rescans ELSE Retries

Balanced(p, amount, spent) == ~p.sinceLastChange /\ p.retryTimes = amount - spent

Bounded(b, h) ==
    /\ h.spent < Larger + Revs
    /\ b.step \in {"ask", "rescan"} =>
          Balanced(b.rescans, Rescans, h.spent) /\ Balanced(b.retries, Retries, h.spent)
    /\ b.step = "rescan" => h.spent < Larger

BoundInv == Rescans >= 0 /\ Retries >= 0 =>
                \A r \in Readers : Bounded(reading[r], history[r])

\* The counter of an amount that is not negative starts balanced.
LEMMA OptionBalanced ==
    ASSUME NEW n \in Int, n >= 0
    PROVE  Balanced(OptionPolicy(n), n, 0)
<1>1. (n < 0) = FALSE
  OBVIOUS
<1>2. OptionPolicy(n) = PolicyOf(n, FALSE)
  BY <1>1 DEF OptionPolicy
<1>3. ~PolicyOf(n, FALSE).sinceLastChange /\ PolicyOf(n, FALSE).retryTimes = n
  BY DEF PolicyOf
<1>4. ~OptionPolicy(n).sinceLastChange /\ OptionPolicy(n).retryTimes = n
  BY <1>2, <1>3, Zenon
<1> QED  BY <1>4 DEF Balanced

\* What a load costs is taken from the counter, whether or not it was a change.
LEMMA MinusBalanced ==
    ASSUME NEW p \in Policy, NEW amount \in Int, NEW spent \in Int, NEW n \in Int,
           Balanced(p, amount, spent)
    PROVE  /\ Balanced(Minus(p, n), amount, spent + n)
           /\ Balanced(Minus(Changed(p), n), amount, spent + n)
<1>1. /\ Minus(p, n).sinceLastChange = p.sinceLastChange
      /\ Minus(p, n).retryTimes = p.retryTimes - n
  BY DEF Minus, Policy
<1>2. /\ Changed(p) \in Policy
      /\ Changed(p).sinceLastChange = p.sinceLastChange
      /\ Changed(p).retryTimes = p.retryTimes
  BY PolicyTypes DEF Changed, Policy
<1>3. /\ Minus(Changed(p), n).sinceLastChange = p.sinceLastChange
      /\ Minus(Changed(p), n).retryTimes = p.retryTimes - n
  BY <1>2 DEF Minus, Policy
<1> QED  BY <1>1, <1>3 DEF Balanced

\* No amount grants as many revolutions as are counted.
LEMMA EnoughIsMore ==
    ASSUME Rescans >= 0, Retries >= 0
    PROVE  Enough = Larger + Revs
<1>1. OptionPolicy(Rescans).initial = Rescans /\ OptionPolicy(Retries).initial = Retries
  BY DemandDiskAssumption DEF OptionPolicy, PolicyOf
<1> QED  BY <1>1 DEF Enough, Larger

LEMMA BoundInit == Init => BoundInv
<1> SUFFICES ASSUME Init, Rescans >= 0, Retries >= 0, NEW r \in Readers
             PROVE  Bounded(reading[r], history[r])
  BY DEF BoundInv
<1>1. reading[r].step = "idle" /\ history[r].spent = 0
  BY DEF Init, NoRead, NoHistory
<1> QED  BY <1>1, DemandDiskAssumption DEF Bounded, Larger

LEMMA BoundNext == TypeInv /\ BoundInv /\ [Next]_vars => BoundInv'
<1> SUFFICES ASSUME TypeInv, BoundInv, [Next]_vars, Rescans >= 0, Retries >= 0,
                    NEW r \in Readers
             PROVE  Bounded(reading'[r], history'[r])
  BY DEF BoundInv
<1>0. /\ Rescans \in Int /\ Retries \in Int /\ Revs \in Nat \ {0}
      /\ Larger \in Nat /\ Rescans <= Larger /\ Retries <= Larger
      /\ reading \in [Readers -> Reading]
      /\ history \in [Readers -> [seen : SUBSET Loads, spent : Nat]]
      /\ history[r].spent \in Nat
      /\ Bounded(reading[r], history[r])
  BY DemandDiskAssumption DEF BoundInv, TypeInv, TypeOK, Larger
<1>1. CASE reading'[r] = reading[r] /\ history'[r] = history[r]
  BY <1>0, <1>1
<1>2. CASE reading'[r] = NoRead /\ history'[r] = NoHistory
  BY <1>0, <1>2 DEF Bounded, NoRead, NoHistory
<1>3. CASE Ask(r) \/ Store(r)
  <2>1. reading'[r].step \notin {"ask", "rescan"} /\ history'[r] = history[r]
    BY <1>0, <1>3 DEF Ask, Store, Reading
  <2> QED  BY <1>0, <2>1 DEF Bounded
<1>4. CASE FirstLoad(r)
  <2>1. PICK t \in Loads :
          /\ reading'[r].step = "ask" /\ history'[r].spent = 0
          /\ reading'[r].retries = OptionPolicy(Retries)
          /\ reading'[r].rescans = [OptionPolicy(Rescans) EXCEPT !.wasChange = DOMAIN t # {}]
    BY <1>0, <1>4 DEF FirstLoad, Reading
  <2> DEFINE x == DOMAIN t # {}
  <2>2. OptionPolicy(Rescans) \in Policy
    BY <1>0, PolicyTypes
  <2>3. reading'[r].rescans = [OptionPolicy(Rescans) EXCEPT !.wasChange = x]
    BY <2>1
  <2> HIDE DEF x
  <2>4. /\ reading'[r].rescans.sinceLastChange = OptionPolicy(Rescans).sinceLastChange
        /\ reading'[r].rescans.retryTimes = OptionPolicy(Rescans).retryTimes
    BY <2>2, <2>3 DEF Policy
  <2>5. /\ Balanced(OptionPolicy(Rescans), Rescans, 0)
        /\ Balanced(OptionPolicy(Retries), Retries, 0)
    BY <1>0, OptionBalanced
  <2> QED  BY <1>0, <2>1, <2>4, <2>5 DEF Bounded, Balanced
<1>5. CASE AskMore(r)
  <2>1. /\ Balanced(reading[r].rescans, Rescans, history[r].spent)
        /\ Balanced(reading[r].retries, Retries, history[r].spent)
    BY <1>0, <1>5 DEF AskMore, Bounded
  <2>2. Asked(reading[r].rescans) = reading[r].rescans
        /\ Asked(reading[r].retries) = reading[r].retries
    BY <2>1 DEF Balanced, Asked
  <2>3. /\ reading'[r].rescans = reading[r].rescans /\ reading'[r].retries = reading[r].retries
        /\ history'[r] = history[r]
        /\ reading'[r].step = IF GoesOn(reading[r]) THEN "rescan" ELSE "store"
    BY <1>0, <1>5, <2>2 DEF AskMore, Reading
  <2>4. GoesOn(reading[r]) => history[r].spent < Larger
    BY <1>0, <2>1, <2>2 DEF GoesOn, HasMoreRetry, Balanced
  <2> QED  BY <1>0, <2>1, <2>3, <2>4 DEF Bounded
<1>6. CASE Rescan(r)
  <2>1. /\ Balanced(reading[r].rescans, Rescans, history[r].spent)
        /\ Balanced(reading[r].retries, Retries, history[r].spent)
        /\ history[r].spent < Larger
        /\ reading[r].rescans \in Policy /\ reading[r].retries \in Policy
    BY <1>0, <1>6 DEF Rescan, Bounded, Reading
  <2>2. /\ reading'[r].step = "ask"
        /\ \/ reading'[r].rescans = Minus(Changed(reading[r].rescans), Revs)
           \/ reading'[r].rescans = Minus(reading[r].rescans, Revs)
        /\ reading'[r].retries = Minus(reading[r].retries, Revs)
        /\ history'[r].spent = Spent(history[r])
    <3> DEFINE b == reading[r]
    <3>1. PICK t \in Loads :
            /\ reading' = [reading EXCEPT ![r] =
                  [b EXCEPT !.step = "ask",
                            !.kept = IF Better(t, b.kept) THEN t ELSE b.kept,
                            !.rescans = Minus(IF Better(t, b.kept) THEN Changed(b.rescans)
                                              ELSE b.rescans, Revs),
                            !.retries = Minus(b.retries, Revs)]]
            /\ history' = [history EXCEPT ![r] =
                  [seen |-> @.seen \cup {t}, spent |-> Spent(@)]]
      BY <1>6 DEF Rescan
    <3>2. b \in Reading
      BY <1>0
    <3> QED  BY <1>0, <3>1, <3>2 DEF Reading
  <2>3. Spent(history[r]) = history[r].spent + Revs
    BY <1>0, <2>1, EnoughIsMore DEF Spent
  <2>4. /\ Balanced(reading'[r].rescans, Rescans, history'[r].spent)
        /\ Balanced(reading'[r].retries, Retries, history'[r].spent)
    BY <1>0, <2>1, <2>2, <2>3, MinusBalanced
  <2> QED  BY <1>0, <2>1, <2>2, <2>3, <2>4 DEF Bounded
<1>7. ASSUME NEW s \in Readers, s # r, Ask(s) \/ Proceed(s) \/ LoadFails(s)
      PROVE  reading'[r] = reading[r] /\ history'[r] = history[r]
  BY <1>0, <1>7 DEF Ask, Proceed, FirstLoad, AskMore, Rescan, Store, Fetch, LoadFails
<1>8. ASSUME Fetch(r) \/ LoadFails(r)
      PROVE  reading'[r] = NoRead /\ history'[r] = NoHistory
  BY <1>0, <1>8 DEF Fetch, LoadFails
<1>9. ASSUME ClearCache \/ Write \/ Clear \/ FlipSides \/ UNCHANGED vars
      PROVE  reading'[r] = reading[r] /\ history'[r] = history[r]
  BY <1>9 DEF ClearCache, Write, Clear, FlipSides, vars
<1> QED  BY <1>1, <1>2, <1>3, <1>4, <1>5, <1>6, <1>7, <1>8, <1>9 DEF Next, Proceed

\* For every medium, every revolution count and all amounts that do not start
\* over: a read spends fewer revolutions than the larger amount plus one load.
THEOREM DemandDiskBound == Spec => []LoadsAreBounded
<1>1. BoundInv => LoadsAreBounded
  BY DEF BoundInv, Bounded, LoadsAreBounded, Larger
<1> QED  BY <1>1, BoundInit, BoundNext, DemandDiskTypes, PTL DEF Spec

-----------------------------------------------------------------------------
(* The best load.  A score orders loads as Better compares them, which     *)
(* needs that no part of it reaches the base of the next one.              *)

\* What is counted of a load is a number of sectors it can have at most.
LEMMA SectorsInType ==
    ASSUME NEW t \in Sectors, NEW qualities
    PROVE  /\ Cardinality(Ids) \in Nat
           /\ SectorsIn(t, qualities) \in 0..Cardinality(Ids)
           /\ Cardinality(DOMAIN t) \in 0..Cardinality(Ids)
<1>1. DOMAIN t \subseteq Ids /\ IsFiniteSet(Ids)
  BY DemandDiskAssumption DEF Sectors
<1> DEFINE part == {i \in DOMAIN t : t[i] \in qualities}
<1>2. part \subseteq Ids
  BY <1>1
<1>3. Cardinality(part) <= Cardinality(Ids) /\ Cardinality(DOMAIN t) <= Cardinality(Ids)
  BY <1>1, <1>2, FS_Subset
<1>4. Cardinality(part) \in Nat /\ Cardinality(DOMAIN t) \in Nat /\ Cardinality(Ids) \in Nat
  BY <1>1, <1>2, FS_Subset, FS_CardinalityType
<1> QED  BY <1>3, <1>4 DEF SectorsIn

Digits(n, a, b, c) == a * (n + 1) * (n + 1) + b * (n + 1) + c

\* Numbers of three digits are ordered by their digits.
LEMMA DigitsOrder ==
    ASSUME NEW n \in Nat,
           NEW a \in 0..n, NEW b \in 0..n, NEW c \in 0..n,
           NEW x \in 0..n, NEW y \in 0..n, NEW z \in 0..n,
           a > x \/ (a = x /\ b > y) \/ (a = x /\ b = y /\ c >= z)
    PROVE  Digits(n, a, b, c) >= Digits(n, x, y, z)
<1> DEFINE m == n + 1
<1>0. m \in Nat /\ \A i \in 0..n : i \in Nat /\ i <= m - 1
  OBVIOUS
<1>1. ASSUME NEW i \in Nat, NEW k \in Nat, i > k
      PROVE  i * m >= k * m + m
  <2>1. PICK d \in Nat : i = k + 1 + d
    <3>1. i - k - 1 \in Nat /\ i = k + 1 + (i - k - 1)
      BY <1>1
    <3> QED  BY <3>1
  <2>2. (k + 1 + d) * m = k * m + m + d * m /\ d * m >= 0
    BY <1>0
  <2> QED  BY <2>1, <2>2, <1>0
<1> DEFINE p == a * m
           q == x * m
<1>2. b * m \in Nat /\ y * m \in Nat /\ p \in Nat /\ q \in Nat
  BY <1>0
<1>3. Digits(n, a, b, c) = p * m + b * m + c /\ Digits(n, x, y, z) = q * m + y * m + z
  BY DEF Digits
<1>4. CASE a > x
  <2>1. p >= q + m
    BY <1>0, <1>1, <1>4
  <2>2. p * m >= (q + m) * m
    <3>1. PICK d \in Nat : p = q + m + d
      <4>1. p - (q + m) \in Nat /\ p = q + m + (p - (q + m))
        BY <2>1, <1>0, <1>2
      <4> QED  BY <4>1
    <3>2. (q + m + d) * m = (q + m) * m + d * m /\ d * m >= 0
      BY <1>0, <1>2
    <3>3. (q + m) * m \in Int /\ d * m \in Int
      BY <1>0, <1>2
    <3> QED  BY <3>1, <3>2, <3>3
  <2>3. (q + m) * m = q * m + m * m /\ q * m \in Nat /\ m * m \in Nat
    BY <1>0, <1>2
  <2>4. y * m <= (m - 1) * m
    <3>1. PICK d \in Nat : m - 1 = y + d
      <4>1. (m - 1) - y \in Nat /\ m - 1 = y + ((m - 1) - y)
        BY <1>0
      <4> QED  BY <4>1
    <3>2. (y + d) * m = y * m + d * m /\ d * m >= 0
      BY <1>0
    <3> QED  BY <3>1, <3>2, <1>2, <1>0
  <2>5. (m - 1) * m = m * m - m
    BY <1>0
  <2> HIDE DEF p, q, m
  <2> QED  BY <2>2, <2>3, <2>4, <2>5, <1>0, <1>2, <1>3
<1>5. CASE a = x /\ b > y
  <2>1. b * m >= y * m + m
    BY <1>0, <1>1, <1>5
  <2>2. p * m = q * m /\ p * m \in Nat
    BY <1>5, <1>2, <1>0
  <2>3. c \in Nat /\ z \in Nat /\ z <= m
    OBVIOUS
  <2>4. Digits(n, a, b, c) = q * m + b * m + c
    BY <1>3, <2>2
  <2> DEFINE qm == q * m
             bm == b * m
             ym == y * m
  <2>5. /\ Digits(n, a, b, c) = qm + bm + c /\ Digits(n, x, y, z) = qm + ym + z
        /\ bm >= ym + m /\ qm \in Nat /\ bm \in Nat /\ ym \in Nat /\ m \in Nat
    BY <2>1, <2>2, <2>4, <1>0, <1>2, <1>3
  <2> HIDE DEF qm, bm, ym, m
  <2>6. qm + bm + c >= qm + ym + z
    BY <2>3, <2>5
  <2> QED  BY <2>5, <2>6
<1>6. CASE a = x /\ b = y /\ c >= z
  <2>1. p * m \in Nat /\ q * m = p * m /\ y * m = b * m /\ b * m \in Nat
    BY <1>6, <1>0, <1>2
  <2> DEFINE pm == p * m
             bm == b * m
  <2>2. Digits(n, a, b, c) = pm + bm + c /\ Digits(n, x, y, z) = pm + bm + z
        /\ pm \in Nat /\ bm \in Nat /\ c \in Nat /\ z \in Nat
    BY <2>1, <1>3
  <2> HIDE DEF pm, bm
  <2> QED  BY <2>2, <1>6
<1> QED  BY <1>4, <1>5, <1>6

LEMMA BetterScores ==
    ASSUME NEW s \in Sectors, NEW t \in Sectors
    PROVE  /\ Score(s) \in Int
           /\ Better(s, t) => Score(t) <= Score(s)
           /\ ~Better(s, t) => Score(s) <= Score(t)
<1> DEFINE n == Cardinality(Ids)
           Size(r) == Cardinality(DOMAIN r)
           Goods(r) == SectorsIn(r, {Good, Stable})
           Stables(r) == SectorsIn(r, {Stable})
<1>1. /\ n \in Nat
      /\ Size(s) \in 0..n /\ Goods(s) \in 0..n /\ Stables(s) \in 0..n
      /\ Size(t) \in 0..n /\ Goods(t) \in 0..n /\ Stables(t) \in 0..n
  BY SectorsInType
<1>2. /\ Score(s) = Digits(n, Size(s), Goods(s), Stables(s))
      /\ Score(t) = Digits(n, Size(t), Goods(t), Stables(t))
  BY DEF Score, Digits
<1>3. Better(s, t) <=> \/ Size(s) > Size(t)
                       \/ Size(s) = Size(t) /\ Goods(s) > Goods(t)
                       \/ Size(s) = Size(t) /\ Goods(s) = Goods(t) /\ Stables(s) > Stables(t)
  BY DEF Better
<1> HIDE DEF n, Size, Goods, Stables
<1>4. \A a, b, c \in 0..n : Digits(n, a, b, c) \in Int
  BY <1>1 DEF Digits
<1>8. Score(s) \in Int /\ Score(t) \in Int
  BY <1>1, <1>2, <1>4
<1>5. ASSUME Better(s, t)
      PROVE  Score(s) >= Score(t)
  <2>1. Digits(n, Size(s), Goods(s), Stables(s)) >= Digits(n, Size(t), Goods(t), Stables(t))
    <3>1. \/ Size(s) > Size(t)
          \/ Size(s) = Size(t) /\ Goods(s) > Goods(t)
          \/ Size(s) = Size(t) /\ Goods(s) = Goods(t) /\ Stables(s) >= Stables(t)
      BY <1>1, <1>3, <1>5
    <3> QED  BY <1>1, <3>1, DigitsOrder, Zenon
  <2> QED  BY <1>2, <2>1
<1>6. ASSUME ~Better(s, t)
      PROVE  Score(t) >= Score(s)
  <2>1. \/ Size(t) > Size(s)
        \/ Size(t) = Size(s) /\ Goods(t) > Goods(s)
        \/ Size(t) = Size(s) /\ Goods(t) = Goods(s) /\ Stables(t) >= Stables(s)
    BY <1>1, <1>3, <1>6
  <2>2. Digits(n, Size(t), Goods(t), Stables(t)) >= Digits(n, Size(s), Goods(s), Stables(s))
    BY <1>1, <2>1, DigitsOrder, Zenon
  <2> QED  BY <1>2, <2>2
<1> QED  BY <1>5, <1>6, <1>8

-----------------------------------------------------------------------------
(* What a read has done when it stores.  The invariants speak of one reader *)
(* and what it has loaded; a step of another one leaves both alone.         *)

\* A reader's record changes by its own steps only, and a read that ends leaves nothing.
LEMMA OwnSteps ==
    ASSUME TypeInv, [Next]_vars, NEW r \in Readers
    PROVE  \/ reading'[r] = reading[r] /\ history'[r] = history[r]
           \/ reading'[r] = NoRead /\ history'[r] = NoHistory
           \/ reading'[r].step \in {"load", "fetch"} /\ history'[r] = history[r]
           \/ FirstLoad(r) \/ AskMore(r) \/ Rescan(r)
<1>0. reading \in [Readers -> Reading] /\ DOMAIN history = Readers
  BY DEF TypeInv, TypeOK
<1>1. ASSUME NEW s \in Readers, s # r, Ask(s) \/ Proceed(s) \/ LoadFails(s)
      PROVE  reading'[r] = reading[r] /\ history'[r] = history[r]
  BY <1>0, <1>1 DEF Ask, Proceed, FirstLoad, AskMore, Rescan, Store, Fetch, LoadFails
<1>2. ASSUME Fetch(r) \/ LoadFails(r)
      PROVE  reading'[r] = NoRead /\ history'[r] = NoHistory
  BY <1>0, <1>2 DEF Fetch, LoadFails
<1>3. ASSUME Ask(r) \/ Store(r)
      PROVE  reading'[r].step \in {"load", "fetch"} /\ history'[r] = history[r]
  BY <1>0, <1>3 DEF Ask, Store, Reading
<1>4. ASSUME ClearCache \/ Write \/ Clear \/ FlipSides \/ UNCHANGED vars
      PROVE  reading'[r] = reading[r] /\ history'[r] = history[r]
  BY <1>4 DEF ClearCache, Write, Clear, FlipSides, vars
<1> QED  BY <1>1, <1>2, <1>3, <1>4 DEF Next, Proceed

LEMMA FirstLoadShape ==
    ASSUME TypeInv, NEW r \in Readers, FirstLoad(r)
    PROVE  /\ reading'[r].step = "ask"
           /\ reading'[r].kept \in Loads
           /\ reading'[r].rescans =
                 [OptionPolicy(Rescans) EXCEPT !.wasChange = DOMAIN reading'[r].kept # {}]
           /\ reading'[r].retries = OptionPolicy(Retries)
           /\ history'[r].seen = {reading'[r].kept} /\ history'[r].spent = 0
<1>0. reading \in [Readers -> Reading] /\ DOMAIN history = Readers
  BY DEF TypeInv, TypeOK
<1>1. PICK t \in Loads :
        /\ reading' = [reading EXCEPT ![r] =
              [@ EXCEPT !.step = "ask", !.kept = t,
                 !.rescans = [OptionPolicy(Rescans) EXCEPT !.wasChange = DOMAIN t # {}],
                 !.retries = OptionPolicy(Retries)]]
        /\ history' = [history EXCEPT ![r] = [seen |-> {t}, spent |-> 0]]
  BY DEF FirstLoad
<1>2. reading'[r].kept = t /\ reading'[r].step = "ask"
      /\ reading'[r].retries = OptionPolicy(Retries)
      /\ reading'[r].rescans = [OptionPolicy(Rescans) EXCEPT !.wasChange = DOMAIN t # {}]
  BY <1>0, <1>1 DEF Reading
<1>3. history'[r] = [seen |-> {t}, spent |-> 0]
  BY <1>0, <1>1
<1> QED  BY <1>1, <1>2, <1>3

LEMMA AskMoreShape ==
    ASSUME TypeInv, NEW r \in Readers, AskMore(r)
    PROVE  /\ reading[r].step = "ask"
           /\ reading'[r].step = IF GoesOn(reading[r]) THEN "rescan" ELSE "store"
           /\ reading'[r].kept = reading[r].kept
           /\ reading'[r].rescans = Asked(reading[r].rescans)
           /\ reading'[r].retries = IF HasMoreRetry(reading[r].rescans) THEN reading[r].retries
                                    ELSE Asked(reading[r].retries)
           /\ history'[r] = history[r]
BY DEF TypeInv, TypeOK, AskMore, Reading

LEMMA RescanShape ==
    ASSUME TypeInv, NEW r \in Readers, Rescan(r)
    PROVE  /\ reading[r].step = "rescan" /\ reading'[r].step = "ask"
           /\ reading'[r].retries = Minus(reading[r].retries, Revs)
           /\ history'[r].spent = Spent(history[r])
           /\ \E t \in Loads :
                 /\ history'[r].seen = history[r].seen \cup {t}
                 /\ \/ /\ Better(t, reading[r].kept)
                       /\ reading'[r].kept = t
                       /\ reading'[r].rescans = Minus(Changed(reading[r].rescans), Revs)
                    \/ /\ ~Better(t, reading[r].kept)
                       /\ reading'[r].kept = reading[r].kept
                       /\ reading'[r].rescans = Minus(reading[r].rescans, Revs)
<1> DEFINE b == reading[r]
<1>0. reading \in [Readers -> Reading] /\ DOMAIN history = Readers /\ b \in Reading
  BY DEF TypeInv, TypeOK
<1>1. PICK t \in Loads :
        /\ reading' = [reading EXCEPT ![r] =
              [b EXCEPT !.step = "ask",
                        !.kept = IF Better(t, b.kept) THEN t ELSE b.kept,
                        !.rescans = Minus(IF Better(t, b.kept) THEN Changed(b.rescans)
                                          ELSE b.rescans, Revs),
                        !.retries = Minus(b.retries, Revs)]]
        /\ history' = [history EXCEPT ![r] =
              [seen |-> @.seen \cup {t}, spent |-> Spent(@)]]
  BY DEF Rescan
<1>2. /\ reading'[r].step = "ask"
      /\ reading'[r].retries = Minus(b.retries, Revs)
      /\ reading'[r].kept = (IF Better(t, b.kept) THEN t ELSE b.kept)
      /\ reading'[r].rescans = Minus(IF Better(t, b.kept) THEN Changed(b.rescans)
                                     ELSE b.rescans, Revs)
  BY <1>0, <1>1 DEF Reading
<1>3. history'[r] = [seen |-> history[r].seen \cup {t}, spent |-> Spent(history[r])]
  BY <1>0, <1>1
<1>4. b.step = "rescan"
  BY DEF Rescan
<1> QED  BY <1>2, <1>3, <1>4

\* No load of the read was better than the one that is kept.
BestInv ==
    \A r \in Readers :
        reading[r].step \in {"ask", "rescan", "store"} =>
            \A t \in history[r].seen : Score(t) <= Score(reading[r].kept)

LEMMA BestNext == TypeInv /\ BestInv /\ [Next]_vars => BestInv'
<1> SUFFICES ASSUME TypeInv, BestInv, [Next]_vars, NEW r \in Readers,
                    reading'[r].step \in {"ask", "rescan", "store"},
                    NEW t \in history'[r].seen
             PROVE  Score(t) <= Score(reading'[r].kept)
  <2>1. \A t : Score(t)' = Score(t)
    BY DEF Score, SectorsIn
  <2> QED  BY <2>1 DEF BestInv, Score, SectorsIn
<1>1. CASE reading'[r] = reading[r] /\ history'[r] = history[r]
  BY <1>1 DEF BestInv
<1>2. CASE reading'[r] = NoRead /\ history'[r] = NoHistory
  BY <1>2 DEF NoRead
<1>3. CASE FirstLoad(r)
  <2>1. history'[r].seen = {reading'[r].kept} /\ reading'[r].kept \in Loads
    BY <1>3, FirstLoadShape, Zenon
  <2>2. t = reading'[r].kept /\ t \in Sectors
    BY <2>1, DemandDiskAssumption
  <2> QED  BY <2>2, BetterScores
<1>4. CASE AskMore(r)
  BY <1>4, AskMoreShape DEF BestInv
<1>5. CASE Rescan(r)
  <2>1. reading[r].step = "rescan" /\ reading[r].kept \in Sectors
        /\ \A u \in history[r].seen : u \in Sectors
    BY <1>5, DemandDiskAssumption DEF Rescan, TypeInv, TypeOK, Consistent
  <2>2. PICK l \in Loads :
          /\ history'[r].seen = history[r].seen \cup {l}
          /\ \/ Better(l, reading[r].kept) /\ reading'[r].kept = l
             \/ ~Better(l, reading[r].kept) /\ reading'[r].kept = reading[r].kept
    BY <1>5, RescanShape, Zenon
  <2>3. t \in history[r].seen \/ t = l
    BY <2>2
  <2>4. l \in Sectors
    BY DemandDiskAssumption
  <2>5. t \in history[r].seen => Score(t) <= Score(reading[r].kept) /\ Score(t) \in Int
    BY <2>1, BetterScores DEF BestInv
  <2> DEFINE old == reading[r].kept
  <2>6. /\ Score(l) \in Int /\ Score(old) \in Int
        /\ Better(l, old) => Score(old) <= Score(l)
        /\ ~Better(l, old) => Score(l) <= Score(old)
    BY <2>1, <2>4, BetterScores
  <2> HIDE DEF old
  <2>7. CASE Better(l, old) /\ reading'[r].kept = l
    BY <2>3, <2>5, <2>6, <2>7 DEF old
  <2>8. CASE ~Better(l, old) /\ reading'[r].kept = old
    BY <2>3, <2>5, <2>6, <2>8 DEF old
  <2> QED  BY <2>2, <2>7, <2>8 DEF old
<1> QED  BY <1>1, <1>2, <1>3, <1>4, <1>5, OwnSteps

\* For every medium and all amounts: of all loads of a read none was better than
\* the track it stores.
THEOREM DemandDiskBest == Spec => []BestIsKept
<1>1. Init => BestInv
  BY DEF Init, NoRead, BestInv
<1>2. BestInv => BestIsKept
  BY DEF BestInv, BestIsKept
<1> QED  BY <1>1, <1>2, BestNext, DemandDiskTypes, PTL DEF Spec

-----------------------------------------------------------------------------
(* The counters.  What a counter has lost was spent, unless the rescans are *)
(* to start over, or have no sector yet to start over for.                  *)

\* What is counted as spent grows by a load until it exceeds every amount.
LEMMA SpentGrows ==
    ASSUME NEW h \in [seen : SUBSET Loads, spent : Nat]
    PROVE  /\ Spent(h) \in Nat
           /\ \/ Spent(h) = h.spent + Revs
              \/ /\ Spent(h) >= OptionPolicy(Rescans).initial
                 /\ Spent(h) >= OptionPolicy(Retries).retryTimes
<1>1. /\ OptionPolicy(Rescans).initial \in Nat
      /\ OptionPolicy(Retries).initial \in Nat
      /\ OptionPolicy(Retries).retryTimes \in Int
      /\ OptionPolicy(Retries).retryTimes <= OptionPolicy(Retries).initial
  BY OptionFacts, DemandDiskAssumption
<1>2. Enough \in Nat /\ Enough >= OptionPolicy(Rescans).initial
      /\ Enough >= OptionPolicy(Retries).initial
  BY <1>1, DemandDiskAssumption DEF Enough
<1> QED  BY <1>1, <1>2, DemandDiskAssumption DEF Spent

\* The retries are never told of a change; what they lost was spent.
RetriesLeft(b, h) ==
    LET granted == OptionPolicy(Retries).retryTimes
    IN  /\ b.step \in {"ask", "rescan"} =>
              /\ ~b.retries.wasChange
              /\ h.spent >= granted \/ h.spent + b.retries.retryTimes >= granted
        /\ b.step = "store" /\ ~HasAllStableData(b.kept) => h.spent >= granted

RetriesInv == \A r \in Readers : RetriesLeft(reading[r], history[r])

\* What the rescans lost since they started over was spent.
RescansLeft(b, h) ==
    LET granted == OptionPolicy(Rescans).initial
    IN  /\ b.step \in {"ask", "rescan"} =>
              /\ b.rescans.initial = granted
              /\ \/ h.spent >= granted
                 \/ h.spent + b.rescans.retryTimes >= granted
                 \/ b.rescans.sinceLastChange /\ (b.rescans.wasChange \/ DOMAIN b.kept = {})
        /\ b.step = "store" /\ DOMAIN b.kept # {} => h.spent >= granted

RescansInv == \A r \in Readers : RescansLeft(reading[r], history[r])

LEMMA RetriesNext == TypeInv /\ RetriesInv /\ [Next]_vars => RetriesInv'
<1> SUFFICES ASSUME TypeInv, RetriesInv, [Next]_vars, NEW r \in Readers
             PROVE  RetriesLeft(reading'[r], history'[r])
  BY DEF RetriesInv, RetriesLeft, HasAllStableData, OptionPolicy, PolicyOf
<1> DEFINE granted == OptionPolicy(Retries).retryTimes
           p == reading[r].retries
           h == history[r]
<1>0. /\ granted \in Int /\ h \in [seen : SUBSET Loads, spent : Nat] /\ h.spent \in Nat
      /\ p \in Policy /\ p.retryTimes \in Int
      /\ reading[r].rescans \in Policy
      /\ Revs \in Nat
      /\ RetriesLeft(reading[r], h)
  BY OptionFacts, DemandDiskAssumption DEF RetriesInv, TypeInv, TypeOK, Reading, Policy
<1>1. CASE reading'[r] = reading[r] /\ history'[r] = history[r]
  BY <1>0, <1>1
<1>2. CASE reading'[r] = NoRead \/ reading'[r].step \in {"load", "fetch"}
  BY <1>2 DEF NoRead, RetriesLeft
<1>3. CASE FirstLoad(r)
  <2>1. reading'[r].step = "ask" /\ reading'[r].retries = OptionPolicy(Retries)
        /\ history'[r].spent = 0
    BY <1>3, FirstLoadShape, Zenon
  <2>2. ~reading'[r].retries.wasChange /\ reading'[r].retries.retryTimes = granted
    BY <2>1, OptionFacts, DemandDiskAssumption
  <2>3. 0 + granted >= granted
    BY <1>0
  <2> QED  BY <2>1, <2>2, <2>3 DEF RetriesLeft
<1>4. CASE AskMore(r)
  <2>1. /\ ~p.wasChange
        /\ h.spent >= granted \/ h.spent + p.retryTimes >= granted
    BY <1>0, <1>4, AskMoreShape DEF RetriesLeft
  <2>2. Asked(p) = p
    BY <1>0, <2>1, AskedCases
  <2>3. /\ reading'[r].retries = p /\ history'[r] = h /\ reading'[r].kept = reading[r].kept
        /\ reading'[r].step = IF GoesOn(reading[r]) THEN "rescan" ELSE "store"
    BY <1>4, <2>2, AskMoreShape
  <2>4. ~GoesOn(reading[r]) /\ ~HasAllStableData(reading[r].kept) => p.retryTimes <= 0
    BY <1>0, <2>2 DEF GoesOn, HasMoreRetry
  <2>5. reading'[r].step = "store" /\ ~HasAllStableData(reading'[r].kept) => h.spent >= granted
    BY <1>0, <2>1, <2>3, <2>4
  <2> QED  BY <2>1, <2>3, <2>5 DEF RetriesLeft
<1>5. CASE Rescan(r)
  <2>1. /\ ~p.wasChange
        /\ h.spent >= granted \/ h.spent + p.retryTimes >= granted
    BY <1>0, <1>5, RescanShape DEF RetriesLeft
  <2>2. /\ reading'[r].step = "ask" /\ reading'[r].retries = Minus(p, Revs)
        /\ history'[r].spent = Spent(h)
    BY <1>5, RescanShape, Zenon
  <2>3. ~reading'[r].retries.wasChange /\ reading'[r].retries.retryTimes = p.retryTimes - Revs
    BY <1>0, <2>1, <2>2, MinusFields
  <2>4. Spent(h) \in Nat /\ (Spent(h) = h.spent + Revs \/ Spent(h) >= granted)
    BY <1>0, SpentGrows
  <2> HIDE DEF granted, p, h
  <2>5. Spent(h) >= granted \/ Spent(h) + (p.retryTimes - Revs) >= granted
    BY <1>0, <2>1, <2>4
  <2> QED  BY <2>2, <2>3, <2>5 DEF RetriesLeft, granted
<1> QED  BY <1>1, <1>2, <1>3, <1>4, <1>5, OwnSteps

\* For every amount and every medium: a read gives unstable data up only after the
\* revolutions that its retries grant.
THEOREM DemandDiskRetries == Spec => []RetriesAreMade
<1>1. Init => RetriesInv
  BY DEF Init, NoRead, RetriesInv, RetriesLeft
<1>2. RetriesInv => RetriesAreMade
  BY DEF RetriesInv, RetriesLeft, RetriesAreMade
<1> QED  BY <1>1, <1>2, RetriesNext, DemandDiskTypes, PTL DEF Spec

LEMMA RescansNext == TypeInv /\ RescansInv /\ [Next]_vars => RescansInv'
<1> SUFFICES ASSUME TypeInv, RescansInv, [Next]_vars, NEW r \in Readers
             PROVE  RescansLeft(reading'[r], history'[r])
  BY DEF RescansInv, RescansLeft, OptionPolicy, PolicyOf
<1> DEFINE granted == OptionPolicy(Rescans).initial
           p == reading[r].rescans
           h == history[r]
<1>0. /\ granted \in Nat /\ h \in [seen : SUBSET Loads, spent : Nat] /\ h.spent \in Nat
      /\ p \in Policy /\ p.retryTimes \in Int
      /\ Revs \in Nat
      /\ RescansLeft(reading[r], h)
  BY OptionFacts, DemandDiskAssumption DEF RescansInv, TypeInv, TypeOK, Reading, Policy
<1>1. CASE reading'[r] = reading[r] /\ history'[r] = history[r]
  BY <1>0, <1>1
<1>2. CASE reading'[r] = NoRead \/ reading'[r].step \in {"load", "fetch"}
  BY <1>2 DEF NoRead, RescansLeft
<1>3. CASE FirstLoad(r)
  <2> DEFINE x == DOMAIN reading'[r].kept # {}
             o == OptionPolicy(Rescans)
  <2>1. reading'[r].step = "ask" /\ reading'[r].rescans = [o EXCEPT !.wasChange = x]
        /\ history'[r].spent = 0
    BY <1>3, FirstLoadShape, Zenon
  <2>2. o \in Policy /\ x \in BOOLEAN
    BY PolicyTypes, DemandDiskAssumption
  <2>3. o.initial = granted /\ (o.sinceLastChange \/ o.retryTimes = granted)
    BY OptionFacts, DemandDiskAssumption
  <2>4. (DOMAIN reading'[r].kept = {}) <=> ~x
    OBVIOUS
  <2> HIDE DEF o, x
  <2>5. /\ reading'[r].rescans.initial = granted
        /\ reading'[r].rescans.sinceLastChange = o.sinceLastChange
        /\ reading'[r].rescans.retryTimes = o.retryTimes
        /\ reading'[r].rescans.wasChange = x
    BY <2>1, <2>2, <2>3 DEF Policy
  <2> QED  BY <1>0, <2>1, <2>3, <2>4, <2>5 DEF RescansLeft
<1>4. CASE AskMore(r)
  <2>1. /\ p.initial = granted
        /\ \/ h.spent >= granted \/ h.spent + p.retryTimes >= granted
           \/ p.sinceLastChange /\ (p.wasChange \/ DOMAIN reading[r].kept = {})
    BY <1>0, <1>4, AskMoreShape DEF RescansLeft
  <2>2. /\ reading'[r].rescans = Asked(p) /\ history'[r] = h
        /\ reading'[r].kept = reading[r].kept
        /\ reading'[r].step = IF GoesOn(reading[r]) THEN "rescan" ELSE "store"
    BY <1>4, AskMoreShape
  <2>3. /\ Asked(p).initial = granted /\ Asked(p).retryTimes \in Int
        /\ \/ h.spent >= granted \/ h.spent + Asked(p).retryTimes >= granted
           \/ Asked(p).sinceLastChange /\ DOMAIN reading[r].kept = {}
    <3>1. CASE p.sinceLastChange /\ p.wasChange
      BY <1>0, <2>1, <3>1, AskedCases
    <3>2. CASE ~(p.sinceLastChange /\ p.wasChange)
      <4>1. Asked(p) = p
        BY <1>0, <3>2, AskedCases
      <4> QED  BY <1>0, <2>1, <3>2, <4>1
    <3> QED  BY <3>1, <3>2
  <2>4. ~GoesOn(reading[r]) => Asked(p).retryTimes <= 0
    BY <2>3 DEF GoesOn, HasMoreRetry
  <2>5. reading'[r].step = "store" /\ DOMAIN reading'[r].kept # {} => h.spent >= granted
    BY <1>0, <2>2, <2>3, <2>4
  <2> QED  BY <2>2, <2>3, <2>5 DEF RescansLeft
<1>5. CASE Rescan(r)
  <2>1. /\ p.initial = granted
        /\ \/ h.spent >= granted \/ h.spent + p.retryTimes >= granted
           \/ p.sinceLastChange /\ (p.wasChange \/ DOMAIN reading[r].kept = {})
    BY <1>0, <1>5, RescanShape DEF RescansLeft
  <2>2. /\ reading'[r].step = "ask" /\ history'[r].spent = Spent(h)
        /\ \/ reading'[r].rescans = Minus(Changed(p), Revs)
           \/ reading'[r].rescans = Minus(p, Revs) /\ reading'[r].kept = reading[r].kept
    BY <1>5, RescanShape, Zenon
  <2>3. /\ reading'[r].rescans.initial = granted
        /\ reading'[r].rescans.sinceLastChange = p.sinceLastChange
        /\ reading'[r].rescans.retryTimes = p.retryTimes - Revs
        /\ \/ reading'[r].rescans.wasChange
           \/ reading'[r].rescans.wasChange = p.wasChange /\ reading'[r].kept = reading[r].kept
    BY <1>0, <2>1, <2>2, MinusFields
  <2>4. Spent(h) \in Nat /\ (Spent(h) = h.spent + Revs \/ Spent(h) >= granted)
    BY <1>0, SpentGrows
  <2> DEFINE q == reading'[r].rescans
             old == reading[r].kept
             new == reading'[r].kept
  <2> HIDE DEF granted, p, h, q, old, new
  <2>5. \/ Spent(h) >= granted \/ Spent(h) + q.retryTimes >= granted
        \/ q.sinceLastChange /\ (q.wasChange \/ DOMAIN new = {})
    BY <1>0, <2>1, <2>3, <2>4 DEF q, old, new
  <2> QED  BY <2>2, <2>3, <2>5 DEF RescansLeft, granted, q, new
<1> QED  BY <1>1, <1>2, <1>3, <1>4, <1>5, OwnSteps

\* For every amount and every medium: a read that found sectors has made as many
\* rescans as the amount, also when the last of them were granted by a change.
THEOREM DemandDiskRescans == Spec => []RescansAreMade
<1>1. Init => RescansInv
  BY DEF Init, NoRead, RescansInv, RescansLeft
<1>2. RescansInv => RescansAreMade
  BY DEF RescansInv, RescansLeft, RescansAreMade
<1> QED  BY <1>1, <1>2, RescansNext, DemandDiskTypes, PTL DEF Spec

=============================================================================
