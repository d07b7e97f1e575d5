-------------------------- MODULE WhispThreadPool --------------------------
(***************************************************************************)
(* service/whisp_thread_pool: workers that take tasks from a queue, on     *)
(* tasks that use a connection pool, as the threads of test_db.cpp do.     *)
(*                                                                         *)
(* Two producers call enqueue; the owner resizes the pool and destroys it. *)
(* A region under queue_mutex is one step; notify_one comes after it.      *)
(* A worker's thread that has returned stays in the vector until it is     *)
(* joined and the vector is cut.                                           *)
(***************************************************************************)
EXTENDS MySQLConnectionPool

CONSTANTS
    Producers,
    num_threads,  \* of the constructor
    Sizes,        \* what resize is called with
    MaxTasks,     \* bound: enqueue calls
    MaxResizes    \* bound: resize calls

ASSUME ThreadPoolAssumption ==
    /\ num_threads \in Nat /\ Sizes \subseteq Nat /\ MaxTasks \in Nat /\ MaxResizes \in Nat
    /\ IsFiniteSet(Clients) /\ IsFiniteSet(Producers)
    /\ num_threads \in 0 .. Cardinality(Clients)
    /\ Clients = 1 .. Cardinality(Clients)

VARIABLES
    worker,    \* what the thread of each place of workers does
    size,      \* workers.size()
    tasks,     \* tasks are numbers from 1 in the order they were accepted
    stop,
    producer,  \* what each producer does
    owner,     \* what the owner does, and its argument
    accepted,  \* how many tasks were accepted
    running,   \* the task each worker runs, 0 for none
    ran,       \* how often each task was run
    calls, resizes

poolVars == <<worker, size, tasks, stop, producer, owner, accepted, running, ran, calls, resizes>>

vars == <<connVars, poolVars>>

Destroy == -1

Idle == [at |-> "idle", to |-> 0]

Init ==
    /\ ConnInit
    /\ worker = [w \in Clients |-> IF w <= num_threads THEN "lock" ELSE "none"]
    /\ size = num_threads
    /\ tasks = <<>> /\ stop = FALSE
    /\ producer = [p \in Producers |-> "idle"]
    /\ owner = Idle
    /\ accepted = 0 /\ calls = 0 /\ resizes = 0
    /\ running = [w \in Clients |-> 0]
    /\ ran = [t \in 1 .. MaxTasks |-> 0]
-----------------------------------------------------------------------------
\* Under the lock: a stopped pool throws.  Nothing is enqueued once the pool is being
\* destroyed: the object must outlive its callers.
enqueue(p) ==
    /\ producer[p] = "idle" /\ owner.to # Destroy /\ calls < MaxTasks
    /\ calls' = calls + 1
    /\ IF stop
       THEN UNCHANGED <<tasks, accepted, producer>>
       ELSE /\ accepted' = accepted + 1
            /\ tasks' = Append(tasks, accepted + 1)
            /\ producer' = [producer EXCEPT ![p] = "notify"]
    /\ UNCHANGED <<worker, size, stop, owner, running, ran, resizes, connVars>>

WaitingWorkers == {w \in Clients : worker[w] = "wait"}

Become(w, state) == worker' = [worker EXCEPT ![w] = state]

WakeOne ==
    IF WaitingWorkers = {} THEN UNCHANGED worker
    ELSE \E w \in WaitingWorkers : Become(w, "lock")

\* condition.notify_one(), after the lock is given up.
notify_one(p) ==
    /\ producer[p] = "notify"
    /\ producer' = [producer EXCEPT ![p] = "idle"]
    /\ WakeOne
    /\ UNCHANGED <<size, tasks, stop, owner, accepted, running, ran, calls, resizes, connVars>>
-----------------------------------------------------------------------------
(***************************************************************************)
(* The loop of a worker.                                                   *)
(***************************************************************************)
\* The variant that leaves as soon as the pool is stopped.
LeaveAtOnce == stop

Leave == stop /\ tasks = <<>>

\* The variant that copies the front.
Peek == UNCHANGED tasks

Pop == tasks' = Tail(tasks)

\* Under the lock, at the start of a round and whenever wait is woken.
WorkerLock(w) ==
    /\ worker[w] = "lock"
    /\ \/ /\ Leave
          /\ Become(w, "ended")
          /\ UNCHANGED <<tasks, running, connVars>>
       \/ /\ ~stop /\ tasks = <<>>
          /\ Become(w, "wait")
          /\ UNCHANGED <<tasks, running, connVars>>
       \/ /\ ~Leave /\ tasks # <<>>
          /\ Pop
          /\ running' = [running EXCEPT ![w] = Head(tasks)]
          /\ Become(w, "run")
          /\ Go(w, Getting)
          /\ UNCHANGED <<kind, conn_pool_, made, held, nulls>>
    /\ UNCHANGED <<size, stop, producer, owner, accepted, ran, calls, resizes>>

SpuriousWake(w) ==
    /\ worker[w] = "wait"
    /\ Become(w, "lock")
    /\ UNCHANGED <<size, tasks, stop, producer, owner, accepted, running, ran, calls, resizes, connVars>>

\* task(): external, a call that uses a connection; what it throws is caught.
RunTask(w) == ConnStep(w) /\ UNCHANGED poolVars

TaskDone(w) ==
    /\ worker[w] = "run" /\ client[w] = Free
    /\ Become(w, "lock")
    /\ ran' = [ran EXCEPT ![running[w]] = @ + 1]
    /\ running' = [running EXCEPT ![w] = 0]
    /\ UNCHANGED <<size, tasks, stop, producer, owner, accepted, calls, resizes, connVars>>
-----------------------------------------------------------------------------
(***************************************************************************)
(* The owner.                                                              *)
(***************************************************************************)
StopPool(to) ==
    /\ stop' = TRUE
    /\ owner' = [at |-> "notify_all", to |-> to]

\* The destructor, called when the producers are done with the pool.
Destructor ==
    /\ owner.at = "idle" /\ \A p \in Producers : producer[p] = "idle"
    /\ StopPool(Destroy)
    /\ UNCHANGED <<worker, size, tasks, producer, accepted, running, ran, calls, resizes, connVars>>

\* resize: fewer threads stops all of them, more threads starts the new ones.
resize(n) ==
    /\ owner.at = "idle" /\ resizes < MaxResizes
    /\ resizes' = resizes + 1
    /\ \/ n < size /\ StopPool(n) /\ UNCHANGED <<worker, size>>
       \/ /\ n > size
          /\ size' = n
          /\ worker' = [w \in Clients |-> IF w \in size + 1 .. n THEN "lock" ELSE worker[w]]
          /\ UNCHANGED <<stop, owner>>
    /\ UNCHANGED <<tasks, producer, accepted, running, ran, calls, connVars>>

WakeAll == worker' = [w \in Clients |-> IF worker[w] = "wait" THEN "lock" ELSE worker[w]]

notify_all ==
    /\ owner.at = "notify_all"
    /\ WakeAll
    /\ owner' = [owner EXCEPT !.at = "join"]
    /\ UNCHANGED <<size, tasks, stop, producer, accepted, running, ran, calls, resizes, connVars>>

\* The destructor joins every thread, resize the first size - n of them: it cuts the
\* vector behind its first n threads, and to destroy a thread that was not joined ends
\* the process.
Joined == IF owner.to = Destroy THEN 1 .. size ELSE 1 .. size - owner.to

Cut == IF owner.to = Destroy THEN 1 .. size ELSE owner.to + 1 .. size

join ==
    /\ owner.at = "join" /\ \A w \in Joined : worker[w] \in {"ended", "none"}
    /\ IF Cut \subseteq Joined
       THEN /\ owner' = IF owner.to = Destroy THEN [owner EXCEPT !.at = "gone"] ELSE Idle
            /\ worker' = [w \in Clients |-> IF w \in Cut THEN "none" ELSE worker[w]]
            /\ size' = size - Cardinality(Cut)
            /\ stop' = (owner.to = Destroy)
       ELSE /\ owner' = [owner EXCEPT !.at = "terminated"]
            /\ UNCHANGED <<worker, size, stop>>
    /\ UNCHANGED <<tasks, producer, accepted, running, ran, calls, resizes, connVars>>
-----------------------------------------------------------------------------
ProducerStep(p) == enqueue(p) \/ notify_one(p)

WorkerStep(w) == WorkerLock(w) \/ RunTask(w) \/ TaskDone(w)

Wake(w) == SpuriousWake(w) \/ (Spurious(w) /\ UNCHANGED poolVars)

OwnerStep == notify_all \/ join

Next ==
    /\ owner.at # "terminated"
    /\ \/ \E p \in Producers : ProducerStep(p)
       \/ \E w \in Clients : WorkerStep(w) \/ Wake(w)
       \/ \E n \in Sizes : resize(n)
       \/ Destructor \/ OwnerStep

Spec == Init /\ [][Next]_vars

\* Threads are scheduled, time passes and a session answers.  Nobody is made to call
\* enqueue or resize; the pool is destroyed in the end or it is not.
FairSpec ==
    /\ Spec
    /\ \A w \in Clients : WF_vars(owner.at # "terminated" /\ WorkerStep(w))
    /\ \A w \in Clients : WF_vars(owner.at # "terminated" /\ Timeout(w) /\ UNCHANGED poolVars)
    /\ \A p \in Producers : WF_vars(owner.at # "terminated" /\ notify_one(p))
    /\ WF_vars(OwnerStep)
-----------------------------------------------------------------------------
\* The type of the variables; a thread that exists is one of the first size places,
\* so that resize and the destructor reach it.
TypeOK ==
    /\ ConnTypeOK
    /\ worker \in [Clients -> {"none", "lock", "wait", "run", "ended"}]
    /\ size \in 0 .. Cardinality(Clients)
    /\ \A w \in Clients : worker[w] # "none" => w <= size
    /\ tasks \in Seq(1 .. MaxTasks) /\ accepted \in 0 .. MaxTasks
    /\ running \in [Clients -> 0 .. MaxTasks]
    /\ stop \in BOOLEAN

\* A task that enqueue accepted is in the queue, with one worker, or done, and it is
\* so once: no worker runs a task again, and the tasks are taken in the order they
\* were accepted.
RunOnce ==
    /\ \A i \in DOMAIN tasks : tasks[i] = accepted - Len(tasks) + i
    /\ \A t \in 1 .. MaxTasks :
          ran[t] + Cardinality({w \in Clients : running[w] = t})
            = IF t <= accepted - Len(tasks) THEN 1 ELSE 0

\* A worker sleeps only when there is nothing to do: as long as one waits, there is
\* for every task in the queue a worker on its way to the lock or a producer on its
\* way to notify_one.  No notification is lost between enqueue's unlock and its
\* notify_one, and a stopped pool has none that sleeps once notify_all was called.
NoTaskOverlooked ==
    WaitingWorkers # {} =>
        /\ Len(tasks) <= Cardinality({w \in Clients : worker[w] = "lock"})
                           + Cardinality({p \in Producers : producer[p] = "notify"})
        /\ stop => owner.at = "notify_all"

Queued(t) == \E i \in DOMAIN tasks : tasks[i] = t

\* What was accepted while the pool had a thread is taken by one, also when the pool
\* is stopped meanwhile: the threads leave when the queue is empty.
Served ==
    \A t \in 1 .. MaxTasks :
        (Queued(t) /\ size > 0) ~> (~Queued(t) \/ owner.at = "terminated")

\* The destructor returns, and resize does: no thread waits for ever, neither for a
\* task nor for a connection that another task has.
OwnerReturns == owner.at = "notify_all" ~> owner.at \in {"idle", "gone", "terminated"}
=============================================================================
