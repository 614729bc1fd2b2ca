----------------------------- MODULE JobsQueue -----------------------------
(***************************************************************************)
(* The job queue of src/src/jobs.c: a singly linked list with a head and a *)
(* tail pointer, one mutex, one condition variable and a finished flag.    *)
(* Producers call push_new_job, workers run worker() (which loops on       *)
(* pop_job), and the main thread calls jobs_queue_finish, joins the        *)
(* workers and calls jobs_queue_destroy, in the order src/src/main.c does. *)
(*                                                                         *)
(* Every access to the shared structure is a step of its own, so that the  *)
(* steps of two threads interleave as the mutex, and nothing else, lets    *)
(* them.  A calloc that fails ends the process (EXIT_IF): for the safety   *)
(* properties that is a behaviour that stops, which Spec allows.           *)
(***************************************************************************)
EXTENDS Naturals, Sequences, FiniteSets

CONSTANTS Jobs,       \* the local contexts pushed, one job_t each
          Producers,  \* the threads that call push_new_job
          Workers,    \* the threads that run worker()
          Main,       \* the thread that finishes, joins and destroys
          NULL        \* the null pointer, and "the mutex is free"

Threads == Producers \cup Workers \cup {Main}

ASSUME JobsQueueAssumption ==
  /\ Workers # {}
  /\ Producers \cap Workers = {}
  /\ Main \notin Producers \cup Workers
  /\ NULL \notin Jobs
  /\ NULL \notin Threads

VARIABLES
  head, tail,   \* queue->head and queue->tail
  next,         \* next[j]: the next field of the job_t that carries j
  finished,     \* queue->finished
  lock,         \* the owner of queue->lock
  memory,       \* memory[j]: the job_t of j is "none", "live" or "freed"
  destroyed,    \* jobs_queue_destroy has run
  pc,           \* where each thread is
  job,          \* each thread's local variable job
  fifo          \* history: the jobs linked and not yet unlinked, in order

queue == <<head, tail, next, finished, memory, destroyed, fifo>>
vars == <<head, tail, next, finished, lock, memory, destroyed, pc, job, fifo>>

Init ==
  /\ head = NULL
  /\ tail = NULL
  /\ next = [j \in Jobs |-> NULL]
  /\ finished = FALSE
  /\ lock = NULL
  /\ memory = [j \in Jobs |-> "none"]
  /\ destroyed = FALSE
  /\ pc = [t \in Threads |-> CASE t \in Producers -> "idle"
                               [] t \in Workers -> "pop"
                               [] OTHER -> "join producers"]
  /\ job = [t \in Threads |-> NULL]
  /\ fifo = <<>>

-----------------------------------------------------------------------------
(* The mutex and the condition variable.                                   *)

Acquire(t, from, to) ==
  /\ pc[t] = from
  /\ lock = NULL
  /\ lock' = t
  /\ pc' = [pc EXCEPT ![t] = to]

Release(t, from, to) ==
  /\ pc[t] = from
  /\ lock' = NULL
  /\ pc' = [pc EXCEPT ![t] = to]

Asleep == {w \in Workers : pc[w] = "asleep"}

\* pthread_cond_signal: one waiting thread wakes up, if there is one.
Signal(t, to) ==
  \/ /\ Asleep = {}
     /\ pc' = [pc EXCEPT ![t] = to]
  \/ \E w \in Asleep : pc' = [pc EXCEPT ![t] = to, ![w] = "woken"]

\* pthread_cond_broadcast: every waiting thread wakes up.
Broadcast(t, to) ==
  pc' = [u \in Threads |-> IF u = t THEN to
                           ELSE IF u \in Asleep THEN "woken" ELSE pc[u]]

-----------------------------------------------------------------------------
(* push_new_job.                                                           *)

\* A mistake the properties must catch: malloc leaves the next field unset.
NewJobMalloc(p) ==
  /\ pc[p] = "idle"
  /\ \E j \in Jobs :
       /\ memory[j] = "none"
       /\ memory' = [memory EXCEPT ![j] = "live"]
       /\ next' = [next EXCEPT ![j] = "garbage"]
       /\ job' = [job EXCEPT ![p] = j]
  /\ pc' = [pc EXCEPT ![p] = "push"]
  /\ UNCHANGED <<head, tail, finished, lock, destroyed, fifo>>

\* The job_t is allocated, zeroed by calloc, before the mutex is taken.
NewJob(p) ==
  /\ pc[p] = "idle"
  /\ \E j \in Jobs :
       /\ memory[j] = "none"
       /\ memory' = [memory EXCEPT ![j] = "live"]
       /\ next' = [next EXCEPT ![j] = NULL]
       /\ job' = [job EXCEPT ![p] = j]
  /\ pc' = [pc EXCEPT ![p] = "push"]
  /\ UNCHANGED <<head, tail, finished, lock, destroyed, fifo>>

PushLock(p) ==
  /\ Acquire(p, "push", "link")
  /\ UNCHANGED <<queue, job>>

PushLink(p) ==
  /\ pc[p] = "link"
  /\ IF tail = NULL
     THEN head' = job[p] /\ UNCHANGED next
     ELSE next' = [next EXCEPT ![tail] = job[p]] /\ UNCHANGED head
  /\ fifo' = Append(fifo, job[p])
  /\ pc' = [pc EXCEPT ![p] = "set tail"]
  /\ UNCHANGED <<tail, finished, lock, memory, destroyed, job>>

PushTail(p) ==
  /\ pc[p] = "set tail"
  /\ tail' = job[p]
  /\ pc' = [pc EXCEPT ![p] = "signal"]
  /\ UNCHANGED <<head, next, finished, lock, memory, destroyed, job, fifo>>

\* A mistake the properties must catch: the producer forgets to signal.
PushNoSignal(p) ==
  /\ pc[p] = "signal"
  /\ pc' = [pc EXCEPT ![p] = "pushed"]
  /\ UNCHANGED <<queue, lock, job>>

PushSignal(p) ==
  /\ pc[p] = "signal"
  /\ Signal(p, "pushed")
  /\ UNCHANGED <<queue, lock, job>>

PushUnlock(p) ==
  /\ Release(p, "pushed", "idle")
  /\ job' = [job EXCEPT ![p] = NULL]
  /\ UNCHANGED queue

\* The producer has nothing more to push: nvd_request or worker() returns.
Stop(p) ==
  /\ pc[p] = "idle"
  /\ pc' = [pc EXCEPT ![p] = "stopped"]
  /\ UNCHANGED <<queue, lock, job>>

-----------------------------------------------------------------------------
(* pop_job and worker.                                                     *)

PopLock(w) ==
  /\ Acquire(w, "pop", "check")
  /\ UNCHANGED <<queue, job>>

\* pthread_cond_wait gives the mutex up and sleeps, as one step.
PopWait(w) ==
  /\ head = NULL
  /\ ~finished
  /\ Release(w, "check", "asleep")
  /\ UNCHANGED <<queue, job>>

\* POSIX lets pthread_cond_wait return without a signal.
SpuriousWakeup(w) ==
  /\ pc[w] = "asleep"
  /\ pc' = [pc EXCEPT ![w] = "woken"]
  /\ UNCHANGED <<queue, lock, job>>

\* A mistake the properties must catch: "if" for "while" around the wait.
WakeUnchecked(w) ==
  /\ Acquire(w, "woken", "fix tail")
  /\ job' = [job EXCEPT ![w] = head]
  /\ head' = IF head = NULL THEN NULL ELSE next[head]
  /\ fifo' = IF fifo = <<>> THEN <<>> ELSE Tail(fifo)
  /\ UNCHANGED <<tail, next, finished, memory, destroyed>>

\* pthread_cond_wait returns only with the mutex held again.
Wake(w) ==
  /\ Acquire(w, "woken", "check")
  /\ UNCHANGED <<queue, job>>

\* A mistake the properties must catch: a finished queue is not drained.
PopFinished(w) ==
  /\ finished
  /\ Release(w, "check", "returned")
  /\ UNCHANGED <<queue, job>>

\* Nothing left and nothing to come: pop_job returns NULL, worker returns.
PopNothing(w) ==
  /\ head = NULL
  /\ finished
  /\ Release(w, "check", "returned")
  /\ UNCHANGED <<queue, job>>

PopHead(w) ==
  /\ pc[w] = "check"
  /\ head # NULL
  /\ job' = [job EXCEPT ![w] = head]
  /\ head' = next[head]
  /\ fifo' = Tail(fifo)
  /\ pc' = [pc EXCEPT ![w] = "fix tail"]
  /\ UNCHANGED <<tail, next, finished, lock, memory, destroyed>>

\* A mistake the properties must catch: the tail outlives the last job.
PopKeepTail(w) ==
  /\ pc[w] = "fix tail"
  /\ pc' = [pc EXCEPT ![w] = "popped"]
  /\ UNCHANGED <<queue, lock, job>>

PopTail(w) ==
  /\ pc[w] = "fix tail"
  /\ tail' = IF head = NULL THEN NULL ELSE tail
  /\ pc' = [pc EXCEPT ![w] = "popped"]
  /\ UNCHANGED <<head, next, finished, lock, memory, destroyed, job, fifo>>

PopUnlock(w) ==
  /\ Release(w, "popped", "run")
  /\ UNCHANGED <<queue, job>>

\* worker calls the queue's function on the job and frees the job_t.
RunJob(w) ==
  /\ pc[w] = "run"
  /\ memory' = [memory EXCEPT ![job[w]] = "freed"]
  /\ job' = [job EXCEPT ![w] = NULL]
  /\ pc' = [pc EXCEPT ![w] = "pop"]
  /\ UNCHANGED <<head, tail, next, finished, lock, destroyed, fifo>>

-----------------------------------------------------------------------------
(* jobs_queue_finish and jobs_queue_destroy, as main calls them.           *)

\* main finishes a queue after its last producer has returned.
FinishLock ==
  /\ \A p \in Producers : pc[p] = "stopped"
  /\ Acquire(Main, "join producers", "set finished")
  /\ UNCHANGED <<queue, job>>

FinishSet ==
  /\ pc[Main] = "set finished"
  /\ finished' = TRUE
  /\ pc' = [pc EXCEPT ![Main] = "broadcast"]
  /\ UNCHANGED <<head, tail, next, lock, memory, destroyed, job, fifo>>

\* A mistake the properties must catch: one sleeping worker is woken, not all.
FinishSignal ==
  /\ pc[Main] = "broadcast"
  /\ Signal(Main, "finished")
  /\ UNCHANGED <<queue, lock, job>>

FinishBroadcast ==
  /\ pc[Main] = "broadcast"
  /\ Broadcast(Main, "finished")
  /\ UNCHANGED <<queue, lock, job>>

FinishUnlock ==
  /\ Release(Main, "finished", "join workers")
  /\ UNCHANGED <<queue, job>>

\* A mistake the properties must catch: the workers are not joined.
DestroyEarly ==
  /\ pc[Main] = "join workers"
  /\ destroyed' = TRUE
  /\ pc' = [pc EXCEPT ![Main] = "end"]
  /\ UNCHANGED <<head, tail, next, finished, lock, memory, job, fifo>>

Destroy ==
  /\ pc[Main] = "join workers"
  /\ \A w \in Workers : pc[w] = "returned"
  /\ destroyed' = TRUE
  /\ pc' = [pc EXCEPT ![Main] = "end"]
  /\ UNCHANGED <<head, tail, next, finished, lock, memory, job, fifo>>

-----------------------------------------------------------------------------

Push(p) ==
  \/ NewJob(p) \/ PushLock(p) \/ PushLink(p) \/ PushTail(p) \/ PushSignal(p)
  \/ PushUnlock(p) \/ Stop(p)

Work(w) ==
  \/ PopLock(w) \/ PopWait(w) \/ Wake(w) \/ PopNothing(w) \/ PopHead(w)
  \/ PopTail(w) \/ PopUnlock(w) \/ RunJob(w)

Finish ==
  FinishLock \/ FinishSet \/ FinishBroadcast \/ FinishUnlock \/ Destroy

\* main has destroyed the queue: the only state in which nothing can happen.
Ended ==
  /\ pc[Main] = "end"
  /\ UNCHANGED vars

Next ==
  \/ \E p \in Producers : Push(p)
  \/ \E w \in Workers : Work(w) \/ SpuriousWakeup(w)
  \/ Finish
  \/ Ended

SafeSpec == Init /\ [][Next]_vars

\* Every thread is scheduled as long as it can run, and a condition variable
\* wakes a thread for no reason only finitely often.
Fairness ==
  /\ \A p \in Producers : WF_vars(Push(p))
  /\ \A w \in Workers : WF_vars(Work(w))
  /\ WF_vars(Finish)
  /\ <>[][\A w \in Workers : ~SpuriousWakeup(w)]_vars

Spec == SafeSpec /\ Fairness

-----------------------------------------------------------------------------
(* Properties.                                                             *)

Locations ==
  {"idle", "push", "link", "set tail", "signal", "pushed", "stopped",
   "pop", "check", "asleep", "woken", "fix tail", "popped", "run", "returned",
   "join producers", "set finished", "broadcast", "finished", "join workers",
   "end"}

\* Every variable keeps the type its C declaration gives it.
TypeOK ==
  /\ head \in Jobs \cup {NULL}
  /\ tail \in Jobs \cup {NULL}
  /\ next \in [Jobs -> Jobs \cup {NULL}]
  /\ finished \in BOOLEAN
  /\ lock \in Threads \cup {NULL}
  /\ memory \in [Jobs -> {"none", "live", "freed"}]
  /\ destroyed \in BOOLEAN
  /\ pc \in [Threads -> Locations]
  /\ job \in [Threads -> Jobs \cup {NULL}]
  /\ fifo \in Seq(Jobs)

\* The places between pthread_mutex_lock and pthread_mutex_unlock.
InCriticalSection(t) ==
  pc[t] \in {"link", "set tail", "signal", "pushed", "check", "fix tail",
             "popped", "set finished", "broadcast", "finished"}

\* The thread inside a critical section of jobs.c owns the mutex, so that no
\* two threads are ever inside one, the thread that comes back from
\* pthread_cond_wait included.
MutualExclusion == \A t \in Threads : InCriticalSection(t) <=> lock = t

\* Whenever no thread is between the two pointer writes of a push or of a
\* pop, the linked list is exactly the queue: head is its oldest job, each
\* next field leads to the following one, and tail is its newest job, or NULL
\* when the list is empty (a stale tail would make the next push write into a
\* freed job_t).
ListIsQueue ==
  /\ head = IF fifo = <<>> THEN NULL ELSE fifo[1]
  /\ \A i \in 1 .. Len(fifo) :
       next[fifo[i]] = IF i = Len(fifo) THEN NULL ELSE fifo[i + 1]
  /\ (\A t \in Threads : pc[t] \notin {"set tail", "fix tail"}) =>
       tail = IF fifo = <<>> THEN NULL ELSE fifo[Len(fifo)]

\* The workers that hold a job they popped, and the producers that hold one
\* they have not linked yet.
Holds(t) == pc[t] \in {"push", "link", "fix tail", "popped", "run"}

\* Every job_t has one owner: a job in the list or in a thread's hands is
\* allocated, is not in two places, and is freed by the worker that popped it.
OneOwner ==
  /\ \A i, k \in 1 .. Len(fifo) : fifo[i] = fifo[k] => i = k
  /\ \A i \in 1 .. Len(fifo) : memory[fifo[i]] = "live"
  /\ \A t \in Threads : Holds(t) =>
       /\ job[t] # NULL
       /\ memory[job[t]] = "live"
       /\ \A i \in 1 .. Len(fifo) : fifo[i] # job[t]
       /\ \A u \in Threads : Holds(u) /\ job[u] = job[t] => u = t

\* No wake-up is lost: while jobs wait, some worker is awake to take them or
\* the producer that linked one has still to signal; and once finish has
\* broadcast, no worker sleeps.
NoLostWakeup ==
  /\ fifo # <<>> => \/ \E w \in Workers : pc[w] \notin {"asleep", "returned"}
                    \/ \E p \in Producers : pc[p] \in {"set tail", "signal"}
  /\ finished => \/ Asleep = {}
                 \/ pc[Main] = "broadcast"

\* jobs_queue_destroy frees the queue when nobody can reach it any more: no
\* job waits, no job_t is still allocated, and every other thread has returned.
CleanTeardown ==
  destroyed => /\ fifo = <<>>
               /\ \A j \in Jobs : memory[j] # "live"
               /\ lock = NULL
               /\ \A t \in Threads \ {Main} : pc[t] \in {"stopped", "returned"}

-----------------------------------------------------------------------------
(* The inductive invariant behind the safety properties.                   *)

\* Each thread stays in its own code, and the flags follow the main thread.
Phases ==
  /\ \A p \in Producers :
       pc[p] \in {"idle", "push", "link", "set tail", "signal", "pushed", "stopped"}
  /\ \A w \in Workers :
       pc[w] \in {"pop", "check", "asleep", "woken", "fix tail", "popped", "run",
                 "returned"}
  /\ pc[Main] \in {"join producers", "set finished", "broadcast", "finished",
                   "join workers", "end"}
  /\ pc[Main] # "join producers" => \A p \in Producers : pc[p] = "stopped"
  /\ finished <=> pc[Main] \in {"broadcast", "finished", "join workers", "end"}
  /\ destroyed <=> pc[Main] = "end"
  /\ destroyed => \A w \in Workers : pc[w] = "returned"
  /\ \A w \in Workers : pc[w] = "returned" => finished /\ fifo = <<>>

\* What a thread's local variable job is, between the steps that use it.
Locals ==
  /\ \A p \in Producers : pc[p] \in {"push", "link"} => next[job[p]] = NULL
  /\ \A p \in Producers : pc[p] = "set tail" =>
       fifo # <<>> /\ job[p] = fifo[Len(fifo)]
  /\ \A w \in Workers : pc[w] = "fix tail" /\ fifo # <<>> =>
       tail = fifo[Len(fifo)]
  /\ \A w \in Workers : ~Holds(w) => job[w] = NULL

\* An allocated job_t is in the list or in a thread's hands: none is leaked.
NoLeak ==
  \A j \in Jobs : memory[j] = "live" =>
    \/ \E i \in 1 .. Len(fifo) : fifo[i] = j
    \/ \E t \in Threads : Holds(t) /\ job[t] = j

\* Inductive: it holds initially and every step keeps it (JobsQueueProofs).
IInv ==
  /\ TypeOK
  /\ MutualExclusion
  /\ Phases
  /\ ListIsQueue
  /\ Locals
  /\ OneOwner
  /\ NoLeak
  /\ NoLostWakeup

\* What the abstract queue sees of a state.
Serving ==
  [w \in Workers |->
     IF pc[w] \in {"fix tail", "popped", "run"} THEN job[w] ELSE NULL]

Completed == {j \in Jobs : memory[j] = "freed"}

Submitted ==
  {j \in Jobs : \/ j \in Completed
                \/ \E i \in 1 .. Len(fifo) : fifo[i] = j
                \/ \E w \in Workers : job[w] = j}

Gone == {w \in Workers : pc[w] = "returned"}

\* The queue of src/src/jobs.c implements the queue its header promises.
Queue == INSTANCE WorkQueue WITH
  items <- fifo, closed <- finished, serving <- Serving,
  submitted <- Submitted, completed <- Completed, gone <- Gone

\* Every step of the linked list with its mutex and condition variable is a
\* step of the FIFO queue, or none, and jobs are served, completed and the
\* workers dismissed as that queue promises.
ImplementsWorkQueue == Queue!Spec

\* main always gets to the end: no push, wait or join blocks for ever.
Terminates == <>(pc[Main] = "end")
=============================================================================
