----------------------------- MODULE WorkQueue -----------------------------
(***************************************************************************)
(* What src/src/jobs.h promises: a first-in first-out queue of jobs shared *)
(* by producers and workers.  A producer submits jobs, the owner closes    *)
(* the queue once, every worker serves one job at a time, and a worker     *)
(* leaves only when the queue is closed and nothing is left in it.  There  *)
(* is no lock, no condition variable and no pointer here: JobsQueue is     *)
(* shown to implement this specification.                                  *)
(***************************************************************************)
EXTENDS Naturals, Sequences

CONSTANTS Jobs,     \* the local contexts that can be submitted
          Workers,  \* the threads that run worker()
          NULL      \* no job

VARIABLES items,     \* the jobs that wait, oldest first
          closed,    \* jobs_queue_finish has been called
          serving,   \* serving[w]: the job worker w is executing, or NULL
          submitted, \* the jobs submitted so far
          completed, \* the jobs whose function has returned
          gone       \* the workers that have returned

queueVars == <<items, closed, serving, submitted, completed, gone>>

Init ==
  /\ items = <<>>
  /\ closed = FALSE
  /\ serving = [w \in Workers |-> NULL]
  /\ submitted = {}
  /\ completed = {}
  /\ gone = {}

\* push_new_job: a job is submitted once, and never after the queue is closed.
Submit(j) ==
  /\ ~closed
  /\ j \notin submitted
  /\ items' = Append(items, j)
  /\ submitted' = submitted \cup {j}
  /\ UNCHANGED <<closed, serving, completed, gone>>

\* jobs_queue_finish.
Close ==
  /\ ~closed
  /\ closed' = TRUE
  /\ UNCHANGED <<items, serving, submitted, completed, gone>>

\* pop_job returns the oldest job to an idle worker.
Serve(w) ==
  /\ w \notin gone
  /\ serving[w] = NULL
  /\ items # <<>>
  /\ serving' = [serving EXCEPT ![w] = Head(items)]
  /\ items' = Tail(items)
  /\ UNCHANGED <<closed, submitted, completed, gone>>

\* The job's function returns.
Complete(w) ==
  /\ serving[w] # NULL
  /\ completed' = completed \cup {serving[w]}
  /\ serving' = [serving EXCEPT ![w] = NULL]
  /\ UNCHANGED <<items, closed, submitted, gone>>

\* pop_job returns NULL and the worker returns.
Leave(w) ==
  /\ w \notin gone
  /\ closed
  /\ items = <<>>
  /\ serving[w] = NULL
  /\ gone' = gone \cup {w}
  /\ UNCHANGED <<items, closed, serving, submitted, completed>>

Next ==
  \/ \E j \in Jobs : Submit(j)
  \/ Close
  \/ \E w \in Workers : Serve(w) \/ Complete(w) \/ Leave(w)

\* The part of the promise that TLAPS can be asked about.
SafeSpec == Init /\ [][Next]_queueVars

\* A waiting job is eventually served by some worker, a served job completes
\* and, once the queue is closed and drained, every worker leaves.
Spec ==
  /\ SafeSpec
  /\ WF_queueVars(\E w \in Workers : Serve(w))
  /\ \A w \in Workers : WF_queueVars(Complete(w)) /\ WF_queueVars(Leave(w))

-----------------------------------------------------------------------------
(* Properties.                                                             *)

\* What the variables hold.
TypeOK ==
  /\ items \in Seq(Jobs)
  /\ closed \in BOOLEAN
  /\ serving \in [Workers -> Jobs \cup {NULL}]
  /\ submitted \subseteq Jobs
  /\ completed \subseteq submitted
  /\ gone \subseteq Workers

Waits(j) == \E i \in 1 .. Len(items) : items[i] = j

Served(j) == \E w \in Workers : serving[w] = j

\* A submitted job waits, is served or is completed, and never two of these; it
\* waits in one place and one worker serves it.  So no job is lost or run twice.
EachJobOnce ==
  /\ \A i, k \in 1 .. Len(items) : items[i] = items[k] => i = k
  /\ \A v, w \in Workers : serving[v] = serving[w] /\ serving[w] # NULL => v = w
  /\ \A j \in Jobs : Waits(j) => j \in submitted \ completed /\ ~Served(j)
  /\ \A j \in Jobs : Served(j) => j \in submitted \ completed
  /\ \A j \in submitted : Waits(j) \/ Served(j) \/ j \in completed

\* A worker leaves a queue that is closed and drained, and no sooner.
LeavesLast ==
  \A w \in gone : closed /\ items = <<>> /\ serving[w] = NULL

QueueInv == TypeOK /\ EachJobOnce /\ LeavesLast
=============================================================================
