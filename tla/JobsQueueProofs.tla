-------------------------- MODULE JobsQueueProofs --------------------------
(***************************************************************************)
(* For any jobs, producers and workers, the queue of src/src/jobs.c keeps  *)
(* the invariant IInv, and with it every safety property of JobsQueue, and *)
(* implements the safety part of WorkQueue.                                *)
(*                                                                         *)
(* The proof that a step keeps IInv has one lemma per action.  In each,    *)
(* the conjuncts of IInv are proved one by one; those about the owners of  *)
(* the jobs follow from OwnersKept except for the four actions that move,  *)
(* allocate or free a job.                                                 *)
(***************************************************************************)
EXTENDS JobsQueue, TLAPS, SequenceTheorems

-----------------------------------------------------------------------------
(* Lemmas about the linked list and its owners.                            *)

\* The head pointer is NULL exactly when the queue is empty, and is otherwise its
\* oldest job (what the test in pop_job relies on).
LEMMA HeadOfList ==
  ASSUME TypeOK, ListIsQueue
  PROVE  /\ head = NULL <=> fifo = <<>>
         /\ \A i \in 1 .. Len(fifo) : fifo[i] \in Jobs
         /\ Len(fifo) \in Nat
         /\ fifo # <<>> => Len(fifo) > 0 /\ head = fifo[1]
<1> USE JobsQueueAssumption DEF TypeOK
<1>1. Len(fifo) \in Nat /\ \A i \in 1 .. Len(fifo) : fifo[i] \in Jobs
  OBVIOUS
<1>2. fifo # <<>> => Len(fifo) > 0
  BY EmptySeq, LenProperties
<1>3. fifo = <<>> => head = NULL
  BY DEF ListIsQueue
<1>4. fifo # <<>> => head = fifo[1]
  BY Zenon DEF ListIsQueue
<1>5. fifo # <<>> => fifo[1] \in Jobs
  BY <1>1, <1>2
<1> QED
  BY <1>1, <1>2, <1>3, <1>4, <1>5

\* What appending a job does to the positions of the queue.
LEMMA Appended ==
  ASSUME TypeOK, NEW j \in Jobs, fifo' = Append(fifo, j)
  PROVE  /\ fifo' \in Seq(Jobs)
         /\ Len(fifo') = Len(fifo) + 1
         /\ fifo'[Len(fifo) + 1] = j
         /\ \A i \in 1 .. Len(fifo) : fifo'[i] = fifo[i]
         /\ fifo' # <<>>
BY AppendProperties, EmptySeq DEF TypeOK

\* What removing the oldest job does to the positions of the queue.
LEMMA Removed ==
  ASSUME TypeOK, fifo # <<>>, fifo' = Tail(fifo)
  PROVE  /\ fifo' \in Seq(Jobs)
         /\ Len(fifo') = Len(fifo) - 1
         /\ \A i \in 1 .. Len(fifo) - 1 : fifo'[i] = fifo[i + 1]
         /\ fifo' = <<>> <=> Len(fifo) = 1
<1>1. /\ fifo' \in Seq(Jobs)
      /\ Len(fifo') = Len(fifo) - 1
      /\ \A i \in 1 .. Len(fifo) - 1 : fifo'[i] = fifo[i + 1]
  BY HeadTailProperties DEF TypeOK
<1>2. fifo' = <<>> <=> Len(fifo') = 0
  BY <1>1, EmptySeq
<1> QED
  BY <1>1, <1>2, LenProperties DEF TypeOK

\* A step that moves no job between the list and the hands of a thread, and
\* allocates and frees nothing, keeps the owner of every job_t.
LEMMA OwnersKept ==
  ASSUME TypeOK, OneOwner, NoLeak, UNCHANGED <<fifo, memory>>,
         \A t \in Threads : Holds(t)' <=> Holds(t),
         \A t \in Threads : Holds(t) => job'[t] = job[t]
  PROVE  OneOwner' /\ NoLeak'
<1>1. OneOwner'
  BY Zenon DEF OneOwner
<1>2. NoLeak'
  BY Zenon DEF NoLeak
<1> QED
  BY <1>1, <1>2

-----------------------------------------------------------------------------
(* The invariant is inductive.                                             *)

\* The invariant holds when main starts its threads.
LEMMA InitHolds == Init => IInv
<1> SUFFICES ASSUME Init PROVE IInv
  OBVIOUS
<1> USE JobsQueueAssumption DEF Threads
<1>1. \A t \in Threads : pc[t] \in {"idle", "pop", "join producers"}
  BY DEF Init
<1>2. /\ \A p \in Producers : pc[p] = "idle"
      /\ \A w \in Workers : pc[w] = "pop"
      /\ pc[Main] = "join producers"
  BY DEF Init
<1>3. fifo = <<>> /\ Len(fifo) = 0
  BY DEF Init
<1>4. TypeOK
  <2>1. pc \in [Threads -> Locations]
    BY DEF Init, Locations
  <2>2. fifo \in Seq(Jobs)
    BY <1>3
  <2> QED
    BY <2>1, <2>2 DEF Init, TypeOK
<1>5. MutualExclusion
  BY <1>1 DEF Init, MutualExclusion, InCriticalSection
<1>6. Phases
  BY <1>2 DEF Init, Phases
<1>7. ListIsQueue
  <2>1. \A i \in 1 .. Len(fifo) : FALSE
    BY <1>3
  <2>2. head = NULL /\ tail = NULL
    BY DEF Init
  <2> QED
    BY <1>3, <2>1, <2>2, Zenon DEF ListIsQueue
<1>8. Locals
  BY <1>2 DEF Init, Locals
<1>9. OneOwner
  <2>1. \A i \in 1 .. Len(fifo) : FALSE
    BY <1>3
  <2>2. \A t \in Threads : ~Holds(t)
    BY <1>1 DEF Holds
  <2> QED
    BY <2>1, <2>2, Zenon DEF OneOwner
<1>10. NoLeak
  BY DEF Init, NoLeak
<1>11. NoLostWakeup
  BY DEF Init, NoLostWakeup
<1> QED
  BY <1>4, <1>5, <1>6, <1>7, <1>8, <1>9, <1>10, <1>11 DEF IInv

\* push_new_job allocates a fresh job_t: no pointer leads to it yet.
LEMMA NewJobKeeps ==
  ASSUME IInv, NEW p \in Producers, NewJob(p)
  PROVE  IInv'
<1> USE JobsQueueAssumption DEF Threads
<1>0. /\ TypeOK /\ MutualExclusion /\ Phases /\ ListIsQueue
      /\ Locals /\ OneOwner /\ NoLeak /\ NoLostWakeup
  BY DEF IInv
<1>1. PICK j \in Jobs :
        /\ memory[j] = "none"
        /\ memory' = [memory EXCEPT ![j] = "live"]
        /\ next' = [next EXCEPT ![j] = NULL]
        /\ job' = [job EXCEPT ![p] = j]
  BY DEF NewJob
<1>2. /\ pc[p] = "idle" /\ pc' = [pc EXCEPT ![p] = "push"]
      /\ UNCHANGED <<head, tail, finished, lock, destroyed, fifo>>
  BY DEF NewJob
<1>3. \A i \in 1 .. Len(fifo) : fifo[i] # j /\ fifo[i] \in Jobs
  BY <1>0, <1>1, HeadOfList DEF OneOwner
<1>4. \A t \in Threads : Holds(t) => job[t] # j /\ job[t] \in Jobs
  BY <1>0, <1>1 DEF OneOwner, TypeOK
<1>5. TypeOK'
  BY <1>0, <1>1, <1>2 DEF TypeOK, Locations
<1>6. MutualExclusion'
  BY <1>0, <1>2 DEF TypeOK, MutualExclusion, InCriticalSection
<1>7. Phases'
  BY <1>0, <1>2 DEF TypeOK, Phases
<1>8. ListIsQueue'
  BY <1>0, <1>1, <1>2, <1>3 DEF TypeOK, ListIsQueue
<1>9. Locals'
  <2>1. ASSUME NEW q \in Producers, pc'[q] \in {"push", "link"}
        PROVE  next'[job'[q]] = NULL
    <3>1. CASE q = p
      BY <1>0, <1>1, <3>1 DEF TypeOK
    <3>2. CASE q # p
      <4>1. pc[q] \in {"push", "link"} /\ job'[q] = job[q] /\ Holds(q)
        BY <1>0, <1>1, <1>2, <2>1, <3>2 DEF TypeOK, Holds
      <4> QED
        BY <1>0, <1>1, <1>4, <4>1 DEF TypeOK, Locals
    <3> QED
      BY <3>1, <3>2
  <2>2. \A v \in Workers : pc'[v] = pc[v] /\ job'[v] = job[v]
    BY <1>0, <1>1, <1>2 DEF TypeOK
  <2>3. \A q \in Producers : pc'[q] = "set tail" => pc[q] = "set tail" /\ job'[q] = job[q]
    BY <1>0, <1>1, <1>2 DEF TypeOK
  <2> QED
    BY <1>0, <1>2, <2>1, <2>2, <2>3 DEF Locals, Holds
<1>10. OneOwner'
  <2>1. /\ \A t \in Threads : Holds(t)' <=> Holds(t) \/ t = p
        /\ \A t \in Threads \ {p} : job'[t] = job[t]
        /\ job'[p] = j
        /\ \A k \in Jobs \ {j} : memory'[k] = memory[k]
        /\ memory'[j] = "live"
    BY <1>0, <1>1, <1>2 DEF TypeOK, Holds
  <2>2. /\ \A i, k \in 1 .. Len(fifo) : fifo[i] = fifo[k] => i = k
        /\ \A i \in 1 .. Len(fifo) : memory'[fifo[i]] = "live"
    BY <1>0, <1>3, <2>1 DEF OneOwner
  <2>3. ASSUME NEW t \in Threads, Holds(t)'
        PROVE  /\ job'[t] # NULL
               /\ memory'[job'[t]] = "live"
               /\ \A i \in 1 .. Len(fifo) : fifo[i] # job'[t]
               /\ \A u \in Threads : Holds(u)' /\ job'[u] = job'[t] => u = t
    <3>1. CASE t = p
      BY <1>3, <1>4, <2>1, <3>1
    <3>2. CASE t # p
      BY <1>0, <1>4, <2>1, <2>3, <3>2 DEF OneOwner
    <3> QED
      BY <3>1, <3>2
  <2> QED
    BY <1>2, <2>2, <2>3 DEF OneOwner
<1>11. NoLeak'
  <2>1. /\ Holds(p)' /\ job'[p] = j
        /\ \A t \in Threads : Holds(t) => Holds(t)' /\ job'[t] = job[t]
        /\ \A k \in Jobs \ {j} : memory'[k] = memory[k]
    BY <1>0, <1>1, <1>2 DEF TypeOK, Holds
  <2> QED
    BY <1>0, <1>2, <2>1 DEF NoLeak
<1>12. NoLostWakeup'
  BY <1>0, <1>2 DEF TypeOK, NoLostWakeup, Asleep
<1> QED
  BY <1>5, <1>6, <1>7, <1>8, <1>9, <1>10, <1>11, <1>12 DEF IInv

\* The mutex of push_new_job.
LEMMA PushLockKeeps ==
  ASSUME IInv, NEW p \in Producers, PushLock(p)
  PROVE  IInv'
<1> USE JobsQueueAssumption DEF Threads, PushLock, Acquire, queue
<1>1. TypeOK'
  BY DEF IInv, TypeOK, Locations
<1>2. MutualExclusion'
  BY DEF IInv, TypeOK, MutualExclusion, InCriticalSection
<1>3. Phases'
  BY DEF IInv, TypeOK, Phases, MutualExclusion, InCriticalSection
<1>4. ListIsQueue'
  BY DEF IInv, TypeOK, Phases, ListIsQueue, Locals, MutualExclusion, InCriticalSection
<1>5. Locals'
  BY DEF IInv, TypeOK, Phases, Locals, ListIsQueue, Holds, MutualExclusion, InCriticalSection
<1>6. OneOwner' /\ NoLeak'
  <2>1. \A t \in Threads : (Holds(t)' <=> Holds(t)) /\ (Holds(t) => job'[t] = job[t])
    BY DEF IInv, TypeOK, Phases, Holds
  <2> QED
    BY <2>1, OwnersKept DEF IInv
<1>7. NoLostWakeup'
  BY DEF IInv, TypeOK, Phases, NoLostWakeup, Asleep, MutualExclusion, InCriticalSection
<1> QED
  BY <1>1, <1>2, <1>3, <1>4, <1>5, <1>6, <1>7 DEF IInv

\* push_new_job links the job behind the tail, or as the head of an empty list.
LEMMA PushLinkKeeps ==
  ASSUME IInv, NEW p \in Producers, PushLink(p)
  PROVE  IInv'
<1> USE JobsQueueAssumption DEF Threads
<1>0. /\ TypeOK /\ MutualExclusion /\ Phases /\ ListIsQueue
      /\ Locals /\ OneOwner /\ NoLeak /\ NoLostWakeup
  BY DEF IInv
<1>1. /\ pc[p] = "link" /\ pc' = [pc EXCEPT ![p] = "set tail"]
      /\ fifo' = Append(fifo, job[p])
      /\ UNCHANGED <<tail, finished, lock, memory, destroyed, job>>
  BY DEF PushLink
<1>2. /\ job[p] \in Jobs /\ memory[job[p]] = "live" /\ next[job[p]] = NULL
      /\ \A i \in 1 .. Len(fifo) : fifo[i] # job[p]
      /\ \A t \in Threads : Holds(t) /\ job[t] = job[p] => t = p
  <2>1. Holds(p)
    BY <1>1 DEF Holds
  <2>2. job[p] \in Jobs /\ next[job[p]] = NULL
    <3>1. job[p] \in Jobs
      BY <1>0, <2>1 DEF TypeOK, OneOwner
    <3>2. next[job[p]] = NULL
      BY <1>0, <1>1, Zenon DEF Locals
    <3> QED
      BY <3>1, <3>2
  <2> QED
    BY <1>0, <2>1, <2>2, Zenon DEF OneOwner
<1>3. /\ Len(fifo) \in Nat /\ Len(fifo') = Len(fifo) + 1
      /\ fifo' \in Seq(Jobs) /\ fifo' # <<>>
      /\ fifo'[Len(fifo) + 1] = job[p]
      /\ \A i \in 1 .. Len(fifo) : fifo'[i] = fifo[i]
      /\ \A i \in 1 .. Len(fifo) : fifo[i] \in Jobs
  BY <1>0, <1>1, <1>2, HeadOfList, Appended, Zenon
<1>4. /\ \A t \in Threads \ {p} : ~InCriticalSection(t)
      /\ lock = p
  BY <1>0, <1>1 DEF MutualExclusion, InCriticalSection
<1>5. tail = IF fifo = <<>> THEN NULL ELSE fifo[Len(fifo)]
  <2>1. \A t \in Threads : pc[t] \notin {"set tail", "fix tail"}
    BY <1>1, <1>4 DEF InCriticalSection
  <2> QED
    BY <1>0, <2>1, Zenon DEF ListIsQueue
<1>6. fifo = <<>> => head' = job[p] /\ next' = next /\ Len(fifo) = 0
  BY <1>5, EmptySeq DEF PushLink
<1>7. fifo # <<>> =>
        /\ Len(fifo) > 0 /\ fifo[Len(fifo)] \in Jobs
        /\ head' = fifo[1] /\ next' = [next EXCEPT ![fifo[Len(fifo)]] = job[p]]
  <2> SUFFICES ASSUME fifo # <<>>
               PROVE  /\ Len(fifo) > 0 /\ fifo[Len(fifo)] \in Jobs
                      /\ head' = fifo[1] /\ next' = [next EXCEPT ![fifo[Len(fifo)]] = job[p]]
    OBVIOUS
  <2>1. Len(fifo) > 0 /\ head = fifo[1]
    BY <1>0, HeadOfList, Zenon
  <2>2. fifo[Len(fifo)] \in Jobs
    BY <1>3, <2>1
  <2>3. tail = fifo[Len(fifo)] /\ tail # NULL
    BY <1>5, <2>2
  <2> QED
    BY <2>1, <2>2, <2>3 DEF PushLink
<1>8. TypeOK'
  <2>1. head' \in Jobs \cup {NULL} /\ next' \in [Jobs -> Jobs \cup {NULL}]
    BY <1>0, <1>2 DEF PushLink, TypeOK
  <2> QED
    BY <1>0, <1>1, <1>3, <2>1 DEF TypeOK, Locations
<1>9. MutualExclusion'
  BY <1>0, <1>1 DEF TypeOK, MutualExclusion, InCriticalSection
<1>10. Phases'
  BY <1>0, <1>1, <1>4 DEF TypeOK, Phases, InCriticalSection
<1>11. \A k \in Jobs : (\A i \in 1 .. Len(fifo) : k # fifo[i]) => next'[k] = next[k]
  <2>1. CASE fifo = <<>>
    BY <1>6, <2>1
  <2>2. CASE fifo # <<>>
    <3>1. Len(fifo) \in 1 .. Len(fifo)
      BY <1>3, <1>7, <2>2
    <3> QED
      BY <1>0, <1>7, <2>2, <3>1 DEF TypeOK
  <2> QED
    BY <2>1, <2>2
<1>12. ListIsQueue'
  <2>1. head' = fifo'[1]
    <3>1. CASE fifo = <<>>
      BY <1>3, <1>6, <3>1
    <3>2. CASE fifo # <<>>
      BY <1>3, <1>7, <3>2
    <3> QED
      BY <3>1, <3>2
  <2>2. ASSUME NEW i \in 1 .. Len(fifo)
        PROVE  next'[fifo[i]] = IF i = Len(fifo) THEN job[p] ELSE fifo[i + 1]
    <3>1. fifo # <<>>
      BY <1>3, EmptySeq
    <3>2. i # Len(fifo) => fifo[i] # fifo[Len(fifo)]
      BY <1>0, <1>3, <1>7, <3>1 DEF OneOwner
    <3>3. next[fifo[i]] = IF i = Len(fifo) THEN NULL ELSE fifo[i + 1]
      BY <1>0 DEF ListIsQueue
    <3> QED
      BY <1>0, <1>3, <1>7, <3>1, <3>2, <3>3 DEF TypeOK
  <2>3. next'[fifo'[Len(fifo) + 1]] = NULL
    BY <1>2, <1>3, <1>11
  <2>4. \A i \in 1 .. Len(fifo) + 1 :
          next'[fifo'[i]] = IF i = Len(fifo) + 1 THEN NULL ELSE fifo'[i + 1]
    BY <1>3, <2>2, <2>3
  <2>5. pc'[p] = "set tail"
    BY <1>0, <1>1 DEF TypeOK
  <2> QED
    BY <1>3, <2>1, <2>4, <2>5 DEF ListIsQueue
<1>13. Locals'
  <2>1. ASSUME NEW q \in Producers, pc'[q] \in {"push", "link"}
        PROVE  next'[job'[q]] = NULL
    <3>1. pc[q] \in {"push", "link"} /\ job'[q] = job[q] /\ Holds(q)
      BY <1>0, <1>1, <2>1 DEF Holds, TypeOK
    <3>2. job[q] \in Jobs /\ \A i \in 1 .. Len(fifo) : job[q] # fifo[i]
      BY <1>0, <3>1 DEF OneOwner, TypeOK
    <3> QED
      BY <1>0, <1>11, <3>1, <3>2 DEF Locals
  <2>2. \A q \in Producers : pc'[q] = "set tail" => q = p
    BY <1>0, <1>1, <1>4 DEF InCriticalSection, TypeOK
  <2>3. \A v \in Workers : pc'[v] # "fix tail" /\ pc'[v] = pc[v] /\ job'[v] = job[v]
    BY <1>0, <1>1, <1>4 DEF InCriticalSection, TypeOK
  <2>4. fifo' # <<>> /\ job'[p] = fifo'[Len(fifo')]
    BY <1>1, <1>3
  <2> QED
    BY <1>0, <2>1, <2>2, <2>3, <2>4 DEF Locals, Holds
<1>14. OneOwner'
  <2>1. /\ \A t \in Threads : Holds(t)' <=> Holds(t) /\ t # p
        /\ job' = job /\ memory' = memory
    BY <1>0, <1>1 DEF Holds, TypeOK
  <2>2. \A i, k \in 1 .. Len(fifo') : fifo'[i] = fifo'[k] => i = k
    BY <1>0, <1>2, <1>3 DEF OneOwner
  <2>3. \A i \in 1 .. Len(fifo') : memory[fifo'[i]] = "live"
    BY <1>0, <1>2, <1>3 DEF OneOwner
  <2>4. ASSUME NEW t \in Threads, Holds(t), t # p
        PROVE  \A i \in 1 .. Len(fifo') : fifo'[i] # job[t]
    <3>1. \A i \in 1 .. Len(fifo) : fifo[i] # job[t]
      BY <1>0, <2>4 DEF OneOwner
    <3>2. job[p] # job[t]
      BY <1>2, <2>4
    <3> QED
      BY <1>3, <3>1, <3>2
  <2> QED
    BY <1>0, <2>1, <2>2, <2>3, <2>4, Zenon DEF OneOwner
<1>15. NoLeak'
  <2> SUFFICES ASSUME NEW k \in Jobs, memory'[k] = "live"
               PROVE  \/ \E i \in 1 .. Len(fifo') : fifo'[i] = k
                      \/ \E t \in Threads : Holds(t)' /\ job'[t] = k
    BY DEF NoLeak
  <2>1. CASE k = job[p]
    BY <1>3, <2>1
  <2>2. CASE \E i \in 1 .. Len(fifo) : fifo[i] = k
    BY <1>3, <2>2
  <2>3. CASE k # job[p] /\ \E t \in Threads : Holds(t) /\ job[t] = k
    BY <1>0, <1>1, <2>3 DEF Holds, TypeOK
  <2> QED
    BY <1>0, <1>1, <2>1, <2>2, <2>3 DEF NoLeak
<1>16. NoLostWakeup'
  <2>1. pc'[p] = "set tail" /\ \A w \in Workers : pc'[w] = pc[w]
    BY <1>0, <1>1 DEF TypeOK
  <2>2. pc'[Main] = pc[Main]
    BY <1>0, <1>1 DEF TypeOK
  <2> QED
    BY <1>0, <1>1, <2>1, <2>2 DEF NoLostWakeup, Asleep
<1> QED
  BY <1>8, <1>9, <1>10, <1>12, <1>13, <1>14, <1>15, <1>16 DEF IInv

\* push_new_job moves the tail to the job it linked.
LEMMA PushTailKeeps ==
  ASSUME IInv, NEW p \in Producers, PushTail(p)
  PROVE  IInv'
<1> USE JobsQueueAssumption DEF Threads, PushTail, queue
<1>1. TypeOK'
  BY DEF IInv, TypeOK, Locations
<1>2. MutualExclusion'
  BY DEF IInv, TypeOK, MutualExclusion, InCriticalSection
<1>3. Phases'
  BY DEF IInv, TypeOK, Phases, MutualExclusion, InCriticalSection
<1>4. ListIsQueue'
  BY DEF IInv, TypeOK, Phases, ListIsQueue, Locals, MutualExclusion, InCriticalSection
<1>5. Locals'
  BY DEF IInv, TypeOK, Phases, Locals, ListIsQueue, Holds, MutualExclusion, InCriticalSection
<1>6. OneOwner' /\ NoLeak'
  <2>1. \A t \in Threads : (Holds(t)' <=> Holds(t)) /\ (Holds(t) => job'[t] = job[t])
    BY DEF IInv, TypeOK, Phases, Holds
  <2> QED
    BY <2>1, OwnersKept DEF IInv
<1>7. NoLostWakeup'
  BY DEF IInv, TypeOK, Phases, NoLostWakeup, Asleep, MutualExclusion, InCriticalSection
<1> QED
  BY <1>1, <1>2, <1>3, <1>4, <1>5, <1>6, <1>7 DEF IInv

\* pthread_cond_signal: if the queue was given a job, a worker is awake for it.
LEMMA PushSignalKeeps ==
  ASSUME IInv, NEW p \in Producers, PushSignal(p)
  PROVE  IInv'
<1> USE JobsQueueAssumption DEF Threads, queue
<1>0. /\ TypeOK /\ MutualExclusion /\ Phases /\ ListIsQueue
      /\ Locals /\ OneOwner /\ NoLeak /\ NoLostWakeup
  BY DEF IInv
<1>1. /\ pc[p] = "signal"
      /\ UNCHANGED <<head, tail, next, finished, memory, destroyed, fifo, lock, job>>
  BY DEF PushSignal
<1>2. \/ Asleep = {} /\ pc' = [pc EXCEPT ![p] = "pushed"]
      \/ \E w \in Asleep : pc' = [pc EXCEPT ![p] = "pushed", ![w] = "woken"]
  BY DEF PushSignal, Signal
<1>3. /\ pc'[p] = "pushed"
      /\ \A t \in Threads \ {p} :
           pc'[t] = pc[t] \/ (t \in Workers /\ pc[t] = "asleep" /\ pc'[t] = "woken")
      /\ pc' \in [Threads -> Locations]
  BY <1>0, <1>1, <1>2 DEF TypeOK, Asleep, Locations
<1>4. TypeOK'
  BY <1>0, <1>1, <1>3 DEF TypeOK
<1>5. MutualExclusion'
  BY <1>0, <1>1, <1>3 DEF MutualExclusion, InCriticalSection
<1>6. Phases'
  BY <1>0, <1>1, <1>3 DEF Phases
<1>7. ListIsQueue'
  BY <1>0, <1>1, <1>3 DEF ListIsQueue
<1>8. Locals'
  BY <1>0, <1>1, <1>3 DEF Locals, Holds
<1>9. OneOwner' /\ NoLeak'
  <2>1. \A t \in Threads : (Holds(t)' <=> Holds(t)) /\ (Holds(t) => job'[t] = job[t])
    BY <1>1, <1>3 DEF Holds
  <2> QED
    BY <1>0, <1>1, <2>1, OwnersKept
<1>10. NoLostWakeup'
  <2>1. fifo # <<>> => \E w \in Workers : pc'[w] \notin {"asleep", "returned"}
    <3>1. CASE Asleep = {}
      <4>1. \A w \in Workers : pc[w] # "returned"
        BY <1>0, <1>1 DEF Phases
      <4>2. \A w \in Workers : pc'[w] \notin {"asleep", "returned"}
        BY <1>3, <3>1, <4>1 DEF Asleep
      <4> QED
        BY <4>2
    <3>2. CASE Asleep # {}
      <4>1. PICK w \in Asleep : pc' = [pc EXCEPT ![p] = "pushed", ![w] = "woken"]
        BY <1>2, <3>2
      <4>2. w \in Workers /\ pc'[w] = "woken"
        BY <1>0, <1>3, <4>1 DEF Asleep, TypeOK
      <4> QED
        BY <4>2
    <3> QED
      BY <3>1, <3>2
  <2> QED
    BY <1>0, <1>1, <1>3, <2>1 DEF NoLostWakeup, Asleep, Phases
<1> QED
  BY <1>4, <1>5, <1>6, <1>7, <1>8, <1>9, <1>10 DEF IInv

\* push_new_job gives the mutex up.
LEMMA PushUnlockKeeps ==
  ASSUME IInv, NEW p \in Producers, PushUnlock(p)
  PROVE  IInv'
<1> USE JobsQueueAssumption DEF Threads, PushUnlock, Release, queue
<1>1. TypeOK'
  BY DEF IInv, TypeOK, Locations
<1>2. MutualExclusion'
  BY DEF IInv, TypeOK, MutualExclusion, InCriticalSection
<1>3. Phases'
  BY DEF IInv, TypeOK, Phases, MutualExclusion, InCriticalSection
<1>4. ListIsQueue'
  BY DEF IInv, TypeOK, Phases, ListIsQueue, Locals, MutualExclusion, InCriticalSection
<1>5. Locals'
  BY DEF IInv, TypeOK, Phases, Locals, ListIsQueue, Holds, MutualExclusion, InCriticalSection
<1>6. OneOwner' /\ NoLeak'
  <2>1. \A t \in Threads : (Holds(t)' <=> Holds(t)) /\ (Holds(t) => job'[t] = job[t])
    BY DEF IInv, TypeOK, Phases, Holds
  <2> QED
    BY <2>1, OwnersKept DEF IInv
<1>7. NoLostWakeup'
  BY DEF IInv, TypeOK, Phases, NoLostWakeup, Asleep, MutualExclusion, InCriticalSection
<1> QED
  BY <1>1, <1>2, <1>3, <1>4, <1>5, <1>6, <1>7 DEF IInv

\* A producer that returns.
LEMMA StopKeeps ==
  ASSUME IInv, NEW p \in Producers, Stop(p)
  PROVE  IInv'
<1> USE JobsQueueAssumption DEF Threads, Stop, queue
<1>1. TypeOK'
  BY DEF IInv, TypeOK, Locations
<1>2. MutualExclusion'
  BY DEF IInv, TypeOK, MutualExclusion, InCriticalSection
<1>3. Phases'
  BY DEF IInv, TypeOK, Phases, MutualExclusion, InCriticalSection
<1>4. ListIsQueue'
  BY DEF IInv, TypeOK, Phases, ListIsQueue, Locals, MutualExclusion, InCriticalSection
<1>5. Locals'
  BY DEF IInv, TypeOK, Phases, Locals, ListIsQueue, Holds, MutualExclusion, InCriticalSection
<1>6. OneOwner' /\ NoLeak'
  <2>1. \A t \in Threads : (Holds(t)' <=> Holds(t)) /\ (Holds(t) => job'[t] = job[t])
    BY DEF IInv, TypeOK, Phases, Holds
  <2> QED
    BY <2>1, OwnersKept DEF IInv
<1>7. NoLostWakeup'
  BY DEF IInv, TypeOK, Phases, NoLostWakeup, Asleep, MutualExclusion, InCriticalSection
<1> QED
  BY <1>1, <1>2, <1>3, <1>4, <1>5, <1>6, <1>7 DEF IInv

\* The mutex of pop_job.
LEMMA PopLockKeeps ==
  ASSUME IInv, NEW w \in Workers, PopLock(w)
  PROVE  IInv'
<1> USE JobsQueueAssumption DEF Threads, PopLock, Acquire, queue
<1>1. TypeOK'
  BY DEF IInv, TypeOK, Locations
<1>2. MutualExclusion'
  BY DEF IInv, TypeOK, MutualExclusion, InCriticalSection
<1>3. Phases'
  BY DEF IInv, TypeOK, Phases, MutualExclusion, InCriticalSection
<1>4. ListIsQueue'
  BY DEF IInv, TypeOK, Phases, ListIsQueue, Locals, MutualExclusion, InCriticalSection
<1>5. Locals'
  BY DEF IInv, TypeOK, Phases, Locals, ListIsQueue, Holds, MutualExclusion, InCriticalSection
<1>6. OneOwner' /\ NoLeak'
  <2>1. \A t \in Threads : (Holds(t)' <=> Holds(t)) /\ (Holds(t) => job'[t] = job[t])
    BY DEF IInv, TypeOK, Phases, Holds
  <2> QED
    BY <2>1, OwnersKept DEF IInv
<1>7. NoLostWakeup'
  BY DEF IInv, TypeOK, Phases, NoLostWakeup, Asleep, MutualExclusion, InCriticalSection
<1> QED
  BY <1>1, <1>2, <1>3, <1>4, <1>5, <1>6, <1>7 DEF IInv

\* A worker goes to sleep only when nothing waits and finish has not been called.
LEMMA PopWaitKeeps ==
  ASSUME IInv, NEW w \in Workers, PopWait(w)
  PROVE  IInv'
<1> USE JobsQueueAssumption DEF Threads, PopWait, Release, queue
<1>0. fifo = <<>>
  BY HeadOfList DEF IInv
<1>1. TypeOK'
  BY DEF IInv, TypeOK, Locations
<1>2. MutualExclusion'
  BY DEF IInv, TypeOK, MutualExclusion, InCriticalSection
<1>3. Phases'
  BY <1>0 DEF IInv, TypeOK, Phases, MutualExclusion, InCriticalSection
<1>4. ListIsQueue'
  BY DEF IInv, TypeOK, Phases, ListIsQueue, Locals, MutualExclusion, InCriticalSection
<1>5. Locals'
  BY DEF IInv, TypeOK, Phases, Locals, ListIsQueue, Holds, MutualExclusion, InCriticalSection
<1>6. OneOwner' /\ NoLeak'
  <2>1. \A t \in Threads : (Holds(t)' <=> Holds(t)) /\ (Holds(t) => job'[t] = job[t])
    BY DEF IInv, TypeOK, Phases, Holds
  <2> QED
    BY <2>1, OwnersKept DEF IInv
<1>7. NoLostWakeup'
  BY <1>0 DEF IInv, TypeOK, Phases, NoLostWakeup, Asleep, MutualExclusion, InCriticalSection
<1> QED
  BY <1>1, <1>2, <1>3, <1>4, <1>5, <1>6, <1>7 DEF IInv

\* A wake-up for no reason.
LEMMA SpuriousWakeupKeeps ==
  ASSUME IInv, NEW w \in Workers, SpuriousWakeup(w)
  PROVE  IInv'
<1> USE JobsQueueAssumption DEF Threads, SpuriousWakeup, queue
<1>1. TypeOK'
  BY DEF IInv, TypeOK, Locations
<1>2. MutualExclusion'
  BY DEF IInv, TypeOK, MutualExclusion, InCriticalSection
<1>3. Phases'
  BY DEF IInv, TypeOK, Phases, MutualExclusion, InCriticalSection
<1>4. ListIsQueue'
  BY DEF IInv, TypeOK, Phases, ListIsQueue, Locals, MutualExclusion, InCriticalSection
<1>5. Locals'
  BY DEF IInv, TypeOK, Phases, Locals, ListIsQueue, Holds, MutualExclusion, InCriticalSection
<1>6. OneOwner' /\ NoLeak'
  <2>1. \A t \in Threads : (Holds(t)' <=> Holds(t)) /\ (Holds(t) => job'[t] = job[t])
    BY DEF IInv, TypeOK, Phases, Holds
  <2> QED
    BY <2>1, OwnersKept DEF IInv
<1>7. NoLostWakeup'
  BY DEF IInv, TypeOK, Phases, NoLostWakeup, Asleep, MutualExclusion, InCriticalSection
<1> QED
  BY <1>1, <1>2, <1>3, <1>4, <1>5, <1>6, <1>7 DEF IInv

\* pthread_cond_wait returns with the mutex.
LEMMA WakeKeeps ==
  ASSUME IInv, NEW w \in Workers, Wake(w)
  PROVE  IInv'
<1> USE JobsQueueAssumption DEF Threads, Wake, Acquire, queue
<1>1. TypeOK'
  BY DEF IInv, TypeOK, Locations
<1>2. MutualExclusion'
  BY DEF IInv, TypeOK, MutualExclusion, InCriticalSection
<1>3. Phases'
  BY DEF IInv, TypeOK, Phases, MutualExclusion, InCriticalSection
<1>4. ListIsQueue'
  BY DEF IInv, TypeOK, Phases, ListIsQueue, Locals, MutualExclusion, InCriticalSection
<1>5. Locals'
  BY DEF IInv, TypeOK, Phases, Locals, ListIsQueue, Holds, MutualExclusion, InCriticalSection
<1>6. OneOwner' /\ NoLeak'
  <2>1. \A t \in Threads : (Holds(t)' <=> Holds(t)) /\ (Holds(t) => job'[t] = job[t])
    BY DEF IInv, TypeOK, Phases, Holds
  <2> QED
    BY <2>1, OwnersKept DEF IInv
<1>7. NoLostWakeup'
  BY DEF IInv, TypeOK, Phases, NoLostWakeup, Asleep, MutualExclusion, InCriticalSection
<1> QED
  BY <1>1, <1>2, <1>3, <1>4, <1>5, <1>6, <1>7 DEF IInv

\* A worker returns only when the queue is finished and empty.
LEMMA PopNothingKeeps ==
  ASSUME IInv, NEW w \in Workers, PopNothing(w)
  PROVE  IInv'
<1> USE JobsQueueAssumption DEF Threads, PopNothing, Release, queue
<1>0. fifo = <<>>
  BY HeadOfList DEF IInv
<1>1. TypeOK'
  BY DEF IInv, TypeOK, Locations
<1>2. MutualExclusion'
  BY DEF IInv, TypeOK, MutualExclusion, InCriticalSection
<1>3. Phases'
  BY <1>0 DEF IInv, TypeOK, Phases, MutualExclusion, InCriticalSection
<1>4. ListIsQueue'
  BY DEF IInv, TypeOK, Phases, ListIsQueue, Locals, MutualExclusion, InCriticalSection
<1>5. Locals'
  BY DEF IInv, TypeOK, Phases, Locals, ListIsQueue, Holds, MutualExclusion, InCriticalSection
<1>6. OneOwner' /\ NoLeak'
  <2>1. \A t \in Threads : (Holds(t)' <=> Holds(t)) /\ (Holds(t) => job'[t] = job[t])
    BY DEF IInv, TypeOK, Phases, Holds
  <2> QED
    BY <2>1, OwnersKept DEF IInv
<1>7. NoLostWakeup'
  BY <1>0 DEF IInv, TypeOK, Phases, NoLostWakeup, Asleep, MutualExclusion, InCriticalSection
<1> QED
  BY <1>1, <1>2, <1>3, <1>4, <1>5, <1>6, <1>7 DEF IInv

\* pop_job unlinks the oldest job, which leaves the list and enters the hands of
\* the worker.
LEMMA PopHeadKeeps ==
  ASSUME IInv, NEW w \in Workers, PopHead(w)
  PROVE  IInv'
<1> USE JobsQueueAssumption DEF Threads
<1>0. /\ TypeOK /\ MutualExclusion /\ Phases /\ ListIsQueue
      /\ Locals /\ OneOwner /\ NoLeak /\ NoLostWakeup
  BY DEF IInv
<1>1. /\ pc[w] = "check" /\ pc' = [pc EXCEPT ![w] = "fix tail"]
      /\ job' = [job EXCEPT ![w] = head] /\ head' = next[head] /\ head # NULL
      /\ fifo' = Tail(fifo)
      /\ UNCHANGED <<tail, next, finished, lock, memory, destroyed>>
  BY DEF PopHead
<1>2. /\ fifo # <<>> /\ Len(fifo) \in Nat /\ Len(fifo) > 0
      /\ head = fifo[1] /\ fifo[1] \in Jobs
      /\ \A i \in 1 .. Len(fifo) : fifo[i] \in Jobs
  <2>1. fifo # <<>> /\ \A i \in 1 .. Len(fifo) : fifo[i] \in Jobs
    BY <1>0, <1>1, HeadOfList, Zenon
  <2>2. Len(fifo) \in Nat /\ Len(fifo) > 0 /\ head = fifo[1]
    BY <1>0, <2>1, HeadOfList, Zenon
  <2> QED
    BY <2>1, <2>2
<1>3. /\ fifo' \in Seq(Jobs) /\ Len(fifo') = Len(fifo) - 1
      /\ \A i \in 1 .. Len(fifo) - 1 : fifo'[i] = fifo[i + 1]
      /\ fifo' = <<>> <=> Len(fifo) = 1
  BY <1>0, <1>1, <1>2, Removed, Zenon
<1>4. /\ \A t \in Threads \ {w} : ~InCriticalSection(t)
      /\ lock = w
  BY <1>0, <1>1 DEF MutualExclusion, InCriticalSection
<1>5. tail = fifo[Len(fifo)]
  <2>1. \A t \in Threads : pc[t] \notin {"set tail", "fix tail"}
    BY <1>1, <1>4 DEF InCriticalSection
  <2> QED
    BY <1>0, <1>2, <2>1, Zenon DEF ListIsQueue
<1>6. TypeOK'
  BY <1>0, <1>1, <1>2, <1>3 DEF TypeOK, Locations
<1>7. MutualExclusion'
  BY <1>0, <1>1 DEF MutualExclusion, InCriticalSection, TypeOK
<1>8. Phases'
  BY <1>0, <1>1, <1>2 DEF Phases, TypeOK
<1>9. ListIsQueue'
  <2>1. \A i \in 1 .. Len(fifo) : next[fifo[i]] = IF i = Len(fifo) THEN NULL ELSE fifo[i + 1]
    BY <1>0 DEF ListIsQueue
  <2>2. head' = IF fifo' = <<>> THEN NULL ELSE fifo'[1]
    <3>1. head' = IF 1 = Len(fifo) THEN NULL ELSE fifo[1 + 1]
      <4>1. 1 \in 1 .. Len(fifo)
        BY <1>2
      <4>2. head' = next[fifo[1]]
        BY <1>1, <1>2, Zenon
      <4> QED
        BY <2>1, <4>1, <4>2
    <3>2. 1 # Len(fifo) => fifo'[1] = fifo[1 + 1]
      BY <1>2, <1>3
    <3> QED
      BY <1>3, <3>1, <3>2
  <2>3. \A i \in 1 .. Len(fifo') : next[fifo'[i]] = IF i = Len(fifo') THEN NULL ELSE fifo'[i + 1]
    <3> SUFFICES ASSUME NEW i \in 1 .. Len(fifo) - 1
                 PROVE  next[fifo'[i]] = IF i = Len(fifo) - 1 THEN NULL ELSE fifo'[i + 1]
      BY <1>3
    <3>1. i + 1 \in 1 .. Len(fifo)
      BY <1>2
    <3> QED
      BY <1>2, <1>3, <2>1, <3>1
  <2>4. pc'[w] = "fix tail"
    BY <1>0, <1>1 DEF TypeOK
  <2> QED
    BY <1>1, <2>2, <2>3, <2>4 DEF ListIsQueue
<1>10. Locals'
  <2>1. \A p \in Producers : pc'[p] = pc[p] /\ job'[p] = job[p] /\ pc'[p] # "set tail"
    BY <1>0, <1>1, <1>4 DEF InCriticalSection, TypeOK
  <2>2. fifo' # <<>> => tail = fifo'[Len(fifo')]
    <3> SUFFICES ASSUME fifo' # <<>>
                 PROVE  tail = fifo'[Len(fifo) - 1]
      BY <1>3
    <3>1. Len(fifo) - 1 \in 1 .. Len(fifo) - 1 /\ (Len(fifo) - 1) + 1 = Len(fifo)
      BY <1>2, <1>3
    <3> QED
      BY <1>3, <1>5, <3>1
  <2>3. \A v \in Workers : ~Holds(v)' => job'[v] = NULL
    BY <1>0, <1>1 DEF Locals, Holds, TypeOK
  <2>4. \A p \in Producers : pc'[p] \in {"push", "link"} => next[job'[p]] = NULL
    BY <1>0, <2>1 DEF Locals
  <2> QED
    BY <1>1, <2>1, <2>2, <2>3, <2>4, Zenon DEF Locals
<1>11. OneOwner'
  <2>1. /\ \A t \in Threads : Holds(t)' <=> Holds(t) \/ t = w
        /\ \A t \in Threads \ {w} : job'[t] = job[t]
        /\ job'[w] = fifo[1] /\ ~Holds(w)
    BY <1>0, <1>1, <1>2 DEF Holds, TypeOK
  <2>2. /\ \A i, k \in 1 .. Len(fifo) : fifo[i] = fifo[k] => i = k
        /\ \A i \in 1 .. Len(fifo) : memory[fifo[i]] = "live"
    BY <1>0 DEF OneOwner
  <2>3. \A i \in 1 .. Len(fifo) - 1 : i + 1 \in 1 .. Len(fifo) /\ i + 1 # 1
    BY <1>2
  <2>4. 1 \in 1 .. Len(fifo)
    BY <1>2
  <2>5. \A i, k \in 1 .. Len(fifo) - 1 : fifo'[i] = fifo'[k] => i = k
    <3> SUFFICES ASSUME NEW i \in 1 .. Len(fifo) - 1, NEW k \in 1 .. Len(fifo) - 1,
                        fifo'[i] = fifo'[k]
                 PROVE  i = k
      OBVIOUS
    <3>1. fifo[i + 1] = fifo[k + 1]
      BY <1>3
    <3>2. i + 1 = k + 1
      BY <2>2, <2>3, <3>1
    <3> QED
      BY <1>2, <3>2
  <2>6. /\ \A i \in 1 .. Len(fifo) - 1 : memory[fifo'[i]] = "live" /\ fifo'[i] # fifo[1]
        /\ memory[fifo[1]] = "live"
    BY <1>3, <2>2, <2>3, <2>4
  <2>7. ASSUME NEW t \in Threads, Holds(t)
        PROVE  /\ job[t] # NULL
               /\ memory[job[t]] = "live"
               /\ \A i \in 1 .. Len(fifo) - 1 : fifo'[i] # job[t]
               /\ job[t] # fifo[1]
               /\ \A u \in Threads : Holds(u) /\ job[u] = job[t] => u = t
    <3>1. \A i \in 1 .. Len(fifo) : fifo[i] # job[t]
      BY <1>0, <2>7 DEF OneOwner
    <3>2. /\ \A i \in 1 .. Len(fifo) - 1 : fifo'[i] # job[t]
          /\ job[t] # fifo[1]
      BY <1>3, <2>3, <2>4, <3>1
    <3> QED
      BY <1>0, <2>7, <3>2, Zenon DEF OneOwner
  <2>8. ASSUME NEW t \in Threads, Holds(t)'
        PROVE  /\ job'[t] # NULL
               /\ memory[job'[t]] = "live"
               /\ \A i \in 1 .. Len(fifo) - 1 : fifo'[i] # job'[t]
               /\ \A u \in Threads : Holds(u)' /\ job'[u] = job'[t] => u = t
    <3>1. CASE t = w
      BY <1>2, <2>1, <2>6, <2>7, <3>1
    <3>2. CASE t # w
      BY <2>1, <2>7, <2>8, <3>2
    <3> QED
      BY <3>1, <3>2
  <2>9. Len(fifo') = Len(fifo) - 1 /\ memory' = memory
    BY <1>1, <1>3
  <2> QED
    BY <2>5, <2>6, <2>8, <2>9, Zenon DEF OneOwner
<1>12. NoLeak'
  <2>0. /\ Holds(w)' /\ job'[w] = fifo[1]
        /\ \A t \in Threads : Holds(t) => Holds(t)' /\ job'[t] = job[t]
    BY <1>0, <1>1, <1>2 DEF Holds, TypeOK
  <2> SUFFICES ASSUME NEW k \in Jobs, memory'[k] = "live"
      PROVE \/ \E i \in 1 .. Len(fifo') : fifo'[i] = k
            \/ \E t \in Threads : Holds(t)' /\ job'[t] = k
    BY DEF NoLeak
  <2>1. CASE k = fifo[1]
    BY <2>0, <2>1
  <2>2. ASSUME NEW i \in 1 .. Len(fifo), fifo[i] = k, k # fifo[1]
        PROVE  \E m \in 1 .. Len(fifo') : fifo'[m] = k
    <3>1. i - 1 \in 1 .. Len(fifo) - 1 /\ (i - 1) + 1 = i
      BY <1>2, <2>2
    <3>2. fifo'[i - 1] = fifo[i]
      BY <1>3, <3>1
    <3> QED
      BY <1>3, <2>2, <3>1, <3>2
  <2>3. CASE \E t \in Threads : Holds(t) /\ job[t] = k
    BY <2>0, <2>3
  <2>4. memory[k] = "live"
    BY <1>1
  <2> QED
    BY <1>0, <2>1, <2>2, <2>3, <2>4 DEF NoLeak
<1>13. NoLostWakeup'
  <2>1. finished' => Asleep' = {} \/ pc'[Main] = "broadcast"
    BY <1>0, <1>1 DEF NoLostWakeup, Asleep, TypeOK
  <2>2. pc'[w] = "fix tail"
    BY <1>0, <1>1 DEF TypeOK
  <2> QED
    BY <2>1, <2>2 DEF NoLostWakeup
<1> QED
  BY <1>6, <1>7, <1>8, <1>9, <1>10, <1>11, <1>12, <1>13 DEF IInv

\* pop_job clears the tail pointer when it took the last job.
LEMMA PopTailKeeps ==
  ASSUME IInv, NEW w \in Workers, PopTail(w)
  PROVE  IInv'
<1> USE JobsQueueAssumption DEF Threads, PopTail
<1>0. /\ TypeOK /\ MutualExclusion /\ Phases /\ ListIsQueue
      /\ Locals /\ OneOwner /\ NoLeak /\ NoLostWakeup
  BY DEF IInv
<1>1. /\ \A t \in Threads \ {w} : ~InCriticalSection(t) /\ pc'[t] = pc[t]
      /\ pc[w] = "fix tail" /\ pc'[w] = "popped"
  BY <1>0 DEF MutualExclusion, InCriticalSection, TypeOK
<1>2. tail' = IF fifo = <<>> THEN NULL ELSE fifo[Len(fifo)]
  <2>1. head = NULL <=> fifo = <<>>
    BY <1>0, HeadOfList
  <2>2. fifo # <<>> => tail = fifo[Len(fifo)]
    BY <1>0 DEF Locals
  <2> QED
    BY <2>1, <2>2
<1>3. TypeOK'
  BY <1>0 DEF TypeOK, Locations
<1>4. MutualExclusion'
  BY <1>0, <1>1 DEF MutualExclusion, InCriticalSection
<1>5. Phases'
  BY <1>0, <1>1 DEF Phases
<1>6. ListIsQueue'
  BY <1>0, <1>2 DEF ListIsQueue
<1>7. Locals'
  <2>1. \A v \in Workers : pc'[v] # "fix tail" /\ (Holds(v)' <=> Holds(v))
    BY <1>1 DEF InCriticalSection, Holds
  <2>2. \A p \in Producers : pc'[p] = pc[p]
    BY <1>1
  <2> QED
    BY <1>0, <2>1, <2>2 DEF Locals
<1>8. OneOwner' /\ NoLeak'
  <2>1. \A t \in Threads : (Holds(t)' <=> Holds(t)) /\ (Holds(t) => job'[t] = job[t])
    BY <1>1 DEF Holds
  <2> QED
    BY <1>0, <2>1, OwnersKept
<1>9. NoLostWakeup'
  BY <1>0, <1>1 DEF NoLostWakeup, Asleep
<1> QED
  BY <1>3, <1>4, <1>5, <1>6, <1>7, <1>8, <1>9 DEF IInv

\* pop_job gives the mutex up.
LEMMA PopUnlockKeeps ==
  ASSUME IInv, NEW w \in Workers, PopUnlock(w)
  PROVE  IInv'
<1> USE JobsQueueAssumption DEF Threads, PopUnlock, Release, queue
<1>1. TypeOK'
  BY DEF IInv, TypeOK, Locations
<1>2. MutualExclusion'
  BY DEF IInv, TypeOK, MutualExclusion, InCriticalSection
<1>3. Phases'
  BY DEF IInv, TypeOK, Phases, MutualExclusion, InCriticalSection
<1>4. ListIsQueue'
  BY DEF IInv, TypeOK, Phases, ListIsQueue, Locals, MutualExclusion, InCriticalSection
<1>5. Locals'
  BY DEF IInv, TypeOK, Phases, Locals, ListIsQueue, Holds, MutualExclusion, InCriticalSection
<1>6. OneOwner' /\ NoLeak'
  <2>1. \A t \in Threads : (Holds(t)' <=> Holds(t)) /\ (Holds(t) => job'[t] = job[t])
    BY DEF IInv, TypeOK, Phases, Holds
  <2> QED
    BY <2>1, OwnersKept DEF IInv
<1>7. NoLostWakeup'
  BY DEF IInv, TypeOK, Phases, NoLostWakeup, Asleep, MutualExclusion, InCriticalSection
<1> QED
  BY <1>1, <1>2, <1>3, <1>4, <1>5, <1>6, <1>7 DEF IInv

\* worker frees the job_t it alone still holds.
LEMMA RunJobKeeps ==
  ASSUME IInv, NEW w \in Workers, RunJob(w)
  PROVE  IInv'
<1> USE JobsQueueAssumption DEF Threads
<1>0. /\ TypeOK /\ MutualExclusion /\ Phases /\ ListIsQueue
      /\ Locals /\ OneOwner /\ NoLeak /\ NoLostWakeup
  BY DEF IInv
<1>1. /\ pc[w] = "run" /\ pc' = [pc EXCEPT ![w] = "pop"]
      /\ memory' = [memory EXCEPT ![job[w]] = "freed"] /\ job' = [job EXCEPT ![w] = NULL]
      /\ UNCHANGED <<head, tail, next, finished, lock, destroyed, fifo>>
  BY DEF RunJob
<1>2. /\ \A t \in Threads : Holds(t)' <=> Holds(t) /\ t # w
      /\ \A t \in Threads \ {w} : job'[t] = job[t] /\ pc'[t] = pc[t]
      /\ Holds(w) /\ job[w] \in Jobs /\ job'[w] = NULL /\ pc'[w] = "pop"
      /\ \A k \in Jobs \ {job[w]} : memory'[k] = memory[k]
      /\ memory'[job[w]] = "freed"
  <2>1. Holds(w)
    BY <1>1 DEF Holds
  <2>2. job[w] \in Jobs
    BY <1>0, <2>1 DEF OneOwner, TypeOK
  <2>3. /\ \A t \in Threads \ {w} : job'[t] = job[t] /\ pc'[t] = pc[t]
        /\ job'[w] = NULL /\ pc'[w] = "pop"
    BY <1>0, <1>1 DEF TypeOK
  <2>4. /\ \A k \in Jobs \ {job[w]} : memory'[k] = memory[k]
        /\ memory'[job[w]] = "freed"
    BY <1>0, <1>1, <2>2 DEF TypeOK
  <2>5. \A t \in Threads : Holds(t)' <=> Holds(t) /\ t # w
    BY <2>3 DEF Holds
  <2> QED
    BY <2>1, <2>2, <2>3, <2>4, <2>5
<1>3. \A i \in 1 .. Len(fifo) : fifo[i] # job[w] /\ fifo[i] \in Jobs
  BY <1>0, <1>2, HeadOfList DEF OneOwner
<1>4. \A t \in Threads \ {w} : Holds(t) => job[t] # job[w] /\ job[t] \in Jobs
  BY <1>0, <1>2 DEF OneOwner, TypeOK
<1>5. TypeOK'
  BY <1>0, <1>1, <1>2 DEF TypeOK, Locations
<1>6. MutualExclusion'
  BY <1>0, <1>1, <1>2 DEF MutualExclusion, InCriticalSection
<1>7. Phases'
  BY <1>0, <1>1 DEF Phases, TypeOK
<1>8. ListIsQueue'
  BY <1>0, <1>1, <1>2 DEF ListIsQueue
<1>9. Locals'
  BY <1>0, <1>1 DEF Locals, Holds, TypeOK
<1>10. OneOwner'
  <2>1. /\ \A i, k \in 1 .. Len(fifo) : fifo[i] = fifo[k] => i = k
        /\ \A i \in 1 .. Len(fifo) : memory'[fifo[i]] = "live"
    BY <1>0, <1>2, <1>3 DEF OneOwner
  <2>2. ASSUME NEW t \in Threads, Holds(t)'
        PROVE  /\ job'[t] # NULL
               /\ memory'[job'[t]] = "live"
               /\ \A i \in 1 .. Len(fifo) : fifo[i] # job'[t]
               /\ \A u \in Threads : Holds(u)' /\ job'[u] = job'[t] => u = t
    BY <1>0, <1>2, <1>4, <2>2 DEF OneOwner
  <2> QED
    BY <1>1, <2>1, <2>2 DEF OneOwner
<1>11. NoLeak'
  <2>1. \A k \in Jobs : memory'[k] = "live" => k # job[w] /\ memory[k] = "live"
    BY <1>2
  <2>2. \A k \in Jobs : memory'[k] = "live" =>
          \/ \E i \in 1 .. Len(fifo) : fifo[i] = k
          \/ \E t \in Threads : Holds(t)' /\ job'[t] = k
    BY <1>0, <1>2, <2>1 DEF NoLeak
  <2> QED
    BY <1>1, <2>2 DEF NoLeak
<1>12. NoLostWakeup'
  BY <1>0, <1>1 DEF NoLostWakeup, Asleep, TypeOK
<1> QED
  BY <1>5, <1>6, <1>7, <1>8, <1>9, <1>10, <1>11, <1>12 DEF IInv

\* jobs_queue_finish takes the mutex after the producers have returned.
LEMMA FinishLockKeeps ==
  ASSUME IInv, FinishLock
  PROVE  IInv'
<1> USE JobsQueueAssumption DEF Threads, FinishLock, Acquire, queue
<1>1. TypeOK'
  BY DEF IInv, TypeOK, Locations
<1>2. MutualExclusion'
  BY DEF IInv, TypeOK, MutualExclusion, InCriticalSection
<1>3. Phases'
  BY DEF IInv, TypeOK, Phases, MutualExclusion, InCriticalSection
<1>4. ListIsQueue'
  BY DEF IInv, TypeOK, Phases, ListIsQueue, Locals, MutualExclusion, InCriticalSection
<1>5. Locals'
  BY DEF IInv, TypeOK, Phases, Locals, ListIsQueue, Holds, MutualExclusion, InCriticalSection
<1>6. OneOwner' /\ NoLeak'
  <2>1. \A t \in Threads : (Holds(t)' <=> Holds(t)) /\ (Holds(t) => job'[t] = job[t])
    BY DEF IInv, TypeOK, Phases, Holds
  <2> QED
    BY <2>1, OwnersKept DEF IInv
<1>7. NoLostWakeup'
  BY DEF IInv, TypeOK, Phases, NoLostWakeup, Asleep, MutualExclusion, InCriticalSection
<1> QED
  BY <1>1, <1>2, <1>3, <1>4, <1>5, <1>6, <1>7 DEF IInv

\* jobs_queue_finish sets the flag.
LEMMA FinishSetKeeps ==
  ASSUME IInv, FinishSet
  PROVE  IInv'
<1> USE JobsQueueAssumption DEF Threads, FinishSet, queue
<1>1. TypeOK'
  BY DEF IInv, TypeOK, Locations
<1>2. MutualExclusion'
  BY DEF IInv, TypeOK, MutualExclusion, InCriticalSection
<1>3. Phases'
  BY DEF IInv, TypeOK, Phases, MutualExclusion, InCriticalSection
<1>4. ListIsQueue'
  BY DEF IInv, TypeOK, Phases, ListIsQueue, Locals, MutualExclusion, InCriticalSection
<1>5. Locals'
  BY DEF IInv, TypeOK, Phases, Locals, ListIsQueue, Holds, MutualExclusion, InCriticalSection
<1>6. OneOwner' /\ NoLeak'
  <2>1. \A t \in Threads : (Holds(t)' <=> Holds(t)) /\ (Holds(t) => job'[t] = job[t])
    BY DEF IInv, TypeOK, Phases, Holds
  <2> QED
    BY <2>1, OwnersKept DEF IInv
<1>7. NoLostWakeup'
  BY DEF IInv, TypeOK, Phases, NoLostWakeup, Asleep, MutualExclusion, InCriticalSection
<1> QED
  BY <1>1, <1>2, <1>3, <1>4, <1>5, <1>6, <1>7 DEF IInv

\* pthread_cond_broadcast leaves no worker asleep.
LEMMA FinishBroadcastKeeps ==
  ASSUME IInv, FinishBroadcast
  PROVE  IInv'
<1> USE JobsQueueAssumption DEF Threads, FinishBroadcast, Broadcast, Asleep, queue
<1>1. TypeOK'
  BY DEF IInv, TypeOK, Locations
<1>2. MutualExclusion'
  BY DEF IInv, TypeOK, MutualExclusion, InCriticalSection
<1>3. Phases'
  BY DEF IInv, TypeOK, Phases, MutualExclusion, InCriticalSection
<1>4. ListIsQueue'
  BY DEF IInv, TypeOK, Phases, ListIsQueue, Locals, MutualExclusion, InCriticalSection
<1>5. Locals'
  BY DEF IInv, TypeOK, Phases, Locals, ListIsQueue, Holds, MutualExclusion, InCriticalSection
<1>6. OneOwner' /\ NoLeak'
  <2>1. \A t \in Threads : (Holds(t)' <=> Holds(t)) /\ (Holds(t) => job'[t] = job[t])
    BY DEF IInv, TypeOK, Phases, Holds
  <2> QED
    BY <2>1, OwnersKept DEF IInv
<1>7. NoLostWakeup'
  BY DEF IInv, TypeOK, Phases, NoLostWakeup, Asleep, MutualExclusion, InCriticalSection
<1> QED
  BY <1>1, <1>2, <1>3, <1>4, <1>5, <1>6, <1>7 DEF IInv

\* jobs_queue_finish gives the mutex up.
LEMMA FinishUnlockKeeps ==
  ASSUME IInv, FinishUnlock
  PROVE  IInv'
<1> USE JobsQueueAssumption DEF Threads, FinishUnlock, Release, queue
<1>1. TypeOK'
  BY DEF IInv, TypeOK, Locations
<1>2. MutualExclusion'
  BY DEF IInv, TypeOK, MutualExclusion, InCriticalSection
<1>3. Phases'
  BY DEF IInv, TypeOK, Phases, MutualExclusion, InCriticalSection
<1>4. ListIsQueue'
  BY DEF IInv, TypeOK, Phases, ListIsQueue, Locals, MutualExclusion, InCriticalSection
<1>5. Locals'
  BY DEF IInv, TypeOK, Phases, Locals, ListIsQueue, Holds, MutualExclusion, InCriticalSection
<1>6. OneOwner' /\ NoLeak'
  <2>1. \A t \in Threads : (Holds(t)' <=> Holds(t)) /\ (Holds(t) => job'[t] = job[t])
    BY DEF IInv, TypeOK, Phases, Holds
  <2> QED
    BY <2>1, OwnersKept DEF IInv
<1>7. NoLostWakeup'
  BY DEF IInv, TypeOK, Phases, NoLostWakeup, Asleep, MutualExclusion, InCriticalSection
<1> QED
  BY <1>1, <1>2, <1>3, <1>4, <1>5, <1>6, <1>7 DEF IInv

\* jobs_queue_destroy runs after the workers have returned.
LEMMA DestroyKeeps ==
  ASSUME IInv, Destroy
  PROVE  IInv'
<1> USE JobsQueueAssumption DEF Threads, Destroy, queue
<1>1. TypeOK'
  BY DEF IInv, TypeOK, Locations
<1>2. MutualExclusion'
  BY DEF IInv, TypeOK, MutualExclusion, InCriticalSection
<1>3. Phases'
  BY DEF IInv, TypeOK, Phases, MutualExclusion, InCriticalSection
<1>4. ListIsQueue'
  BY DEF IInv, TypeOK, Phases, ListIsQueue, Locals, MutualExclusion, InCriticalSection
<1>5. Locals'
  BY DEF IInv, TypeOK, Phases, Locals, ListIsQueue, Holds, MutualExclusion, InCriticalSection
<1>6. OneOwner' /\ NoLeak'
  <2>1. \A t \in Threads : (Holds(t)' <=> Holds(t)) /\ (Holds(t) => job'[t] = job[t])
    BY DEF IInv, TypeOK, Phases, Holds
  <2> QED
    BY <2>1, OwnersKept DEF IInv
<1>7. NoLostWakeup'
  BY DEF IInv, TypeOK, Phases, NoLostWakeup, Asleep, MutualExclusion, InCriticalSection
<1> QED
  BY <1>1, <1>2, <1>3, <1>4, <1>5, <1>6, <1>7 DEF IInv

\* Every step of the program keeps the invariant.
LEMMA StepKeeps ==
  ASSUME IInv, [Next]_vars
  PROVE  IInv'
<1>1. CASE \E p \in Producers : Push(p)
  BY <1>1, NewJobKeeps, PushLockKeeps, PushLinkKeeps, PushTailKeeps, PushSignalKeeps,
     PushUnlockKeeps, StopKeeps, Zenon DEF Push
<1>2. CASE \E w \in Workers : Work(w) \/ SpuriousWakeup(w)
  BY <1>2, PopLockKeeps, PopWaitKeeps, WakeKeeps, PopNothingKeeps, PopHeadKeeps,
     PopTailKeeps, PopUnlockKeeps, RunJobKeeps, SpuriousWakeupKeeps, Zenon DEF Work
<1>3. CASE Finish
  BY <1>3, FinishLockKeeps, FinishSetKeeps, FinishBroadcastKeeps, FinishUnlockKeeps,
     DestroyKeeps, Zenon DEF Finish
<1>4. CASE UNCHANGED vars
  <2>1. TypeOK' /\ MutualExclusion' /\ Phases'
    BY <1>4 DEF vars, IInv, TypeOK, MutualExclusion, InCriticalSection, Phases
  <2>2. ListIsQueue' /\ Locals'
    BY <1>4, Zenon DEF vars, IInv, ListIsQueue, Locals, Holds
  <2>3. OneOwner' /\ NoLeak'
    BY <1>4, OwnersKept DEF vars, IInv, Holds
  <2>4. NoLostWakeup'
    BY <1>4, Zenon DEF vars, IInv, NoLostWakeup, Asleep
  <2> QED
    BY <2>1, <2>2, <2>3, <2>4 DEF IInv
<1> QED
  BY <1>1, <1>2, <1>3, <1>4, Zenon DEF Next, Ended

\* The invariant holds in every reachable state, whatever the threads do.
THEOREM Invariance == SafeSpec => []IInv
<1>1. IInv /\ [Next]_vars => IInv'
  BY StepKeeps
<1> QED
  BY InitHolds, <1>1, PTL DEF SafeSpec

\* The invariant implies that jobs_queue_destroy finds the queue abandoned.
LEMMA CleanAtTheEnd == IInv => CleanTeardown
<1> SUFFICES ASSUME IInv, destroyed = TRUE
             PROVE  CleanTeardown
  BY DEF CleanTeardown, IInv, TypeOK
<1> USE JobsQueueAssumption DEF Threads
<1>1. /\ pc[Main] = "end"
      /\ \A p \in Producers : pc[p] = "stopped"
      /\ \A w \in Workers : pc[w] = "returned"
  BY DEF IInv, Phases
<1>2. fifo = <<>> /\ Len(fifo) = 0
  <2>1. PICK w \in Workers : pc[w] = "returned"
    BY <1>1
  <2>2. fifo = <<>>
    BY <2>1 DEF IInv, Phases
  <2> QED
    BY <2>2
<1>3. \A t \in Threads : ~Holds(t) /\ ~InCriticalSection(t)
  BY <1>1 DEF Holds, InCriticalSection
<1>4. lock = NULL
  BY <1>3 DEF IInv, TypeOK, MutualExclusion
<1>5. \A j \in Jobs : memory[j] # "live"
  BY <1>2, <1>3 DEF IInv, NoLeak
<1> QED
  BY <1>1, <1>2, <1>4, <1>5 DEF CleanTeardown

\* Every variable keeps the type its C declaration gives it.
THEOREM Types == SafeSpec => []TypeOK
<1>1. IInv => TypeOK
  BY DEF IInv
<1> QED
  BY Invariance, <1>1, PTL

\* Two threads are never inside a critical section of jobs.c together.
THEOREM Mutex == SafeSpec => []MutualExclusion
<1>1. IInv => MutualExclusion
  BY DEF IInv
<1> QED
  BY Invariance, <1>1, PTL

\* head, tail and the next fields always spell the FIFO queue.
THEOREM LinkedList == SafeSpec => []ListIsQueue
<1>1. IInv => ListIsQueue
  BY DEF IInv
<1> QED
  BY Invariance, <1>1, PTL

\* No job_t is in two places, used after it was freed, or freed twice.
THEOREM Ownership == SafeSpec => []OneOwner
<1>1. IInv => OneOwner
  BY DEF IInv
<1> QED
  BY Invariance, <1>1, PTL

\* No job waits, and no finish goes unnoticed, while every worker sleeps.
THEOREM Wakeups == SafeSpec => []NoLostWakeup
<1>1. IInv => NoLostWakeup
  BY DEF IInv
<1> QED
  BY Invariance, <1>1, PTL

\* jobs_queue_destroy never frees a queue that a thread may still touch, that
\* still holds a job, or of which a job_t is left allocated.
THEOREM Teardown == SafeSpec => []CleanTeardown
BY Invariance, CleanAtTheEnd, PTL

-----------------------------------------------------------------------------
(* The queue implements WorkQueue.                                         *)

\* The initial states are initial states of the abstract queue.
LEMMA QueueInit == Init => Queue!Init
<1> SUFFICES ASSUME Init PROVE Queue!Init
  OBVIOUS
<1> USE JobsQueueAssumption DEF Threads
<1>1. \A w \in Workers : pc[w] = "pop" /\ job[w] = NULL
  BY DEF Init
<1>2. \A j \in Jobs : memory[j] = "none" /\ j # NULL
  BY DEF Init
<1>3. fifo = <<>> /\ Len(fifo) = 0 /\ finished = FALSE
  BY DEF Init
<1>4. Serving = [w \in Workers |-> NULL]
  BY <1>1 DEF Serving
<1>5. Completed = {} /\ Gone = {}
  BY <1>1, <1>2 DEF Completed, Gone
<1>6. Submitted = {}
  BY <1>1, <1>2, <1>3, <1>5 DEF Submitted
<1> QED
  BY <1>3, <1>4, <1>5, <1>6 DEF Queue!Init

\* A step that changes neither the queue, nor what a worker serves, nor who has
\* left, nor what is freed is no step of the abstract queue.
LEMMA QueueStutters ==
  ASSUME UNCHANGED <<fifo, finished>>,
         \A j \in Jobs : memory'[j] = "freed" <=> memory[j] = "freed",
         \A w \in Workers : /\ job'[w] = job[w]
                            /\ pc'[w] \in {"fix tail", "popped", "run"} <=>
                                 pc[w] \in {"fix tail", "popped", "run"}
                            /\ pc'[w] = "returned" <=> pc[w] = "returned"
  PROVE  UNCHANGED Queue!queueVars
<1>1. Serving' = Serving
  BY DEF Serving
<1>2. Completed' = Completed /\ Gone' = Gone
  BY DEF Completed, Gone
<1>3. Submitted' = Submitted
  BY <1>2 DEF Submitted
<1> QED
  BY <1>1, <1>2, <1>3 DEF Queue!queueVars

\* The steps of push_new_job other than linking the job are invisible.
LEMMA WorkersUnchanged ==
  ASSUME IInv, IInv', NEW p \in Producers,
        NewJob(p) \/ PushLock(p) \/ PushTail(p) \/ PushSignal(p) \/ PushUnlock(p) \/ Stop(p)
  PROVE UNCHANGED Queue!queueVars
<1> USE JobsQueueAssumption DEF Threads, queue
<1>1. UNCHANGED <<fifo, finished>>
  BY DEF NewJob, PushLock, PushTail, PushSignal, PushUnlock, Stop
<1>2. \A j \in Jobs : memory'[j] = "freed" <=> memory[j] = "freed"
  BY DEF NewJob, PushLock, PushTail, PushSignal, PushUnlock, Stop, IInv, TypeOK
<1>3. \A w \in Workers : job'[w] = job[w]
  BY DEF NewJob, PushLock, PushTail, PushSignal, PushUnlock, Stop, IInv, TypeOK
<1>4. \A w \in Workers : pc'[w] = pc[w] \/ (pc[w] = "asleep" /\ pc'[w] = "woken")
  BY DEF NewJob, PushLock, PushTail, PushSignal, PushUnlock, Stop,
         Signal, Asleep, Acquire, Release, IInv, TypeOK
<1> QED
  BY <1>1, <1>2, <1>3, <1>4, QueueStutters

\* Linking a job submits it.
LEMMA LinkSubmits ==
  ASSUME IInv, NEW p \in Producers, PushLink(p)
  PROVE  Queue!Submit(job[p])
<1> USE JobsQueueAssumption DEF Threads
<1>1. /\ pc[p] = "link" /\ pc' = [pc EXCEPT ![p] = "set tail"]
      /\ fifo' = Append(fifo, job[p])
      /\ UNCHANGED <<finished, memory, job>>
  BY DEF PushLink
<1>2. Holds(p) /\ job[p] \in Jobs
  BY <1>1 DEF Holds, IInv, OneOwner, TypeOK
<1>3. ~finished
  BY <1>1 DEF IInv, Phases
<1>4. /\ memory[job[p]] = "live"
      /\ \A i \in 1 .. Len(fifo) : fifo[i] # job[p]
  BY <1>2, Zenon DEF IInv, OneOwner
<1>5. \A w \in Workers : job[w] # job[p]
  BY <1>2 DEF IInv, Locals, OneOwner
<1>6. \A w \in Workers : pc'[w] = pc[w]
  BY <1>1 DEF IInv, TypeOK
<1>7. /\ Len(fifo) \in Nat /\ Len(fifo') = Len(fifo) + 1
      /\ fifo'[Len(fifo) + 1] = job[p]
      /\ \A i \in 1 .. Len(fifo) : fifo'[i] = fifo[i]
  BY <1>1, <1>2, Appended, HeadOfList, Zenon DEF IInv
<1>8. \A j \in Jobs : (\E i \in 1 .. Len(fifo') : fifo'[i] = j) <=>
                      (\E i \in 1 .. Len(fifo) : fifo[i] = j) \/ j = job[p]
  BY <1>7
<1>9. Completed' = Completed /\ Serving' = Serving /\ Gone' = Gone
  BY <1>1, <1>6 DEF Completed, Serving, Gone
<1>10. Submitted' = Submitted \cup {job[p]}
  BY <1>1, <1>2, <1>8, <1>9 DEF Submitted
<1>11. job[p] \notin Submitted
  BY <1>4, <1>5 DEF Submitted, Completed
<1> QED
  BY <1>1, <1>3, <1>9, <1>10, <1>11 DEF Queue!Submit

\* Unlinking the head serves the oldest job.
LEMMA HeadServes ==
  ASSUME IInv, NEW w \in Workers, PopHead(w)
  PROVE  Queue!Serve(w)
<1> USE JobsQueueAssumption DEF Threads
<1>1. /\ pc[w] = "check" /\ pc' = [pc EXCEPT ![w] = "fix tail"]
      /\ job' = [job EXCEPT ![w] = head]
      /\ fifo' = Tail(fifo) /\ head # NULL
      /\ UNCHANGED <<finished, memory>>
  BY DEF PopHead
<1>2. /\ fifo # <<>> /\ Len(fifo) \in Nat /\ Len(fifo) > 0 /\ head = fifo[1]
      /\ \A i \in 1 .. Len(fifo) : fifo[i] \in Jobs
  <2>1. fifo # <<>>
    BY <1>1, HeadOfList, Zenon DEF IInv
  <2> QED
    BY <2>1, HeadOfList, Zenon DEF IInv
<1>3. /\ Len(fifo') = Len(fifo) - 1
      /\ \A i \in 1 .. Len(fifo) - 1 : fifo'[i] = fifo[i + 1]
  BY <1>1, <1>2, Removed, Zenon DEF IInv
<1>4. /\ pc'[w] = "fix tail" /\ job'[w] = fifo[1] /\ job[w] = NULL
      /\ \A v \in Workers \ {w} : pc'[v] = pc[v] /\ job'[v] = job[v]
  BY <1>1, <1>2 DEF IInv, TypeOK, Locals, Holds
<1>5. Head(fifo) = fifo[1]
  BY <1>2
<1>6. \A j \in Jobs : (\E i \in 1 .. Len(fifo) : fifo[i] = j) <=>
                      (\E i \in 1 .. Len(fifo') : fifo'[i] = j) \/ j = fifo[1]
  <2> SUFFICES ASSUME NEW j \in Jobs
               PROVE (\E i \in 1 .. Len(fifo) : fifo[i] = j) <=>
                      (\E i \in 1 .. Len(fifo') : fifo'[i] = j) \/ j = fifo[1]
    OBVIOUS
  <2>1. ASSUME NEW i \in 1 .. Len(fifo), fifo[i] = j
        PROVE  (\E k \in 1 .. Len(fifo') : fifo'[k] = j) \/ j = fifo[1]
    <3>1. CASE i = 1
      BY <2>1, <3>1
    <3>2. CASE i # 1
      <4>1. i - 1 \in 1 .. Len(fifo) - 1 /\ (i - 1) + 1 = i
        BY <1>2, <3>2
      <4> QED
        BY <1>3, <2>1, <4>1
    <3> QED
      BY <3>1, <3>2
  <2>2. ASSUME NEW i \in 1 .. Len(fifo'), fifo'[i] = j
        PROVE  \E k \in 1 .. Len(fifo) : fifo[k] = j
    <3>1. i + 1 \in 1 .. Len(fifo)
      BY <1>2, <1>3
    <3> QED
      BY <1>3, <2>2, <3>1
  <2>3. j = fifo[1] => \E k \in 1 .. Len(fifo) : fifo[k] = j
    BY <1>2
  <2> QED
    BY <2>1, <2>2, <2>3
<1>7. Completed' = Completed /\ Gone' = Gone
  BY <1>1, <1>4 DEF Completed, Gone
<1>8. Serving[w] = NULL /\ w \notin Gone
  BY <1>1 DEF Serving, Gone
<1>9. Serving' = [Serving EXCEPT ![w] = Head(fifo)]
  BY <1>4, <1>5 DEF Serving
<1>10. Submitted' = Submitted
  <2>1. \A j \in Jobs : (\E v \in Workers : job'[v] = j) <=>
                        (\E v \in Workers : job[v] = j) \/ j = fifo[1]
    BY <1>4
  <2>2. \A j \in Jobs : j \in Submitted' <=> j \in Submitted
    BY <1>6, <1>7, <2>1, Zenon DEF Submitted
  <2> QED
    BY <2>2 DEF Submitted
<1> QED
  BY <1>1, <1>2, <1>7, <1>8, <1>9, <1>10 DEF Queue!Serve

\* Running the function of the queue and freeing the job_t completes the job.
LEMMA RunCompletes ==
  ASSUME IInv, NEW w \in Workers, RunJob(w)
  PROVE  Queue!Complete(w)
<1> USE JobsQueueAssumption DEF Threads
<1>1. /\ pc[w] = "run" /\ pc' = [pc EXCEPT ![w] = "pop"]
      /\ memory' = [memory EXCEPT ![job[w]] = "freed"] /\ job' = [job EXCEPT ![w] = NULL]
      /\ UNCHANGED <<finished, fifo>>
  BY DEF RunJob
<1>2. job[w] \in Jobs
  BY <1>1 DEF IInv, OneOwner, TypeOK, Holds
<1>3. /\ \A v \in Workers \ {w} : job'[v] = job[v] /\ pc'[v] = pc[v]
      /\ job'[w] = NULL /\ pc'[w] = "pop"
      /\ \A j \in Jobs \ {job[w]} : memory'[j] = memory[j]
      /\ memory'[job[w]] = "freed"
  BY <1>1, <1>2 DEF IInv, TypeOK
<1> QED
  <2>1. Serving[w] = job[w] /\ job[w] # NULL
    BY <1>1, <1>2 DEF Serving
  <2>2. Completed' = Completed \cup {job[w]} /\ Gone' = Gone
    BY <1>1, <1>2, <1>3 DEF Completed, Gone
  <2>3. Serving' = [Serving EXCEPT ![w] = NULL]
    BY <1>3 DEF Serving
  <2>4. Submitted' = Submitted
    <3>1. \A j \in Jobs \ {job[w]} :
            (\E v \in Workers : job'[v] = j) <=> (\E v \in Workers : job[v] = j)
      BY <1>3
    <3>2. job[w] \in Submitted /\ job[w] \in Submitted'
      BY <1>2, <2>2 DEF Submitted
    <3>3. \A j \in Jobs : j \in Submitted' <=> j \in Submitted
      BY <1>1, <2>2, <3>1, <3>2 DEF Submitted
    <3> QED
      BY <3>3 DEF Submitted
  <2> QED
    BY <1>1, <2>1, <2>2, <2>3, <2>4 DEF Queue!Complete

\* pop_job returns NULL only to a worker that may leave.
LEMMA NothingLeaves ==
  ASSUME IInv, NEW w \in Workers, PopNothing(w)
  PROVE  Queue!Leave(w)
<1> USE JobsQueueAssumption DEF Threads, queue
<1>1. /\ pc[w] = "check" /\ pc' = [pc EXCEPT ![w] = "returned"]
      /\ head = NULL /\ finished
      /\ UNCHANGED <<finished, memory, job, fifo>>
  BY DEF PopNothing, Release
<1>2. fifo = <<>>
  BY <1>1, HeadOfList DEF IInv
<1>3. /\ \A v \in Workers \ {w} : pc'[v] = pc[v]
      /\ pc'[w] = "returned"
  BY <1>1 DEF IInv, TypeOK
<1> QED
  BY <1>1, <1>2, <1>3 DEF Queue!Leave, Serving, Submitted, Completed, Gone

\* Setting the finished flag closes the queue.
LEMMA SetCloses ==
  ASSUME IInv, FinishSet
  PROVE  Queue!Close
<1> USE JobsQueueAssumption DEF Threads
<1>1. /\ pc[Main] = "set finished" /\ pc' = [pc EXCEPT ![Main] = "broadcast"]
      /\ finished' = TRUE
      /\ UNCHANGED <<memory, job, fifo>>
  BY DEF FinishSet
<1>2. finished = FALSE
  BY <1>1 DEF IInv, TypeOK, Phases
<1>3. \A v \in Workers : pc'[v] = pc[v]
  BY <1>1 DEF IInv, TypeOK
<1> QED
  BY <1>1, <1>2, <1>3 DEF Queue!Close, Serving, Submitted, Completed, Gone

\* The other steps of pop_job are invisible.
LEMMA WorkStutters ==
  ASSUME IInv, NEW w \in Workers,
        PopLock(w) \/ PopWait(w) \/ SpuriousWakeup(w) \/ Wake(w) \/ PopTail(w) \/ PopUnlock(w)
  PROVE UNCHANGED Queue!queueVars
<1> USE JobsQueueAssumption DEF Threads, queue
<1>1. UNCHANGED <<fifo, finished, memory, job>>
  BY DEF PopLock, PopWait, SpuriousWakeup, Wake, PopTail, PopUnlock
<1>2. \A v \in Workers :
         /\ pc'[v] \in {"fix tail", "popped", "run"} <=> pc[v] \in {"fix tail", "popped", "run"}
         /\ pc'[v] = "returned" <=> pc[v] = "returned"
  BY DEF PopLock, PopWait, SpuriousWakeup, Wake, PopTail, PopUnlock, Acquire, Release, IInv, TypeOK
<1> QED
  BY <1>1, <1>2, QueueStutters

\* The other steps of jobs_queue_finish and jobs_queue_destroy are invisible.
LEMMA FinishStutters ==
  ASSUME IInv, FinishLock \/ FinishBroadcast \/ FinishUnlock \/ Destroy
  PROVE UNCHANGED Queue!queueVars
<1> USE JobsQueueAssumption DEF Threads, queue
<1>1. UNCHANGED <<fifo, finished, memory, job>>
  BY DEF FinishLock, FinishBroadcast, FinishUnlock, Destroy
<1>2. \A v \in Workers : pc'[v] = pc[v] \/ (pc[v] = "asleep" /\ pc'[v] = "woken")
  BY DEF FinishLock, FinishBroadcast, FinishUnlock, Destroy,
         Acquire, Release, Broadcast, Asleep, IInv, TypeOK
<1> QED
  BY <1>1, <1>2, QueueStutters

\* Every step is a step of the abstract queue, or none.
LEMMA StepRefines ==
  ASSUME IInv, IInv', [Next]_vars
  PROVE  [Queue!Next]_(Queue!queueVars)
<1>1. ASSUME NEW p \in Producers, Push(p)
      PROVE  Queue!Next \/ UNCHANGED Queue!queueVars
  <2>1. CASE PushLink(p)
    <3>1. job[p] \in Jobs
      BY <2>1 DEF PushLink, IInv, OneOwner, TypeOK, Holds, Threads
    <3> QED
      BY <2>1, <3>1, LinkSubmits DEF Queue!Next
  <2> QED
    BY <1>1, <2>1, WorkersUnchanged, Zenon DEF Push
<1>2. ASSUME NEW w \in Workers, Work(w) \/ SpuriousWakeup(w)
      PROVE  Queue!Next \/ UNCHANGED Queue!queueVars
  BY <1>2, HeadServes, RunCompletes, NothingLeaves, WorkStutters, Zenon DEF Work, Queue!Next
<1>3. CASE Finish
  BY <1>3, SetCloses, FinishStutters, Zenon DEF Finish, Queue!Next
<1>4. CASE Ended \/ UNCHANGED vars
  BY <1>4, QueueStutters DEF Ended, vars
<1> QED
  BY <1>1, <1>2, <1>3, <1>4, Zenon DEF Next

\* Under the refinement mapping Queue, every behaviour of the linked list with
\* its mutex and its condition variable is a behaviour of the FIFO queue.
THEOREM Implements == SafeSpec => Queue!SafeSpec
<1>1. IInv /\ IInv' /\ [Next]_vars => [Queue!Next]_(Queue!queueVars)
  BY StepRefines
<1> QED
  BY QueueInit, Invariance, <1>1, PTL DEF SafeSpec, Queue!SafeSpec
=============================================================================
