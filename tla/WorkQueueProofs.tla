-------------------------- MODULE WorkQueueProofs --------------------------
(***************************************************************************)
(* The FIFO queue of WorkQueue loses no job, gives none to two workers and *)
(* lets no worker leave too early, for any sets of jobs and workers.  What *)
(* is proved here of the abstract queue holds of src/src/jobs.c, which     *)
(* implements it, and of the two queues of Pipeline, which are instances.  *)
(***************************************************************************)
EXTENDS WorkQueue, SequenceTheorems, TLAPS

\* The positions of a queue before and after a job is appended.
LEMMA Appended ==
  ASSUME TypeOK, NEW j \in Jobs, items' = Append(items, j)
  PROVE  /\ items' \in Seq(Jobs)
         /\ Len(items) \in Nat
         /\ Len(items') = Len(items) + 1
         /\ items'[Len(items) + 1] = j
         /\ \A i \in 1 .. Len(items) : items'[i] = items[i]
BY AppendProperties, LenProperties DEF TypeOK

\* And before and after the oldest one is taken.
LEMMA Taken ==
  ASSUME TypeOK, items # <<>>, items' = Tail(items)
  PROVE  /\ items' \in Seq(Jobs)
         /\ Len(items) \in Nat \ {0}
         /\ Len(items') = Len(items) - 1
         /\ Head(items) = items[1]
         /\ items[1] \in Jobs
         /\ \A i \in 1 .. Len(items) - 1 : items'[i] = items[i + 1]
<1>1. items \in Seq(Jobs) /\ Len(items) \in Nat \ {0}
  BY EmptySeq DEF TypeOK
<1>2. /\ items' \in Seq(Jobs)
      /\ Len(items') = Len(items) - 1
      /\ \A i \in 1 .. Len(items) - 1 : items'[i] = items[i + 1]
  BY <1>1, HeadTailProperties
<1>3. items[1] \in Jobs /\ Head(items) = items[1]
  BY <1>1, ElementOfSeq
<1> QED
  BY <1>1, <1>2, <1>3

\* What waits once a job is appended, and once the oldest one is taken.
LEMMA WaitsAppended ==
  ASSUME TypeOK, NEW j \in Jobs, items' = Append(items, j), NEW k \in Jobs
  PROVE  Waits(k)' <=> Waits(k) \/ k = j
<1>1. ASSUME NEW i \in 1 .. Len(items'), items'[i] = k PROVE Waits(k) \/ k = j
  <2>1. CASE i = Len(items) + 1
    BY <1>1, <2>1, Appended
  <2>2. CASE i # Len(items) + 1
    <3>1. i \in 1 .. Len(items)
      BY <1>1, <2>2, Appended
    <3> QED
      BY <1>1, <3>1, Appended DEF Waits
  <2> QED
    BY <2>1, <2>2
<1>2. ASSUME NEW i \in 1 .. Len(items), items[i] = k PROVE Waits(k)'
  <2>1. i \in 1 .. Len(items') /\ items'[i] = k
    BY <1>2, Appended
  <2> QED
    BY <2>1 DEF Waits
<1>3. ASSUME k = j PROVE Waits(k)'
  <2>1. Len(items) + 1 \in 1 .. Len(items') /\ items'[Len(items) + 1] = k
    BY <1>3, Appended
  <2> QED
    BY <2>1 DEF Waits
<1> QED
  BY <1>1, <1>2, <1>3 DEF Waits

LEMMA WaitsTaken ==
  ASSUME TypeOK, EachJobOnce, items # <<>>, items' = Tail(items), NEW k \in Jobs
  PROVE  /\ Waits(k)' <=> Waits(k) /\ k # items[1]
         /\ Waits(items[1])
<1>1. ASSUME NEW i \in 1 .. Len(items'), items'[i] = k PROVE Waits(k) /\ k # items[1]
  <2>1. i + 1 \in 1 .. Len(items) /\ items[i + 1] = k /\ 1 \in 1 .. Len(items) /\ i + 1 # 1
    BY <1>1, Taken
  <2>2. items[i + 1] # items[1]
    BY <2>1 DEF EachJobOnce
  <2> QED
    BY <2>1, <2>2 DEF Waits
<1>2. ASSUME NEW i \in 1 .. Len(items), items[i] = k, k # items[1] PROVE Waits(k)'
  <2>1. i - 1 \in 1 .. Len(items') /\ items'[i - 1] = k
    <3>1. i # 1 /\ i - 1 \in 1 .. Len(items) - 1 /\ (i - 1) + 1 = i
      BY <1>2, Taken
    <3> QED
      BY <1>2, <3>1, Taken
  <2> QED
    BY <2>1 DEF Waits
<1>3. Waits(items[1])
  <2>1. 1 \in 1 .. Len(items)
    BY Taken
  <2> QED
    BY <2>1 DEF Waits
<1> QED
  BY <1>1, <1>2, <1>3 DEF Waits

-----------------------------------------------------------------------------
(* The invariant.  NULL has to be told from the jobs.                      *)

\* An empty queue with idle workers satisfies it.
LEMMA QueueInit ==
  ASSUME NULL \notin Jobs, Init
  PROVE  QueueInv
<1>1. TypeOK
  BY EmptySeq DEF Init, TypeOK
<1>2. Len(items) = 0
  BY EmptySeq DEF Init
<1>3. \A j \in Jobs : ~Waits(j) /\ ~Served(j)
  BY <1>2 DEF Init, Waits, Served
<1>4. EachJobOnce /\ LeavesLast
  BY <1>2, <1>3 DEF Init, EachJobOnce, LeavesLast
<1> QED
  BY <1>1, <1>4 DEF QueueInv

\* Submitting a job that was not submitted before keeps it.
LEMMA SubmitKeeps ==
  ASSUME QueueInv, NEW j \in Jobs, Submit(j)
  PROVE  QueueInv'
<1>1. /\ ~closed /\ j \notin submitted
      /\ items' = Append(items, j)
      /\ submitted' = submitted \cup {j}
      /\ UNCHANGED <<closed, serving, completed, gone>>
  BY DEF Submit
<1>2. TypeOK'
  BY <1>1, Appended DEF QueueInv, TypeOK
<1>3. \A k \in Jobs : Waits(k)' <=> Waits(k) \/ k = j
  BY <1>1, WaitsAppended DEF QueueInv
<1>4. \A k \in Jobs : Served(k)' <=> Served(k)
  BY <1>1 DEF Served
<1>5. ~Waits(j) /\ ~Served(j) /\ j \notin completed
  BY <1>1 DEF QueueInv, TypeOK, EachJobOnce
<1>6. \A i, k \in 1 .. Len(items') : items'[i] = items'[k] => i = k
  <2>1. \A i \in 1 .. Len(items) : items[i] # j
    BY <1>5 DEF Waits
  <2>2. \A i, k \in 1 .. Len(items) : items[i] = items[k] => i = k
    BY DEF QueueInv, EachJobOnce
  <2> QED
    BY <1>1, <2>1, <2>2, Appended DEF QueueInv
<1>7. EachJobOnce'
  <2>1. \A v, w \in Workers : serving'[v] = serving'[w] /\ serving'[w] # NULL => v = w
    BY <1>1 DEF QueueInv, EachJobOnce
  <2>2. \A k \in Jobs : Waits(k)' => k \in submitted' \ completed' /\ ~Served(k)'
    BY <1>1, <1>3, <1>4, <1>5 DEF QueueInv, EachJobOnce
  <2>3. \A k \in Jobs : Served(k)' => k \in submitted' \ completed'
    BY <1>1, <1>4 DEF QueueInv, EachJobOnce
  <2>4. \A k \in submitted' : Waits(k)' \/ Served(k)' \/ k \in completed'
    BY <1>1, <1>3, <1>4 DEF QueueInv, EachJobOnce, TypeOK
  <2> QED
    BY <1>6, <2>1, <2>2, <2>3, <2>4 DEF EachJobOnce
<1>8. LeavesLast'
  BY <1>1 DEF QueueInv, LeavesLast
<1> QED
  BY <1>2, <1>7, <1>8 DEF QueueInv

\* Closing the queue keeps it.
LEMMA CloseKeeps ==
  ASSUME QueueInv, Close
  PROVE  QueueInv'
<1>1. closed' = TRUE /\ UNCHANGED <<items, serving, submitted, completed, gone>>
  BY DEF Close
<1>2. TypeOK' /\ LeavesLast'
  BY <1>1 DEF QueueInv, TypeOK, LeavesLast
<1>3. EachJobOnce'
  BY <1>1 DEF QueueInv, EachJobOnce, Waits, Served
<1> QED
  BY <1>2, <1>3 DEF QueueInv

\* Giving the oldest job to an idle worker keeps it.
LEMMA ServeKeeps ==
  ASSUME NULL \notin Jobs, QueueInv, NEW w \in Workers, Serve(w)
  PROVE  QueueInv'
<1>1. /\ w \notin gone /\ serving[w] = NULL /\ items # <<>>
      /\ serving' = [serving EXCEPT ![w] = items[1]]
      /\ items' = Tail(items)
      /\ UNCHANGED <<closed, submitted, completed, gone>>
  BY Taken DEF Serve, QueueInv
<1>2. TypeOK'
  BY <1>1, Taken DEF QueueInv, TypeOK
<1>3. \A k \in Jobs : Waits(k)' <=> Waits(k) /\ k # items[1]
  BY <1>1, WaitsTaken DEF QueueInv
<1>4. items[1] \in Jobs /\ Waits(items[1])
  BY <1>1, WaitsTaken, Taken DEF QueueInv
<1>5. /\ serving'[w] = items[1]
      /\ \A v \in Workers \ {w} : serving'[v] = serving[v]
  BY <1>1 DEF QueueInv, TypeOK
<1>6. \A k \in Jobs : Served(k)' <=> Served(k) \/ k = items[1]
  BY <1>1, <1>5 DEF Served
<1>7. ~Served(items[1]) /\ items[1] \in submitted \ completed
  BY <1>4 DEF QueueInv, EachJobOnce
<1>8. EachJobOnce'
  <2>1. \A i, k \in 1 .. Len(items') : items'[i] = items'[k] => i = k
    <3>1. \A i, k \in 1 .. Len(items) : items[i] = items[k] => i = k
      BY DEF QueueInv, EachJobOnce
    <3> SUFFICES ASSUME NEW i \in 1 .. Len(items'), NEW k \in 1 .. Len(items'),
                        items'[i] = items'[k]
                 PROVE  i = k
      OBVIOUS
    <3>2. i + 1 \in 1 .. Len(items) /\ k + 1 \in 1 .. Len(items)
      BY <1>1, Taken DEF QueueInv
    <3>3. items[i + 1] = items[k + 1]
      BY <1>1, Taken DEF QueueInv
    <3> QED
      BY <3>1, <3>2, <3>3
  <2>2. \A u, v \in Workers : serving'[u] = serving'[v] /\ serving'[v] # NULL => u = v
    <3>1. \A v \in Workers : serving[v] # items[1]
      BY <1>7 DEF Served
    <3> QED
      BY <1>5, <3>1 DEF QueueInv, EachJobOnce
  <2>3. \A k \in Jobs : Waits(k)' => k \in submitted' \ completed' /\ ~Served(k)'
    BY <1>1, <1>3, <1>6 DEF QueueInv, EachJobOnce
  <2>4. \A k \in Jobs : Served(k)' => k \in submitted' \ completed'
    BY <1>1, <1>6, <1>7 DEF QueueInv, EachJobOnce
  <2>5. \A k \in submitted' : Waits(k)' \/ Served(k)' \/ k \in completed'
    BY <1>1, <1>3, <1>6 DEF QueueInv, EachJobOnce, TypeOK
  <2> QED
    BY <2>1, <2>2, <2>3, <2>4, <2>5 DEF EachJobOnce
<1>9. LeavesLast'
  BY <1>1, <1>5 DEF QueueInv, LeavesLast, TypeOK
<1> QED
  BY <1>2, <1>8, <1>9 DEF QueueInv

\* Completing a job keeps it.
LEMMA CompleteKeeps ==
  ASSUME NULL \notin Jobs, QueueInv, NEW w \in Workers, Complete(w)
  PROVE  QueueInv'
<1>1. /\ serving[w] # NULL
      /\ completed' = completed \cup {serving[w]}
      /\ serving' = [serving EXCEPT ![w] = NULL]
      /\ UNCHANGED <<items, closed, submitted, gone>>
  BY DEF Complete
<1>2. serving[w] \in Jobs /\ Served(serving[w])
  BY <1>1 DEF QueueInv, TypeOK, Served
<1>3. serving[w] \in submitted /\ ~Waits(serving[w])
  BY <1>2 DEF QueueInv, EachJobOnce
<1>4. TypeOK'
  BY <1>1, <1>3 DEF QueueInv, TypeOK
<1>5. /\ serving'[w] = NULL
      /\ \A v \in Workers \ {w} : serving'[v] = serving[v]
  BY <1>1 DEF QueueInv, TypeOK
<1>6. \A k \in Jobs : Waits(k)' <=> Waits(k)
  BY <1>1 DEF Waits
<1>7. \A k \in Jobs : Served(k)' <=> Served(k) /\ k # serving[w]
  <2>1. \A v \in Workers \ {w} : serving[v] # serving[w]
    BY <1>1 DEF QueueInv, EachJobOnce
  <2> QED
    BY <1>5, <2>1 DEF Served
<1>8. EachJobOnce'
  <2>1. \A i, k \in 1 .. Len(items') : items'[i] = items'[k] => i = k
    BY <1>1 DEF QueueInv, EachJobOnce
  <2>2. \A u, v \in Workers : serving'[u] = serving'[v] /\ serving'[v] # NULL => u = v
    BY <1>5 DEF QueueInv, EachJobOnce
  <2>3. \A k \in Jobs : Waits(k)' => k \in submitted' \ completed' /\ ~Served(k)'
    BY <1>1, <1>3, <1>6, <1>7 DEF QueueInv, EachJobOnce
  <2>4. \A k \in Jobs : Served(k)' => k \in submitted' \ completed'
    BY <1>1, <1>7 DEF QueueInv, EachJobOnce
  <2>5. \A k \in submitted' : Waits(k)' \/ Served(k)' \/ k \in completed'
    BY <1>1, <1>6, <1>7 DEF QueueInv, EachJobOnce, TypeOK
  <2> QED
    BY <2>1, <2>2, <2>3, <2>4, <2>5 DEF EachJobOnce
<1>9. LeavesLast'
  BY <1>1, <1>5 DEF QueueInv, LeavesLast, TypeOK
<1> QED
  BY <1>4, <1>8, <1>9 DEF QueueInv

\* A worker that leaves keeps it.
LEMMA LeaveKeeps ==
  ASSUME QueueInv, NEW w \in Workers, Leave(w)
  PROVE  QueueInv'
<1>1. /\ closed /\ items = <<>> /\ serving[w] = NULL
      /\ gone' = gone \cup {w}
      /\ UNCHANGED <<items, closed, serving, submitted, completed>>
  BY DEF Leave
<1>2. TypeOK' /\ LeavesLast'
  BY <1>1 DEF QueueInv, TypeOK, LeavesLast
<1>3. EachJobOnce'
  BY <1>1 DEF QueueInv, EachJobOnce, Waits, Served
<1> QED
  BY <1>2, <1>3 DEF QueueInv

\* No step breaks the invariant.
LEMMA QueueStep ==
  ASSUME NULL \notin Jobs, QueueInv, [Next]_queueVars
  PROVE  QueueInv'
<1>1. ASSUME NEW j \in Jobs, Submit(j) PROVE QueueInv'
  BY <1>1, SubmitKeeps
<1>2. CASE Close
  BY <1>2, CloseKeeps
<1>3. ASSUME NEW w \in Workers, Serve(w) \/ Complete(w) \/ Leave(w) PROVE QueueInv'
  BY <1>3, ServeKeeps, CompleteKeeps, LeaveKeeps
<1>4. CASE UNCHANGED queueVars
  <2>1. TypeOK' /\ LeavesLast'
    BY <1>4 DEF queueVars, QueueInv, TypeOK, LeavesLast
  <2>2. EachJobOnce'
    BY <1>4 DEF queueVars, QueueInv, EachJobOnce, Waits, Served
  <2> QED
    BY <2>1, <2>2 DEF QueueInv
<1> QED
  BY <1>1, <1>2, <1>3, <1>4 DEF Next

\* A queue of jobs.h, whoever uses it and in whichever order, has every job that
\* was submitted in one place, and lets its workers go when it is drained.
THEOREM QueueInvariance ==
  ASSUME NULL \notin Jobs
  PROVE  SafeSpec => [](EachJobOnce /\ LeavesLast)
<1>1. Init => QueueInv
  BY QueueInit
<1>2. QueueInv /\ [Next]_queueVars => QueueInv'
  BY QueueStep
<1>3. QueueInv => EachJobOnce /\ LeavesLast
  BY DEF QueueInv
<1> QED
  BY <1>1, <1>2, <1>3, PTL DEF SafeSpec
=============================================================================
