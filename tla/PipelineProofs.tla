--------------------------- MODULE PipelineProofs ---------------------------
(***************************************************************************)
(* What the run of src/src/main.c keeps, for any entries, workers, CWEs    *)
(* and number of restarts.                                                 *)
(***************************************************************************)
EXTENDS Pipeline, FiniteSetTheorems, SequenceTheorems, TLAPS

\* The theorems of WorkQueue, told of the two queues.
GithubTheory == INSTANCE WorkQueueProofs WITH
  Jobs <- Entries, Workers <- GithubWorkers,
  items <- gItems, closed <- gClosed, serving <- gServing,
  submitted <- gSubmitted, completed <- gCompleted, gone <- gGone

ParsingTheory == INSTANCE WorkQueueProofs WITH
  Jobs <- Entries, Workers <- ParsingWorkers,
  items <- pItems, closed <- pClosed, serving <- pServing,
  submitted <- pSubmitted, completed <- pCompleted, gone <- pGone

-----------------------------------------------------------------------------
(* The queues.  They begin empty, and no operation breaks what WorkQueue   *)
(* promises of them.                                                       *)

LEMMA GithubQueueInit ==
  ASSUME GithubQueue!Init
  PROVE  GithubQueue!QueueInv
<1>1. NULL \notin Entries
  BY PipelineAssumption
<1>2. GithubTheory!Init
  BY DEF GithubQueue!Init, GithubTheory!Init
<1>3. GithubTheory!QueueInv
  BY <1>1, <1>2, GithubTheory!QueueInit
<1> QED
  BY <1>3 DEF GithubTheory!QueueInv, GithubTheory!TypeOK, GithubTheory!EachJobOnce,
     GithubTheory!LeavesLast, GithubTheory!Waits, GithubTheory!Served,
     GithubQueue!QueueInv, GithubQueue!TypeOK, GithubQueue!EachJobOnce,
     GithubQueue!LeavesLast, GithubQueue!Waits, GithubQueue!Served

LEMMA ParsingQueueInit ==
  ASSUME ParsingQueue!Init
  PROVE  ParsingQueue!QueueInv
<1>1. NULL \notin Entries
  BY PipelineAssumption
<1>2. ParsingTheory!Init
  BY DEF ParsingQueue!Init, ParsingTheory!Init
<1>3. ParsingTheory!QueueInv
  BY <1>1, <1>2, ParsingTheory!QueueInit
<1> QED
  BY <1>3 DEF ParsingTheory!QueueInv, ParsingTheory!TypeOK, ParsingTheory!EachJobOnce,
     ParsingTheory!LeavesLast, ParsingTheory!Waits, ParsingTheory!Served,
     ParsingQueue!QueueInv, ParsingQueue!TypeOK, ParsingQueue!EachJobOnce,
     ParsingQueue!LeavesLast, ParsingQueue!Waits, ParsingQueue!Served

LEMMA GithubQueueKept ==
  ASSUME GithubQueue!QueueInv, GithubQueue!Next \/ UNCHANGED github
  PROVE  GithubQueue!QueueInv'
<1>1. NULL \notin Entries
  BY PipelineAssumption
<1>2. GithubTheory!QueueInv
  BY DEF GithubTheory!QueueInv, GithubTheory!TypeOK, GithubTheory!EachJobOnce,
     GithubTheory!LeavesLast, GithubTheory!Waits, GithubTheory!Served,
     GithubQueue!QueueInv, GithubQueue!TypeOK, GithubQueue!EachJobOnce,
     GithubQueue!LeavesLast, GithubQueue!Waits, GithubQueue!Served
<1>3. [GithubTheory!Next]_(GithubTheory!queueVars)
  BY DEF GithubTheory!Next, GithubTheory!Submit, GithubTheory!Close, GithubTheory!Serve,
     GithubTheory!Complete, GithubTheory!Leave, GithubTheory!queueVars, github,
     GithubQueue!Next, GithubQueue!Submit, GithubQueue!Close, GithubQueue!Serve,
     GithubQueue!Complete, GithubQueue!Leave
<1>4. GithubTheory!QueueInv'
  BY <1>1, <1>2, <1>3, GithubTheory!QueueStep
<1> QED
  BY <1>4 DEF GithubTheory!QueueInv, GithubTheory!TypeOK, GithubTheory!EachJobOnce,
     GithubTheory!LeavesLast, GithubTheory!Waits, GithubTheory!Served,
     GithubQueue!QueueInv, GithubQueue!TypeOK, GithubQueue!EachJobOnce,
     GithubQueue!LeavesLast, GithubQueue!Waits, GithubQueue!Served

LEMMA ParsingQueueKept ==
  ASSUME ParsingQueue!QueueInv, ParsingQueue!Next \/ UNCHANGED parsing
  PROVE  ParsingQueue!QueueInv'
<1>1. NULL \notin Entries
  BY PipelineAssumption
<1>2. ParsingTheory!QueueInv
  BY DEF ParsingTheory!QueueInv, ParsingTheory!TypeOK, ParsingTheory!EachJobOnce,
     ParsingTheory!LeavesLast, ParsingTheory!Waits, ParsingTheory!Served,
     ParsingQueue!QueueInv, ParsingQueue!TypeOK, ParsingQueue!EachJobOnce,
     ParsingQueue!LeavesLast, ParsingQueue!Waits, ParsingQueue!Served
<1>3. [ParsingTheory!Next]_(ParsingTheory!queueVars)
  BY DEF ParsingTheory!Next, ParsingTheory!Submit, ParsingTheory!Close, ParsingTheory!Serve,
     ParsingTheory!Complete, ParsingTheory!Leave, ParsingTheory!queueVars, parsing,
     ParsingQueue!Next, ParsingQueue!Submit, ParsingQueue!Close, ParsingQueue!Serve,
     ParsingQueue!Complete, ParsingQueue!Leave
<1>4. ParsingTheory!QueueInv'
  BY <1>1, <1>2, <1>3, ParsingTheory!QueueStep
<1> QED
  BY <1>4 DEF ParsingTheory!QueueInv, ParsingTheory!TypeOK, ParsingTheory!EachJobOnce,
     ParsingTheory!LeavesLast, ParsingTheory!Waits, ParsingTheory!Served,
     ParsingQueue!QueueInv, ParsingQueue!TypeOK, ParsingQueue!EachJobOnce,
     ParsingQueue!LeavesLast, ParsingQueue!Waits, ParsingQueue!Served

-----------------------------------------------------------------------------
(* The way of an entry.                                                    *)

\* What the invariants of the two queues say of their variables.
LEMMA QueueFacts ==
  ASSUME Flow
  PROVE  /\ gServing \in [GithubWorkers -> Entries \cup {NULL}]
         /\ pServing \in [ParsingWorkers -> Entries \cup {NULL}]
         /\ gSubmitted \subseteq Entries /\ gCompleted \subseteq gSubmitted
         /\ pSubmitted \subseteq Entries /\ pCompleted \subseteq pSubmitted
         /\ gGone \subseteq GithubWorkers /\ pGone \subseteq ParsingWorkers
         /\ NULL \notin Entries
         /\ \A w \in GithubWorkers : w \in Workers /\ w \notin ParsingWorkers
         /\ \A w \in ParsingWorkers : w \in Workers /\ w \notin GithubWorkers
<1>1. GithubQueue!TypeOK /\ ParsingQueue!TypeOK
  BY DEF Flow, GithubQueue!QueueInv, ParsingQueue!QueueInv
<1> QED
  BY <1>1, PipelineAssumption DEF GithubQueue!TypeOK, ParsingQueue!TypeOK, Workers

\* A served entry was submitted, is not completed and has one worker.
LEMMA GithubServed ==
  ASSUME Flow, NEW w \in GithubWorkers, gServing[w] # NULL
  PROVE  /\ gServing[w] \in gSubmitted \ gCompleted
         /\ \A v \in GithubWorkers : gServing[v] = gServing[w] => v = w
<1>1. GithubQueue!EachJobOnce
  BY DEF Flow, GithubQueue!QueueInv
<1>2. gServing[w] \in Entries
  BY QueueFacts
<1>3. GithubQueue!Served(gServing[w])
  BY DEF GithubQueue!Served
<1> QED
  BY <1>1, <1>2, <1>3 DEF GithubQueue!EachJobOnce

LEMMA ParsingServed ==
  ASSUME Flow, NEW w \in ParsingWorkers, pServing[w] # NULL
  PROVE  /\ pServing[w] \in pSubmitted \ pCompleted
         /\ \A v \in ParsingWorkers : pServing[v] = pServing[w] => v = w
<1>1. ParsingQueue!EachJobOnce
  BY DEF Flow, ParsingQueue!QueueInv
<1>2. pServing[w] \in Entries
  BY QueueFacts
<1>3. ParsingQueue!Served(pServing[w])
  BY DEF ParsingQueue!Served
<1> QED
  BY <1>1, <1>2, <1>3 DEF ParsingQueue!EachJobOnce

\* What is left to show of a step once its queues are.
Way == FlowTypes /\ Places /\ Closing /\ Life

\* A new process, the first one and the ones after it.
Fresh ==
  /\ main = "start" /\ cwe = 0 /\ found = NULL /\ mainLine = 0
  /\ at = [w \in Workers |-> "idle"]
  /\ line = [w \in Workers |-> 0]
  /\ entry = [e \in Entries |-> "none"]
  /\ history = NewHistory
  /\ GithubQueue!Init
  /\ ParsingQueue!Init

LEMMA RunAgainFresh == RunAgain => Fresh'
BY DEF RunAgain, Fresh, GithubQueue!Init, ParsingQueue!Init

\* It has no entries.
LEMMA FreshFlow == Fresh => Flow
<1> SUFFICES ASSUME Fresh PROVE Flow
  OBVIOUS
<1>1. GithubQueue!QueueInv /\ ParsingQueue!QueueInv
  BY GithubQueueInit, ParsingQueueInit DEF Fresh
<1>2. /\ main = "start" /\ found = NULL /\ NULL \notin Entries
      /\ at = [w \in Workers |-> "idle"] /\ entry = [e \in Entries |-> "none"]
      /\ gServing = [w \in GithubWorkers |-> NULL]
      /\ pServing = [w \in ParsingWorkers |-> NULL]
      /\ gClosed = FALSE /\ gSubmitted = {} /\ gCompleted = {} /\ gGone = {}
      /\ pClosed = FALSE /\ pSubmitted = {} /\ pCompleted = {} /\ pGone = {}
  BY PipelineAssumption DEF Fresh, GithubQueue!Init, ParsingQueue!Init
<1>3. FlowTypes
  BY <1>2 DEF FlowTypes, Idle, GithubPlaces, ParsingPlaces, Finishing
<1>4. Places
  BY <1>2 DEF Places, Workers, Idle, GithubPlaces, ParsingPlaces
<1>5. Closing
  BY <1>2, PipelineAssumption DEF Closing, Finishing
<1>6. Life
  BY <1>2 DEF Life, Handled, Exported
<1> QED
  BY <1>1, <1>3, <1>4, <1>5, <1>6 DEF Flow

LEMMA RunAgainFlow == RunAgain => Flow'
<1>1. RunAgain => Fresh'
  BY RunAgainFresh
<1>2. (Fresh => Flow)'
  BY FreshFlow, PTL
<1> QED
  BY <1>1, <1>2

\* A worker that moves is where it goes, and the others are where they were.
LEMMA Moved ==
  ASSUME FlowTypes, NEW w \in Workers, NEW to \in Idle \cup GithubPlaces \cup ParsingPlaces,
         at' = [at EXCEPT ![w] = to]
  PROVE  /\ at' \in [Workers -> Idle \cup GithubPlaces \cup ParsingPlaces]
         /\ at'[w] = to
         /\ \A v \in Workers : v # w => at'[v] = at[v]
BY DEF FlowTypes

\* A GitHub worker that neither takes up an entry nor settles one.
LEMMA GithubStays ==
  ASSUME Flow, NEW w \in GithubWorkers, NEW to \in GithubPlaces \ {"settled"},
         at[w] \in GithubPlaces \ {"settled"}, at' = [at EXCEPT ![w] = to],
         UNCHANGED <<main, found, entry, github, parsing>>
  PROVE  Way'
<1>1. /\ FlowTypes /\ Places /\ Closing /\ Life
      /\ UNCHANGED <<main, found, entry, gClosed, gServing, gSubmitted, gCompleted, gGone,
                     pClosed, pServing, pSubmitted, pCompleted, pGone>>
  BY DEF Flow, github, parsing
<1>2. /\ at' \in [Workers -> Idle \cup GithubPlaces \cup ParsingPlaces]
      /\ at'[w] = to
      /\ \A v \in Workers : v # w => at'[v] = at[v]
  BY <1>1, Moved DEF Workers
<1>3. FlowTypes'
  BY <1>1, <1>2 DEF FlowTypes
<1>4. Places'
  BY <1>1, <1>2, QueueFacts DEF Places, Idle, GithubPlaces
<1>5. Closing'
  BY <1>1 DEF Closing
<1>6. Life'
  <2>1. \A e \in Entries : (Handled(e)' <=> Handled(e)) /\ (Exported(e)' <=> Exported(e))
    BY <1>1, <1>2, QueueFacts DEF Handled, Exported, GithubPlaces
  <2> QED
    BY <1>1, <2>1 DEF Life
<1> QED
  BY <1>3, <1>4, <1>5, <1>6 DEF Way

\* It takes up an entry.
LEMMA GithubPops ==
  ASSUME Flow, NEW w \in GithubWorkers, GithubPop(w)
  PROVE  Way'
<1>1. /\ FlowTypes /\ Places /\ Closing /\ Life
      /\ UNCHANGED <<main, found, entry, gClosed, gSubmitted, gCompleted, gGone,
                     pClosed, pServing, pSubmitted, pCompleted, pGone>>
      /\ at[w] = "idle" /\ at' = [at EXCEPT ![w] = "popped"]
      /\ gItems # <<>> /\ gServing' = [gServing EXCEPT ![w] = Head(gItems)]
  BY DEF Flow, GithubPop, Moves, mainThread, parsing, GithubQueue!Serve
<1>2. /\ at' \in [Workers -> Idle \cup GithubPlaces \cup ParsingPlaces]
      /\ at'[w] = "popped"
      /\ \A v \in Workers : v # w => at'[v] = at[v]
  BY <1>1, Moved DEF Workers, GithubPlaces
<1>3. /\ gServing'[w] # NULL
      /\ \A v \in GithubWorkers : v # w => gServing'[v] = gServing[v]
  <2>1. gItems \in Seq(Entries)
    BY DEF Flow, GithubQueue!QueueInv, GithubQueue!TypeOK
  <2>2. Head(gItems) \in Entries
    BY <1>1, <2>1, HeadTailProperties
  <2> QED
    BY <1>1, <2>2, QueueFacts
<1>4. FlowTypes'
  BY <1>1, <1>2 DEF FlowTypes
<1>5. Places'
  BY <1>1, <1>2, <1>3, QueueFacts DEF Places, Idle, GithubPlaces
<1>6. Closing'
  BY <1>1 DEF Closing
<1>7. Life'
  <2>1. \A e \in Entries : (Handled(e)' <=> Handled(e)) /\ (Exported(e)' <=> Exported(e))
    BY <1>1, <1>2, <1>3, QueueFacts DEF Handled, Exported
  <2> QED
    BY <1>1, <2>1 DEF Life
<1> QED
  BY <1>4, <1>5, <1>6, <1>7 DEF Way

\* It rejects its entry, which is freed.
LEMMA GithubRejects ==
  ASSUME Flow, NEW w \in GithubWorkers, GithubReject(w)
  PROVE  Way'
<1>1. /\ FlowTypes /\ Places /\ Closing /\ Life
      /\ UNCHANGED <<main, found, gClosed, gServing, gSubmitted, gCompleted, gGone,
                     pClosed, pServing, pSubmitted, pCompleted, pGone>>
      /\ at[w] = "probing" /\ at' = [at EXCEPT ![w] = "settled"]
      /\ entry' = [entry EXCEPT ![gServing[w]] = "freed"]
  BY DEF Flow, GithubReject, Moves, mainThread, github, parsing, Destroy
<1>2. /\ at' \in [Workers -> Idle \cup GithubPlaces \cup ParsingPlaces]
      /\ at'[w] = "settled"
      /\ \A v \in Workers : v # w => at'[v] = at[v]
  BY <1>1, Moved DEF Workers, GithubPlaces
<1>3. /\ gServing[w] # NULL /\ gServing[w] \in Entries
      /\ gServing[w] \in gSubmitted \ gCompleted
      /\ \A v \in GithubWorkers : gServing[v] = gServing[w] => v = w
  BY <1>1, GithubServed, QueueFacts DEF Places, Idle
<1>4. FlowTypes'
  BY <1>1, <1>2 DEF FlowTypes
<1>5. Places'
  BY <1>1, <1>2, QueueFacts DEF Places, Idle, GithubPlaces
<1>6. Closing'
  BY <1>1 DEF Closing
<1>7. Life'
  <2>1. ~Handled(gServing[w])
    BY <1>1, <1>3 DEF Handled
  <2>2. \A e \in Entries : /\ Handled(e)' <=> Handled(e) \/ e = gServing[w]
                           /\ Exported(e)' <=> Exported(e)
    BY <1>1, <1>2, QueueFacts DEF Handled, Exported
  <2>3. /\ entry'[gServing[w]] = "freed"
        /\ \A e \in Entries : e # gServing[w] => entry'[e] = entry[e]
    BY <1>1, <1>3 DEF FlowTypes
  <2> QED
    BY <1>1, <1>3, <2>1, <2>2, <2>3 DEF Life
<1> QED
  BY <1>4, <1>5, <1>6, <1>7 DEF Way

\* It passes its entry on.
LEMMA GithubPushes ==
  ASSUME Flow, NEW w \in GithubWorkers, GithubPush(w)
  PROVE  Way'
<1>1. /\ FlowTypes /\ Places /\ Closing /\ Life
      /\ UNCHANGED <<main, found, entry, gClosed, gServing, gSubmitted, gCompleted, gGone,
                     pClosed, pServing, pCompleted, pGone>>
      /\ at[w] = "counted" /\ at' = [at EXCEPT ![w] = "settled"]
      /\ gServing[w] \notin pSubmitted /\ pSubmitted' = pSubmitted \cup {gServing[w]}
  BY DEF Flow, GithubPush, Moves, mainThread, github, ParsingQueue!Submit
<1>2. /\ at' \in [Workers -> Idle \cup GithubPlaces \cup ParsingPlaces]
      /\ at'[w] = "settled"
      /\ \A v \in Workers : v # w => at'[v] = at[v]
  BY <1>1, Moved DEF Workers, GithubPlaces
<1>3. /\ gServing[w] # NULL /\ gServing[w] \in Entries
      /\ gServing[w] \in gSubmitted \ gCompleted
      /\ \A v \in GithubWorkers : gServing[v] = gServing[w] => v = w
  BY <1>1, GithubServed, QueueFacts DEF Places, Idle
<1>4. FlowTypes'
  BY <1>1, <1>2 DEF FlowTypes
<1>5. Places'
  BY <1>1, <1>2, QueueFacts DEF Places, Idle, GithubPlaces
<1>6. Closing'
  BY <1>1 DEF Closing
<1>7. Life'
  <2>1. ~Handled(gServing[w])
    BY <1>1, <1>3 DEF Handled
  <2>2. ~Exported(gServing[w])
    <3>1. ASSUME NEW v \in ParsingWorkers, pServing[v] = gServing[w] PROVE FALSE
      BY <1>1, <1>3, <3>1, ParsingServed
    <3> QED
      BY <1>1, <3>1, QueueFacts DEF Exported
  <2>3. \A e \in Entries : /\ Handled(e)' <=> Handled(e) \/ e = gServing[w]
                           /\ Exported(e)' <=> Exported(e)
    BY <1>1, <1>2, QueueFacts DEF Handled, Exported
  <2> QED
    BY <1>1, <1>3, <2>1, <2>2, <2>3 DEF Life
<1> QED
  BY <1>4, <1>5, <1>6, <1>7 DEF Way

\* It is done with its entry.
LEMMA GithubDones ==
  ASSUME Flow, NEW w \in GithubWorkers, GithubDone(w)
  PROVE  Way'
<1>1. /\ FlowTypes /\ Places /\ Closing /\ Life
      /\ UNCHANGED <<main, found, entry, gClosed, gSubmitted, gGone,
                     pClosed, pServing, pSubmitted, pCompleted, pGone>>
      /\ at[w] = "settled" /\ at' = [at EXCEPT ![w] = "idle"]
      /\ gServing' = [gServing EXCEPT ![w] = NULL]
      /\ gCompleted' = gCompleted \cup {gServing[w]}
  BY DEF Flow, GithubDone, Moves, mainThread, parsing, GithubQueue!Complete
<1>2. /\ at' \in [Workers -> Idle \cup GithubPlaces \cup ParsingPlaces]
      /\ at'[w] = "idle"
      /\ \A v \in Workers : v # w => at'[v] = at[v]
  BY <1>1, Moved DEF Workers, Idle
<1>3. /\ gServing'[w] = NULL
      /\ \A v \in GithubWorkers : v # w => gServing'[v] = gServing[v]
  BY <1>1, QueueFacts
<1>4. FlowTypes'
  BY <1>1, <1>2 DEF FlowTypes
<1>5. Places'
  BY <1>1, <1>2, <1>3, QueueFacts DEF Places, Idle, GithubPlaces
<1>6. Closing'
  BY <1>1 DEF Closing
<1>7. Life'
  <2>1. \A e \in Entries : (Handled(e)' <=> Handled(e)) /\ (Exported(e)' <=> Exported(e))
    BY <1>1, <1>2, <1>3, QueueFacts DEF Handled, Exported
  <2> QED
    BY <1>1, <2>1 DEF Life
<1> QED
  BY <1>4, <1>5, <1>6, <1>7 DEF Way

\* It returns.
LEMMA GithubLeaves ==
  ASSUME Flow, NEW w \in GithubWorkers, GithubLeave(w)
  PROVE  Way'
<1>1. /\ FlowTypes /\ Places /\ Closing /\ Life
      /\ UNCHANGED <<main, found, entry, gClosed, gServing, gSubmitted, gCompleted,
                     pClosed, pServing, pSubmitted, pCompleted, pGone>>
      /\ at[w] = "idle" /\ at' = [at EXCEPT ![w] = "returned"]
      /\ gGone' = gGone \cup {w}
  BY DEF Flow, GithubLeave, Moves, mainThread, parsing, GithubQueue!Leave
<1>2. /\ at' \in [Workers -> Idle \cup GithubPlaces \cup ParsingPlaces]
      /\ at'[w] = "returned"
      /\ \A v \in Workers : v # w => at'[v] = at[v]
  BY <1>1, Moved DEF Workers, Idle
<1>3. FlowTypes'
  BY <1>1, <1>2 DEF FlowTypes
<1>4. Places'
  BY <1>1, <1>2, QueueFacts DEF Places, Idle, GithubPlaces
<1>5. Closing'
  BY <1>1, QueueFacts DEF Closing
<1>6. Life'
  <2>1. \A e \in Entries : (Handled(e)' <=> Handled(e)) /\ (Exported(e)' <=> Exported(e))
    BY <1>1, <1>2, QueueFacts DEF Handled, Exported
  <2> QED
    BY <1>1, <2>1 DEF Life
<1> QED
  BY <1>3, <1>4, <1>5, <1>6 DEF Way

\* A parsing worker that neither takes up an entry nor settles one.
LEMMA ParsingStays ==
  ASSUME Flow, NEW w \in ParsingWorkers, NEW to \in ParsingPlaces \ {"settled"},
         at[w] \in ParsingPlaces \ {"settled"}, at' = [at EXCEPT ![w] = to],
         UNCHANGED <<main, found, entry, github, parsing>>
  PROVE  Way'
<1>1. /\ FlowTypes /\ Places /\ Closing /\ Life
      /\ UNCHANGED <<main, found, entry, pClosed, pServing, pSubmitted, pCompleted, pGone,
                     gClosed, gServing, gSubmitted, gCompleted, gGone>>
  BY DEF Flow, github, parsing
<1>2. /\ at' \in [Workers -> Idle \cup GithubPlaces \cup ParsingPlaces]
      /\ at'[w] = to
      /\ \A v \in Workers : v # w => at'[v] = at[v]
  BY <1>1, Moved DEF Workers
<1>3. FlowTypes'
  BY <1>1, <1>2 DEF FlowTypes
<1>4. Places'
  BY <1>1, <1>2, QueueFacts DEF Places, Idle, ParsingPlaces
<1>5. Closing'
  BY <1>1 DEF Closing
<1>6. Life'
  <2>1. \A e \in Entries : (Handled(e)' <=> Handled(e)) /\ (Exported(e)' <=> Exported(e))
    BY <1>1, <1>2, QueueFacts DEF Handled, Exported, ParsingPlaces
  <2> QED
    BY <1>1, <2>1 DEF Life
<1> QED
  BY <1>3, <1>4, <1>5, <1>6 DEF Way

\* It takes up an entry.
LEMMA ParsingPops ==
  ASSUME Flow, NEW w \in ParsingWorkers, ParsingPop(w)
  PROVE  Way'
<1>1. /\ FlowTypes /\ Places /\ Closing /\ Life
      /\ UNCHANGED <<main, found, entry, pClosed, pSubmitted, pCompleted, pGone,
                     gClosed, gServing, gSubmitted, gCompleted, gGone>>
      /\ at[w] = "idle" /\ at' = [at EXCEPT ![w] = "popped"]
      /\ pItems # <<>> /\ pServing' = [pServing EXCEPT ![w] = Head(pItems)]
  BY DEF Flow, ParsingPop, Moves, mainThread, github, ParsingQueue!Serve
<1>2. /\ at' \in [Workers -> Idle \cup GithubPlaces \cup ParsingPlaces]
      /\ at'[w] = "popped"
      /\ \A v \in Workers : v # w => at'[v] = at[v]
  BY <1>1, Moved DEF Workers, ParsingPlaces
<1>3. /\ pServing'[w] # NULL
      /\ \A v \in ParsingWorkers : v # w => pServing'[v] = pServing[v]
  <2>1. pItems \in Seq(Entries)
    BY DEF Flow, ParsingQueue!QueueInv, ParsingQueue!TypeOK
  <2>2. Head(pItems) \in Entries
    BY <1>1, <2>1, HeadTailProperties
  <2> QED
    BY <1>1, <2>2, QueueFacts
<1>4. FlowTypes'
  BY <1>1, <1>2 DEF FlowTypes
<1>5. Places'
  BY <1>1, <1>2, <1>3, QueueFacts DEF Places, Idle, ParsingPlaces
<1>6. Closing'
  BY <1>1 DEF Closing
<1>7. Life'
  <2>1. \A e \in Entries : (Handled(e)' <=> Handled(e)) /\ (Exported(e)' <=> Exported(e))
    BY <1>1, <1>2, <1>3, QueueFacts DEF Handled, Exported
  <2> QED
    BY <1>1, <2>1 DEF Life
<1> QED
  BY <1>4, <1>5, <1>6, <1>7 DEF Way

\* It frees its entry, whether the export succeeded or not.
LEMMA ParsingFinishes ==
  ASSUME Flow, NEW w \in ParsingWorkers, ParsingFinish(w)
  PROVE  Way'
<1>1. /\ FlowTypes /\ Places /\ Closing /\ Life
      /\ UNCHANGED <<main, found, pClosed, pServing, pSubmitted, pCompleted, pGone,
                     gClosed, gServing, gSubmitted, gCompleted, gGone>>
      /\ at[w] = "exported" /\ at' = [at EXCEPT ![w] = "settled"]
      /\ entry' = [entry EXCEPT ![pServing[w]] = "freed"]
  BY DEF Flow, ParsingFinish, Moves, mainThread, github, parsing, Destroy
<1>2. /\ at' \in [Workers -> Idle \cup GithubPlaces \cup ParsingPlaces]
      /\ at'[w] = "settled"
      /\ \A v \in Workers : v # w => at'[v] = at[v]
  BY <1>1, Moved DEF Workers, ParsingPlaces
<1>3. /\ pServing[w] # NULL /\ pServing[w] \in Entries
      /\ pServing[w] \in pSubmitted \ pCompleted
      /\ \A v \in ParsingWorkers : pServing[v] = pServing[w] => v = w
  BY <1>1, ParsingServed, QueueFacts DEF Places, Idle
<1>4. FlowTypes'
  BY <1>1, <1>2 DEF FlowTypes
<1>5. Places'
  BY <1>1, <1>2, QueueFacts DEF Places, Idle, ParsingPlaces
<1>6. Closing'
  BY <1>1 DEF Closing
<1>7. Life'
  <2>1. pServing[w] \in gSubmitted /\ Handled(pServing[w]) /\ ~Exported(pServing[w])
    <3>1. Handled(pServing[w])
      BY <1>1, <1>3 DEF Life
    <3>2. pServing[w] \in gSubmitted
      BY <1>3, <3>1, GithubServed, QueueFacts DEF Handled
    <3> QED
      BY <1>1, <1>3, <3>1, <3>2 DEF Exported
  <2>2. \A e \in Entries : /\ Exported(e)' <=> Exported(e) \/ e = pServing[w]
                           /\ Handled(e)' <=> Handled(e)
    BY <1>1, <1>2, QueueFacts DEF Handled, Exported
  <2>3. /\ entry'[pServing[w]] = "freed"
        /\ \A e \in Entries : e # pServing[w] => entry'[e] = entry[e]
    BY <1>1, <1>3 DEF FlowTypes
  <2> QED
    BY <1>1, <1>3, <2>1, <2>2, <2>3 DEF Life
<1> QED
  BY <1>4, <1>5, <1>6, <1>7 DEF Way

\* It is done with its entry.
LEMMA ParsingDones ==
  ASSUME Flow, NEW w \in ParsingWorkers, ParsingDone(w)
  PROVE  Way'
<1>1. /\ FlowTypes /\ Places /\ Closing /\ Life
      /\ UNCHANGED <<main, found, entry, pClosed, pSubmitted, pGone,
                     gClosed, gServing, gSubmitted, gCompleted, gGone>>
      /\ at[w] = "settled" /\ at' = [at EXCEPT ![w] = "idle"]
      /\ pServing' = [pServing EXCEPT ![w] = NULL]
      /\ pCompleted' = pCompleted \cup {pServing[w]}
  BY DEF Flow, ParsingDone, Moves, mainThread, github, ParsingQueue!Complete
<1>2. /\ at' \in [Workers -> Idle \cup GithubPlaces \cup ParsingPlaces]
      /\ at'[w] = "idle"
      /\ \A v \in Workers : v # w => at'[v] = at[v]
  BY <1>1, Moved DEF Workers, Idle
<1>3. /\ pServing'[w] = NULL
      /\ \A v \in ParsingWorkers : v # w => pServing'[v] = pServing[v]
  BY <1>1, QueueFacts
<1>4. FlowTypes'
  BY <1>1, <1>2 DEF FlowTypes
<1>5. Places'
  BY <1>1, <1>2, <1>3, QueueFacts DEF Places, Idle, ParsingPlaces
<1>6. Closing'
  BY <1>1 DEF Closing
<1>7. Life'
  <2>1. \A e \in Entries : (Handled(e)' <=> Handled(e)) /\ (Exported(e)' <=> Exported(e))
    BY <1>1, <1>2, <1>3, QueueFacts DEF Handled, Exported
  <2> QED
    BY <1>1, <2>1 DEF Life
<1> QED
  BY <1>4, <1>5, <1>6, <1>7 DEF Way

\* It returns.
LEMMA ParsingLeaves ==
  ASSUME Flow, NEW w \in ParsingWorkers, ParsingLeave(w)
  PROVE  Way'
<1>1. /\ FlowTypes /\ Places /\ Closing /\ Life
      /\ UNCHANGED <<main, found, entry, pClosed, pServing, pSubmitted, pCompleted,
                     gClosed, gServing, gSubmitted, gCompleted, gGone>>
      /\ at[w] = "idle" /\ at' = [at EXCEPT ![w] = "returned"]
      /\ pGone' = pGone \cup {w}
  BY DEF Flow, ParsingLeave, Moves, mainThread, github, ParsingQueue!Leave
<1>2. /\ at' \in [Workers -> Idle \cup GithubPlaces \cup ParsingPlaces]
      /\ at'[w] = "returned"
      /\ \A v \in Workers : v # w => at'[v] = at[v]
  BY <1>1, Moved DEF Workers, Idle
<1>3. FlowTypes'
  BY <1>1, <1>2 DEF FlowTypes
<1>4. Places'
  BY <1>1, <1>2, QueueFacts DEF Places, Idle, ParsingPlaces
<1>5. Closing'
  BY <1>1, QueueFacts DEF Closing
<1>6. Life'
  <2>1. \A e \in Entries : (Handled(e)' <=> Handled(e)) /\ (Exported(e)' <=> Exported(e))
    BY <1>1, <1>2, QueueFacts DEF Handled, Exported
  <2> QED
    BY <1>1, <2>1 DEF Life
<1> QED
  BY <1>3, <1>4, <1>5, <1>6 DEF Way

-----------------------------------------------------------------------------
(* The main thread.                                                        *)

\* It moves on without an entry, before the shutdown.
LEMMA MainStays ==
  ASSUME Flow, main \in {"start", "next cwe", "sweep"},
         main' \in {"start", "next cwe", "sweep"},
         UNCHANGED <<found, at, entry, github, parsing>>
  PROVE  Way'
<1>1. /\ FlowTypes /\ Places /\ Closing /\ Life
      /\ UNCHANGED <<gClosed, gServing, gSubmitted, gCompleted, gGone,
                     pClosed, pServing, pSubmitted, pCompleted, pGone>>
  BY DEF Flow, github, parsing
<1>2. FlowTypes' /\ Closing'
  BY <1>1 DEF FlowTypes, Closing, Finishing
<1>3. Places'
  <2>1. main # "counted" /\ main' # "counted"
    OBVIOUS
  <2>2. found' # NULL <=> main' = "counted"
    BY <1>1, <2>1 DEF Places
  <2>3. /\ at' = at /\ gServing' = gServing /\ gGone' = gGone
        /\ pServing' = pServing /\ pGone' = pGone
    BY <1>1
  <2> QED
    BY <1>1, <2>2, <2>3 DEF Places
<1>4. Life'
  <2>1. \A e \in Entries : (Handled(e)' <=> Handled(e)) /\ (Exported(e)' <=> Exported(e))
    BY <1>1 DEF Handled, Exported
  <2> QED
    BY <1>1, <2>1 DEF Life
<1> QED
  BY <1>2, <1>3, <1>4 DEF Way

\* It makes an entry.
LEMMA MainFinds ==
  ASSUME Flow, NEW e \in Entries, MainFind(e)
  PROVE  Way'
<1>1. /\ FlowTypes /\ Places /\ Closing /\ Life
      /\ UNCHANGED <<at, gClosed, gServing, gSubmitted, gCompleted, gGone,
                     pClosed, pServing, pSubmitted, pCompleted, pGone>>
      /\ e \notin gSubmitted /\ main = "sweep" /\ main' = "counted"
      /\ found' = e /\ entry' = [entry EXCEPT ![e] = "live"]
  BY DEF Flow, MainFind, MainMoves, workers, github, parsing
<1>2. FlowTypes'
  BY <1>1 DEF FlowTypes
<1>3. Places' /\ Closing'
  BY <1>1, QueueFacts DEF Places, Closing, Finishing
<1>4. Life'
  <2>1. \A f \in Entries : (Handled(f)' <=> Handled(f)) /\ (Exported(f)' <=> Exported(f))
    BY <1>1 DEF Handled, Exported
  <2>2. found = NULL
    BY <1>1 DEF Places
  <2>3. entry'[e] = "live" /\ \A f \in Entries : f # e => entry'[f] = entry[f]
    BY <1>1 DEF FlowTypes
  <2> QED
    BY <1>1, <2>1, <2>2, <2>3, QueueFacts DEF Life
<1> QED
  BY <1>2, <1>3, <1>4 DEF Way

\* It pushes it.
LEMMA MainPushes ==
  ASSUME Flow, MainPush
  PROVE  Way'
<1>1. /\ FlowTypes /\ Places /\ Closing /\ Life
      /\ UNCHANGED <<at, entry, gClosed, gServing, gCompleted, gGone,
                     pClosed, pServing, pSubmitted, pCompleted, pGone>>
      /\ main = "counted" /\ main' = "sweep" /\ found' = NULL
      /\ found \notin gSubmitted /\ gSubmitted' = gSubmitted \cup {found}
  BY DEF Flow, MainPush, MainMoves, workers, parsing, GithubQueue!Submit
<1>2. FlowTypes'
  BY <1>1 DEF FlowTypes
<1>3. Places' /\ Closing'
  BY <1>1 DEF Places, Closing, Finishing
<1>4. Life'
  <2>1. \A f \in Entries : (Handled(f)' <=> Handled(f)) /\ (Exported(f)' <=> Exported(f))
    BY <1>1 DEF Handled, Exported
  <2>2. found \in Entries
    BY <1>1 DEF Places, FlowTypes
  <2>3. ~Handled(found)
    <3>1. ASSUME NEW w \in GithubWorkers, gServing[w] = found PROVE FALSE
      BY <1>1, <2>2, <3>1, GithubServed, QueueFacts
    <3> QED
      BY <1>1, <3>1, QueueFacts DEF Handled
  <2> QED
    BY <1>1, <2>1, <2>2, <2>3, QueueFacts DEF Life
<1> QED
  BY <1>2, <1>3, <1>4 DEF Way

\* It finishes the queues one after the other, and returns.
LEMMA MainFinishes ==
  ASSUME Flow, MainCloseGithub \/ MainCloseParsing \/ MainReturn
  PROVE  Way'
<1>1. /\ FlowTypes /\ Places /\ Closing /\ Life
      /\ UNCHANGED <<found, at, entry, gServing, gSubmitted, gCompleted, gGone,
                     pServing, pSubmitted, pCompleted, pGone>>
  BY DEF Flow, MainCloseGithub, MainCloseParsing, MainReturn, FinishGithub, MainMoves, workers,
     github, parsing, GithubQueue!Close, ParsingQueue!Close
<1>2. \/ /\ main = "next cwe" /\ main' = "join github"
         /\ gClosed' = TRUE /\ pClosed' = pClosed
      \/ /\ main = "join github" /\ main' = "join parsing" /\ gGone = GithubWorkers
         /\ gClosed' = gClosed /\ pClosed' = TRUE
      \/ /\ main = "join parsing" /\ main' = "returned" /\ pGone = ParsingWorkers
         /\ gClosed' = gClosed /\ pClosed' = pClosed
  BY DEF MainCloseGithub, MainCloseParsing, MainReturn, FinishGithub, GithubJoined, MainMoves,
     github, parsing, GithubQueue!Close, ParsingQueue!Close
<1>3. FlowTypes'
  BY <1>1, <1>2 DEF FlowTypes, Finishing
<1>4. Places'
  <2>1. main # "counted" /\ main' # "counted"
    BY <1>2
  <2>2. found' # NULL <=> main' = "counted"
    BY <1>1, <2>1 DEF Places
  <2>3. /\ at' = at /\ gServing' = gServing /\ gGone' = gGone
        /\ pServing' = pServing /\ pGone' = pGone
    BY <1>1
  <2> QED
    BY <1>1, <2>2, <2>3 DEF Places
<1>5. Closing'
  <2>1. gGone' = gGone /\ pGone' = pGone
    BY <1>1
  <2>2. CASE main = "next cwe" /\ main' = "join github" /\ gClosed' = TRUE /\ pClosed' = pClosed
    BY <1>1, <2>1, <2>2 DEF Closing, Finishing
  <2>3. CASE /\ main = "join github" /\ main' = "join parsing" /\ gGone = GithubWorkers
             /\ gClosed' = gClosed /\ pClosed' = TRUE
    BY <1>1, <2>1, <2>3 DEF Closing, Finishing
  <2>4. CASE /\ main = "join parsing" /\ main' = "returned" /\ pGone = ParsingWorkers
             /\ gClosed' = gClosed /\ pClosed' = pClosed
    BY <1>1, <2>1, <2>4 DEF Closing, Finishing
  <2> QED
    BY <1>2, <2>2, <2>3, <2>4
<1>6. Life'
  <2>1. \A e \in Entries : (Handled(e)' <=> Handled(e)) /\ (Exported(e)' <=> Exported(e))
    <3>1. /\ at' = at /\ gServing' = gServing /\ gCompleted' = gCompleted
          /\ pServing' = pServing /\ pCompleted' = pCompleted
      BY <1>1
    <3> QED
      BY <3>1 DEF Handled, Exported
  <2> QED
    BY <1>1, <2>1 DEF Life
<1> QED
  BY <1>3, <1>4, <1>5, <1>6 DEF Way

-----------------------------------------------------------------------------
(* Every step.                                                             *)

\* Every step of a thread is an operation of each queue, or leaves it alone.
LEMMA QueuesKept ==
  ASSUME Flow,
         \/ MainNext
         \/ \E w \in GithubWorkers : GithubNext(w)
         \/ \E w \in ParsingWorkers : ParsingNext(w)
         \/ UNCHANGED <<github, parsing>>
  PROVE  GithubQueue!QueueInv' /\ ParsingQueue!QueueInv'
<1>1. GithubQueue!QueueInv /\ ParsingQueue!QueueInv
  BY DEF Flow
<1>2. CASE MainNext
  <2>1. CASE MainPush
    <3>1. found \in Entries
      BY <2>1 DEF MainPush, MainMoves, Flow, FlowTypes, Places
    <3> QED
      BY <1>1, <2>1, <3>1, GithubQueueKept, ParsingQueueKept DEF MainPush, GithubQueue!Next
  <2>2. CASE ~MainPush
    BY <1>1, <1>2, <2>2, GithubQueueKept, ParsingQueueKept
    DEF MainNext, MainSetPending, MainAddLine, MainProgress, MainFind, MainCweDone,
        MainCloseGithub, FinishGithub, MainCloseParsing, MainReturn,
        GithubQueue!Next, ParsingQueue!Next
  <2> QED
    BY <2>1, <2>2
<1>3. ASSUME NEW w \in GithubWorkers, GithubNext(w)
      PROVE  GithubQueue!QueueInv' /\ ParsingQueue!QueueInv'
  <2>1. CASE GithubPush(w)
    <3>1. gServing[w] \in Entries
      BY <2>1, QueueFacts DEF GithubPush, Moves, Flow, Places, Idle
    <3> QED
      BY <1>1, <2>1, <3>1, GithubQueueKept, ParsingQueueKept DEF GithubPush, ParsingQueue!Next
  <2>2. CASE ~GithubPush(w)
    BY <1>1, <1>3, <2>2, GithubQueueKept, ParsingQueueKept
    DEF GithubNext, GithubPop, GithubAddLine, GithubProgress, GithubReject, GithubAccept,
        GithubCount, GithubDone, GithubLeave, GithubQueue!Next
  <2> QED
    BY <2>1, <2>2
<1>4. ASSUME NEW w \in ParsingWorkers, ParsingNext(w)
      PROVE  GithubQueue!QueueInv' /\ ParsingQueue!QueueInv'
  BY <1>1, <1>4, GithubQueueKept, ParsingQueueKept
  DEF ParsingNext, ParsingPop, ParsingAddLine, ParsingOpen, ParsingRefused, ParsingClose,
      ParsingFinish, ParsingDone, ParsingLeave, ParsingQueue!Next
<1>5. CASE UNCHANGED <<github, parsing>>
  BY <1>1, <1>5, GithubQueueKept, ParsingQueueKept
<1> QED
  BY <1>2, <1>3, <1>4, <1>5

LEMMA MainFlow ==
  ASSUME Flow, MainNext
  PROVE  Flow'
<1>1. ASSUME MainSetPending \/ MainAddLine \/ MainProgress \/ MainCweDone
      PROVE  Way'
  <2>1. /\ main \in {"start", "next cwe", "sweep"}
        /\ main' \in {"start", "next cwe", "sweep"}
        /\ UNCHANGED <<found, at, entry, github, parsing>>
    BY <1>1 DEF MainSetPending, MainAddLine, MainProgress, MainCweDone, MainMoves, workers
  <2> QED
    BY <2>1, MainStays
<1>2. ASSUME NEW e \in Entries, MainFind(e) PROVE Way'
  BY <1>2, MainFinds
<1>3. Way'
  BY <1>1, <1>2, MainPushes, MainFinishes DEF MainNext
<1> QED
  BY <1>3, QueuesKept DEF Way, Flow

LEMMA GithubFlow ==
  ASSUME Flow, NEW w \in GithubWorkers, GithubNext(w)
  PROVE  Flow'
<1>1. ASSUME GithubAddLine(w) \/ GithubProgress(w) \/ GithubAccept(w) \/ GithubCount(w)
      PROVE  Way'
  <2>1. PICK to \in GithubPlaces \ {"settled"} :
          /\ at[w] \in GithubPlaces \ {"settled"} /\ at' = [at EXCEPT ![w] = to]
          /\ UNCHANGED <<main, found, entry, github, parsing>>
    BY <1>1 DEF GithubAddLine, GithubProgress, GithubAccept, GithubCount, Moves, mainThread,
       GithubPlaces
  <2> QED
    BY <2>1, GithubStays
<1>2. Way'
  BY <1>1, GithubPops, GithubRejects, GithubPushes, GithubDones, GithubLeaves DEF GithubNext
<1> QED
  BY <1>2, QueuesKept DEF Way, Flow

LEMMA ParsingFlow ==
  ASSUME Flow, NEW w \in ParsingWorkers, ParsingNext(w)
  PROVE  Flow'
<1>1. ASSUME ParsingAddLine(w) \/ ParsingOpen(w) \/ ParsingRefused(w) \/ ParsingClose(w)
      PROVE  Way'
  <2>1. PICK to \in ParsingPlaces \ {"settled"} :
          /\ at[w] \in ParsingPlaces \ {"settled"} /\ at' = [at EXCEPT ![w] = to]
          /\ UNCHANGED <<main, found, entry, github, parsing>>
    BY <1>1 DEF ParsingAddLine, ParsingOpen, ParsingRefused, ParsingClose, Moves, mainThread,
       ParsingPlaces
  <2> QED
    BY <2>1, ParsingStays
<1>2. Way'
  BY <1>1, ParsingPops, ParsingFinishes, ParsingDones, ParsingLeaves DEF ParsingNext
<1> QED
  BY <1>2, QueuesKept DEF Way, Flow

LEMMA FlowStep == Flow /\ [Next]_vars => Flow'
<1> SUFFICES ASSUME Flow, [Next]_vars PROVE Flow'
  OBVIOUS
<1>1. CASE Exit \/ Ended \/ UNCHANGED vars
  <2>1. UNCHANGED <<main, found, at, entry, github, parsing>>
    BY <1>1 DEF Exit, Ended, vars, mainThread, workers
  <2>2. /\ FlowTypes /\ Places /\ Closing /\ Life
        /\ UNCHANGED <<gClosed, gServing, gSubmitted, gCompleted, gGone,
                       pClosed, pServing, pSubmitted, pCompleted, pGone>>
    BY <2>1 DEF Flow, github, parsing
  <2>3. FlowTypes' /\ Places' /\ Closing'
    BY <2>1, <2>2 DEF FlowTypes, Places, Closing
  <2>4. Life'
    BY <2>1, <2>2 DEF Life, Handled, Exported
  <2> QED
    BY <2>1, <2>3, <2>4, QueuesKept DEF Flow
<1> QED
  BY <1>1, MainFlow, GithubFlow, ParsingFlow, RunAgainFlow DEF Next

THEOREM FlowInvariance == SafeSpec => []Flow
<1>1. Init => Flow
  BY FreshFlow DEF Init, Fresh
<1> QED
  BY <1>1, FlowStep, PTL DEF SafeSpec

-----------------------------------------------------------------------------
(* Who holds an entry.                                                     *)

GithubSlots(e) == {k \in 1 .. Len(gItems) : gItems[k] = e}

GithubHands(e) ==
  {v \in At(GithubWorkers, {"popped", "probing", "accepted", "counted"}) : gServing[v] = e}

\* Until a worker is done with it, a submitted entry has one place in the queue
\* or one worker, and afterwards it has none.
LEMMA GithubHolds ==
  ASSUME Flow, NEW e \in Entries
  PROVE  /\ e \in gSubmitted /\ ~Handled(e) =>
              \/ \E i \in GithubSlots(e) : GithubSlots(e) = {i} /\ GithubHands(e) = {}
              \/ \E w \in GithubHands(e) : GithubSlots(e) = {} /\ GithubHands(e) = {w}
         /\ e \notin gSubmitted \/ Handled(e) => GithubSlots(e) = {} /\ GithubHands(e) = {}
<1> DEFINE busy == {"popped", "probing", "accepted", "counted"}
<1>1. /\ GithubQueue!EachJobOnce
      /\ Places
  BY DEF Flow, GithubQueue!QueueInv
<1>2. \A w \in GithubWorkers :
        gServing[w] = e =>
          /\ e \in gSubmitted \ gCompleted
          /\ at[w] \in busy \/ at[w] = "settled"
          /\ w \in GithubHands(e) <=> at[w] \in busy
          /\ \A v \in GithubWorkers : gServing[v] = e => v = w
  BY <1>1, GithubServed, QueueFacts DEF Places, Idle, GithubPlaces, GithubHands, At
<1>3. \A w \in GithubHands(e) : w \in GithubWorkers /\ gServing[w] = e /\ at[w] \in busy
  BY DEF GithubHands, At
<1>4. /\ GithubQueue!Waits(e) <=> GithubSlots(e) # {}
      /\ GithubQueue!Served(e) <=> \E w \in GithubWorkers : gServing[w] = e
  BY DEF GithubSlots, GithubQueue!Waits, GithubQueue!Served
<1>5. /\ GithubSlots(e) # {} => e \in gSubmitted \ gCompleted
      /\ GithubSlots(e) # {} => \A w \in GithubWorkers : gServing[w] # e
      /\ \A i, k \in GithubSlots(e) : k = i
      /\ e \in gSubmitted =>
           \/ GithubSlots(e) # {}
           \/ \E w \in GithubWorkers : gServing[w] = e
           \/ e \in gCompleted
  <2>1. \A i, k \in GithubSlots(e) : k = i
    BY <1>1 DEF GithubSlots, GithubQueue!EachJobOnce
  <2>2. /\ GithubQueue!Waits(e) => e \in gSubmitted \ gCompleted /\ ~GithubQueue!Served(e)
        /\ e \in gSubmitted =>
             GithubQueue!Waits(e) \/ GithubQueue!Served(e) \/ e \in gCompleted
    BY <1>1 DEF GithubQueue!EachJobOnce
  <2> QED
    BY <1>4, <2>1, <2>2
<1>6. ASSUME e \notin gSubmitted \/ Handled(e)
      PROVE  GithubSlots(e) = {} /\ GithubHands(e) = {}
  <2>1. GithubSlots(e) = {}
    BY <1>5, <1>6 DEF Handled
  <2>2. ASSUME NEW w \in GithubHands(e) PROVE FALSE
    <3>1. at[w] # "settled" /\ w \in GithubWorkers /\ gServing[w] = e
      BY <1>3
    <3> QED
      BY <1>2, <1>6, <3>1 DEF Handled
  <2> QED
    BY <2>1, <2>2
<1>7. ASSUME e \in gSubmitted, ~Handled(e)
      PROVE  \/ \E i \in GithubSlots(e) : GithubSlots(e) = {i} /\ GithubHands(e) = {}
             \/ \E w \in GithubHands(e) : GithubSlots(e) = {} /\ GithubHands(e) = {w}
  <2>1. ASSUME NEW i \in GithubSlots(e) PROVE GithubSlots(e) = {i} /\ GithubHands(e) = {}
    <3>1. GithubSlots(e) = {i}
      BY <1>5
    <3> QED
      BY <1>3, <1>5, <3>1
  <2>2. ASSUME NEW w \in GithubWorkers, gServing[w] = e
        PROVE  w \in GithubHands(e) /\ GithubSlots(e) = {} /\ GithubHands(e) = {w}
    <3>1. w \in GithubHands(e)
      BY <1>2, <1>7, <2>2 DEF Handled
    <3>2. \A v \in GithubHands(e) : v = w
      BY <1>2, <1>3, <2>2
    <3> QED
      BY <1>5, <2>2, <3>1, <3>2
  <2> QED
    BY <1>5, <1>7, <2>1, <2>2 DEF Handled
<1> QED
  BY <1>6, <1>7

ParsingSlots(e) == {k \in 1 .. Len(pItems) : pItems[k] = e}

ParsingHands(e) ==
  {v \in At(ParsingWorkers, {"popped", "parsing", "writing", "exported"}) : pServing[v] = e}

\* Until a worker is done with it, a submitted entry has one place in the queue
\* or one worker, and afterwards it has none.
LEMMA ParsingHolds ==
  ASSUME Flow, NEW e \in Entries
  PROVE  /\ e \in pSubmitted /\ ~Exported(e) =>
              \/ \E i \in ParsingSlots(e) : ParsingSlots(e) = {i} /\ ParsingHands(e) = {}
              \/ \E w \in ParsingHands(e) : ParsingSlots(e) = {} /\ ParsingHands(e) = {w}
         /\ e \notin pSubmitted \/ Exported(e) => ParsingSlots(e) = {} /\ ParsingHands(e) = {}
<1> DEFINE busy == {"popped", "parsing", "writing", "exported"}
<1>1. /\ ParsingQueue!EachJobOnce
      /\ Places
  BY DEF Flow, ParsingQueue!QueueInv
<1>2. \A w \in ParsingWorkers :
        pServing[w] = e =>
          /\ e \in pSubmitted \ pCompleted
          /\ at[w] \in busy \/ at[w] = "settled"
          /\ w \in ParsingHands(e) <=> at[w] \in busy
          /\ \A v \in ParsingWorkers : pServing[v] = e => v = w
  BY <1>1, ParsingServed, QueueFacts DEF Places, Idle, ParsingPlaces, ParsingHands, At
<1>3. \A w \in ParsingHands(e) : w \in ParsingWorkers /\ pServing[w] = e /\ at[w] \in busy
  BY DEF ParsingHands, At
<1>4. /\ ParsingQueue!Waits(e) <=> ParsingSlots(e) # {}
      /\ ParsingQueue!Served(e) <=> \E w \in ParsingWorkers : pServing[w] = e
  BY DEF ParsingSlots, ParsingQueue!Waits, ParsingQueue!Served
<1>5. /\ ParsingSlots(e) # {} => e \in pSubmitted \ pCompleted
      /\ ParsingSlots(e) # {} => \A w \in ParsingWorkers : pServing[w] # e
      /\ \A i, k \in ParsingSlots(e) : k = i
      /\ e \in pSubmitted =>
           \/ ParsingSlots(e) # {}
           \/ \E w \in ParsingWorkers : pServing[w] = e
           \/ e \in pCompleted
  <2>1. \A i, k \in ParsingSlots(e) : k = i
    BY <1>1 DEF ParsingSlots, ParsingQueue!EachJobOnce
  <2>2. /\ ParsingQueue!Waits(e) => e \in pSubmitted \ pCompleted /\ ~ParsingQueue!Served(e)
        /\ e \in pSubmitted =>
             ParsingQueue!Waits(e) \/ ParsingQueue!Served(e) \/ e \in pCompleted
    BY <1>1 DEF ParsingQueue!EachJobOnce
  <2> QED
    BY <1>4, <2>1, <2>2
<1>6. ASSUME e \notin pSubmitted \/ Exported(e)
      PROVE  ParsingSlots(e) = {} /\ ParsingHands(e) = {}
  <2>1. ParsingSlots(e) = {}
    BY <1>5, <1>6 DEF Exported
  <2>2. ASSUME NEW w \in ParsingHands(e) PROVE FALSE
    <3>1. at[w] # "settled" /\ w \in ParsingWorkers /\ pServing[w] = e
      BY <1>3
    <3> QED
      BY <1>2, <1>6, <3>1 DEF Exported
  <2> QED
    BY <2>1, <2>2
<1>7. ASSUME e \in pSubmitted, ~Exported(e)
      PROVE  \/ \E i \in ParsingSlots(e) : ParsingSlots(e) = {i} /\ ParsingHands(e) = {}
             \/ \E w \in ParsingHands(e) : ParsingSlots(e) = {} /\ ParsingHands(e) = {w}
  <2>1. ASSUME NEW i \in ParsingSlots(e) PROVE ParsingSlots(e) = {i} /\ ParsingHands(e) = {}
    <3>1. ParsingSlots(e) = {i}
      BY <1>5
    <3> QED
      BY <1>3, <1>5, <3>1
  <2>2. ASSUME NEW w \in ParsingWorkers, pServing[w] = e
        PROVE  w \in ParsingHands(e) /\ ParsingSlots(e) = {} /\ ParsingHands(e) = {w}
    <3>1. w \in ParsingHands(e)
      BY <1>2, <1>7, <2>2 DEF Exported
    <3>2. \A v \in ParsingHands(e) : v = w
      BY <1>2, <1>3, <2>2
    <3> QED
      BY <1>5, <2>2, <3>1, <3>2
  <2> QED
    BY <1>5, <1>7, <2>1, <2>2 DEF Exported
<1> QED
  BY <1>6, <1>7

LEMMA HolderParts ==
  ASSUME NEW e \in Entries
  PROVE  Holders(e) = {t \in {"main"} : found = e}
                        \cup {<<i, "github">> : i \in GithubSlots(e)}
                        \cup {<<i, "parsing">> : i \in ParsingSlots(e)}
                        \cup {<<w>> : w \in GithubHands(e)}
                        \cup {<<w>> : w \in ParsingHands(e)}
BY DEF Holders, GithubSlots, ParsingSlots, GithubHands, ParsingHands

\* What lives has one holder, and nothing else has any.
LEMMA FlowHolders == Flow => OneHolder
<1> SUFFICES ASSUME Flow, NEW e \in Entries
             PROVE  Cardinality(Holders(e)) = IF entry[e] = "live" THEN 1 ELSE 0
  BY DEF OneHolder
<1>1. /\ found = e => e \notin gSubmitted
      /\ e \in pSubmitted => e \in gSubmitted /\ Handled(e)
      /\ entry[e] = "live" <=>
           \/ found = e
           \/ e \in gSubmitted /\ ~Handled(e)
           \/ e \in pSubmitted /\ ~Exported(e)
  <2>1. Handled(e) => e \in gSubmitted
    BY GithubServed, QueueFacts DEF Handled
  <2> QED
    <3>1. Life
      BY DEF Flow
    <3> QED
      BY <2>1, <3>1 DEF Life
<1>2. CASE found = e
  <2>1. /\ GithubSlots(e) = {} /\ GithubHands(e) = {}
        /\ ParsingSlots(e) = {} /\ ParsingHands(e) = {}
    BY <1>1, <1>2, GithubHolds, ParsingHolds
  <2>2. Holders(e) = {"main"}
    BY <1>2, <2>1, HolderParts
  <2> QED
    <3>1. Cardinality(Holders(e)) = 1
      BY <2>2, FS_Singleton
    <3> QED
      BY <1>1, <1>2, <3>1
<1>3. CASE e \in gSubmitted /\ ~Handled(e)
  <2>1. found # e /\ ParsingSlots(e) = {} /\ ParsingHands(e) = {}
    BY <1>1, <1>3, ParsingHolds
  <2>2. ASSUME NEW i \in GithubSlots(e), GithubSlots(e) = {i}, GithubHands(e) = {}
        PROVE  Holders(e) = {<<i, "github">>}
    BY <2>1, <2>2, HolderParts
  <2>3. ASSUME NEW w \in GithubHands(e), GithubSlots(e) = {}, GithubHands(e) = {w}
        PROVE  Holders(e) = {<<w>>}
    BY <2>1, <2>3, HolderParts
  <2>4. \E h : Holders(e) = {h}
    BY <1>3, <2>2, <2>3, GithubHolds
  <2> QED
    <3>1. Cardinality(Holders(e)) = 1
      BY <2>4, FS_Singleton
    <3> QED
      BY <1>1, <1>3, <3>1
<1>4. CASE e \in pSubmitted /\ ~Exported(e)
  <2>1. found # e /\ GithubSlots(e) = {} /\ GithubHands(e) = {}
    BY <1>1, <1>4, GithubHolds
  <2>2. ASSUME NEW i \in ParsingSlots(e), ParsingSlots(e) = {i}, ParsingHands(e) = {}
        PROVE  Holders(e) = {<<i, "parsing">>}
    BY <2>1, <2>2, HolderParts
  <2>3. ASSUME NEW w \in ParsingHands(e), ParsingSlots(e) = {}, ParsingHands(e) = {w}
        PROVE  Holders(e) = {<<w>>}
    BY <2>1, <2>3, HolderParts
  <2>4. \E h : Holders(e) = {h}
    BY <1>4, <2>2, <2>3, ParsingHolds
  <2> QED
    <3>1. Cardinality(Holders(e)) = 1
      BY <2>4, FS_Singleton
    <3> QED
      BY <1>1, <1>4, <3>1
<1>5. CASE /\ found # e
           /\ e \notin gSubmitted \/ Handled(e)
           /\ e \notin pSubmitted \/ Exported(e)
  <2>1. /\ GithubSlots(e) = {} /\ GithubHands(e) = {}
        /\ ParsingSlots(e) = {} /\ ParsingHands(e) = {}
    BY <1>5, GithubHolds, ParsingHolds
  <2>2. Holders(e) = {}
    BY <1>5, <2>1, HolderParts
  <2> QED
    <3>1. Cardinality(Holders(e)) = 0
      BY <2>2, FS_EmptySet
    <3> QED
      BY <1>1, <1>5, <3>1
<1> QED
  BY <1>2, <1>3, <1>4, <1>5

\* Every entry is in one hand while it lives, and in none when it is freed.
THEOREM Holding == SafeSpec => []OneHolder
BY FlowInvariance, FlowHolders, PTL

\* Nothing is pushed to a queue that is finished.
THEOREM Finished == SafeSpec => []NoPushAfterFinish
<1>1. Flow => NoPushAfterFinish
  <2> SUFFICES ASSUME Flow PROVE NoPushAfterFinish
    OBVIOUS
  <2>1. Places /\ Closing /\ GithubQueue!LeavesLast
    BY DEF Flow, GithubQueue!QueueInv
  <2>2. ASSUME pClosed PROVE At(GithubWorkers, {"returned"}) = GithubWorkers /\ gItems = <<>>
    <3>1. gGone = GithubWorkers
      BY <2>1, <2>2 DEF Closing
    <3>2. At(GithubWorkers, {"returned"}) = GithubWorkers
      BY <2>1, <3>1 DEF Places, At
    <3>3. gItems = <<>>
      BY <2>1, <3>1, PipelineAssumption DEF GithubQueue!LeavesLast
    <3> QED
      BY <3>2, <3>3
  <2> QED
    BY <2>1, <2>2 DEF NoPushAfterFinish, Closing, Finishing
<1> QED
  BY FlowInvariance, <1>1, PTL

-----------------------------------------------------------------------------
(* The files.                                                              *)

\* The steps that neither open nor close a file, nor end an export.
LEMMA FilesStay ==
  ASSUME Flow, Flow', Files, UNCHANGED run, UNCHANGED disk, running' \in BOOLEAN,
         \A w \in ParsingWorkers : at'[w] = "writing" =>
           at[w] = "writing" /\ pServing'[w] = pServing[w],
         \A w \in ParsingWorkers : at[w] = "writing" =>
           at'[w] = "writing" /\ pServing'[w] = pServing[w],
         \A w \in ParsingWorkers : at'[w] \in {"exported", "settled"} =>
           disk[FileName[pServing'[w]]] # Absent,
         \A e \in pCompleted' : disk[FileName[e]] # Absent
  PROVE  Files'
<1>1. /\ run \in 1 .. MaxRuns /\ run' = run /\ disk' = disk
      /\ disk \in [FileNames -> [state : {"absent", "partial", "complete"},
                                 by : Entries \cup {NULL}]]
      /\ \A n \in FileNames : disk[n] # Absent =>
           disk[n].state # "absent" /\ disk[n].by \in Entries /\ FileName[disk[n].by] = n
      /\ \A w \in ParsingWorkers : at[w] = "writing" =>
           disk[FileName[pServing[w]]] = [state |-> "partial", by |-> pServing[w]]
      /\ run = 1 => \A n \in FileNames : disk[n].state = "partial" =>
           \E w \in ParsingWorkers : at[w] = "writing" /\ pServing[w] = disk[n].by
  BY DEF Files
<1>2. \A w \in ParsingWorkers : at'[w] = "writing" =>
        disk'[FileName[pServing'[w]]] = [state |-> "partial", by |-> pServing'[w]]
  BY <1>1
<1>3. run' = 1 => \A n \in FileNames : disk'[n].state = "partial" =>
        \E w \in ParsingWorkers : at'[w] = "writing" /\ pServing'[w] = disk'[n].by
  BY <1>1
<1> QED
  BY <1>1, <1>2, <1>3 DEF Files, Absent

\* A step of another thread.
LEMMA FilesOthers ==
  ASSUME Flow, Flow', Files, UNCHANGED <<run, disk, pServing, pCompleted>>,
         running' \in BOOLEAN, \A w \in ParsingWorkers : at'[w] = at[w]
  PROVE  Files'
<1>1. /\ \A w \in ParsingWorkers : at[w] \in {"exported", "settled"} =>
           disk[FileName[pServing[w]]] # Absent
      /\ \A e \in pCompleted : disk[FileName[e]] # Absent
  BY DEF Files
<1> QED
  BY <1>1, FilesStay

\* A parsing worker takes up an entry, adds its line, frees its entry, is done
\* with it or returns.
LEMMA FilesLater ==
  ASSUME Flow, Flow', Files, NEW w \in ParsingWorkers,
         \/ ParsingPop(w) \/ ParsingAddLine(w) \/ ParsingFinish(w) \/ ParsingDone(w)
         \/ ParsingLeave(w)
  PROVE  Files'
<1>1. /\ run' = run /\ disk' = disk /\ running' = running
      /\ at[w] # "writing" /\ at'[w] # "writing"
      /\ \A v \in ParsingWorkers : v # w => at'[v] = at[v] /\ pServing'[v] = pServing[v]
  BY QueueFacts
  DEF ParsingPop, ParsingAddLine, ParsingFinish, ParsingDone, ParsingLeave, Moves, process,
      parsing, ParsingQueue!Serve, ParsingQueue!Complete, ParsingQueue!Leave, Flow, FlowTypes
<1>2. /\ \A v \in ParsingWorkers : at[v] \in {"exported", "settled"} =>
           disk[FileName[pServing[v]]] # Absent
      /\ \A e \in pCompleted : disk[FileName[e]] # Absent
      /\ running \in BOOLEAN
  BY DEF Files
<1>3. at'[w] \in {"exported", "settled"} => disk[FileName[pServing'[w]]] # Absent
  BY <1>2, QueueFacts
  DEF ParsingPop, ParsingAddLine, ParsingFinish, ParsingDone, ParsingLeave, Moves, parsing,
      Flow, FlowTypes
<1>4. \A e \in pCompleted' : disk[FileName[e]] # Absent
  <2>1. CASE ParsingDone(w)
    <3>1. pCompleted' = pCompleted \cup {pServing[w]} /\ at[w] = "settled"
      BY <2>1 DEF ParsingDone, Moves, ParsingQueue!Complete
    <3> QED
      BY <1>2, <3>1
  <2>2. CASE ~ParsingDone(w)
    <3>1. pCompleted' = pCompleted
      BY <2>2 DEF ParsingPop, ParsingAddLine, ParsingFinish, ParsingLeave, parsing,
         ParsingQueue!Serve, ParsingQueue!Leave
    <3> QED
      BY <1>2, <3>1
  <2> QED
    BY <2>1, <2>2
<1> QED
  BY <1>1, <1>2, <1>3, <1>4, FilesStay

\* A file is created.
LEMMA FilesOpened ==
  ASSUME Flow, Flow', Files, NEW w \in ParsingWorkers, ParsingOpen(w)
  PROVE  Files'
<1> DEFINE e == pServing[w]
           n == FileName[pServing[w]]
<1>1. /\ run' = run /\ running' = running
      /\ at[w] = "parsing" /\ at'[w] = "writing"
      /\ \A v \in ParsingWorkers : v # w => at'[v] = at[v]
      /\ pServing' = pServing /\ pCompleted' = pCompleted
      /\ disk[n] = Absent
      /\ disk' = [disk EXCEPT ![n] = [state |-> "partial", by |-> e]]
  BY QueueFacts DEF ParsingOpen, Moves, process, parsing, Creates, Flow, FlowTypes
<1>2. e \in Entries /\ n \in FileNames /\ FileName \in [Entries -> FileNames]
  BY <1>1, QueueFacts, PipelineAssumption DEF Flow, Places, Idle
<1>3. /\ run \in 1 .. MaxRuns /\ running \in BOOLEAN
      /\ disk \in [FileNames -> [state : {"absent", "partial", "complete"},
                                 by : Entries \cup {NULL}]]
      /\ \A m \in FileNames : disk[m] # Absent =>
           disk[m].state # "absent" /\ disk[m].by \in Entries /\ FileName[disk[m].by] = m
      /\ \A v \in ParsingWorkers : at[v] = "writing" =>
           disk[FileName[pServing[v]]] = [state |-> "partial", by |-> pServing[v]]
      /\ \A v \in ParsingWorkers : at[v] \in {"exported", "settled"} =>
           disk[FileName[pServing[v]]] # Absent
      /\ \A f \in pCompleted : disk[FileName[f]] # Absent
      /\ run = 1 => \A m \in FileNames : disk[m].state = "partial" =>
           \E v \in ParsingWorkers : at[v] = "writing" /\ pServing[v] = disk[m].by
  BY DEF Files
<1>4. /\ disk'[n] = [state |-> "partial", by |-> e]
      /\ \A m \in FileNames : m # n => disk'[m] = disk[m]
      /\ disk'[n] # Absent
  BY <1>1, <1>2, <1>3 DEF Absent
<1>5. \A v \in ParsingWorkers : v # w /\ at[v] = "writing" => FileName[pServing[v]] # n
  <2>1. disk[n].state = "absent"
    BY <1>1 DEF Absent
  <2>2. ASSUME NEW v \in ParsingWorkers, at[v] = "writing"
        PROVE  disk[FileName[pServing[v]]].state = "partial"
    <3>1. disk[FileName[pServing[v]]] = [state |-> "partial", by |-> pServing[v]]
      BY <1>3, <2>2
    <3> QED
      BY <3>1
  <2> QED
    BY <2>1, <2>2
<1>6. \A v \in ParsingWorkers : at[v] \notin Idle => pServing[v] \in Entries
  BY QueueFacts DEF Flow, Places
<1>7. disk' \in [FileNames -> [state : {"absent", "partial", "complete"},
                               by : Entries \cup {NULL}]]
  BY <1>1, <1>2, <1>3
<1>8. \A m \in FileNames : disk'[m] # Absent =>
        disk'[m].state # "absent" /\ disk'[m].by \in Entries /\ FileName[disk'[m].by] = m
  BY <1>2, <1>3, <1>4
<1>9. \A v \in ParsingWorkers : at'[v] = "writing" =>
        disk'[FileName[pServing'[v]]] = [state |-> "partial", by |-> pServing'[v]]
  <2> SUFFICES ASSUME NEW v \in ParsingWorkers, at'[v] = "writing"
               PROVE  disk'[FileName[pServing'[v]]] = [state |-> "partial", by |-> pServing'[v]]
    OBVIOUS
  <2>1. CASE v = w
    BY <1>1, <1>4, <2>1
  <2>2. CASE v # w
    <3>1. at[v] = "writing" /\ FileName[pServing[v]] \in FileNames /\ FileName[pServing[v]] # n
      BY <1>1, <1>2, <1>5, <1>6, <2>2 DEF Idle
    <3> QED
      BY <1>1, <1>3, <1>4, <3>1
  <2> QED
    BY <2>1, <2>2
<1>10. \A v \in ParsingWorkers : at'[v] \in {"exported", "settled"} =>
         disk'[FileName[pServing'[v]]] # Absent
  BY <1>1, <1>2, <1>3, <1>4, <1>6 DEF Idle
<1>11. \A f \in pCompleted' : disk'[FileName[f]] # Absent
  BY <1>1, <1>2, <1>3, <1>4, QueueFacts
<1>12. run' = 1 => \A m \in FileNames : disk'[m].state = "partial" =>
         \E v \in ParsingWorkers : at'[v] = "writing" /\ pServing'[v] = disk'[m].by
  BY <1>1, <1>3, <1>4
<1> QED
  BY <1>1, <1>3, <1>7, <1>8, <1>9, <1>10, <1>11, <1>12 DEF Files, Absent

\* There is one: the worker gives up.
LEMMA FilesRefused ==
  ASSUME Flow, Flow', Files, NEW w \in ParsingWorkers, ParsingRefused(w)
  PROVE  Files'
<1>1. /\ run' = run /\ disk' = disk /\ running' = running
      /\ at[w] = "parsing" /\ at'[w] = "exported"
      /\ \A v \in ParsingWorkers : v # w => at'[v] = at[v]
      /\ pServing' = pServing /\ pCompleted' = pCompleted
      /\ disk[FileName[pServing[w]]] # Absent
  BY QueueFacts DEF ParsingRefused, Moves, process, parsing, Creates, Flow, FlowTypes
<1>2. /\ \A v \in ParsingWorkers : at[v] \in {"exported", "settled"} =>
           disk[FileName[pServing[v]]] # Absent
      /\ \A e \in pCompleted : disk[FileName[e]] # Absent
      /\ running \in BOOLEAN
  BY DEF Files
<1>3. \A v \in ParsingWorkers : at'[v] \in {"exported", "settled"} =>
        disk[FileName[pServing'[v]]] # Absent
  BY <1>1, <1>2
<1>4. \A v \in ParsingWorkers : at'[v] = "writing" <=> at[v] = "writing"
  BY <1>1
<1> QED
  BY <1>1, <1>2, <1>3, <1>4, FilesStay

\* A file is completed.
LEMMA FilesClosed ==
  ASSUME Flow, Flow', Files, NEW w \in ParsingWorkers, ParsingClose(w)
  PROVE  Files'
<1> DEFINE e == pServing[w]
           n == FileName[pServing[w]]
<1>1. /\ run' = run /\ running' = running
      /\ at[w] = "writing" /\ at'[w] = "exported"
      /\ \A v \in ParsingWorkers : v # w => at'[v] = at[v]
      /\ pServing' = pServing /\ pCompleted' = pCompleted
      /\ disk' = [disk EXCEPT ![n].state = "complete"]
  BY QueueFacts DEF ParsingClose, Moves, process, parsing, Flow, FlowTypes
<1>2. e \in Entries /\ n \in FileNames /\ FileName \in [Entries -> FileNames]
  BY <1>1, QueueFacts, PipelineAssumption DEF Flow, Places, Idle
<1>3. /\ run \in 1 .. MaxRuns /\ running \in BOOLEAN
      /\ disk \in [FileNames -> [state : {"absent", "partial", "complete"},
                                 by : Entries \cup {NULL}]]
      /\ \A m \in FileNames : disk[m] # Absent =>
           disk[m].state # "absent" /\ disk[m].by \in Entries /\ FileName[disk[m].by] = m
      /\ \A v \in ParsingWorkers : at[v] = "writing" =>
           disk[FileName[pServing[v]]] = [state |-> "partial", by |-> pServing[v]]
      /\ \A v \in ParsingWorkers : at[v] \in {"exported", "settled"} =>
           disk[FileName[pServing[v]]] # Absent
      /\ \A f \in pCompleted : disk[FileName[f]] # Absent
      /\ run = 1 => \A m \in FileNames : disk[m].state = "partial" =>
           \E v \in ParsingWorkers : at[v] = "writing" /\ pServing[v] = disk[m].by
  BY DEF Files
<1>4. disk[n] = [state |-> "partial", by |-> e]
  BY <1>1, <1>3
<1>5. /\ disk'[n] = [state |-> "complete", by |-> e]
      /\ \A m \in FileNames : m # n => disk'[m] = disk[m]
      /\ disk'[n] # Absent
  BY <1>1, <1>2, <1>3, <1>4 DEF Absent
<1>6. \A v \in ParsingWorkers : v # w /\ at[v] = "writing" => FileName[pServing[v]] # n
  <2>1. \A v \in ParsingWorkers : v # w => pServing[v] # e
    BY <1>2, QueueFacts, ParsingServed
  <2>2. ASSUME NEW v \in ParsingWorkers, at[v] = "writing"
        PROVE  disk[FileName[pServing[v]]].by = pServing[v]
    <3>1. disk[FileName[pServing[v]]] = [state |-> "partial", by |-> pServing[v]]
      BY <1>3, <2>2
    <3> QED
      BY <3>1
  <2>3. disk[n].by = e
    BY <1>4
  <2> QED
    BY <2>1, <2>2, <2>3
<1>7. \A v \in ParsingWorkers : at[v] \notin Idle => pServing[v] \in Entries
  BY QueueFacts DEF Flow, Places
<1>8. disk' \in [FileNames -> [state : {"absent", "partial", "complete"},
                               by : Entries \cup {NULL}]]
  <2>1. [state |-> "complete", by |-> e] \in [state : {"absent", "partial", "complete"},
                                              by : Entries \cup {NULL}]
    BY <1>2
  <2>2. \A m \in FileNames :
          disk'[m] \in [state : {"absent", "partial", "complete"}, by : Entries \cup {NULL}]
    BY <1>3, <1>5, <2>1
  <2>3. disk' = [m \in FileNames |-> disk'[m]]
    BY <1>1, <1>3
  <2> QED
    BY <2>2, <2>3
<1>9. \A m \in FileNames : disk'[m] # Absent =>
        disk'[m].state # "absent" /\ disk'[m].by \in Entries /\ FileName[disk'[m].by] = m
  BY <1>2, <1>3, <1>5
<1>10. \A v \in ParsingWorkers : at'[v] = "writing" =>
         disk'[FileName[pServing'[v]]] = [state |-> "partial", by |-> pServing'[v]]
  <2> SUFFICES ASSUME NEW v \in ParsingWorkers, at'[v] = "writing"
               PROVE  disk'[FileName[pServing'[v]]] = [state |-> "partial", by |-> pServing'[v]]
    OBVIOUS
  <2>1. v # w /\ at[v] = "writing"
    BY <1>1
  <2>2. FileName[pServing[v]] \in FileNames /\ FileName[pServing[v]] # n
    BY <1>2, <1>6, <1>7, <2>1 DEF Idle
  <2> QED
    BY <1>1, <1>3, <1>5, <2>1, <2>2
<1>11. \A v \in ParsingWorkers : at'[v] \in {"exported", "settled"} =>
         disk'[FileName[pServing'[v]]] # Absent
  BY <1>1, <1>2, <1>3, <1>5, <1>7 DEF Idle
<1>12. \A f \in pCompleted' : disk'[FileName[f]] # Absent
  BY <1>1, <1>2, <1>3, <1>5, QueueFacts
<1>13. run' = 1 => \A m \in FileNames : disk'[m].state = "partial" =>
         \E v \in ParsingWorkers : at'[v] = "writing" /\ pServing'[v] = disk'[m].by
  <2>1. ASSUME run = 1, NEW m \in FileNames, disk'[m].state = "partial"
        PROVE  \E v \in ParsingWorkers : at'[v] = "writing" /\ pServing'[v] = disk'[m].by
    <3>1. m # n /\ disk'[m] = disk[m]
      BY <1>5, <2>1
    <3>2. PICK v \in ParsingWorkers : at[v] = "writing" /\ pServing[v] = disk[m].by
      BY <1>3, <2>1, <3>1
    <3>3. v # w
      <4>1. disk[m] # Absent
        BY <2>1, <3>1 DEF Absent
      <4> QED
        BY <1>2, <1>3, <3>1, <3>2, <4>1
    <3> QED
      BY <1>1, <3>1, <3>2, <3>3
  <2> QED
    BY <1>1, <2>1
<1> QED
  BY <1>1, <1>3, <1>8, <1>9, <1>10, <1>11, <1>12, <1>13 DEF Files, Absent

\* The next run finds the files of the ones before.
LEMMA FilesAgain ==
  ASSUME Files, RunAgain
  PROVE  Files'
<1>1. /\ run < MaxRuns /\ run' = run + 1 /\ running' = TRUE /\ disk' = disk
      /\ pCompleted' = {}
      /\ \A w \in ParsingWorkers : at'[w] = "idle"
  BY DEF RunAgain, Workers
<1>2. run' \in 1 .. MaxRuns /\ run' # 1
  BY <1>1, PipelineAssumption DEF Files
<1> QED
  BY <1>1, <1>2 DEF Files, Absent

\* No step breaks the invariant.
LEMMA FilesStep == Flow /\ Flow' /\ Files /\ [Next]_vars => Files'
<1> SUFFICES ASSUME Flow, Flow', Files, [Next]_vars PROVE Files'
  OBVIOUS
<1>1. CASE MainNext
  <2>1. UNCHANGED <<run, running, disk, at, pServing, pCompleted>>
    BY <1>1 DEF MainNext, MainSetPending, MainAddLine, MainProgress, MainFind, MainPush,
       MainCweDone, MainCloseGithub, MainCloseParsing, MainReturn, MainMoves, process, workers,
       parsing, ParsingQueue!Close
  <2> QED
    BY <2>1, FilesOthers DEF Files
<1>2. ASSUME NEW w \in GithubWorkers, GithubNext(w) PROVE Files'
  <2>1. /\ UNCHANGED <<run, running, disk, pServing, pCompleted>>
        /\ \A v \in ParsingWorkers : at'[v] = at[v]
    BY <1>2, QueueFacts DEF GithubNext, GithubPop, GithubAddLine, GithubProgress, GithubReject,
       GithubAccept, GithubCount, GithubPush, GithubDone, GithubLeave, Moves, process,
       parsing, ParsingQueue!Submit, Flow, FlowTypes
  <2> QED
    BY <2>1, FilesOthers DEF Files
<1>3. ASSUME NEW w \in ParsingWorkers, ParsingNext(w) PROVE Files'
  BY <1>3, FilesLater, FilesOpened, FilesRefused, FilesClosed DEF ParsingNext
<1>4. CASE Exit \/ Ended \/ UNCHANGED vars
  <2>1. UNCHANGED <<run, disk, at, pServing, pCompleted>> /\ running' \in BOOLEAN
    BY <1>4 DEF Exit, Ended, vars, process, workers, parsing, Files
  <2> QED
    BY <2>1, FilesOthers
<1> QED
  BY <1>1, <1>2, <1>3, <1>4, FilesAgain DEF Next

THEOREM FilesInvariance == SafeSpec => []Files
<1>1. Init => Files
  BY PipelineAssumption DEF Init, Files, Absent, Workers, ParsingQueue!Init
<1> QED
  BY <1>1, FlowInvariance, FilesStep, PTL DEF SafeSpec

\* A file that exists changes once at most, when the worker that created it has
\* written all of it: not by a restart, nor by an entry of the same name.
THEOREM Kept == SafeSpec => FilesKept
<1> DEFINE Keeps ==
      \A n \in FileNames :
        disk[n] # Absent /\ disk'[n] # disk[n] =>
          /\ disk'[n] = [disk[n] EXCEPT !.state = "complete"]
          /\ \E w \in At(ParsingWorkers, {"writing"}) : pServing[w] = disk[n].by
<1>1. Flow /\ Files /\ [Next]_vars => [Keeps]_vars
  <2> SUFFICES ASSUME Flow, Files, Next PROVE Keeps
    BY DEF vars
  <2>1. CASE disk' = disk
    BY <2>1
  <2>2. ASSUME NEW w \in ParsingWorkers, ParsingOpen(w) PROVE Keeps
    BY <2>2 DEF ParsingOpen, Creates, Files
  <2>3. ASSUME NEW w \in ParsingWorkers, ParsingClose(w) PROVE Keeps
    <3>1. /\ at[w] = "writing" /\ disk' = [disk EXCEPT ![FileName[pServing[w]]].state = "complete"]
      BY <2>3 DEF ParsingClose, Moves
    <3>2. /\ disk[FileName[pServing[w]]] = [state |-> "partial", by |-> pServing[w]]
          /\ w \in At(ParsingWorkers, {"writing"})
          /\ disk \in [FileNames -> [state : {"absent", "partial", "complete"},
                                     by : Entries \cup {NULL}]]
      BY <3>1 DEF Files, At
    <3> QED
      BY <3>1, <3>2
  <2>4. CASE ~\E w \in ParsingWorkers : ParsingOpen(w) \/ ParsingClose(w)
    <3>1. disk' = disk
      BY <2>4 DEF Next, MainNext, MainSetPending, MainAddLine, MainProgress, MainFind, MainPush,
         MainCweDone, MainCloseGithub, MainCloseParsing, MainReturn, MainMoves,
         GithubNext, GithubPop, GithubAddLine, GithubProgress, GithubReject,
         GithubAccept, GithubCount, GithubPush, GithubDone, GithubLeave,
         ParsingNext, ParsingPop, ParsingAddLine, ParsingRefused, ParsingFinish, ParsingDone,
         ParsingLeave, Exit, RunAgain, Ended, vars
    <3> QED
      BY <2>1, <3>1
  <2> QED
    BY <2>2, <2>3, <2>4
<1> QED
  BY <1>1, FlowInvariance, FilesInvariance, PTL DEF SafeSpec, FilesKept
=============================================================================
