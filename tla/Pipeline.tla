------------------------------ MODULE Pipeline ------------------------------
(***************************************************************************)
(* A run of the program from src/src/main.c: the main thread sweeps the    *)
(* NVD and pushes one dataset entry per patch reference to the GitHub      *)
(* queue; a worker of that queue rejects the entry or passes it on to the  *)
(* parsing queue; a worker of the parsing queue writes its JSON file.  The *)
(* two queues are the FIFO queues of WorkQueue, which JobsQueue shows      *)
(* src/src/jobs.c to implement; the progress display is History.           *)
(*                                                                         *)
(* The process can end at any step (EXIT_IF in any thread calls exit, the  *)
(* user interrupts it) and be run again: everything is forgotten but the   *)
(* files of the export folder.                                             *)
(***************************************************************************)
EXTENDS History, FiniteSets

CONSTANTS Entries,        \* the patch references the NVD knows of
          GithubWorkers,  \* GITHUB_THREADS threads
          ParsingWorkers, \* PARSING_THREADS threads
          CweCount,       \* config->cwe_ids_count
          FileNames,      \* what a file of the export folder can be called
          FileName,       \* FileName[e]: the name made from the fields of e
          MaxRuns,        \* bound: how often the program is run
          NULL

ASSUME PipelineAssumption ==
  /\ GithubWorkers # {} /\ ParsingWorkers # {}
  /\ GithubWorkers \cap ParsingWorkers = {}
  /\ CweCount \in 0 .. UintMod - 1
  /\ FileName \in [Entries -> FileNames]
  /\ NULL \notin Entries
  /\ MaxRuns \in Nat \ {0}

\* There are fewer references than an unsigned counts, and threads are finite.
ASSUME CountsFit ==
  /\ IsFiniteSet(Entries) /\ Cardinality(Entries) < UintMod
  /\ IsFiniteSet(GithubWorkers) /\ IsFiniteSet(ParsingWorkers)

VARIABLES
  run,       \* how many times the program was started
  running,   \* the process is alive
  disk,      \* the export folder: by whom a file is written, and how far
  main,      \* where the main thread is
  cwe,       \* the index of the CWE it sweeps
  found,     \* the entry it has made and not pushed yet
  at,        \* where each worker is
  line,      \* each worker's local variable line_number
  mainLine,  \* the main thread's local variable line_number
  entry,     \* entry[e]: the dataset_entry_t of e is "none", "live" or "freed"
  history,   \* the progress display
  gItems, gClosed, gServing, gSubmitted, gCompleted, gGone,
  pItems, pClosed, pServing, pSubmitted, pCompleted, pGone

github == <<gItems, gClosed, gServing, gSubmitted, gCompleted, gGone>>
parsing == <<pItems, pClosed, pServing, pSubmitted, pCompleted, pGone>>
mainThread == <<main, cwe, found, mainLine>>
workers == <<at, line>>
process == <<run, running>>
vars == <<process, disk, mainThread, workers, entry, history, github, parsing>>

GithubQueue == INSTANCE WorkQueue WITH
  Jobs <- Entries, Workers <- GithubWorkers,
  items <- gItems, closed <- gClosed, serving <- gServing,
  submitted <- gSubmitted, completed <- gCompleted, gone <- gGone

ParsingQueue == INSTANCE WorkQueue WITH
  Jobs <- Entries, Workers <- ParsingWorkers,
  items <- pItems, closed <- pClosed, serving <- pServing,
  submitted <- pSubmitted, completed <- pCompleted, gone <- pGone

Workers == GithubWorkers \cup ParsingWorkers

Absent == [state |-> "absent", by |-> NULL]

\* main before nvd_request: queues, threads and display are new.
Init ==
  /\ run = 1
  /\ running = TRUE
  /\ disk = [n \in FileNames |-> Absent]
  /\ main = "start" /\ cwe = 0 /\ found = NULL /\ mainLine = 0
  /\ at = [w \in Workers |-> "idle"]
  /\ line = [w \in Workers |-> 0]
  /\ entry = [e \in Entries |-> "none"]
  /\ history = NewHistory
  /\ GithubQueue!Init
  /\ ParsingQueue!Init

MainMoves(from, to) ==
  /\ running
  /\ main = from
  /\ main' = to
  /\ UNCHANGED <<process, disk, workers>>

Moves(w, from, to) ==
  /\ running
  /\ at[w] = from
  /\ at' = [at EXCEPT ![w] = to]
  /\ UNCHANGED <<process, mainThread>>

\* A mistake the properties must catch: the entry is not destroyed.
Leak(e) == entry

\* dataset_entry_destroy.
Destroy(e) == [entry EXCEPT ![e] = "freed"]

\* A mistake the properties must catch: an entry is not counted.
Uncounted == history

\* A found entry is counted for the GitHub section, an accepted one for the
\* parsing section.
CountFound == IncrementPending(history, "github")

CountAccepted == IncrementPending(history, "parsing")

\* A mistake the properties must catch: the GitHub queue is never finished.
Unfinished == UNCHANGED github

\* jobs_queue_finish on the GitHub queue.
FinishGithub == GithubQueue!Close

\* A mistake the properties must catch: the GitHub workers are not joined.
Unjoined == TRUE

\* pthread_join has returned for every GitHub worker.
GithubJoined == gGone = GithubWorkers

\* A mistake the properties must catch: O_TRUNC for O_EXCL.
Opens(n) == TRUE

\* open with O_CREAT and O_EXCL succeeds.
Creates(n) == disk[n] = Absent

-----------------------------------------------------------------------------
(* The main thread: nvd_request, then the shutdown.                        *)

MainSetPending ==
  /\ MainMoves("start", "next cwe")
  /\ history' = SetPending(history, "nvd", CweCount)
  /\ UNCHANGED <<cwe, found, mainLine, entry, github, parsing>>

MainAddLine ==
  /\ cwe < CweCount
  /\ MainMoves("next cwe", "sweep")
  /\ history' = AddLine(history, "nvd", cwe)
  /\ mainLine' = LineNumber(history', "nvd")
  /\ UNCHANGED <<cwe, found, entry, github, parsing>>

\* download_window says which window it probes and which page it downloads.
MainProgress ==
  /\ MainMoves("sweep", "sweep")
  /\ history' = UpdateLine(history, "nvd", mainLine, FALSE)
  /\ UNCHANGED <<cwe, found, mainLine, entry, github, parsing>>

\* nvd_parser_parse_cve makes an entry and counts it as pending.
MainFind(e) ==
  /\ e \notin gSubmitted
  /\ MainMoves("sweep", "counted")
  /\ found' = e
  /\ entry' = [entry EXCEPT ![e] = "live"]
  /\ history' = CountFound
  /\ UNCHANGED <<cwe, mainLine, github, parsing>>

MainPush ==
  /\ MainMoves("counted", "sweep")
  /\ GithubQueue!Submit(found)
  /\ found' = NULL
  /\ UNCHANGED <<cwe, mainLine, entry, history, parsing>>

MainCweDone ==
  /\ MainMoves("sweep", "next cwe")
  /\ history' = UpdateLine(history, "nvd", mainLine, TRUE)
  /\ cwe' = cwe + 1
  /\ UNCHANGED <<found, mainLine, entry, github, parsing>>

MainCloseGithub ==
  /\ cwe = CweCount
  /\ MainMoves("next cwe", "join github")
  /\ FinishGithub
  /\ UNCHANGED <<cwe, found, mainLine, entry, history, parsing>>

\* Then jobs_queue_finish on the parsing queue.
MainCloseParsing ==
  /\ GithubJoined
  /\ MainMoves("join github", "join parsing")
  /\ ParsingQueue!Close
  /\ UNCHANGED <<cwe, found, mainLine, entry, history, github>>

\* pthread_join on every parsing worker, the cleanup, and return.
MainReturn ==
  /\ pGone = ParsingWorkers
  /\ MainMoves("join parsing", "returned")
  /\ UNCHANGED <<cwe, found, mainLine, entry, history, github, parsing>>

-----------------------------------------------------------------------------
(* A worker of the GitHub queue: worker() with github_process_commit.      *)

GithubPop(w) ==
  /\ Moves(w, "idle", "popped")
  /\ GithubQueue!Serve(w)
  /\ UNCHANGED <<disk, line, entry, history, parsing>>

GithubAddLine(w) ==
  /\ Moves(w, "popped", "probing")
  /\ history' = AddLine(history, "github", gServing[w])
  /\ line' = [line EXCEPT ![w] = LineNumber(history', "github")]
  /\ UNCHANGED <<disk, entry, github, parsing>>

GithubProgress(w) ==
  /\ Moves(w, "probing", "probing")
  /\ history' = UpdateLine(history, "github", line[w], FALSE)
  /\ UNCHANGED <<disk, line, entry, github, parsing>>

\* Any of the nine early returns of github_process_commit.
GithubReject(w) ==
  /\ Moves(w, "probing", "settled")
  /\ history' = UpdateLine(history, "github", line[w], TRUE)
  /\ entry' = Destroy(gServing[w])
  /\ UNCHANGED <<disk, line, github, parsing>>

GithubAccept(w) ==
  /\ Moves(w, "probing", "accepted")
  /\ history' = UpdateLine(history, "github", line[w], TRUE)
  /\ UNCHANGED <<disk, line, entry, github, parsing>>

GithubCount(w) ==
  /\ Moves(w, "accepted", "counted")
  /\ history' = CountAccepted
  /\ UNCHANGED <<disk, line, entry, github, parsing>>

GithubPush(w) ==
  /\ Moves(w, "counted", "settled")
  /\ ParsingQueue!Submit(gServing[w])
  /\ UNCHANGED <<disk, line, entry, history, github>>

GithubDone(w) ==
  /\ Moves(w, "settled", "idle")
  /\ GithubQueue!Complete(w)
  /\ UNCHANGED <<disk, line, entry, history, parsing>>

GithubLeave(w) ==
  /\ Moves(w, "idle", "returned")
  /\ GithubQueue!Leave(w)
  /\ UNCHANGED <<disk, line, entry, history, parsing>>

-----------------------------------------------------------------------------
(* A worker of the parsing queue: worker() with parse_and_export_commit.   *)

ParsingPop(w) ==
  /\ Moves(w, "idle", "popped")
  /\ ParsingQueue!Serve(w)
  /\ UNCHANGED <<disk, line, entry, history, github>>

ParsingAddLine(w) ==
  /\ Moves(w, "popped", "parsing")
  /\ history' = AddLine(history, "parsing", pServing[w])
  /\ line' = [line EXCEPT ![w] = LineNumber(history', "parsing")]
  /\ UNCHANGED <<disk, entry, github, parsing>>

\* export_str creates the file, which must not exist, and starts to write.
ParsingOpen(w) ==
  /\ Moves(w, "parsing", "writing")
  /\ Creates(FileName[pServing[w]])
  /\ disk' = [disk EXCEPT ![FileName[pServing[w]]] =
                [state |-> "partial", by |-> pServing[w]]]
  /\ UNCHANGED <<line, entry, history, github, parsing>>

\* open fails with EEXIST: the entry is dropped.
ParsingRefused(w) ==
  /\ Moves(w, "parsing", "exported")
  /\ ~Creates(FileName[pServing[w]])
  /\ UNCHANGED <<disk, line, entry, history, github, parsing>>

\* fclose has written the last byte.
ParsingClose(w) ==
  /\ Moves(w, "writing", "exported")
  /\ disk' = [disk EXCEPT ![FileName[pServing[w]]].state = "complete"]
  /\ UNCHANGED <<line, entry, history, github, parsing>>

\* dataset_entry_destroy, then the last update of the line.
ParsingFinish(w) ==
  /\ Moves(w, "exported", "settled")
  /\ entry' = Destroy(pServing[w])
  /\ history' = UpdateLine(history, "parsing", line[w], TRUE)
  /\ UNCHANGED <<disk, line, github, parsing>>

ParsingDone(w) ==
  /\ Moves(w, "settled", "idle")
  /\ ParsingQueue!Complete(w)
  /\ UNCHANGED <<disk, line, entry, history, github>>

ParsingLeave(w) ==
  /\ Moves(w, "idle", "returned")
  /\ ParsingQueue!Leave(w)
  /\ UNCHANGED <<disk, line, entry, history, github>>

-----------------------------------------------------------------------------
(* The end of the process, and the next run.                               *)

\* exit(EXIT_FAILURE) in any thread, or a signal.
Exit ==
  /\ running
  /\ main # "returned"
  /\ running' = FALSE
  /\ UNCHANGED <<run, disk, mainThread, workers, entry, history, github, parsing>>

\* The program is started again on the same export folder: as Init, but for the
\* files.
RunAgain ==
  /\ ~running \/ main = "returned"
  /\ run < MaxRuns
  /\ run' = run + 1
  /\ running' = TRUE
  /\ main' = "start" /\ cwe' = 0 /\ found' = NULL /\ mainLine' = 0
  /\ at' = [w \in Workers |-> "idle"]
  /\ line' = [w \in Workers |-> 0]
  /\ entry' = [e \in Entries |-> "none"]
  /\ history' = NewHistory
  /\ gItems' = <<>> /\ gClosed' = FALSE /\ gServing' = [w \in GithubWorkers |-> NULL]
  /\ gSubmitted' = {} /\ gCompleted' = {} /\ gGone' = {}
  /\ pItems' = <<>> /\ pClosed' = FALSE /\ pServing' = [w \in ParsingWorkers |-> NULL]
  /\ pSubmitted' = {} /\ pCompleted' = {} /\ pGone' = {}
  /\ UNCHANGED disk

\* The last run is over: the only states in which nothing can happen.
Ended ==
  /\ ~running \/ main = "returned"
  /\ run = MaxRuns
  /\ UNCHANGED vars

MainNext ==
  \/ MainSetPending \/ MainAddLine \/ MainProgress
  \/ (\E e \in Entries : MainFind(e)) \/ MainPush
  \/ MainCweDone \/ MainCloseGithub \/ MainCloseParsing \/ MainReturn

GithubNext(w) ==
  \/ GithubPop(w) \/ GithubAddLine(w) \/ GithubProgress(w) \/ GithubReject(w)
  \/ GithubAccept(w) \/ GithubCount(w) \/ GithubPush(w) \/ GithubDone(w)
  \/ GithubLeave(w)

ParsingNext(w) ==
  \/ ParsingPop(w) \/ ParsingAddLine(w) \/ ParsingOpen(w) \/ ParsingRefused(w)
  \/ ParsingClose(w) \/ ParsingFinish(w) \/ ParsingDone(w) \/ ParsingLeave(w)

Next ==
  \/ MainNext
  \/ \E w \in GithubWorkers : GithubNext(w)
  \/ \E w \in ParsingWorkers : ParsingNext(w)
  \/ Exit \/ RunAgain \/ Ended

SafeSpec == Init /\ [][Next]_vars

\* Every thread of a live process keeps running: a download returns in the end,
\* and nothing makes the process exit or start again.
Spec ==
  /\ SafeSpec
  /\ WF_vars(MainNext)
  /\ \A w \in GithubWorkers : WF_vars(GithubNext(w))
  /\ \A w \in ParsingWorkers : WF_vars(ParsingNext(w))

-----------------------------------------------------------------------------
(* Properties.                                                             *)

\* Where a thread can be, and what its variables hold.
TypeOK ==
  /\ run \in 1 .. MaxRuns
  /\ running \in BOOLEAN
  /\ \A n \in FileNames :
       \/ disk[n] = Absent
       \/ disk[n].state \in {"partial", "complete"} /\ FileName[disk[n].by] = n
  /\ main \in {"start", "next cwe", "sweep", "counted", "join github",
              "join parsing", "returned"}
  /\ cwe \in 0 .. CweCount
  /\ found \in Entries \cup {NULL}
  /\ mainLine \in 0 .. CweCount
  /\ at \in [Workers -> {"idle", "popped", "probing", "accepted", "counted", "parsing",
                        "writing", "exported", "settled", "returned"}]
  /\ line \in [Workers -> 0 .. UintMod - 1]
  /\ entry \in [Entries -> {"none", "live", "freed"}]
  /\ \A s \in SectionNames : Len(history.section[s].lines) <= SectionLen

At(ws, places) == {w \in ws : at[w] \in places}

\* The counters of the three sections tell the truth at every redraw: what is
\* announced as pending is what waits in a queue or is on its way into it or
\* out of it, what is ongoing is what a thread is busy with, and none of these
\* unsigned counters goes below zero, although an entry is counted before it is
\* pushed by one thread and discounted after it is popped by another.
CountersTell ==
  LET nvd == history.section["nvd"]
      git == history.section["github"]
      par == history.section["parsing"]
  IN
  /\ nvd.ongoing = IF main \in {"sweep", "counted"} THEN 1 ELSE 0
  /\ nvd.done = cwe
  /\ main # "start" => nvd.pending = CweCount - nvd.done - nvd.ongoing
  /\ git.pending = Len(gItems) + Cardinality(At(GithubWorkers, {"popped"}))
                     + IF main = "counted" THEN 1 ELSE 0
  /\ git.ongoing = Cardinality(At(GithubWorkers, {"probing"}))
  /\ git.done = Cardinality(gCompleted)
                  + Cardinality(At(GithubWorkers, {"accepted", "counted", "settled"}))
  /\ par.pending = Len(pItems) + Cardinality(At(ParsingWorkers, {"popped"}))
                     + Cardinality(At(GithubWorkers, {"counted"}))
  /\ par.ongoing = Cardinality(At(ParsingWorkers, {"parsing", "writing", "exported"}))
  /\ par.done = Cardinality(pCompleted) + Cardinality(At(ParsingWorkers, {"settled"}))

\* A line of the display is about one entry, and says "done" exactly when that
\* entry is: a worker that is busy finds its own line where
\* history_update_line looks for it, however many lines the others have added
\* since, and no worker rewrites the line of another.
LineTells(s, busy, serving) ==
  LET lines == history.section[s].lines IN
  \A i \in 1 .. Len(lines) :
    /\ lines[i].text # "done" <=> \E w \in busy : serving[w] = lines[i].who
    /\ \A w \in busy : serving[w] = lines[i].who <=>
                        i = LineIndex(history, s, line[w]) + 1

OwnLine ==
  /\ LineTells("github", At(GithubWorkers, {"probing"}), gServing)
  /\ LineTells("parsing", At(ParsingWorkers, {"parsing", "writing", "exported"}),
               pServing)

\* Every redraw starts on the row the first one started on: it goes up by
\* exactly what the one before drew, whichever thread and section asked for it.
RedrawInPlace == history.top = 0

\* The threads and queues that hold a pointer to the dataset_entry_t of e.
Holders(e) ==
  {t \in {"main"} : found = e}
  \cup {<<i, "github">> : i \in {k \in 1 .. Len(gItems) : gItems[k] = e}}
  \cup {<<i, "parsing">> : i \in {k \in 1 .. Len(pItems) : pItems[k] = e}}
  \cup {<<w>> : w \in {v \in At(GithubWorkers, {"popped", "probing", "accepted", "counted"}) :
                         gServing[v] = e}}
  \cup {<<w>> : w \in {v \in At(ParsingWorkers, {"popped", "parsing", "writing", "exported"}) :
                         pServing[v] = e}}

\* An entry is handed from thread to thread through the queues without a copy:
\* while it lives exactly one of them holds it, and when it is freed none does,
\* so that it is neither shared, nor used after it is freed, nor freed twice,
\* nor leaked.
OneHolder ==
  \A e \in Entries :
    Cardinality(Holders(e)) = IF entry[e] = "live" THEN 1 ELSE 0

\* A queue is finished only when no thread can push to it any more: an entry
\* pushed later might wait for workers that have already returned.
NoPushAfterFinish ==
  /\ gClosed => main \in {"join github", "join parsing", "returned"}
  /\ pClosed => /\ At(GithubWorkers, {"returned"}) = GithubWorkers
                /\ gItems = <<>>

\* When main returns, every entry found in this run was rejected, or accepted
\* and exported under its name (by itself or by another entry of that name),
\* the counters agree, and in a first run no file is cut short.
NothingLeft ==
  main = "returned" =>
    /\ gCompleted = gSubmitted /\ pCompleted = pSubmitted
    /\ \A e \in Entries : entry[e] = IF e \in gSubmitted THEN "freed" ELSE "none"
    /\ \A e \in pSubmitted : disk[FileName[e]] # Absent
    /\ run = 1 => \A n \in FileNames : disk[n].state # "partial"
    /\ \A s \in SectionNames :
         history.section[s].pending = 0 /\ history.section[s].ongoing = 0
    /\ history.section["github"].done = Cardinality(gSubmitted)
    /\ history.section["parsing"].done = Cardinality(pSubmitted)

\* "Already existing output files names are not overwritten" (src/README.md):
\* whatever the workers, the restarts and the entries of the same name do, a
\* file is only ever finished by the worker that created it.
FilesKept ==
  [][\A n \in FileNames :
       disk[n] # Absent /\ disk'[n] # disk[n] =>
         /\ disk'[n] = [disk[n] EXCEPT !.state = "complete"]
         /\ \E w \in At(ParsingWorkers, {"writing"}) : pServing[w] = disk[n].by]_vars

\* "Each accepted commit produces one JSON file" (src/README.md), read at the
\* end of a run that was not interrupted.
EachAcceptedCommitHasItsFile ==
  main = "returned" =>
    \A e \in pSubmitted : disk[FileName[e]] = [state |-> "complete", by |-> e]

\* The same promise for commits whose file names differ.
EachNamedCommitHasItsFile ==
  (\A e, f \in Entries : FileName[e] = FileName[f] => e = f)
    => EachAcceptedCommitHasItsFile

\* Every run comes to its end: the shutdown of the two queues blocks nobody.
\* With NothingLeft, every entry that was pushed is rejected or exported in time.
RunEnds == []<>(~running \/ main = "returned")

-----------------------------------------------------------------------------
(* The invariants that PipelineProofs shows to be inductive.               *)

Idle == {"idle", "returned"}
GithubPlaces == {"popped", "probing", "accepted", "counted", "settled"}
ParsingPlaces == {"popped", "parsing", "writing", "exported", "settled"}
Finishing == {"join github", "join parsing", "returned"}

\* A worker serves an entry wherever it is but at the ends of its loop, and the
\* main thread has an entry between making and pushing it.
Places ==
  /\ found # NULL <=> main = "counted"
  /\ \A w \in GithubWorkers :
       /\ at[w] \in Idle \cup GithubPlaces
       /\ gServing[w] = NULL <=> at[w] \in Idle
       /\ w \in gGone <=> at[w] = "returned"
  /\ \A w \in ParsingWorkers :
       /\ at[w] \in Idle \cup ParsingPlaces
       /\ pServing[w] = NULL <=> at[w] \in Idle
       /\ w \in pGone <=> at[w] = "returned"

\* How far the shutdown is.
Closing ==
  /\ gClosed <=> main \in Finishing
  /\ pClosed <=> main \in {"join parsing", "returned"}
  /\ pClosed => gGone = GithubWorkers
  /\ main = "returned" => pGone = ParsingWorkers

\* A worker is done with the entry, and has rejected or pushed, or exported it.
Handled(e) ==
  e \in gCompleted \/ \E w \in GithubWorkers : at[w] = "settled" /\ gServing[w] = e

Exported(e) ==
  e \in pCompleted \/ \E w \in ParsingWorkers : at[w] = "settled" /\ pServing[w] = e

\* The life of an entry, told from how far it came.
Life ==
  \A e \in Entries :
    /\ found = e => e \notin gSubmitted
    /\ e \in pSubmitted => Handled(e)
    /\ entry[e] =
         IF \/ found = e
            \/ e \in gSubmitted /\ ~Handled(e)
            \/ e \in pSubmitted /\ ~Exported(e)
         THEN "live"
         ELSE IF e \in gSubmitted THEN "freed" ELSE "none"

FlowTypes ==
  /\ main \in {"start", "next cwe", "sweep", "counted"} \cup Finishing
  /\ found \in Entries \cup {NULL}
  /\ at \in [Workers -> Idle \cup GithubPlaces \cup ParsingPlaces]
  /\ entry \in [Entries -> {"none", "live", "freed"}]

\* Where the entries are, from the sweep to their file.
Flow ==
  /\ GithubQueue!QueueInv
  /\ ParsingQueue!QueueInv
  /\ FlowTypes
  /\ Places
  /\ Closing
  /\ Life

\* A file has the name of the entry it was created for, an entry that was
\* exported has a file, and only a run that was interrupted leaves one cut short.
Files ==
  /\ run \in 1 .. MaxRuns /\ running \in BOOLEAN
  /\ disk \in [FileNames -> [state : {"absent", "partial", "complete"},
                             by : Entries \cup {NULL}]]
  /\ \A n \in FileNames : disk[n] # Absent =>
       disk[n].state # "absent" /\ disk[n].by \in Entries /\ FileName[disk[n].by] = n
  /\ \A w \in ParsingWorkers : at[w] = "writing" =>
       disk[FileName[pServing[w]]] = [state |-> "partial", by |-> pServing[w]]
  /\ \A w \in ParsingWorkers : at[w] \in {"exported", "settled"} =>
       disk[FileName[pServing[w]]] # Absent
  /\ \A e \in pCompleted : disk[FileName[e]] # Absent
  /\ run = 1 => \A n \in FileNames : disk[n].state = "partial" =>
       \E w \in ParsingWorkers : at[w] = "writing" /\ pServing[w] = disk[n].by

Counts == 0 .. UintMod - 1

Lines == [who : Entries \cup 0 .. CweCount, text : {"new", "working", "done"}]

Sections == [pending : Counts, ongoing : Counts, done : Counts, pushed : Counts,
             lines : Seq(Lines)]

\* Between two calls the cursor is where the last redraw has left it.
Shown(h) ==
  /\ h \in [section : [SectionNames -> Sections], previous : Int, top : Int, cursor : Int]
  /\ \A s \in SectionNames : Len(h.section[s].lines) <= SectionLen
  /\ h.top = 0
  /\ \/ h.previous = -1 /\ h.cursor = 0
     \/ h.previous >= 0 /\ h.cursor = h.previous + 6

Sweeping == main \in {"sweep", "counted"}

\* How far the sweep is, which is what the counters of its section say.
Sweep ==
  LET nvd == history.section["nvd"] IN
  /\ cwe \in 0 .. CweCount /\ mainLine \in 0 .. CweCount
  /\ main = "start" => cwe = 0
  /\ Sweeping => cwe < CweCount
  /\ main \in Finishing => cwe = CweCount
  /\ nvd.ongoing = IF Sweeping THEN 1 ELSE 0
  /\ nvd.done = cwe
  /\ nvd.pushed = nvd.done + nvd.ongoing
  /\ main # "start" => nvd.pending = CweCount - nvd.done - nvd.ongoing

Screen == Shown(history) /\ line \in [Workers -> Counts] /\ Sweep

\* The entries that were counted for a section, which its counters add up to.
GithubCounted == gSubmitted \cup (IF main = "counted" THEN {found} ELSE {})

ParsingCounted ==
  pSubmitted \cup {gServing[w] : w \in At(GithubWorkers, {"counted"})}

Total(s) == history.section[s].pending + history.section[s].ongoing + history.section[s].done

Totals ==
  /\ Total("github") = Cardinality(GithubCounted)
  /\ Total("parsing") = Cardinality(ParsingCounted)

\* The entries that a worker of a queue has begun to work on.
Begun(ws, serving, completed) ==
  completed \cup {serving[w] : w \in {v \in ws : at[v] \notin Idle \cup {"popped"}}}

\* The numbers of the lines: every line is about an entry that was begun, a busy
\* worker's number is the one of the line about its entry, if that is still
\* shown, and a line is open while its number is the one of a busy worker.
Rows(section, number, busy, serving, begun) ==
  /\ section.pushed = section.ongoing + section.done
  /\ \A w \in busy : number[w] \in 1 .. section.pushed
  /\ \A i \in 1 .. Len(section.lines) :
       /\ section.lines[i].who \in begun
       /\ \A w \in busy :
            serving[w] = section.lines[i].who <=> number[w] = section.pushed - i + 1
       /\ section.lines[i].text # "done" <=>
            \E w \in busy : number[w] = section.pushed - i + 1

GithubBusy == At(GithubWorkers, {"probing"})
ParsingBusy == At(ParsingWorkers, {"parsing", "writing", "exported"})

GithubBegun == Begun(GithubWorkers, gServing, gCompleted)
ParsingBegun == Begun(ParsingWorkers, pServing, pCompleted)

GithubRows == Rows(history.section["github"], line, GithubBusy, gServing, GithubBegun)
ParsingRows == Rows(history.section["parsing"], line, ParsingBusy, pServing, ParsingBegun)

OwnRows == GithubRows /\ ParsingRows
=============================================================================
