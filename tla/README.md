# VulnMiner, specified in TLA+

VulnMiner (`src/`) builds a dataset of vulnerability fixes: it looks up CVEs in
the NVD, follows their patch references to GitHub commits, downloads the files
the commits changed and the files around them, extracts the C and C++ functions
that changed, and writes one JSON file per commit. It is a C program of about
2000 lines with three threads and two job queues.

This directory holds TLA+ models of it, configurations that TLC checks, and
theorems that TLAPS proves. Paths below are relative to `src/src/` unless they
start with `src/`.

## 1. The system

    main thread                GitHub worker              parsing worker
    nvd_request                github_process_commit      parse_and_export_commit
       |                          |                          |
       | dataset_entry_t          | dataset_entry_t          |
       +----> github queue -------+----> parsing queue ------+----> JSON file
       |                          |                          |
       +------------- history (progress display) ------------+
       |                          |
    nvd client (curl)          github client (curl)

An entry (`dataset_entry_t`) is allocated by the main thread and handed on by
pointer; whoever drops or exports it frees it. `EXIT_IF` (`utils.h`, `utils.c`)
in any thread ends the whole process.

| Component | State | Operations | What makes it correct |
|---|---|---|---|
| Job queue, `jobs.c` | list of `job_t` with head and tail, `finished`, mutex, condition variable | push, pop (waits), finish, destroy, `worker` | FIFO, no job lost or run twice, no lost wake-up, shutdown ends, no use after free |
| Progress display, `history.c` | three sections of counters and recent lines, the last redraw's height, a mutex | set and increment pending, add a line, update a line, redraw | counters match the queues and threads, a worker rewrites its own line, the cursor returns to where it was |
| Main and shutdown, `main.c` | threads, queues | start, sweep, finish and join the two stages in order, destroy | no queue is finished while a thread can push to it, everything is joined before it is freed |
| NVD sweep, `nvd/nvd.c` | CWE, window, page | probe a window, download its pages, next window, next CWE | the windows tile the date range, every page is read, each commit once |
| NVD parser, `nvd/nvd_parser.c` | - | CVEs backwards, patch references without repetition, URLs cut into repository and hash, the English description | one entry per CVE and commit, however the references are written |
| HTTP client, `http.c` | curl handle, headers, mutex, delay | make a client, add a header, reset; `nvd_download`, `github_download` with their retries | patience asked for is kept, the handle has one user, no request lacks its headers, every call returns |
| GitHub commit, `github/github.c`, `github/github_parser.c` | the entry | ask for the commit, its tree, its files; reject or accept | an accepted entry is whole and within the limits; a rejected one has a reason |
| Dataset entry, `dataset.c` | entry, files, functions, context files | new, add, destroy | one owner, freed once |
| Export, `tree_sitter/exporter.c` | the export folder | compare functions, make the JSON, create the file, write it | one file per commit, whole, none overwritten |
| Function extraction, `tree_sitter/parser.c` | - | walk the syntax tree | each function once, with its name and parameters |
| Configuration, `config.c` | `config_t` | read a file, parse dates and CWEs | what the file says is what the run uses |

Hard to test here: the order in which the three threads reach the queues, the
display and the mutexes; the end of the process between two writes; retries and
waits whose state outlives a call; a catalogue that changes while it is paged
through; answers that are given in part; and the boundaries of windows, pages,
limits, distances, dates and the line buffer. The list
`hazards` of `PROJECT.json` names each with its line and its properties.

## 2. The modules

| Module | Models | Uses |
|---|---|---|
| `WorkQueue` | what `jobs.h` promises: a FIFO queue that is closed once | |
| `WorkQueueProofs` | theorems about `WorkQueue` | extends `WorkQueue` |
| `JobsQueue` | `jobs.c`, one step per access to the shared structure | refines `WorkQueue` |
| `JobsQueueProofs` | theorems about `JobsQueue` | extends `JobsQueue` |
| `History` | `history.c` as operations on a record | |
| `Pipeline` | the three stages of `main.c` with both queues, the display, the entries and the export folder; exit and restart | extends `History`, two instances of `WorkQueue` |
| `MCPipeline` | its instances | extends `Pipeline` |
| `PipelineProofs` | theorems about its queues, entries and files | extends `Pipeline`, two instances of `WorkQueueProofs` |
| `DisplayProofs` | theorems about its counters and lines | extends `PipelineProofs` |
| `NvdSweep` | `nvd.c` and `nvd_parser.c` against an NVD that changes | |
| `MCNvdSweep`, `NvdSweepProofs` | its instance; its theorems | extend `NvdSweep` |
| `GithubCommit` | `github_process_commit` with `github_parser.c` | |
| `Export` | the parsing worker's part of an entry: languages, JSON members, content; composed with `GithubCommit`, from GitHub's commit to the file | extends `GithubCommit` |
| `ExportProofs` | theorems about both | extends `Export` |
| `MCGithubCommit` | the instance of both | extends `Export` |
| `HttpClient` | the two clients of `http.c`, as `nvd.c` and `github.c` make them, and their download loops | |
| `HttpClientProofs` | theorems about `HttpClient` | extends `HttpClient` |
| `Config`, `MCConfig` | `config.c`: the file, the CWEs, the dates; its instance | |
| `FunctionDiff` | how `exporter.c` compares the functions of two versions | |
| `FunctionDiffProofs` | theorems about `FunctionDiff` | extends `FunctionDiff` |
| `FunctionExtraction` | how `tree_sitter/parser.c` finds the functions of a file, then the comparison | extends `FunctionDiff` |
| `MCFunctionExtraction` | its instance: small syntax trees | extends `FunctionExtraction` |

Queue code appears twice on purpose: `JobsQueue` has the pointers, the mutex and
the condition variable and is shown to implement `WorkQueue`; `Pipeline` then
uses two `WorkQueue`s, so that it need not interleave pointer writes.

How they correspond to the code:

- **JobsQueue.** `head`, `tail`, `next`, `finished` and `lock` are the fields of
  `jobs_queue_t` and `job_t`. `pc[t]` is the place of thread `t` between two
  shared accesses; `pthread_cond_wait` is one step that releases the mutex and
  sleeps, and waking takes the mutex again. A signal wakes any one sleeper, a
  broadcast all, and a sleeper may wake for no reason. `memory` says of each
  `job_t` whether it is allocated, and `fifo` is a history variable: the list as
  it should be. The main thread finishes a queue after its producers stopped, as
  `main.c` does for both queues.
- **History.** Every operation of `history.c` holds `history->lock` from its
  first access to the end of its redraw, so each is an operator on the record
  `h`, applied by one step of the calling thread. Counters are unsigned
  (`UintMod`), a line knows whom it is about, and the terminal is two rows: where
  the last redraw began and where it left the cursor.
- **Pipeline.** One action per stretch of a thread's code between two accesses to
  something shared (a queue, the display, the export folder). `GithubReject`
  stands for the nine early returns of `github_process_commit` (what chooses among
  them is `GithubCommit`); the entry is freed in the same step because nobody else
  can reach it. `export_str` is two steps, creation with `O_EXCL` and the last
  byte, since the process can end in between. `Exit` ends the process anywhere;
  `RunAgain` starts it with everything forgotten but the files.
- **NvdSweep.** `start`, `end`, `total` and `page` are `window_start`,
  `window_end`, `total_pages` and the loop variable. Time is in seconds with days
  of `SecondsPerDay`, so that the ends of windows are exact. The NVD cuts a page
  when it is asked for, out of a list that `Assign` and `Withdraw` change. A URL
  is a sequence of symbols in which the two constant strings of `nvd_parser.c`,
  `Prefix` and `Suffix`, and the digits of a hash are one symbol each, so that
  `SuffixAt`, `RepoPath` and `CommitHash` cut it as `strstr` and `strndup` do.
- **GithubCommit.** One step per request, one per entry of the tree and one per
  decision between requests; `i` is the variable of the loop the worker is in.
  A commit is any member of `Documents`, and `Trees` says what the repository may
  hold at it. GitHub may leave a request unanswered, lists `FilesPage` files of a
  commit (300 of GitHub's) and may list the first entries of a tree only
  (`TreeLimits`, `listed`), which the code does not look at.
  Content is named by revision and path, so that a version taken from the wrong
  place shows. `context_distance` counts slashes after the common directory; here
  a path is a sequence of names and the slashes are the directories left and
  right of the longest common prefix.
- **Export.** `ExportEntry` is `parser_parse_commit` and `generate_json` on the
  accepted entry: a JSON object is a function from member names to values,
  `Object` leaves out a member whose string is NULL and `String` ends at the first
  zero byte, as `yyjson_mut_obj_add_str` does. The functions of a file are named
  by what they are found in, `Parsed`: grammar and the two versions; finding and
  comparing them is `FunctionExtraction`.
- **HttpClient.** A client's `curl` is the record of the options set on its
  handle; a reset makes a new handle and `Configured` sets them. One step per
  request and per answer; the answers are grouped as
  the code's `if`s group the statuses. The GitHub mutex is held through the
  sleeps, and `Tick` lets a second pass for sleepers and server alike.
- **Config.** One step for the folder and one for opening the file, one per line of
  it (`Fgets` is what fits into the buffer) and one per part of `config_new`. A text
  is a sequence of symbols: a key with its "=", a digit, a comma, "\n", or a word;
  each takes one place of the buffer. `Atoi`, `TimeGm`, `GmTime` and `Strptime` are libc's: the calendar is
  computed, and what `strptime` finds in a word is given (`Fields`), half read
  dates included. `file` carries, beside the text, what its author means by it,
  which only the properties read.
- **FunctionDiff.** The two loops of `generate_json_functions`, one step per
  function; `i` is the loop variable, `at` says which loop runs. `Matches` is the
  condition of `find_function_match`, whose loop returns the first match.
- **FunctionExtraction.** A syntax tree is a record of type, field, text and named
  children, as tree-sitter presents it; the four functions of `parser.c` that walk
  it are recursive operators, which is why they are in a module of their own.
  `Declares` and `Parameters` are the reference: what a declarator declares by the
  rules of the language. The steps after both versions are parsed are those of
  `FunctionDiff`, and the state they start from is one of its initial states.

## 3. The runs

| Run | Question | Bounds, and why they are enough |
|---|---|---|
| `jobs_queue` | Does the list with its mutex and condition variable implement the FIFO queue, and does the shutdown end? | 2 producers, 2 workers, 3 jobs: two threads on either side of every lock, two sleepers at a broadcast, and a list of length 0, 1, 2 and 3. The safety part is also proved for any number. |
| `pipeline_workers` | Do the counters and lines tell the truth, has every entry one holder, is no queue finished early? | 2 workers per queue (the program has 1; the constants allow more), 3 entries, 2 lines per section (the code has 3): a third entry pushes the first line off while its worker may still be busy. Counters modulo 16: none gets near 16, so a decrement below zero would show as 15. |
| `pipeline_restart` | What do a finished run, and an exit at any step, leave behind; does every run end and every entry settle? | The program's own 1 + 1 workers, 3 runs, two entries with the same file name: a file of an earlier run, complete or cut short, and one of another entry can be in the way, and the third run starts from what two left. Temporal properties under `Spec`. |
| `nvd_sweep` | Do the windows tile the range, and what does paging miss or repeat? | Days of 2 seconds, windows of 2 days, 3 days (the last window is cut), 2 CWEs, 4 CVEs on pages of 2, publication dates before the range, on both sides of a window's boundary and in the last second, 2 changes of the catalogue at any step. References with hashes of two digits: whole, abbreviated, with a tail, in a fork, with two suffixes, no patch, no URL, elsewhere. A page boundary with CVEs on both sides, a change before and one after it. |
| `github_commit` | Is an exported commit's JSON whole, a rejected one rejected for a reason, the context right, and nothing downloaded in vain? | Commits of 0 to 2 files of every status, and some of 3 and 4 where GitHub lists 3, a repository of 6 files in 5 directories (root, child, two grandchildren, sibling), depths 0 to 5 (larger than the diameter), limits below, at and above the counts, a tree with all the other files or none of them, listed whole or cut after 4 entries, an affected and a context file with a zero byte. Any request may fail. |
| `http_client` | Is patience kept, is the handle given back, is every request complete, does every download return? | 2 GitHub workers with 1 call each, 2 NVD calls, an NVD client with and without a key, the code's own 3 errors and largest delay of 8, pauses of 1, 2 and 3 seconds in the order of the code's 1, 10 and 60, a reset at most 2 seconds ahead. |
| `function_extraction` | Are plain functions found wherever they stand, and is the reported difference true and whole? | Files of 0 to 2 items: functions with 0, 1 and 2 parameters in two versions, qualified and member names, methods in a class, `#if` with `#else`, a pointer-returning and a variadic function; every pair of files, added and removed files. Versions have up to 4 functions and namesakes. The comparison is also proved for any number. |
| `config` | Is the configuration what the file means? | A buffer of 8 places, lists of CWEs of 0 to 4 numbers that end before, at and after its end, commented, repeated and empty keys; every pair of 11 dates: valid, leap day, 31 February, the last two days of 1969, out of range, half read, with text after it, missing; a missing folder, a file that cannot be opened, a missing key; a limit that is a number, a word or negative. |
| `config_long_line` | finding, see section 6 | the same |
| `function_names` | finding, see section 6 | the bounds of `function_extraction` |
| `pipeline_shared_name` | finding, see section 6 | 2 entries of one name |
| `pipeline_interrupted` | finding, see section 6 | 2 runs, distinct names |

What the properties say is in a comment above each. The ones worth reading first:

- `ImplementsWorkQueue` (`JobsQueue`): the refinement, fairness included.
- `NoLostWakeup`: while jobs wait, some worker is awake or a signal is due.
- `CountersTell`: the three pending, ongoing and done counters against the real
  queues and threads. An entry is counted before it is pushed; the other way round
  the worker could discount it first and the unsigned counter would wrap.
- `OneHolder`: every live entry is reachable from exactly one thread or queue.
- `FilesKept`: no file is overwritten, across workers, names and restarts.
- `WindowsTile`, `EachCommitOnce`: the sweep covers the range, once.
- `OnlyChangesDisturb`: `total_pages` is read once per window, but the pages are cut
  afresh. Because the code goes from the last page to the first, a withdrawal can
  only repeat CVEs and only an assignment can hide one; the first page first would
  lose CVEs to withdrawals.
- `ContextIsSurroundings`: the slash count against the distance that
  `src/README.md` defines (steps to parent and child directories).
- `ExportedIsWhole`: through three components, from GitHub's commit to the
  members of the JSON file: every file with its paths and the content these have
  in the right revision, no member where there is no version. It names what the
  promise depends on: `WholeAnswers` and zero bytes.
  `ContentAskedLast` and `ContextIsSurroundings` add that the commit is one
  `src/README.md` wants, with the whole of its context.
- `RequestsComplete`: also a request sent with a handle made by a reset in the
  middle of a call has the key, the other headers and the time limit.
- `SettingsAsWritten`, `DatesAsMeant`, `ExitsForAReason`: the configuration
  against what the author of the file means, which leaves out what `strptime`
  takes for a date although it is none (section 6). That the range of dates starts and
  ends at midnights is what `WindowsTile` rests on (`Before` in `NvdSweep`).
- `ContentAskedLast`: no content is downloaded for a commit that is not
  acceptable. `NothingAskedTwice`: no request is sent twice, and none after a
  failure; since a context file is never one of the commit's, although the tree
  has these too.
- `ExitedForAReason`: two components each know a list of extensions, and what one
  of them accepts never ends the process in the other.
- `ReportsAreTrue`, `DifferenceReported`: two loops in opposite directions give
  the difference of the two versions, in whatever order the functions stand.
- `PatienceKept`: after an answer that asks for a pause no thread sends a request
  before it is over - which is why the mutex is held while sleeping.

Deadlock is checked in every run. `Ended` is the only step of a state in which
the program has stopped; TLC would report any other state without a successor.

Each property has a mutant in `PROJECT.json`: the operator named in `as`, written
beside the one it replaces, with the mistake it makes in the comment above it.

## 4. Fairness

- `JobsQueue!Fairness`: each producer, each worker and the main thread is weakly
  fair (the scheduler runs a thread that can run), and spurious wake-ups are
  finite. A thread that waits for the mutex is one whose next step is disabled
  while another holds it; weak fairness is enough for the instance, since a
  finite number of jobs is pushed and holders always release. Without the last
  conjunct a worker could be woken for no reason for ever and keep the mutex
  busy.
- `Pipeline!Spec`: each thread is weakly fair. `MainProgress` and `GithubProgress`
  only redraw, so that repeating them changes nothing and cannot satisfy the
  fairness of a thread; downloads therefore end, which `HttpClient` shows.
- `HttpClient!Spec`: threads and time are weakly fair; `SF` on the final answers
  says that a server that is asked again and again does answer something final.
  The code needs that: 429, 500 and 503 are retried without a limit, and it is
  listed as a hazard. `EveryDownloadReturns` is no stronger than this.
- `NvdSweep`, `Export`, `Config` and `FunctionExtraction` have no fairness and no
  liveness property: each is one thread that runs to its end, and deadlock is
  checked.

## 5. The proofs

`JobsQueueProofs` proves, for any sets of jobs, producers and workers that satisfy
`JobsQueueAssumption` (the sets of threads are disjoint, there is a worker, and
NULL is neither a job nor a thread):

- `Invariance`: `SafeSpec => []IInv`, and from it `Types`, `Mutex`, `LinkedList`,
  `Ownership`, `Wakeups` and `Teardown`;
- `Implements`: `SafeSpec => Queue!SafeSpec`, the safety part of the refinement.

None of the properties is inductive alone. `IInv` is the conjunction of
`TypeOK`, `MutualExclusion`, `Phases` (each thread stays in its own code, the
producers have stopped before `finished`, a worker returns only from a finished
and empty queue), `ListIsQueue`, `Locals` (what the local variable `job` is
between two steps: a job not yet linked has a NULL next field, the producer
about to set the tail holds the newest job), `OneOwner`, `NoLeak` and
`NoLostWakeup`. Why the extra parts are needed: that a push writes into a live
`job_t` needs the tail to be the newest job (`ListIsQueue`), which between the two
pointer writes only `Locals` and `MutualExclusion` give; that a pop leaves an
intact list needs the jobs of the list to be distinct (`OneOwner`); that nobody
sleeps through the last signal needs that a worker returns only when nothing can
come (`Phases`). The step case has one lemma per conjunct and in it one step per
action; `Implements` maps each action to one of the queue or to a stutter.

`WorkQueueProofs`, `PipelineProofs` and `DisplayProofs` prove every safety property
of `Pipeline`, for any sets of entries and CWEs, any number of workers per queue,
lines per section and restarts, and any naming of the files - the runs have two
workers and three entries. The argument is in layers, each an inductive invariant
that the next one uses:

- `QueueInv` (`WorkQueue`): a job that was submitted is queued, served or
  completed, and in one of these places only. Proved once about the abstract
  queue and used for both instances. `Implements` above says that `jobs.c` is such
  a queue.
- `Flow`: `Places` ties the program counters to what the workers serve, `Closing`
  ties the main thread's progress to the two queues, and `Life` computes the state
  of every entry from how far it came. `OneHolder` follows because an entry that
  was pushed to the second queue was handled by the first (`Handled`), so the two
  stages never have it at once; alone it would not exclude that a settled worker
  frees what it has pushed. `NoPushAfterFinish` follows from `Closing`.
- `Files`: every file has the name of the entry it was made for; a worker that
  writes has its own partial file. `FilesKept` needs it for the second write: only
  the creation has `O_EXCL`, and that a write cannot hit the file of an entry with
  the same name depends on who created it. The invariant holds across `Exit` and
  `RunAgain`, and its last part, about partial files, only in a first run.
- `Screen`: the display's record, and the counters of its first section as
  functions of `cwe` and `main`. `RedrawInPlace` is its part `Shown`.
- `Books /\ Totals`: `CountersTell` and, for both sections, pending + ongoing + done =
  the number of entries counted for it. The sum is what
  makes `CountersTell` inductive: the counters are taken modulo `UintMod`, so that a
  decrement is only right if the counter is not 0, and an increment only if the sum
  stays below `UintMod`.
- `OwnRows`: a worker keeps the number of its line, and the position of that line is
  computed from the number of lines pushed since. `Rows` says for every visible line
  whose it is (`who`), that it was begun, and that it is open exactly if a busy worker
  has its number. The equality `pushed = ongoing + done` is needed since the code
  takes the new line's number from it, and `begun` because a new line must
  not be about an entry that has one.

Their assumptions: `PipelineAssumption` (there are workers for both queues, and none
for both, NULL is not an entry, every entry has a file name, and there are fewer CWEs
than an unsigned counts) and `CountsFit` (the threads are finitely many, and there
are fewer references than an unsigned counts). The code does not check the last; it
holds as long as the NVD has fewer than 2^32 references.

`HttpClientProofs` proves `TypeOK`, `HandleOwned`, `RequestsComplete` and the action
property `PatienceKept`, for any callers, limits and pauses. `HttpInv` has, beside
the first three, `Counts` (a loop that goes round again has a call to come back to and
an error to spare), `HandleWhole` (whatever a call leaves behind, the handle keeps all
its options but the callback, which the next call sets) and `Patience`: who
sleeps sleeps at least as long as GitHub's patience is asked for, and
when the mutex is free no more is left of it than the next caller will sleep before
its request. That is what `PatienceKept` needs, and it is not true of the worker alone
that read the answer: a second one is kept from asking only by the mutex and by
its own pause.

The delay of the NVD client is a property of its own, `Backoff` (`BackoffGrows`). It
is inductive with `TypeOK`, once `Doubled`, a recursive function, is known to double
(`Doubling`): after an answer 429 the delay and what it is compared with both double,
or the history variable has reached its bound and the delay does not shrink.

`NvdSweepProofs` proves every property of `NvdSweep`, for any range of days, any
number of seconds in a day above 1, any window length and page size, any CVEs,
references and CWEs, and any number of changes of the NVD at any steps:

- `Tiling` (`WindowsTile`). The inductive invariant `SweepInv` says that `window_end`
  is always one second before a midnight (`end = After + m * SecondsPerDay - 1`). That
  is the point of the argument: the loop runs while `window_end > window_start`, so a
  window of a single second would be skipped, and only the alignment excludes it.
- `SweepTypes` (`TypeOK`), with it that no hash is longer than `HashLen`.
- `ChangesDisturb` (`OnlyChangesDisturb`). `PagesInv` counts two things while the
  pages are read from the last to the first. Of the CVEs that stayed, those that have
  got behind the pages still to read without having been parsed are at most those
  assigned: an assignment moves one CVE across a boundary, a page moves what it parses.
  The repetitions among the parsed, together with the parsed ones that are not behind
  and so may be parsed again, are at most those withdrawn. At page 0 everything is
  behind, and the two counts are the property.
- `EachOnce` (`EachCommitOnce`). `PushedInv` says that at every moment of a sweep
  over an NVD that does not change, what was pushed is, each once, exactly the
  `EntriesOf` of the CVEs `Covered` so far: for every CWE done all of the range, for
  the present one the windows done and the pages done of this window. A page adds
  those of its CVEs, backwards; that none of them was covered
  before comes from the windows being disjoint (`Tiling`) and the list naming a CVE
  once. `LinkOf` is the lemma about the parser: a URL has one path and one hash at
  most, and `strstr` and `strndup` find the ones the reference definition `Link`
  says.

The assumptions are `SweepAssumption` (numbers; a day has more than one second) and
`NvdAssumption` (URLs are sequences of symbols, CWEs are the configured ones, and the
NVD lists a CVE once). `SelectSeq` of the library takes an operator as its parameter,
which the provers cannot instantiate; `NvdSweep` has `Only` in its place, a function
defined recursively on the positions. About recursive functions induction is
possible: a lemma per definition says that a table of its partial results exists (else
CHOOSE would say nothing) and what its entries are, and `AllNumbers` and
`AllSequences` state induction for sets, from the fact that a set of numbers has a
least one, which the library proves as the well-foundedness of <. `PagesInv` and
`PushedInv` were checked with TLC before they were proved, with one change of the
catalogue; no run keeps them, since the theorems say more.

`FunctionDiffProofs` proves, for any two sequences of functions,

- `Truth`: `Spec => []ReportsAreTrue`, with namesakes or without;
- `WholeDifference`: `Spec => []DifferenceReported`.

The inductive invariant `DiffInv` says what has been looked up so far and that
all that had to be reported of it is (`Complete`), that every report is about a
function that has been looked up (`Sourced`), and that none is repeated (`Once`).
`Once` needs `Sourced`: a new report could only repeat an old one about the same
function, and the loop has not been there. That `Min` of a set of positions is in
it (`First`) comes from the library's theorem that < is well-founded on Nat; with
it `MatchIsNamesake` says what `find_function_match` returns. The assumption is
that NULL is neither a function nor a text.

`ExportProofs` proves every safety property of `GithubCommit` and `Export`, for any
commits, trees, limits, depths and places at which GitHub cuts its answers,

- `ExportInvariance`: `Spec => []ExportInv`, and from it `PositionsTyped`
  (`TypeOK`), `Whole` (`ExportedIsWhole`), `AskedOnce` (`NothingAskedTwice`) and
  `ExitsForAReason` (`ExitedForAReason`);
- `ContextInvariance`: `Spec => [](ExportInv /\ ContextInv)`, and from it
  `ContextSurrounds` (`ContextIsSurroundings`), `RejectsForAReason`
  (`RejectedForAReason`) and `ContentLast` (`ContentAskedLast`).

`ExportInv` has, beside these properties, `FilesSoFar`: the `n`-th file is what
`add_new_file` makes of the `n`-th change, with the versions before and after if the
loops have passed it (`BeforeFetched`, `AfterFetched`). The properties need it since
nothing of `ExportedIsWhole` is said before the last step, and since the file lost
its document by then. `ContextSoFar` says that the context files are entries of the
tree that the loop has passed, each once, and none has the path of a file of the
commit; `RequestsSoFar` says that whatever was asked for is in the entry
(`Answered`). Together they make `NothingAskedTwice` inductive: the next download is
not yet answered, because its path occurs once among the old paths, the new paths
and the context. That the commit's paths do is GitHub's doing and in
`GithubAssumption`: a commit changes no path twice, and what it renames has one new
path and is gone from the old one; a tree has each path once. `AskStep` and
`SilentStep` do the argument for every step.

`ContextInv` adds `ContextKnown`, which makes the context of the part of the tree
already passed equal to what `Surrounds` says of it, distances included, and
`LimitsKept`, that the two totals were compared with their limits before the loop that
downloads is reached. From the two a rejection for the context or the total is
justified by `Surroundings` of the commit: the context cannot have more files than
these. What remains for `ContextIsSurroundings` is arithmetic on paths:
`AroundIsSteps` proves that the slashes of `context_distance` - the directories left
and right of the longest common prefix - are the least number of steps to a parent or
a child that lead from one directory to the other, by induction on the steps: a step
changes the count by exactly one, and there is always one that lowers it. The proof
found an exception to `RejectedForAReason`: files that GitHub does not list of a large
commit count as context, so that an acceptable commit may be rejected for its
context, which the property now names (section 6).

The other assumptions are that limits and pages are numbers, depths have a bound
`MaxDepth` (any number; `context_depth` is an unsigned), and NULL is not a path, a
content or a language (`GithubAssumption`, `ExportAssumption`).

Model-checked only:

- all liveness: `Terminates`, `RunEnds`, `EveryDownloadReturns` and the fairness
  part of `ImplementsWorkQueue`; they need ENABLED;
- `PlainFunctionsFound`: the walks over a syntax tree are RECURSIVE operators, about
  which the prover cannot reason, and that the first identifier below a declarator is
  the function's name rests on what tree-sitter's grammars put there, which only the
  run's trees say. `FunctionDiff`, the comparison that follows, is proved;
- the properties of `Config`: `SettingsAsWritten`, `DatesAsMeant` and
  `ExitsForAReason` compare a text with what its author means by it, and that is given
  with each file of the instance; for any files there is nothing to compare with.
  Its `TypeOK` stands beside them in the run. The run covers the boundaries of the
  buffer and of the calendar.

## 6. Where the code and its README disagree

Shown by a run:

- `pipeline_shared_name`. `src/README.md:386` says "Each accepted commit produces
  one JSON file". The file name leaves out the owner of the repository and all but
  eight characters of the hash, so that two accepted commits of a CVE may share a
  name - most simply a commit referenced in a repository and in its fork. The
  second is dropped.
- `pipeline_interrupted`. The file is created under its final name and then
  written. If the process ends in between, every later run takes the incomplete
  file for the commit's and drops the commit.
- `function_names`. `src/README.md:367` says that the parser extracts functions
  and methods with their names. `find_identifier` (`tree_sitter/parser.c:46`) knows
  only `identifier` nodes, and the name of a method that is defined in its class is
  a `field_identifier`: the method is recorded under the name of its first
  parameter, or skipped if that has none. The data in
  `src/documentation/dataset_examples` has such functions.
- `config_long_line`. `src/README.md:138` calls `cwe-ids` the list of CWEs to
  retrieve. The line is read into 256 bytes (`config.c:92`): of a longer list the
  last number is cut and the rest is lost without a message.

Noted while reading, without a run:

- the example of `src/README.md` section 4 gives distances 0, 1, 2 where the
  code, and the table of context depths in the same document, give 1, 2, 3;
- a file removed by a commit has status `removed`, not `deleted`;
- the example of `src/README.md:402-440` calls members of the JSON file `files` and
  `before`; `tree_sitter/exporter.c:90-98` calls them `commit_files` and
  `previous_content`;
- the statuses `copied` and `changed`, which GitHub also reports, end the process;
- `src/README.md:157-159` takes the current date, or 01/01/1999, for an invalid one.
  `strptime` (`config.c:38`, `config.c:53`) refuses neither 31/02/2026, of which
  `timegm` makes 03/03/2026, nor text after the year, nor a year of two digits:
  01/09/26 is in the year 26. `DatesAsMeant` leaves such dates out
  (`TakenForADate`); the run reaches the first two, and checks that the range still
  spans whole days;
- a CWE that `cwe-ids` names twice is swept twice, and its commits are pushed twice
  (`NvdSweep` numbers the CWEs, so that its instance and theorems are about lists
  without repetition); the second time its files are there already;
- a negative limit becomes a very large one (`config.c:117`), and a comma at the
  end of `cwe-ids` adds CWE-0, which the NVD does not know; three answers 404 end
  the process (`http.c:129`);
- `max-files-commit` "maximum number of files affected by a commit"
  (`src/README.md:234`): with 300 or more, a commit of more files than GitHub lists
  is accepted with the first 300, and the others may be exported as its context
  (`WholeAnswers`); if they are too many for `max-files-context`, the commit is
  rejected for a context it does not have (`RejectedForAReason`). The context of a repository whose tree GitHub truncates lacks
  files, which nothing in the dataset says;
- a file with a zero byte is exported up to it;
- functions that return a pointer or a reference are not extracted
  (`tree_sitter/parser.c:80`), and neither are those with variadic or default
  parameters (`tree_sitter/parser.c:89`).

## 7. Not modelled

- Spelling: the URLs of requests, dates as text, the layout of the JSON text, the
  wording and colours of the display. `NvdSweep` has dates as seconds, `Pipeline`
  has a file name as a value computed by `FileName`.
- Memory exhaustion and malformed documents: they end the process (`EXIT_IF`);
  `Pipeline` has `Exit` for all of them.
- curl, yyjson, tree-sitter and its grammars (`src/third_party`), and the data in
  `src/documentation` and `src/results`.
- `display_config` and `commit_to_display`, which only print, and the destructors
  as loops over members: `Pipeline` and `GithubCommit` free an entry as a whole.

## 8. Plan

Done, in this order: `WorkQueue`, `JobsQueue` and its proofs; `History` and
`Pipeline`; `NvdSweep`; `HttpClient`; `GithubCommit`; `FunctionDiff` and its proofs;
`FunctionExtraction`; `Config`; `Export`, composed with `GithubCommit`; the proofs of
`HttpClient`, `WorkQueue`, `Pipeline` and the display; those of `Export`, the context
and the reasons for a rejection included; those of `NvdSweep`, paging and parsing
included.

Left, most important first:

1. `Pipeline` as the composition of what it abstracts: its main thread as a
   refinement of `NvdSweep`'s hand-over, and `GithubCommit` as what decides between
   `GithubReject` and `GithubAccept`.
2. `FunctionExtraction` with its tree walks as recursive functions over a set of
   nodes, and with the rules of the grammar that names rely on as assumptions, so
   that `PlainFunctionsFound` can be proved by the kind of induction that
   `NvdSweepProofs` uses.
3. The grammar of a configuration file as a definition in `Config`, in place of the
   meaning given with each file.
