----------------------------- MODULE HttpClient -----------------------------
(***************************************************************************)
(* The clients of src/src/http.c, as src/src/nvd/nvd.c and                 *)
(* src/src/github/github.c make them, and their download loops.  A client  *)
(* is a curl handle, which a reset replaces by a new one, and the headers  *)
(* of every request.  The main thread downloads from the NVD with          *)
(* nvd_download, the GitHub workers from GitHub with github_download; each *)
(* loop asks again, waits, gives up or ends the process depending on the   *)
(* status of the answer.  A loop keeps the mutex of its client from its    *)
(* first line to its return, sleeps included.                              *)
(*                                                                         *)
(* The servers are not under src/: an answer is any status, in any order.  *)
(* Time passes in seconds, for a sleeping thread and for the server alike. *)
(***************************************************************************)
EXTENDS Integers, FiniteSetsExt

CONSTANTS Callers,             \* the GitHub workers
          NULL,                \* the mutex is free
          MaxErrors,           \* MAX_ERRORS
          NvdMaxDelay,         \* NVD_MAX_DELAY
          TimeBetweenRequests, \* GITHUB_TIME_BETWEEN_REQUESTS
          TooManyPause,        \* the 60 seconds of status 429
          ServerErrorPause,    \* the 10 seconds of status 500 and 503
          MaxReset,            \* bound: how far ahead GitHub's limit is reset
          NvdDownloads,        \* bound: the calls of nvd_download
          GithubDownloads      \* bound: the calls of each GitHub worker

ASSUME HttpAssumption ==
  /\ NULL \notin Callers
  /\ MaxErrors \in Nat \ {0}
  /\ NvdMaxDelay \in Nat \ {0}
  /\ TimeBetweenRequests \in Nat
  /\ TooManyPause \in Nat
  /\ ServerErrorPause \in Nat
  /\ MaxReset \in Nat
  /\ NvdDownloads \in Nat
  /\ GithubDownloads \in Nat

VARIABLES
  alive,     \* the process has not exited
  nvdAt,     \* the main thread: "idle", "pausing" or "asked"
  nvdErrors, \* its unexpected_errors_count
  delay,     \* nvd_client->delay
  nvdHeaders,\* nvd_client->headers; they do not change
  nvdCurl,   \* nvd_client->curl: the options that are set
  nvdTodo,   \* its calls still to come, the present one included
  limited,   \* history: the answers 429 of the NVD in a row, up to NvdMaxDelay
  lock,      \* github_client->lock
  curl,      \* github_client->curl
  at,        \* each GitHub worker: "idle", "pausing" or "asked"
  errors,    \* their unexpected_errors_count
  pause,     \* the seconds they still sleep
  todo,      \* their calls still to come, the present one included
  quiet      \* history: the seconds GitHub is to be left alone

nvd == <<nvdAt, nvdErrors, delay, nvdHeaders, nvdCurl, nvdTodo, limited>>
github == <<lock, curl, at, errors, pause, todo, quiet>>
vars == <<alive, nvd, github>>

-----------------------------------------------------------------------------
(* The clients.                                                            *)

\* A mistake the properties must catch: a new handle has no headers.
WithoutHeaders(headers) == [timeout |-> TRUE, headers |-> {}, callback |-> FALSE]

\* http_client_configure_curl, for the handle of a new client and of a reset.
Configured(headers) == [timeout |-> TRUE, headers |-> headers, callback |-> FALSE]

\* http_client_add_header
AddHeader(handle, header) == [handle EXCEPT !.headers = @ \cup {header}]

\* github_client_new
GithubHeaders == {"Authorization", "Accept", "User-Agent"}
NewGithubCurl ==
  AddHeader(AddHeader(AddHeader(Configured({}), "Authorization"), "Accept"), "User-Agent")

\* nvd_client_new: the key is optional.
NewNvdCurl == {Configured({}), AddHeader(Configured({}), "apiKey")}

Init ==
  /\ alive = TRUE
  /\ nvdAt = "idle" /\ nvdErrors = 0 /\ delay = 0 /\ nvdTodo = NvdDownloads
  /\ nvdCurl \in NewNvdCurl
  /\ nvdHeaders = nvdCurl.headers
  /\ limited = 0
  /\ lock = NULL
  /\ curl = NewGithubCurl
  /\ at = [w \in Callers |-> "idle"]
  /\ errors = [w \in Callers |-> 0]
  /\ pause = [w \in Callers |-> 0]
  /\ todo = [w \in Callers |-> GithubDownloads]
  /\ quiet = 0

-----------------------------------------------------------------------------
(* nvd_download.  Only the main thread calls it: its mutex is always free. *)

NvdMoves(from, to) ==
  /\ alive
  /\ nvdAt = from
  /\ nvdAt' = to
  /\ UNCHANGED <<nvdHeaders, github>>

\* http_client_reset, after every answer that is not to be used.
NvdReset == nvdCurl' = Configured(nvdHeaders)

NvdCall ==
  /\ nvdTodo > 0
  /\ NvdMoves("idle", "pausing")
  /\ nvdErrors' = 0
  /\ UNCHANGED <<alive, delay, nvdCurl, nvdTodo, limited>>

\* sleep(client->delay), then the request.
NvdAsk ==
  /\ NvdMoves("pausing", "asked")
  /\ UNCHANGED <<alive, nvdErrors, delay, nvdCurl, nvdTodo, limited>>

\* curl fails, or the status is none the loop expects.
NvdUnexpected ==
  /\ NvdMoves("asked", "pausing")
  /\ nvdErrors' = nvdErrors + 1
  /\ IF nvdErrors' = MaxErrors
     THEN alive' = FALSE /\ UNCHANGED <<delay, nvdCurl>>
     ELSE delay' = 1 /\ NvdReset /\ UNCHANGED alive
  /\ limited' = 0
  /\ UNCHANGED nvdTodo

\* A mistake the properties must catch: the delay has no bound.
Unbounded(d) == IF d = 0 THEN 1 ELSE d * 2

\* A mistake the properties must catch: the delay starts again when it is full.
Wrapping(d) == IF d = 0 \/ d * 2 > NvdMaxDelay THEN 1 ELSE d * 2

Slower(d) == CASE d = 0                         -> 1
               [] d > 0 /\ d * 2 > NvdMaxDelay -> d
               [] OTHER                         -> d * 2

\* Status 429: ask again, as often as it takes, and more and more slowly.
NvdLimited ==
  /\ NvdMoves("asked", "pausing")
  /\ delay' = Slower(delay)
  /\ NvdReset
  /\ limited' = Min({limited + 1, NvdMaxDelay})
  /\ UNCHANGED <<alive, nvdErrors, nvdTodo>>

NvdSuccess ==
  /\ NvdMoves("asked", "idle")
  /\ delay' = delay \div 2
  /\ nvdTodo' = nvdTodo - 1
  /\ limited' = 0
  /\ UNCHANGED <<alive, nvdErrors, nvdCurl>>

-----------------------------------------------------------------------------
(* github_download.                                                        *)

\* pthread_mutex_lock, and the sleep before the first request.
Call(w) ==
  /\ alive
  /\ at[w] = "idle"
  /\ todo[w] > 0
  /\ lock = NULL
  /\ lock' = w
  /\ at' = [at EXCEPT ![w] = "pausing"]
  /\ errors' = [errors EXCEPT ![w] = 0]
  /\ pause' = [pause EXCEPT ![w] = TimeBetweenRequests]
  /\ UNCHANGED <<alive, nvd, curl, todo, quiet>>

\* http_get, once the sleep is over, with a callback for the answer's headers.
Ask(w) ==
  /\ alive
  /\ at[w] = "pausing"
  /\ pause[w] = 0
  /\ at' = [at EXCEPT ![w] = "asked"]
  /\ curl' = [curl EXCEPT !.callback = TRUE]
  /\ UNCHANGED <<alive, nvd, lock, errors, pause, todo, quiet>>

\* GitHub has answered w, and is to be left alone for n seconds.
Answered(w, n) ==
  /\ alive
  /\ at[w] = "asked"
  /\ quiet' = n
  /\ UNCHANGED nvd

\* The handle is used again, without the callback.
KeepHandle == curl' = [curl EXCEPT !.callback = FALSE]

\* http_client_reset
Reset == curl' = Configured(GithubHeaders)

\* The loop goes round again after n seconds.
Pause(w, n) ==
  /\ at' = [at EXCEPT ![w] = "pausing"]
  /\ pause' = [pause EXCEPT ![w] = n]
  /\ UNCHANGED <<alive, todo>>

Again(w, n) == Pause(w, n) /\ UNCHANGED lock

\* The call returns, with the data or with NULL.
Leave(w) ==
  /\ at' = [at EXCEPT ![w] = "idle"]
  /\ todo' = [todo EXCEPT ![w] = @ - 1]
  /\ KeepHandle
  /\ UNCHANGED <<alive, pause>>

Return(w) == Leave(w) /\ lock' = NULL

\* A mistake the properties must catch: a return path forgets to unlock.
UnavailableKeepsLock(w) ==
  Answered(w, TimeBetweenRequests) /\ Leave(w) /\ UNCHANGED <<lock, errors>>

\* Status 404, 409 or 422: NULL at once.
Unavailable(w) ==
  /\ Answered(w, TimeBetweenRequests)
  /\ Return(w)
  /\ UNCHANGED errors

Success(w) ==
  /\ Answered(w, TimeBetweenRequests)
  /\ Return(w)
  /\ UNCHANGED errors

\* curl fails, or the status is none the loop expects: NULL the third time.
Unexpected(w) ==
  /\ Answered(w, TimeBetweenRequests)
  /\ errors' = [errors EXCEPT ![w] = @ + 1]
  /\ IF errors'[w] = MaxErrors
     THEN Return(w)
     ELSE Again(w, TimeBetweenRequests) /\ Reset

TooMany(w) ==
  /\ Answered(w, TooManyPause)
  /\ Again(w, TooManyPause) /\ KeepHandle
  /\ UNCHANGED errors

ServerError(w) ==
  /\ Answered(w, ServerErrorPause)
  /\ Again(w, ServerErrorPause) /\ KeepHandle
  /\ UNCHANGED errors

\* A mistake the properties must catch: the mutex is given up for the sleep.
LimitReachedUnlocked(w) ==
  \E n \in 0 .. MaxReset :
    Answered(w, n) /\ Pause(w, n) /\ KeepHandle /\ lock' = NULL /\ UNCHANGED errors

\* github_header_callback has read how many requests are left, and until when.
HeadersRead == curl.callback

\* Status 403 with no request left, which the callback has read: sleep until the
\* limit is reset, in n seconds by this machine's clock.
LimitReached(w) ==
  \E n \in 0 .. MaxReset :
    /\ HeadersRead
    /\ Answered(w, n)
    /\ Again(w, n) /\ KeepHandle
    /\ UNCHANGED errors

\* Status 403 for another reason, without the time of the reset, or with a time
\* that has passed when the answer is read: the process exits.
Forbidden(w) ==
  /\ Answered(w, 0)
  /\ alive' = FALSE
  /\ KeepHandle
  /\ UNCHANGED <<lock, at, errors, pause, todo>>

\* A second passes.
Tick ==
  /\ alive
  /\ quiet > 0 \/ \E w \in Callers : pause[w] > 0
  /\ pause' = [w \in Callers |-> Max({0, pause[w] - 1})]
  /\ quiet' = Max({0, quiet - 1})
  /\ UNCHANGED <<alive, nvd, lock, curl, at, errors, todo>>

-----------------------------------------------------------------------------

NvdAnswer == NvdUnexpected \/ NvdLimited \/ NvdSuccess

NvdNext == NvdCall \/ NvdAsk \/ NvdAnswer

\* The answers that end a call.
Final(w) == Unavailable(w) \/ Success(w)

Answer(w) ==
  \/ Final(w) \/ Unexpected(w) \/ TooMany(w) \/ ServerError(w)
  \/ LimitReached(w) \/ Forbidden(w)

GithubNext(w) == Call(w) \/ Ask(w) \/ Answer(w)

Finished == nvdTodo = 0 /\ \A w \in Callers : todo[w] = 0

Ended == ~alive \/ Finished

Next ==
  \/ NvdNext
  \/ \E w \in Callers : GithubNext(w)
  \/ Tick
  \/ Ended /\ UNCHANGED vars

\* The threads run, time passes, every request is answered within
\* HTTP_MAX_TIMEOUT seconds (by curl itself if need be), and a server that is
\* asked again and again answers with something final in the end.
Spec ==
  /\ Init /\ [][Next]_vars
  /\ WF_vars(NvdNext)
  /\ SF_vars(NvdSuccess)
  /\ WF_vars(Tick)
  /\ \A w \in Callers : WF_vars(GithubNext(w)) /\ SF_vars(Final(w))

-----------------------------------------------------------------------------
(* Properties.                                                             *)

Places == {"idle", "pausing", "asked"}

LongestPause == Max({TimeBetweenRequests, TooManyPause, ServerErrorPause, MaxReset})

\* Where the threads are, and what their variables hold.
TypeOK ==
  /\ alive \in BOOLEAN
  /\ nvdAt \in Places /\ at \in [Callers -> Places]
  /\ nvdErrors \in 0 .. MaxErrors /\ errors \in [Callers -> 0 .. MaxErrors]
  /\ delay \in 0 .. NvdMaxDelay
  /\ nvdTodo \in 0 .. NvdDownloads /\ todo \in [Callers -> 0 .. GithubDownloads]
  /\ limited \in 0 .. NvdMaxDelay
  /\ lock \in Callers \cup {NULL}
  /\ pause \in [Callers -> 0 .. LongestPause]
  /\ quiet \in 0 .. LongestPause
  /\ curl.headers \subseteq GithubHeaders /\ nvdCurl.headers \subseteq {"apiKey"}

\* The curl handle of the GitHub client is used by the owner of its mutex only,
\* and whichever way a call ends, it gives the mutex back.
HandleOwned == \A w \in Callers : at[w] # "idle" <=> lock = w

\* However many answers were wrong before it and whichever handle it is sent with,
\* every request has a time limit and the headers its client was made with, the
\* key among them, and the headers of its own answer are read.
RequestsComplete ==
  /\ \A w \in Callers : alive /\ at[w] = "asked" =>
       curl = [timeout |-> TRUE, headers |-> GithubHeaders, callback |-> TRUE]
  /\ nvdCurl = [timeout |-> TRUE, headers |-> nvdHeaders, callback |-> FALSE]

\* Whoever gets an answer that asks for patience, no thread sends a request
\* before that time is over: not before the limit is reset after a 403, not
\* within a minute of a 429, ten seconds of a 500 or 503, or a second of any
\* other answer.
PatienceKept ==
  [][\A w \in Callers : Ask(w) => quiet = 0]_vars

\* A second, doubled n times.
Doubled(n) ==
  LET seconds[k \in 0 .. n] == IF k = 0 THEN 1 ELSE 2 * seconds[k - 1]
  IN  seconds[n]

\* While the NVD answers nothing but 429, the delay doubles until it is full:
\* after n such answers in a row it is at least a second doubled n - 1 times, or too
\* long to be doubled, also if a success or an error had shortened it before.
BackoffGrows ==
  limited > 0 => \/ delay * 2 > NvdMaxDelay
                 \/ delay >= Doubled(limited - 1)

\* Inductive: what the properties need of the loops.  A loop that goes round again
\* has a call to come back to and an error to spare.
Counts ==
  /\ alive => nvdErrors < MaxErrors
  /\ nvdAt # "idle" => nvdTodo > 0
  /\ \A w \in Callers : at[w] # "idle" => todo[w] > 0 /\ errors[w] < MaxErrors

\* Inductive: whatever a call leaves behind, the handle keeps all but the callback.
HandleWhole ==
  curl \in [timeout : {TRUE}, headers : {GithubHeaders}, callback : BOOLEAN]

\* Inductive: who sleeps sleeps long enough, and when the mutex is free, what is
\* left of GitHub's patience is no more than the next caller will sleep.
Patience ==
  /\ lock = NULL => quiet <= TimeBetweenRequests
  /\ \A w \in Callers : at[w] = "pausing" => quiet <= pause[w]

HttpInv ==
  /\ TypeOK /\ HandleOwned /\ RequestsComplete
  /\ Counts /\ HandleWhole /\ Patience

\* Every download returns, whoever else waits for the same client, unless the
\* process exits.
EveryDownloadReturns == <>Ended
=============================================================================
