-------------------------- MODULE HttpClientProofs --------------------------
(***************************************************************************)
(* The mutex of the GitHub client protects its handle, every request is    *)
(* complete, no thread asks before its time, and the NVD is asked more and *)
(* more slowly while it refuses, whatever the servers answer, for any      *)
(* number of workers, of calls and of allowed errors and for pauses of any *)
(* length.                                                                 *)
(***************************************************************************)
EXTENDS HttpClient, TLAPS, WellFoundedInduction

\* The smaller and the larger of two numbers.
LEMMA MinOfTwo ==
  ASSUME NEW m \in Int, NEW n \in Int
  PROVE  Min({m, n}) = IF m <= n THEN m ELSE n
<1>1. CASE m <= n
  <2>1. m \in {m, n} /\ \A y \in {m, n} : m <= y
    BY <1>1
  <2>2. \A x \in {m, n} : (\A y \in {m, n} : x <= y) => x = m
    BY <1>1
  <2> QED
    BY <1>1, <2>1, <2>2 DEF Min
<1>2. CASE ~(m <= n)
  <2>1. n \in {m, n} /\ \A y \in {m, n} : n <= y
    BY <1>2
  <2>2. \A x \in {m, n} : (\A y \in {m, n} : x <= y) => x = n
    BY <1>2
  <2> QED
    BY <1>2, <2>1, <2>2 DEF Min
<1> QED
  BY <1>1, <1>2

LEMMA MaxOfTwo ==
  ASSUME NEW m \in Int, NEW n \in Int
  PROVE  Max({m, n}) = IF m <= n THEN n ELSE m
<1>1. CASE m <= n
  <2>1. n \in {m, n} /\ \A y \in {m, n} : n >= y
    BY <1>1
  <2>2. \A x \in {m, n} : (\A y \in {m, n} : x >= y) => x = n
    BY <1>1
  <2> QED
    BY <1>1, <2>1, <2>2 DEF Max
<1>2. CASE ~(m <= n)
  <2>1. m \in {m, n} /\ \A y \in {m, n} : m >= y
    BY <1>2
  <2>2. \A x \in {m, n} : (\A y \in {m, n} : x >= y) => x = m
    BY <1>2
  <2> QED
    BY <1>2, <2>1, <2>2 DEF Max
<1> QED
  BY <1>1, <1>2

\* No pause of the loops is longer than the longest.
LEMMA Pauses ==
  /\ LongestPause \in Nat
  /\ TimeBetweenRequests <= LongestPause
  /\ TooManyPause <= LongestPause
  /\ ServerErrorPause <= LongestPause
  /\ MaxReset <= LongestPause
<1> DEFINE P == {TimeBetweenRequests, TooManyPause, ServerErrorPause, MaxReset}
<1>1. \E x \in P : \A y \in P : x >= y
  <2>1. PICK a \in {TimeBetweenRequests, TooManyPause} :
          a >= TimeBetweenRequests /\ a >= TooManyPause
    BY HttpAssumption
  <2>2. PICK b \in {ServerErrorPause, MaxReset} : b >= ServerErrorPause /\ b >= MaxReset
    BY HttpAssumption
  <2>3. CASE a >= b
    BY <2>1, <2>2, <2>3, HttpAssumption
  <2>4. CASE ~(a >= b)
    BY <2>1, <2>2, <2>4, HttpAssumption
  <2> QED
    BY <2>3, <2>4
<1>2. LongestPause \in P /\ \A y \in P : LongestPause >= y
  BY <1>1 DEF LongestPause, Max
<1> QED
  BY <1>2, HttpAssumption

\* The delay of the NVD client never exceeds its bound.
LEMMA SlowerBounded ==
  ASSUME NEW d \in 0 .. NvdMaxDelay
  PROVE  Slower(d) \in 0 .. NvdMaxDelay
<1>1. CASE d = 0
  BY <1>1, HttpAssumption DEF Slower
<1>2. CASE d > 0 /\ d * 2 > NvdMaxDelay
  BY <1>2, HttpAssumption DEF Slower
<1>3. CASE d > 0 /\ ~(d * 2 > NvdMaxDelay)
  <2>1. Slower(d) = d * 2
    BY <1>3 DEF Slower
  <2> QED
    BY <1>3, <2>1, HttpAssumption
<1> QED
  BY <1>1, <1>2, <1>3

\* Setting or clearing the callback changes nothing else of the handle.
LEMMA CallbackSet ==
  ASSUME HandleWhole, NEW b \in BOOLEAN, curl' = [curl EXCEPT !.callback = b]
  PROVE  curl' = [timeout |-> TRUE, headers |-> GithubHeaders, callback |-> b]
BY DEF HandleWhole

-----------------------------------------------------------------------------
(* The invariant.                                                          *)

\* It holds when both clients have been made.
LEMMA HttpInit == Init => HttpInv
<1> SUFFICES ASSUME Init PROVE HttpInv
  OBVIOUS
<1> USE HttpAssumption
<1>1. curl = [timeout |-> TRUE, headers |-> GithubHeaders, callback |-> FALSE]
  BY DEF Init, NewGithubCurl, AddHeader, Configured, GithubHeaders
<1>2. /\ nvdCurl = [timeout |-> TRUE, headers |-> nvdHeaders, callback |-> FALSE]
      /\ nvdCurl.headers \subseteq {"apiKey"}
  BY DEF Init, NewNvdCurl, AddHeader, Configured
<1>3. TypeOK
  BY <1>1, <1>2, Pauses DEF Init, TypeOK, Places
<1>4. HandleOwned /\ RequestsComplete /\ Counts /\ HandleWhole /\ Patience
  BY <1>1, <1>2, Pauses DEF Init, HandleOwned, RequestsComplete, Counts, HandleWhole, Patience
<1> QED
  BY <1>3, <1>4 DEF HttpInv

\* nvd_download keeps it.
LEMMA NvdKeeps == HttpInv /\ NvdNext => HttpInv'
<1> SUFFICES ASSUME HttpInv, NvdNext PROVE HttpInv'
  OBVIOUS
<1> USE HttpAssumption
<1>1. UNCHANGED <<nvdHeaders, lock, curl, at, errors, pause, todo, quiet>> /\ alive
  BY DEF NvdNext, NvdCall, NvdAsk, NvdAnswer, NvdUnexpected, NvdLimited, NvdSuccess, NvdMoves,
         github
<1>2. /\ alive' \in BOOLEAN /\ nvdAt' \in Places /\ nvdErrors' \in 0 .. MaxErrors
      /\ delay' \in 0 .. NvdMaxDelay /\ nvdTodo' \in 0 .. NvdDownloads
      /\ limited' \in 0 .. NvdMaxDelay
      /\ alive' => nvdErrors' < MaxErrors
      /\ nvdAt' # "idle" => nvdTodo' > 0
      /\ nvdCurl' = [timeout |-> TRUE, headers |-> nvdHeaders', callback |-> FALSE]
      /\ nvdCurl'.headers \subseteq {"apiKey"}
  <2> USE DEF HttpInv, TypeOK, Counts, RequestsComplete, Places, NvdMoves
  <2>1. CASE NvdCall
    BY <1>1, <2>1 DEF NvdCall
  <2>2. CASE NvdAsk
    BY <1>1, <2>2 DEF NvdAsk
  <2>3. CASE NvdUnexpected
    <3>1. /\ nvdAt' = "pausing" /\ nvdAt = "asked" /\ nvdErrors' = nvdErrors + 1
          /\ limited' = 0 /\ nvdTodo' = nvdTodo
      BY <2>3 DEF NvdUnexpected
    <3>2. CASE nvdErrors' = MaxErrors
      <4>1. alive' = FALSE /\ delay' = delay /\ nvdCurl' = nvdCurl
        BY <2>3, <3>2 DEF NvdUnexpected
      <4>2. alive' \in BOOLEAN /\ ~alive'
        BY <4>1, Zenon
      <4> QED
        BY <1>1, <3>1, <3>2, <4>1, <4>2
    <3>3. CASE nvdErrors' # MaxErrors
      <4>1. alive' = alive /\ delay' = 1 /\ nvdCurl' = Configured(nvdHeaders)
        BY <2>3, <3>3 DEF NvdUnexpected, NvdReset
      <4> QED
        BY <1>1, <3>1, <3>3, <4>1 DEF Configured
    <3> QED
      BY <3>2, <3>3
  <2>4. CASE NvdLimited
    <3>1. limited' = IF limited + 1 <= NvdMaxDelay THEN limited + 1 ELSE NvdMaxDelay
      BY <2>4, MinOfTwo DEF NvdLimited
    <3>2. delay' \in 0 .. NvdMaxDelay
      BY <2>4, SlowerBounded DEF NvdLimited
    <3> QED
      BY <1>1, <2>4, <3>1, <3>2 DEF NvdLimited, NvdReset, Configured
  <2>5. CASE NvdSuccess
    <3>1. delay \div 2 \in 0 .. NvdMaxDelay
      OBVIOUS
    <3> QED
      BY <1>1, <2>5, <3>1 DEF NvdSuccess
  <2> QED
    BY <2>1, <2>2, <2>3, <2>4, <2>5 DEF NvdNext, NvdAnswer
<1>3. TypeOK'
  BY <1>1, <1>2 DEF HttpInv, TypeOK
<1>4. HandleOwned' /\ RequestsComplete'
  BY <1>1, <1>2 DEF HttpInv, HandleOwned, RequestsComplete
<1>5. Counts' /\ HandleWhole' /\ Patience'
  BY <1>1, <1>2 DEF HttpInv, Counts, HandleWhole, Patience
<1> QED
  BY <1>3, <1>4, <1>5 DEF HttpInv

\* Taking the mutex for a call keeps it.
LEMMA CallKeeps ==
  ASSUME HttpInv, NEW w \in Callers, Call(w)
  PROVE  HttpInv'
<1> USE HttpAssumption, Pauses
<1>1. /\ alive /\ at[w] = "idle" /\ todo[w] > 0 /\ lock = NULL /\ lock' = w
      /\ at' = [at EXCEPT ![w] = "pausing"]
      /\ errors' = [errors EXCEPT ![w] = 0]
      /\ pause' = [pause EXCEPT ![w] = TimeBetweenRequests]
      /\ UNCHANGED <<alive, nvdAt, nvdErrors, delay, nvdHeaders, nvdCurl, nvdTodo, limited,
                    curl, todo, quiet>>
  BY DEF Call, nvd
<1>2. TypeOK'
  BY <1>1 DEF HttpInv, TypeOK, Places
<1>3. HandleOwned'
  BY <1>1 DEF HttpInv, TypeOK, HandleOwned
<1>4. RequestsComplete' /\ HandleWhole'
  BY <1>1 DEF HttpInv, TypeOK, RequestsComplete, HandleWhole
<1>5. Counts'
  BY <1>1 DEF HttpInv, TypeOK, Counts
<1>6. Patience'
  BY <1>1 DEF HttpInv, TypeOK, HandleOwned, Patience
<1> QED
  BY <1>2, <1>3, <1>4, <1>5, <1>6 DEF HttpInv

\* Sending the request keeps it.
LEMMA AskKeeps ==
  ASSUME HttpInv, NEW w \in Callers, Ask(w)
  PROVE  HttpInv'
<1> USE HttpAssumption
<1>1. /\ alive /\ at[w] = "pausing" /\ pause[w] = 0
      /\ at' = [at EXCEPT ![w] = "asked"]
      /\ curl' = [curl EXCEPT !.callback = TRUE]
      /\ UNCHANGED <<alive, nvdAt, nvdErrors, delay, nvdHeaders, nvdCurl, nvdTodo, limited,
                    lock, errors, pause, todo, quiet>>
  BY DEF Ask, nvd
<1>2. curl' = [timeout |-> TRUE, headers |-> GithubHeaders, callback |-> TRUE]
  BY <1>1, CallbackSet DEF HttpInv
<1>3. TypeOK'
  BY <1>1, <1>2 DEF HttpInv, TypeOK, Places
<1>4. HandleOwned' /\ RequestsComplete'
  BY <1>1, <1>2 DEF HttpInv, TypeOK, HandleOwned, RequestsComplete
<1>5. Counts' /\ HandleWhole' /\ Patience'
  BY <1>1, <1>2 DEF HttpInv, TypeOK, Counts, HandleWhole, Patience
<1> QED
  BY <1>3, <1>4, <1>5 DEF HttpInv

\* The owner of the mutex is the only one inside a call.
LEMMA OthersIdle ==
  ASSUME HttpInv, NEW w \in Callers, at[w] = "asked"
  PROVE  lock = w /\ \A v \in Callers \ {w} : at[v] = "idle"
BY DEF HttpInv, HandleOwned

\* Going round the loop again keeps it, if the pause is as long as asked for.
LEMMA AgainKeeps ==
  ASSUME HttpInv, NEW w \in Callers, NEW n \in 0 .. LongestPause,
         Answered(w, n), Again(w, n), KeepHandle \/ Reset,
         errors' \in [Callers -> 0 .. MaxErrors],
         errors'[w] < MaxErrors, \A v \in Callers \ {w} : errors'[v] = errors[v]
  PROVE  HttpInv'
<1> USE HttpAssumption, Pauses
<1>1. /\ alive /\ at[w] = "asked" /\ quiet' = n
      /\ at' = [at EXCEPT ![w] = "pausing"]
      /\ pause' = [pause EXCEPT ![w] = n]
      /\ UNCHANGED <<alive, nvdAt, nvdErrors, delay, nvdHeaders, nvdCurl, nvdTodo, limited,
                    lock, todo>>
  BY DEF Answered, Again, Pause, nvd
<1>2. lock = w /\ \A v \in Callers \ {w} : at[v] = "idle"
  BY <1>1, OthersIdle
<1>3. curl' = [timeout |-> TRUE, headers |-> GithubHeaders, callback |-> FALSE]
  BY CallbackSet DEF KeepHandle, Reset, Configured, HttpInv
<1>4. TypeOK'
  BY <1>1, <1>3 DEF HttpInv, TypeOK, Places
<1>5. HandleOwned'
  BY <1>1, <1>2 DEF HttpInv, TypeOK, HandleOwned
<1>6. RequestsComplete' /\ HandleWhole'
  BY <1>1, <1>2, <1>3 DEF HttpInv, TypeOK, RequestsComplete, HandleWhole
<1>7. Counts' /\ Patience'
  BY <1>1, <1>2 DEF HttpInv, TypeOK, Counts, Patience
<1> QED
  BY <1>4, <1>5, <1>6, <1>7 DEF HttpInv

\* Returning from the call keeps it.
LEMMA ReturnKeeps ==
  ASSUME HttpInv, NEW w \in Callers, Answered(w, TimeBetweenRequests), Return(w),
         errors' \in [Callers -> 0 .. MaxErrors],
         \A v \in Callers \ {w} : errors'[v] = errors[v]
  PROVE  HttpInv'
<1> USE HttpAssumption, Pauses
<1>1. /\ alive /\ at[w] = "asked" /\ quiet' = TimeBetweenRequests
      /\ at' = [at EXCEPT ![w] = "idle"]
      /\ todo' = [todo EXCEPT ![w] = @ - 1]
      /\ lock' = NULL
      /\ UNCHANGED <<alive, nvdAt, nvdErrors, delay, nvdHeaders, nvdCurl, nvdTodo, limited,
                    pause>>
  BY DEF Answered, Return, Leave, nvd
<1>2. lock = w /\ \A v \in Callers \ {w} : at[v] = "idle"
  BY <1>1, OthersIdle
<1>3. curl' = [timeout |-> TRUE, headers |-> GithubHeaders, callback |-> FALSE]
  BY CallbackSet DEF Return, Leave, KeepHandle, HttpInv
<1>4. todo[w] > 0
  BY <1>1 DEF HttpInv, Counts
<1>5. TypeOK'
  BY <1>1, <1>3, <1>4 DEF HttpInv, TypeOK, Places
<1>6. HandleOwned'
  BY <1>1, <1>2 DEF HttpInv, TypeOK, HandleOwned
<1>7. RequestsComplete' /\ HandleWhole'
  BY <1>1, <1>2, <1>3 DEF HttpInv, TypeOK, RequestsComplete, HandleWhole
<1>8. Counts' /\ Patience'
  BY <1>1, <1>2 DEF HttpInv, TypeOK, Counts, Patience
<1> QED
  BY <1>5, <1>6, <1>7, <1>8 DEF HttpInv

\* Every answer of GitHub keeps it.
LEMMA AnswerKeeps ==
  ASSUME HttpInv, NEW w \in Callers, Answer(w)
  PROVE  HttpInv'
<1> USE HttpAssumption, Pauses
<1>1. errors \in [Callers -> 0 .. MaxErrors]
  BY DEF HttpInv, TypeOK
<1>2. errors[w] < MaxErrors
  BY DEF Answer, Final, Unavailable, Success, Unexpected, TooMany, ServerError, LimitReached,
         Forbidden, Answered, HttpInv, Counts
<1>3. CASE Unavailable(w) \/ Success(w)
  BY <1>1, <1>3, ReturnKeeps DEF Unavailable, Success
<1>4. CASE Unexpected(w)
  <2>1. errors' = [errors EXCEPT ![w] = @ + 1] /\ Answered(w, TimeBetweenRequests)
    BY <1>4 DEF Unexpected
  <2>2. errors' \in [Callers -> 0 .. MaxErrors] /\ errors'[w] = errors[w] + 1
    BY <1>1, <1>2, <2>1
  <2>3. \A v \in Callers \ {w} : errors'[v] = errors[v]
    BY <1>1, <2>1
  <2>4. CASE errors'[w] = MaxErrors
    BY <1>4, <2>1, <2>2, <2>3, <2>4, ReturnKeeps DEF Unexpected
  <2>5. CASE errors'[w] # MaxErrors
    <3>1. errors'[w] < MaxErrors
      BY <1>1, <1>2, <2>2, <2>5
    <3>2. Again(w, TimeBetweenRequests) /\ Reset
      BY <1>4, <2>5 DEF Unexpected
    <3> QED
      BY <2>1, <2>2, <2>3, <3>1, <3>2, AgainKeeps
  <2> QED
    BY <2>4, <2>5
<1>5. CASE TooMany(w)
  BY <1>1, <1>2, <1>5, AgainKeeps DEF TooMany
<1>6. CASE ServerError(w)
  BY <1>1, <1>2, <1>6, AgainKeeps DEF ServerError
<1>7. CASE LimitReached(w)
  <2>1. PICK n \in 0 .. MaxReset : Answered(w, n) /\ Again(w, n) /\ KeepHandle /\ UNCHANGED errors
    BY <1>7 DEF LimitReached
  <2>2. n \in 0 .. LongestPause
    OBVIOUS
  <2> QED
    BY <1>1, <1>2, <2>1, <2>2, AgainKeeps
<1>8. CASE Forbidden(w)
  <2>1. /\ quiet' = 0 /\ alive' = FALSE
        /\ UNCHANGED <<nvdAt, nvdErrors, delay, nvdHeaders, nvdCurl, nvdTodo, limited,
                       lock, at, errors, pause, todo>>
    BY <1>8 DEF Forbidden, Answered, nvd
  <2>2. curl' = [timeout |-> TRUE, headers |-> GithubHeaders, callback |-> FALSE]
    BY <1>8, CallbackSet DEF Forbidden, KeepHandle, HttpInv
  <2>3. alive' \in BOOLEAN
    BY <2>1, Zenon
  <2>4. TypeOK'
    BY <2>1, <2>2, <2>3 DEF HttpInv, TypeOK, Places
  <2>5. HandleOwned'
    BY <2>1 DEF HttpInv, HandleOwned
  <2>6. RequestsComplete' /\ Counts' /\ HandleWhole' /\ Patience'
    BY <2>1, <2>2 DEF HttpInv, TypeOK, RequestsComplete, Counts, HandleWhole, Patience
  <2> QED
    BY <2>4, <2>5, <2>6 DEF HttpInv
<1> QED
  BY <1>3, <1>4, <1>5, <1>6, <1>7, <1>8 DEF Answer, Final

\* A second less for the sleepers is a second less to be patient.
LEMMA TickKeeps == HttpInv /\ Tick => HttpInv'
<1> SUFFICES ASSUME HttpInv, Tick PROVE HttpInv'
  OBVIOUS
<1> USE HttpAssumption, Pauses
<1>1. UNCHANGED <<alive, nvdAt, nvdErrors, delay, nvdHeaders, nvdCurl, nvdTodo, limited,
                  lock, curl, at, errors, todo>>
  BY DEF Tick, nvd
<1>2. pause \in [Callers -> 0 .. LongestPause] /\ quiet \in 0 .. LongestPause
  BY DEF HttpInv, TypeOK
<1>3. quiet' = IF quiet = 0 THEN 0 ELSE quiet - 1
  BY <1>2, MaxOfTwo DEF Tick
<1>4. pause' = [w \in Callers |-> IF pause[w] = 0 THEN 0 ELSE pause[w] - 1]
  <2>1. \A w \in Callers : Max({0, pause[w] - 1}) = IF pause[w] = 0 THEN 0 ELSE pause[w] - 1
    BY <1>2, MaxOfTwo
  <2> QED
    BY <2>1 DEF Tick
<1>5. TypeOK'
  BY <1>1, <1>2, <1>3, <1>4 DEF HttpInv, TypeOK
<1>6. HandleOwned' /\ RequestsComplete' /\ Counts' /\ HandleWhole'
  BY <1>1 DEF HttpInv, HandleOwned, RequestsComplete, Counts, HandleWhole
<1>7. Patience'
  BY <1>1, <1>2, <1>3, <1>4 DEF HttpInv, Patience
<1> QED
  BY <1>5, <1>6, <1>7 DEF HttpInv

\* No step breaks the invariant.
LEMMA HttpStep == HttpInv /\ [Next]_vars => HttpInv'
<1> SUFFICES ASSUME HttpInv, [Next]_vars PROVE HttpInv'
  OBVIOUS
<1>1. CASE NvdNext
  BY <1>1, NvdKeeps
<1>2. ASSUME NEW w \in Callers, GithubNext(w) PROVE HttpInv'
  BY <1>2, CallKeeps, AskKeeps, AnswerKeeps DEF GithubNext
<1>3. CASE Tick
  BY <1>3, TickKeeps
<1>4. CASE UNCHANGED vars
  <2>1. TypeOK' /\ HandleOwned' /\ RequestsComplete'
    BY <1>4 DEF vars, nvd, github, HttpInv, TypeOK, HandleOwned, RequestsComplete
  <2>2. Counts' /\ HandleWhole' /\ Patience'
    BY <1>4 DEF vars, nvd, github, HttpInv, Counts, HandleWhole, Patience
  <2> QED
    BY <2>1, <2>2 DEF HttpInv
<1> QED
  BY <1>1, <1>2, <1>3, <1>4 DEF Next

\* The invariant holds whatever the servers answer and in whichever order the
\* threads run.
THEOREM HttpInvariance == Spec => []HttpInv
BY HttpInit, HttpStep, PTL DEF Spec

\* No counter of the retry loops passes its limit, and no delay its bound.
THEOREM HttpTypes == Spec => []TypeOK
<1>1. HttpInv => TypeOK
  BY DEF HttpInv
<1> QED
  BY HttpInvariance, <1>1, PTL

\* The handle of the GitHub client is the mutex owner's, and every way out of a
\* call gives the mutex back.
THEOREM Ownership == Spec => []HandleOwned
<1>1. HttpInv => HandleOwned
  BY DEF HttpInv
<1> QED
  BY HttpInvariance, <1>1, PTL

\* Every request has the headers of its client and a time limit, also the first
\* one after a reset.
THEOREM Completeness == Spec => []RequestsComplete
<1>1. HttpInv => RequestsComplete
  BY DEF HttpInv
<1> QED
  BY HttpInvariance, <1>1, PTL

\* No worker sends a request before the pause the last answer asked for is over.
THEOREM Patient == Spec => PatienceKept
<1>1. HttpInv => [\A w \in Callers : Ask(w) => quiet = 0]_vars
  <2> SUFFICES ASSUME HttpInv, NEW w \in Callers, Ask(w)
               PROVE  quiet = 0
    OBVIOUS
  <2> QED
    BY Pauses DEF Ask, HttpInv, TypeOK, Patience
<1> QED
  BY HttpInvariance, <1>1, PTL DEF PatienceKept

-----------------------------------------------------------------------------
(* The delay of the NVD client.                                            *)

\* A set of numbers has a least one.
LEMMA Least ==
  ASSUME NEW S \in SUBSET Nat, S # {}
  PROVE  \E n \in S : \A k \in S : n <= k
<1> DEFINE below == {ss \in Nat \X Nat : ss[1] < ss[2]}
<1>1. OpToRel(<, Nat) = below
  BY Zenon DEF OpToRel
<1>2. IsWellFoundedOn(below, Nat)
  BY <1>1, NatLessThanWellFounded, Zenon
<1>3. \E n \in S : \A k \in S : ~(<<k, n>> \in below)
  <2> HIDE DEF below
  <2> QED
    BY <1>2, WFMin, Zenon
<1>4. PICK n \in S : \A k \in S : ~(<<k, n>> \in below)
  BY <1>3
<1>5. ASSUME NEW k \in S PROVE n <= k
  <2>1. n \in Nat /\ k \in Nat /\ ~(<<k, n>> \in below)
    BY <1>4
  <2>2. <<k, n>> \in Nat \X Nat /\ <<k, n>>[1] = k /\ <<k, n>>[2] = n
    BY <2>1
  <2>3. ~(k < n)
    BY <2>1, <2>2
  <2> QED
    BY <2>1, <2>3
<1> QED
  BY <1>5

\* Induction over the numbers of a set.
LEMMA AllNumbers ==
  ASSUME NEW S, 0 \in S, \A n \in Nat : n \in S => n + 1 \in S
  PROVE  Nat \subseteq S
<1> DEFINE Wrong == Nat \ S
<1> SUFFICES ASSUME Wrong # {} PROVE FALSE
  OBVIOUS
<1>1. Wrong \in SUBSET Nat
  OBVIOUS
<1>2. PICK n : n \in Wrong /\ \A k \in Wrong : n <= k
  <2> HIDE DEF Wrong
  <2> QED
    BY <1>1, Least, Zenon
<1>3. n \in Nat /\ n # 0 /\ n \notin S
  BY <1>2
<1>4. n - 1 \in Nat /\ (n - 1) + 1 = n /\ ~(n <= n - 1)
  BY <1>3
<1>5. n - 1 \in S
  BY <1>2, <1>4
<1> QED
  BY <1>3, <1>4, <1>5

\* The recursive function that Doubled defines, as an equation.
DoublingTable(d, m) == d = [k \in 0 .. m |-> IF k = 0 THEN 1 ELSE 2 * d[k - 1]]

\* The table starts with a second, and every entry is twice the one before.
IsDoubling(d, m) == d[0] = 1 /\ \A k \in 1 .. m : d[k] = 2 * d[k - 1]

\* What solves the equation is a table of doublings.
LEMMA DoublingIs ==
  ASSUME NEW m \in Nat, NEW d, DoublingTable(d, m)
  PROVE  IsDoubling(d, m)
<1>1. \A k \in 0 .. m : d[k] = IF k = 0 THEN 1 ELSE 2 * d[k - 1]
  BY Zenon DEF DoublingTable
<1>2. 0 \in 0 .. m /\ \A k \in 1 .. m : k \in 0 .. m /\ k # 0
  OBVIOUS
<1>3. d[0] = 1
  BY <1>1, <1>2, Zenon
<1>4. \A k \in 1 .. m : d[k] = 2 * d[k - 1]
  BY <1>1, <1>2, Zenon
<1> QED
  BY <1>3, <1>4, Zenon DEF IsDoubling

\* A table can be carried one number further,
LEMMA DoublingGrows ==
  ASSUME NEW m \in Nat, NEW d, DoublingTable(d, m)
  PROVE  \E e : DoublingTable(e, m + 1)
<1> DEFINE next == 2 * d[m]
           e == [k \in 0 .. m + 1 |-> IF k = m + 1 THEN next ELSE d[k]]
<1>0. IsDoubling(d, m)
  BY DoublingIs
<1>1. ASSUME NEW k \in 0 .. m + 1 PROVE e[k] = IF k = 0 THEN 1 ELSE 2 * e[k - 1]
  <2>1. CASE k = m + 1
    <3>1. k # 0 /\ k - 1 \in 0 .. m + 1 /\ k - 1 # m + 1 /\ k - 1 = m
      BY <2>1
    <3> QED
      BY <2>1, <3>1, Zenon DEF next
  <2>2. CASE k # m + 1 /\ k = 0
    <3>1. e[k] = d[0]
      BY <2>2
    <3> QED
      BY <2>2, <3>1, <1>0, Zenon DEF IsDoubling
  <2>3. CASE k # m + 1 /\ k # 0
    <3>1. k \in 1 .. m /\ k - 1 \in 0 .. m + 1 /\ k - 1 # m + 1
      BY <2>3
    <3>2. e[k] = d[k] /\ e[k - 1] = d[k - 1]
      BY <2>3, <3>1, Zenon
    <3>3. d[k] = 2 * d[k - 1]
      BY <3>1, <1>0, Zenon DEF IsDoubling
    <3> QED
      BY <2>3, <3>2, <3>3, Zenon
  <2> QED
    BY <2>1, <2>2, <2>3
<1>2. e = [k \in 0 .. m + 1 |-> e[k]]
  OBVIOUS
<1> HIDE DEF e
<1>3. DoublingTable(e, m + 1)
  <2>1. [k \in 0 .. m + 1 |-> e[k]]
        = [k \in 0 .. m + 1 |-> IF k = 0 THEN 1 ELSE 2 * e[k - 1]]
    BY <1>1, Zenon
  <2> QED
    BY <1>2, <2>1, Zenon DEF DoublingTable
<1> QED
  BY <1>3, Zenon

\* so there is one for every number,
LEMMA DoublingExists ==
  ASSUME NEW m \in Nat
  PROVE  \E d : DoublingTable(d, m)
<1> DEFINE Have == {n \in Nat : \E d : DoublingTable(d, n)}
<1>1. 0 \in Have
  <2> DEFINE d == [k \in 0 .. 0 |-> 1]
  <2>1. d = [k \in 0 .. 0 |-> IF k = 0 THEN 1 ELSE 2 * d[k - 1]]
    OBVIOUS
  <2> HIDE DEF d
  <2>2. DoublingTable(d, 0)
    BY <2>1, Zenon DEF DoublingTable
  <2> QED
    BY <2>2
<1>2. ASSUME NEW n \in Nat, n \in Have PROVE n + 1 \in Have
  <2>1. PICK d : DoublingTable(d, n)
    BY <1>2
  <2>2. \E e : DoublingTable(e, n + 1)
    BY <2>1, DoublingGrows, Zenon
  <2> QED
    BY <2>2
<1>3. Nat \subseteq Have
  <2> HIDE DEF Have
  <2> QED
    BY <1>1, <1>2, AllNumbers, Zenon
<1> QED
  BY <1>3

\* and Doubled reads its last entry.
LEMMA DoubledIs ==
  ASSUME NEW m \in Nat
  PROVE  \E d : IsDoubling(d, m) /\ Doubled(m) = d[m]
<1> DEFINE w == CHOOSE d : d = [k \in 0 .. m |-> IF k = 0 THEN 1 ELSE 2 * d[k - 1]]
<1>1. Doubled(m) = w[m]
  BY Zenon DEF Doubled
<1>2. \E d : DoublingTable(d, m)
  BY DoublingExists, Zenon
<1>3. DoublingTable(w, m)
  BY <1>2, Zenon DEF DoublingTable
<1> HIDE DEF w
<1>4. IsDoubling(w, m)
  BY <1>3, DoublingIs, Zenon
<1> QED
  BY <1>1, <1>4, Zenon

\* Two tables agree as far as both go.
LEMMA DoublingOnce ==
  ASSUME NEW m \in Nat, NEW k \in Nat, m <= k, NEW d, IsDoubling(d, m), NEW e, IsDoubling(e, k)
  PROVE  d[m] = e[m]
<1> DEFINE Same == {n \in Nat : n <= m => d[n] = e[n]}
<1>1. 0 \in Same
  BY DEF IsDoubling
<1>2. ASSUME NEW n \in Nat, n \in Same PROVE n + 1 \in Same
  <2> SUFFICES ASSUME n + 1 <= m PROVE d[n + 1] = e[n + 1]
    OBVIOUS
  <2>1. n <= m /\ n + 1 \in 1 .. m /\ n + 1 \in 1 .. k /\ (n + 1) - 1 = n
    OBVIOUS
  <2>2. d[n + 1] = 2 * d[(n + 1) - 1] /\ e[n + 1] = 2 * e[(n + 1) - 1]
    BY <2>1, Zenon DEF IsDoubling
  <2>3. d[n] = e[n]
    BY <1>2, <2>1
  <2> QED
    BY <2>1, <2>2, <2>3, Zenon
<1>3. Nat \subseteq Same
  <2> HIDE DEF Same
  <2> QED
    BY <1>1, <1>2, AllNumbers, Zenon
<1> QED
  BY <1>3

\* Doubled doubles.
LEMMA Doubling ==
  /\ Doubled(0) = 1
  /\ \A n \in Nat : Doubled(n + 1) = 2 * Doubled(n)
<1>1. Doubled(0) = 1
  <2>1. PICK d : IsDoubling(d, 0) /\ Doubled(0) = d[0]
    BY DoubledIs
  <2> QED
    BY <2>1, Zenon DEF IsDoubling
<1>2. ASSUME NEW n \in Nat PROVE Doubled(n + 1) = 2 * Doubled(n)
  <2>1. PICK d : IsDoubling(d, n) /\ Doubled(n) = d[n]
    BY DoubledIs
  <2>2. n + 1 \in Nat /\ n <= n + 1 /\ n + 1 \in 1 .. n + 1 /\ (n + 1) - 1 = n
    OBVIOUS
  <2>3. PICK e : IsDoubling(e, n + 1) /\ Doubled(n + 1) = e[n + 1]
    BY <2>2, DoubledIs
  <2>4. d[n] = e[n]
    BY <2>1, <2>2, <2>3, DoublingOnce
  <2>5. e[n + 1] = 2 * e[(n + 1) - 1]
    BY <2>2, <2>3, Zenon DEF IsDoubling
  <2> QED
    BY <2>1, <2>2, <2>3, <2>4, <2>5, Zenon
<1> QED
  BY <1>1, <1>2

\* What is doubled is at least a second.
LEMMA DoubledPositive == \A n \in Nat : Doubled(n) \in Nat \ {0}
<1> DEFINE Good == {n \in Nat : Doubled(n) \in Nat \ {0}}
<1>1. 0 \in Good
  BY Doubling
<1>2. ASSUME NEW n \in Nat, n \in Good PROVE n + 1 \in Good
  <2>1. Doubled(n + 1) = 2 * Doubled(n) /\ Doubled(n) \in Nat \ {0}
    BY <1>2, Doubling
  <2> QED
    BY <2>1
<1>3. Nat \subseteq Good
  <2> HIDE DEF Good
  <2> QED
    BY <1>1, <1>2, AllNumbers, Zenon
<1> QED
  BY <1>3

\* An answer 429 keeps the delay up with the doublings.
LEMMA BackoffLimited ==
  ASSUME TypeOK, BackoffGrows, NvdLimited
  PROVE  BackoffGrows'
<1> USE HttpAssumption
<1>1. delay' = Slower(delay) /\ delay \in 0 .. NvdMaxDelay /\ limited \in 0 .. NvdMaxDelay
  BY DEF NvdLimited, TypeOK
<1>2. limited' = IF limited + 1 <= NvdMaxDelay THEN limited + 1 ELSE NvdMaxDelay
  BY <1>1, MinOfTwo DEF NvdLimited
<1>3. CASE delay > 0 /\ delay * 2 > NvdMaxDelay
  <2>1. delay' = delay
    BY <1>1, <1>3 DEF Slower
  <2> QED
    BY <1>3, <2>1 DEF BackoffGrows
<1>4. CASE delay > 0 /\ ~(delay * 2 > NvdMaxDelay)
  <2>1. delay' = delay * 2
    BY <1>1, <1>4 DEF Slower
  <2>2. CASE limited = 0
    <3>1. limited' - 1 = 0
      BY <1>2, <2>2
    <3>2. Doubled(limited' - 1) = 1
      BY <3>1, Doubling
    <3> QED
      BY <1>1, <1>4, <2>1, <3>2 DEF BackoffGrows
  <2>3. CASE limited > 0
    <3>1. limited - 1 \in Nat /\ delay >= Doubled(limited - 1)
      BY <1>1, <1>4, <2>3 DEF BackoffGrows
    <3>2. limited' - 1 = limited - 1 \/ limited' - 1 = (limited - 1) + 1
      BY <1>1, <1>2, <2>3
    <3>3. Doubled((limited - 1) + 1) = 2 * Doubled(limited - 1)
          /\ Doubled(limited - 1) \in Nat
      BY <3>1, Doubling, DoubledPositive
    <3>4. Doubled(limited' - 1) = Doubled(limited - 1)
          \/ Doubled(limited' - 1) = 2 * Doubled(limited - 1)
      BY <3>2, <3>3
    <3>5. delay * 2 >= Doubled(limited' - 1)
      BY <1>1, <3>1, <3>3, <3>4
    <3> QED
      BY <2>1, <3>5 DEF BackoffGrows
  <2> QED
    BY <1>1, <2>2, <2>3
<1>5. CASE delay = 0
  <2>1. delay' = 1
    BY <1>1, <1>5 DEF Slower
  <2>2. limited = 0
    <3> SUFFICES ASSUME limited > 0 PROVE FALSE
      BY <1>1
    <3>1. limited - 1 \in Nat
      BY <1>1
    <3>2. Doubled(limited - 1) \in Nat \ {0}
      BY <3>1, DoubledPositive
    <3> QED
      BY <1>5, <3>2 DEF BackoffGrows
  <2>3. limited' - 1 = 0
    BY <1>2, <2>2
  <2>4. Doubled(limited' - 1) = 1
    BY <2>3, Doubling
  <2> QED
    BY <2>1, <2>4 DEF BackoffGrows
<1> QED
  BY <1>1, <1>3, <1>4, <1>5

\* The delay of the NVD client grows as fast as the answers 429 come, until it is full.
THEOREM Backoff == Spec => []BackoffGrows
<1>1. Init => BackoffGrows
  BY DEF Init, BackoffGrows
<1>2. TypeOK /\ BackoffGrows /\ [Next]_vars => BackoffGrows'
  <2> SUFFICES ASSUME TypeOK, BackoffGrows, [Next]_vars PROVE BackoffGrows'
    OBVIOUS
  <2>1. CASE NvdLimited
    BY <2>1, BackoffLimited
  <2>2. CASE NvdUnexpected \/ NvdSuccess
    BY <2>2 DEF NvdUnexpected, NvdSuccess, BackoffGrows
  <2>3. CASE UNCHANGED <<delay, limited>>
    BY <2>3 DEF BackoffGrows
  <2>4. NvdLimited \/ NvdUnexpected \/ NvdSuccess \/ UNCHANGED <<delay, limited>>
    <3>1. ASSUME NEW w \in Callers, GithubNext(w) PROVE UNCHANGED nvd
      <4>1. CASE Call(w) \/ Ask(w)
        BY <4>1 DEF Call, Ask
      <4>2. CASE Unavailable(w) \/ Success(w) \/ Unexpected(w)
        BY <4>2 DEF Unavailable, Success, Unexpected, Answered
      <4>3. CASE TooMany(w) \/ ServerError(w) \/ LimitReached(w) \/ Forbidden(w)
        BY <4>3 DEF TooMany, ServerError, LimitReached, Forbidden, Answered
      <4> QED
        BY <3>1, <4>1, <4>2, <4>3, Zenon DEF GithubNext, Answer, Final
    <3>2. ASSUME Tick PROVE UNCHANGED nvd
      BY <3>2 DEF Tick
    <3>3. ASSUME NvdCall \/ NvdAsk PROVE UNCHANGED <<delay, limited>>
      BY <3>3 DEF NvdCall, NvdAsk
    <3>4. UNCHANGED nvd \/ UNCHANGED vars => UNCHANGED <<delay, limited>>
      BY DEF vars, nvd
    <3> QED
      BY <3>1, <3>2, <3>3, <3>4, Zenon DEF Next, NvdNext, NvdAnswer
  <2> QED
    BY <2>1, <2>2, <2>3, <2>4
<1> QED
  BY <1>1, <1>2, HttpTypes, PTL DEF Spec

=============================================================================
