---------------------------- MODULE ExportProofs ----------------------------
(***************************************************************************)
(* From GitHub's commit to the file of the dataset: the entry holds the    *)
(* versions of the commit's files and of its context that have been asked  *)
(* for, nothing is asked for twice, and the file of an exported commit is  *)
(* whole; for any commits, trees, limits and depths.                       *)
(***************************************************************************)
EXTENDS Export, TLAPS, FiniteSetTheorems, SequenceTheorems, WellFoundedInduction

\* The smaller of two numbers.
LEMMA Smaller ==
  ASSUME NEW m \in Nat, NEW n \in Nat
  PROVE  Min({m, n}) = IF m <= n THEN m ELSE n
<1>1. CASE m <= n
  <2>1. m \in {m, n} /\ \A y \in {m, n} : m <= y
    BY <1>1
  <2>2. \A x \in {m, n} : (\A y \in {m, n} : x <= y) => x = m
    BY <1>1
  <2> QED
    BY <1>1, <2>1, <2>2 DEF Min
<1>2. CASE ~(m <= n)
  <2>1. n \in {m, n} /\ \A y \in {m, n} : n <= y
    BY <1>2
  <2>2. \A x \in {m, n} : (\A y \in {m, n} : x <= y) => x = n
    BY <1>2
  <2> QED
    BY <1>2, <2>1, <2>2 DEF Min
<1> QED
  BY <1>1, <1>2

\* A set of numbers has a least one.
LEMMA FirstOf ==
  ASSUME NEW S \in SUBSET Nat, S # {}
  PROVE  Min(S) \in S /\ \A n \in S : Min(S) <= n
<1> DEFINE below == {ss \in Nat \X Nat : ss[1] < ss[2]}
<1>1. OpToRel(<, Nat) = below
  BY Zenon DEF OpToRel
<1>2. IsWellFoundedOn(below, Nat)
  BY <1>1, NatLessThanWellFounded, Zenon
<1>3. \E x \in S : \A y \in S : ~(<<y, x>> \in below)
  <2> HIDE DEF below
  <2> QED
    BY <1>2, WFMin, Zenon
<1>4. PICK x \in S : \A y \in S : ~(<<y, x>> \in below)
  BY <1>3
<1>5. ASSUME NEW y \in S PROVE x <= y
  <2>1. x \in Nat /\ y \in Nat /\ ~(<<y, x>> \in below)
    BY <1>4
  <2>2. <<y, x>> \in Nat \X Nat /\ <<y, x>>[1] = y /\ <<y, x>>[2] = x
    BY <2>1
  <2>3. ~(y < x)
    BY <2>1, <2>2
  <2> QED
    BY <2>1, <2>3
<1> QED
  BY <1>5, Zenon DEF Min

LEMMA Nothing ==
  DOMAIN <<>> = {} /\ ToSet(<<>>) = {} /\ \A S : <<>> \in Seq(S)
<1>1. DOMAIN <<>> = {}
  OBVIOUS
<1>2. \A S : <<>> \in Seq(S)
  OBVIOUS
<1> QED
  BY <1>1, <1>2 DEF ToSet

\* Every element is one of a sequence's own.
LEMMA OwnElements ==
  ASSUME NEW S, NEW s \in Seq(S)
  PROVE  s \in Seq(ToSet(s))
<1>1. Len(s) \in Nat /\ DOMAIN s = 1 .. Len(s) /\ s \in [1 .. Len(s) -> S]
  BY LenProperties
<1>2. s \in [1 .. Len(s) -> ToSet(s)]
  BY <1>1 DEF ToSet
<1> QED
  BY <1>1, <1>2

-----------------------------------------------------------------------------
(* The commit.                                                             *)

Given == config \in Configs /\ doc \in Documents /\ tree \in Trees[doc]

\* What GitHub lists of the commit is a prefix of its files.
LEMMA ListedFiles ==
  ASSUME Given
  PROVE  /\ Len(doc.files) \in Nat /\ DOMAIN doc.files = 1 .. Len(doc.files)
         /\ Len(Listed) \in Nat /\ DOMAIN Listed = 1 .. Len(Listed)
         /\ Len(Listed) = IF FilesPage <= Len(doc.files) THEN FilesPage ELSE Len(doc.files)
         /\ Len(Listed) <= Len(doc.files)
         /\ \A n \in DOMAIN Listed : n \in DOMAIN doc.files /\ Listed[n] = doc.files[n]
<1>1. PICK S : doc.files \in Seq(S)
  BY GithubAssumption DEF Given
<1>2. Len(doc.files) \in Nat /\ DOMAIN doc.files = 1 .. Len(doc.files)
  BY <1>1, LenProperties
<1>3. PICK m \in Nat : m = IF FilesPage <= Len(doc.files) THEN FilesPage ELSE Len(doc.files)
  BY <1>2, GithubAssumption
<1>4. Listed = SubSeq(doc.files, 1, m)
  BY <1>2, <1>3, Smaller, GithubAssumption DEF Listed
<1>5. m <= Len(doc.files)
  BY <1>2, <1>3, GithubAssumption
<1>6. /\ Len(Listed) = m /\ DOMAIN Listed = 1 .. m
      /\ \A n \in 1 .. m : Listed[n] = doc.files[n]
  BY <1>1, <1>2, <1>4, <1>5
<1> QED
  BY <1>2, <1>3, <1>5, <1>6

\* What add_new_file makes of a change is the version the commit finds and the one
\* it leaves, and a commit has neither twice.
LEMMA Versions ==
  ASSUME Given
  PROVE  /\ \A n \in DOMAIN doc.files :
              LET f == doc.files[n] IN
              /\ f.filename \in Paths /\ (f.status = "renamed" => f.previous \in Paths)
              /\ NewFile(f) = [status |-> f.status, path |-> New(f), previous |-> Old(f),
                               before |-> NULL, after |-> NULL]
              /\ New(f) \in Paths \cup {NULL} /\ Old(f) \in Paths \cup {NULL}
              /\ New(f) # NULL \/ Old(f) # NULL
         /\ \A n, k \in DOMAIN doc.files : n # k =>
              /\ New(doc.files[n]) = New(doc.files[k]) => New(doc.files[n]) = NULL
              /\ Old(doc.files[n]) = Old(doc.files[k]) => Old(doc.files[n]) = NULL
<1>1. \A n \in DOMAIN doc.files :
        /\ doc.files[n].filename \in Paths
        /\ doc.files[n].status = "renamed" => doc.files[n].previous \in Paths
  <2> SUFFICES ASSUME NEW n \in DOMAIN doc.files
               PROVE  /\ doc.files[n].filename \in Paths
                      /\ doc.files[n].status = "renamed" => doc.files[n].previous \in Paths
    OBVIOUS
  <2>1. doc.files \in Seq([status : STRING, filename : Paths, previous : Paths \cup {NULL}])
    BY GithubAssumption DEF Given
  <2>2. doc.files[n] \in [status : STRING, filename : Paths, previous : Paths \cup {NULL}]
    BY <2>1, ListedFiles, ElementOfSeq
  <2> QED
    BY <2>2, GithubAssumption DEF Given
<1>2. \A n \in DOMAIN doc.files :
        LET f == doc.files[n] IN
        /\ NewFile(f) = [status |-> f.status, path |-> New(f), previous |-> Old(f),
                         before |-> NULL, after |-> NULL]
        /\ New(f) = IF f.status = "removed" THEN NULL ELSE f.filename
        /\ Old(f) = IF f.status = "added" THEN NULL
                    ELSE IF f.status = "renamed" THEN f.previous ELSE f.filename
  BY DEF NewFile, New, Old
<1>3. NULL \notin Paths
  BY GithubAssumption
<1>4. \A n, k \in DOMAIN doc.files : n # k =>
        /\ New(doc.files[n]) = New(doc.files[k]) => New(doc.files[n]) = NULL
        /\ Old(doc.files[n]) = Old(doc.files[k]) => Old(doc.files[n]) = NULL
  <2> SUFFICES ASSUME NEW n \in DOMAIN doc.files, NEW k \in DOMAIN doc.files, n # k
               PROVE  /\ New(doc.files[n]) = New(doc.files[k]) => New(doc.files[n]) = NULL
                      /\ Old(doc.files[n]) = Old(doc.files[k]) => Old(doc.files[n]) = NULL
    OBVIOUS
  <2>1. /\ doc.files[n].filename # doc.files[k].filename
        /\ doc.files[n].status = "renamed" /\ doc.files[k].status = "renamed" =>
             doc.files[n].previous # doc.files[k].previous
        /\ doc.files[n].status = "renamed" => doc.files[n].previous # doc.files[k].filename
        /\ doc.files[k].status = "renamed" => doc.files[k].previous # doc.files[n].filename
    BY GithubAssumption DEF Given
  <2> QED
    BY <1>1, <1>2, <1>3, <2>1
<1> QED
  BY <1>1, <1>2, <1>3, <1>4

\* An accepted file has a status the parser knows and an extension the parsing
\* worker knows, before the commit and after.
LEMMA AcceptedFiles ==
  ASSUME Given, Offending = {}, NEW n \in DOMAIN Listed
  PROVE  LET f == doc.files[n] IN
         /\ f.status \in Statuses
         /\ Supported(f.filename)
         /\ f.status = "renamed" => Ext[f.previous] = Ext[f.filename]
         /\ Language(f.filename) \in {"c", "cpp"}
         /\ \A p \in {Old(f), New(f)} \ {NULL} : Language(p) = Language(f.filename)
<1>1. n \in DOMAIN doc.files /\ Listed[n] = doc.files[n]
  BY ListedFiles
<1>2. doc.files[n].status \in Statuses /\ Accepts(doc.files[n])
  BY <1>1 DEF Offending
<1>3. /\ Supported(doc.files[n].filename)
      /\ doc.files[n].status = "renamed" => Ext[doc.files[n].previous] = Ext[doc.files[n].filename]
  BY <1>2 DEF Accepts
<1>4. Ext[doc.files[n].filename] \in {".c", ".h", ".cpp", ".hpp"}
  BY <1>3 DEF Supported
<1>5. Language(doc.files[n].filename) \in {"c", "cpp"}
  BY <1>4 DEF Language
<1>6. ASSUME NEW p \in {Old(doc.files[n]), New(doc.files[n])} \ {NULL}
      PROVE  Language(p) = Language(doc.files[n].filename)
  <2>1. p = doc.files[n].filename
          \/ (p = doc.files[n].previous /\ doc.files[n].status = "renamed")
    BY DEF Old, New
  <2>2. Ext[p] = Ext[doc.files[n].filename]
    BY <1>3, <2>1
  <2> QED
    BY <2>2 DEF Language
<1> QED
  BY <1>2, <1>3, <1>5, <1>6

-----------------------------------------------------------------------------
(* What the steps have in common.                                          *)

\* A revision never changes.
LEMMA SameCommit ==
  ASSUME UNCHANGED given
  PROVE  /\ config' = config /\ doc' = doc /\ tree' = tree
         /\ Listed' = Listed /\ Offending' = Offending /\ HasParent' = HasParent
         /\ Truncated' = (listed' < Len(tree)) /\ Supportable' = Supportable
<1>1. config' = config /\ doc' = doc /\ tree' = tree
  BY DEF given
<1>2. Listed' = Listed
  BY <1>1 DEF Listed
<1>3. \A f : Accepts(f)' = Accepts(f)
  BY <1>1 DEF Accepts, Supported
<1>4. Offending' = Offending
  BY <1>2, <1>3 DEF Offending
<1>5. Supportable' = Supportable
  BY <1>1 DEF Supportable, Supported
<1> QED
  BY <1>1, <1>2, <1>4, <1>5 DEF HasParent, Truncated

LEMMA FileTyped ==
  ASSUME NEW status \in Statuses, NEW p \in Paths \cup {NULL}, NEW q \in Paths \cup {NULL},
         NEW before \in ({"before"} \X Paths) \cup {NULL},
         NEW after \in ({"after"} \X Paths) \cup {NULL}
  PROVE  [status |-> status, path |-> p, previous |-> q, before |-> before, after |-> after]
           \in FileStates
BY DEF FileStates

LEMMA InvGiven ==
  ASSUME TypeOK
  PROVE  Given
BY DEF TypeOK, Given

\* The loops start at the first element.
LEMMA Start ==
  ASSUME ContextSoFar,
         at \in {"probe commit", "parse commit", "count files", "probe context"}
  PROVE  i = 1
BY Zenon DEF ContextSoFar, Before

\* A commit that is rejected leaves nothing of its entry.
LEMMA Rejected ==
  ASSUME ExportInv, UNCHANGED given, UNCHANGED json, Reject, refused' \in BOOLEAN,
         RequestsSoFar'
  PROVE  ExportInv'
<1>1. Given
  BY InvGiven DEF ExportInv
<1>2. at' = "rejected" /\ files' = <<>> /\ context' = <<>> /\ i' = i /\ listed' = listed
  BY DEF Reject
<1>3. TypeOK'
  <2>1. <<>> \in Seq(FileStates) /\ DOMAIN <<>> = {}
    BY EmptySeq
  <2> QED
    BY <1>2, <2>1, SameCommit DEF ExportInv, TypeOK
<1>4. FilesSoFar'
  BY <1>2 DEF FilesSoFar, Over
<1>5. ContextSoFar'
  <2>1. context' \in Seq(ToSet(context')) /\ DOMAIN context' = {}
    BY <1>2, Nothing, Zenon
  <2>2. /\ at' \in Over /\ context' = <<>>
        /\ at' \notin Before \cup {"count files", "probe context"}
    BY <1>2 DEF Over, Before
  <2> QED
    BY <2>1, <2>2, Zenon DEF ContextSoFar
<1>6. ExportedIsWhole' /\ ExitedForAReason'
  BY <1>2 DEF ExportedIsWhole, ExitedForAReason
<1> QED
  BY <1>3, <1>4, <1>5, <1>6 DEF ExportInv

\* A step that leaves the files as they are.
LEMMA SameFiles ==
  ASSUME FilesSoFar, UNCHANGED given, files' = files,
         at \notin Before \cup Over, at' \notin Before \cup Over,
         \A n \in DOMAIN files : (BeforeFetched(n)' <=> BeforeFetched(n))
                                /\ (AfterFetched(n)' <=> AfterFetched(n)),
         at' # "count files" => Len(files) \in 1 .. config.maxCommit
  PROVE  FilesSoFar'
<1>1. at' \notin Before \cup {"rejected", "exported"}
  BY DEF Over
<1>2. HasParent' /\ Offending' = {} /\ Len(files') = Len(Listed')
  BY SameCommit DEF FilesSoFar
<1>3. ASSUME NEW n \in DOMAIN files'
      PROVE  files'[n] = [status |-> doc'.files[n].status,
                          path |-> New(doc'.files[n]), previous |-> Old(doc'.files[n]),
                          before |-> Fetched(BeforeFetched(n)', "before", Old(doc'.files[n])),
                          after |-> Fetched(AfterFetched(n)', "after", New(doc'.files[n]))]
  <2>1. n \in DOMAIN files
    OBVIOUS
  <2>2. files[n] = [status |-> doc.files[n].status,
                    path |-> New(doc.files[n]), previous |-> Old(doc.files[n]),
                    before |-> Fetched(BeforeFetched(n), "before", Old(doc.files[n])),
                    after |-> Fetched(AfterFetched(n), "after", New(doc.files[n]))]
    BY <2>1 DEF FilesSoFar
  <2>3. /\ Fetched(BeforeFetched(n)', "before", Old(doc.files[n]))
             = Fetched(BeforeFetched(n), "before", Old(doc.files[n]))
        /\ Fetched(AfterFetched(n)', "after", New(doc.files[n]))
             = Fetched(AfterFetched(n), "after", New(doc.files[n]))
    BY <2>1 DEF Fetched
  <2> QED
    BY <2>2, <2>3, SameCommit, Zenon
<1> QED
  BY <1>1, <1>2, <1>3, SameCommit DEF FilesSoFar

\* A step that leaves the context as it is, and the paths of the files.
LEMMA SameContext ==
  ASSUME ContextSoFar, UNCHANGED given, context' = context,
         at \notin Over, at' \notin Over,
         DOMAIN files' = DOMAIN files, \A n \in DOMAIN files : files'[n].path = files[n].path,
         \A n \in DOMAIN context : ContextFetched(n)' <=> ContextFetched(n),
         at' \in Before \cup {"count files", "probe context", "add context"} =>
           context = <<>> /\ i' = 1
  PROVE  ContextSoFar'
<1>1. /\ context' \in Seq(ToSet(context'))
      /\ \A n \in DOMAIN context' : context'[n].path \in Paths
      /\ \A n, k \in DOMAIN context' : context'[n].path = context'[k].path => n = k
  <2>1. /\ context \in Seq(ToSet(context))
        /\ \A n \in DOMAIN context : context[n].path \in Paths
        /\ \A n, k \in DOMAIN context : context[n].path = context[k].path => n = k
    BY DEF ContextSoFar
  <2> QED
    BY <2>1, Zenon
<1>2. \A k \in DOMAIN files' : k \in DOMAIN files /\ files'[k].path = files[k].path
  OBVIOUS
<1>3. ASSUME NEW n \in DOMAIN context'
      PROVE  LET p == context'[n].path IN
             /\ context'[n] = [path |-> p, content |-> Fetched(ContextFetched(n)', "after", p),
                               distances |-> context'[n].distances]
             /\ \A k \in DOMAIN files' : files'[k].path # p
             /\ \E k \in DOMAIN tree' : tree'[k].path = p /\ (at' = "add context" => k < i')
  <2>1. n \in DOMAIN context
    OBVIOUS
  <2>2. LET p == context[n].path IN
        /\ context[n] = [path |-> p, content |-> Fetched(ContextFetched(n), "after", p),
                         distances |-> context[n].distances]
        /\ \A k \in DOMAIN files : files[k].path # p
        /\ \E k \in DOMAIN tree : tree[k].path = p
    BY <2>1 DEF ContextSoFar
  <2>3. Fetched(ContextFetched(n)', "after", context[n].path)
          = Fetched(ContextFetched(n), "after", context[n].path)
    BY <2>1 DEF Fetched
  <2>4. at' # "add context"
    BY <2>1, Nothing
  <2> QED
    BY <1>2, <2>2, <2>3, <2>4, SameCommit
<1>4. at' \in Before \cup {"count files", "probe context", "rejected", "exported"} =>
        context' = <<>>
  BY DEF Over
<1> QED
  BY <1>1, <1>3, <1>4, Zenon DEF ContextSoFar

\* What has been answered stays answered while the entry keeps what it has.
LEMMA AnsweredGrows ==
  ASSUME at # "probe commit" => at' # "probe commit",
         at \notin Before \cup {"count files", "probe context"} =>
           at' \notin Before \cup {"count files", "probe context"},
         \A k \in DOMAIN files : BeforeFetched(k) =>
           k \in DOMAIN files' /\ files'[k].previous = files[k].previous /\ BeforeFetched(k)',
         \A k \in DOMAIN files : AfterFetched(k) =>
           k \in DOMAIN files' /\ files'[k].path = files[k].path /\ AfterFetched(k)',
         \A k \in DOMAIN context : ContextFetched(k) =>
           k \in DOMAIN context' /\ context'[k].path = context[k].path /\ ContextFetched(k)'
  PROVE  Answered \subseteq Answered'
<1> SUFFICES ASSUME NEW r \in Answered PROVE r \in Answered'
  OBVIOUS
<1>1. r \in Requests
  BY DEF Answered
<1>2. CASE r = Request("commit", "after", NULL) /\ at # "probe commit"
  BY <1>1, <1>2 DEF Answered
<1>3. CASE r = Request("tree", "after", NULL)
             /\ at \notin Before \cup {"count files", "probe context"}
  BY <1>1, <1>3 DEF Answered
<1>4. CASE \E k \in DOMAIN files :
             BeforeFetched(k) /\ r = Request("content", "before", files[k].previous)
  <2>1. PICK k \in DOMAIN files :
               BeforeFetched(k) /\ r = Request("content", "before", files[k].previous)
    BY <1>4
  <2>2. k \in DOMAIN files' /\ files'[k].previous = files[k].previous /\ BeforeFetched(k)'
    BY <2>1
  <2>3. \E l \in DOMAIN files' :
          BeforeFetched(l)' /\ r = Request("content", "before", files'[l].previous)
    BY <2>1, <2>2
  <2> QED
    BY <1>1, <2>3 DEF Answered
<1>5. CASE \E k \in DOMAIN files :
             AfterFetched(k) /\ r = Request("content", "after", files[k].path)
  <2>1. PICK k \in DOMAIN files :
               AfterFetched(k) /\ r = Request("content", "after", files[k].path)
    BY <1>5
  <2>2. k \in DOMAIN files' /\ files'[k].path = files[k].path /\ AfterFetched(k)'
    BY <2>1
  <2>3. \E l \in DOMAIN files' :
          AfterFetched(l)' /\ r = Request("content", "after", files'[l].path)
    BY <2>1, <2>2
  <2> QED
    BY <1>1, <2>3 DEF Answered
<1>6. CASE \E k \in DOMAIN context :
             ContextFetched(k) /\ r = Request("content", "after", context[k].path)
  <2>1. PICK k \in DOMAIN context :
               ContextFetched(k) /\ r = Request("content", "after", context[k].path)
    BY <1>6
  <2>2. k \in DOMAIN context' /\ context'[k].path = context[k].path /\ ContextFetched(k)'
    BY <2>1
  <2>3. \E l \in DOMAIN context' :
          ContextFetched(l)' /\ r = Request("content", "after", context'[l].path)
    BY <2>1, <2>2
  <2> QED
    BY <1>1, <2>3 DEF Answered
<1> QED
  BY <1>2, <1>3, <1>4, <1>5, <1>6 DEF Answered

\* A request that has not been answered yet is a new one.
LEMMA NewRequest ==
  ASSUME RequestsSoFar, at \notin Over, NEW r \in Requests \ Answered,
         requests' = Append(requests, r)
  PROVE  /\ requests' \in Seq(Requests)
         /\ \A n, k \in DOMAIN requests' : requests'[n] = requests'[k] => n = k
         /\ ToSet(requests') \subseteq Answered \cup {r}
<1>1. /\ requests \in Seq(Requests)
      /\ \A n, k \in DOMAIN requests : requests[n] = requests[k] => n = k
      /\ \A n \in DOMAIN requests : requests[n] \in Answered
  BY DEF RequestsSoFar, NothingAskedTwice, ToSet
<1>2. Len(requests) \in Nat /\ DOMAIN requests = 1 .. Len(requests)
  BY <1>1, LenProperties
<1>3. /\ requests' \in Seq(Requests)
      /\ DOMAIN requests' = 1 .. Len(requests) + 1
      /\ \A n \in DOMAIN requests : requests'[n] = requests[n]
      /\ requests'[Len(requests) + 1] = r
  BY <1>1, <1>2
<1>4. \A n \in DOMAIN requests' : n \in DOMAIN requests \/ n = Len(requests) + 1
  BY <1>2, <1>3
<1>5. \A n \in DOMAIN requests : requests[n] # r
  BY <1>1
<1>6. \A n, k \in DOMAIN requests' : requests'[n] = requests'[k] => n = k
  BY <1>1, <1>3, <1>4, <1>5
<1>7. ToSet(requests') \subseteq Answered \cup {r}
  BY <1>1, <1>3, <1>4 DEF ToSet
<1> QED
  BY <1>3, <1>6, <1>7

\* A request, when the next step of the commit is taken or the commit rejected.
LEMMA AskStep ==
  ASSUME RequestsSoFar, at \notin Over, NEW r \in Requests \ Answered,
         requests' = Append(requests, r),
         at' = "rejected" \/ (refused' = refused /\ Answered \cup {r} \subseteq Answered')
  PROVE  RequestsSoFar'
<1>1. /\ requests' \in Seq(Requests)
      /\ \A n, k \in DOMAIN requests' : requests'[n] = requests'[k] => n = k
      /\ ToSet(requests') \subseteq Answered \cup {r}
  BY NewRequest
<1>2. refused' => at' = "rejected"
  BY DEF RequestsSoFar, NothingAskedTwice, Over
<1>3. at' = "rejected" \/ ToSet(requests)' \subseteq Answered'
  BY <1>1 DEF ToSet
<1> QED
  BY <1>1, <1>2, <1>3 DEF RequestsSoFar, NothingAskedTwice, Over

\* A step that asks for nothing.
LEMMA SilentStep ==
  ASSUME RequestsSoFar, UNCHANGED <<requests, refused>>,
         refused => at' = "rejected",
         at' \in Over \/ (at \notin Over /\ Answered \subseteq Answered')
  PROVE  RequestsSoFar'
BY DEF RequestsSoFar, NothingAskedTwice, ToSet

-----------------------------------------------------------------------------
(* The steps of a GitHub worker.                                           *)

LEMMA ProbeCommitStep ==
  ASSUME ExportInv, ProbeCommit, UNCHANGED json
  PROVE  ExportInv'
<1> DEFINE r == Request("commit", "after", NULL)
<1>1. /\ at = "probe commit" /\ UNCHANGED given /\ requests' = Append(requests, r)
      /\ \/ Goto("parse commit") /\ refused' = refused
         \/ Reject /\ refused' = TRUE
  BY DEF ProbeCommit, Ask
<1>2. files = <<>> /\ context = <<>>
  BY <1>1 DEF ExportInv, FilesSoFar, ContextSoFar, Before
<1>3. r \in Requests \ Answered
  <2>1. DOMAIN <<>> = {}
    BY EmptySeq
  <2> QED
    BY <1>1, <1>2, <2>1 DEF Request, Requests, Answered, Before
<1>4. at \notin Over /\ RequestsSoFar
  BY <1>1 DEF ExportInv, Over
<1>5. CASE Reject /\ refused' = TRUE
  <2>1. RequestsSoFar'
    BY <1>1, <1>3, <1>4, <1>5, AskStep DEF Reject
  <2> QED
    BY <1>1, <1>5, <2>1, Rejected
<1>6. CASE Goto("parse commit") /\ refused' = refused
  <2>1. /\ at' = "parse commit" /\ files' = files /\ context' = context
        /\ i' = i /\ listed' = listed
    BY <1>6 DEF Goto, entry
  <2>2. TypeOK'
    BY <1>1, <1>6, <2>1, SameCommit DEF ExportInv, TypeOK
  <2>3. FilesSoFar'
    <3>1. at' \in Before /\ files' = <<>>
      BY <1>2, <2>1 DEF Before
    <3> QED
      BY <3>1, Zenon DEF FilesSoFar
  <2>4. ContextSoFar'
    <3>1. at' \in Before /\ context' = <<>>
      BY <1>2, <2>1 DEF Before
    <3>2. context' \in Seq(ToSet(context')) /\ DOMAIN context' = {}
      BY <3>1, Nothing, Zenon
    <3>3. i' = 1
      BY <1>1, <2>1, Start DEF ExportInv
    <3> QED
      BY <3>1, <3>2, <3>3, Zenon DEF ContextSoFar
  <2>5. Answered \cup {r} \subseteq Answered'
    <3>1. Answered \subseteq Answered'
      BY <1>1, <1>2, <2>1, Nothing, AnsweredGrows DEF Before
    <3>2. r \in Answered'
      BY <1>3, <2>1 DEF Answered
    <3> QED
      BY <3>1, <3>2
  <2>6. RequestsSoFar'
    BY <1>1, <1>3, <1>4, <1>6, <2>5, AskStep
  <2> QED
    BY <2>1, <2>2, <2>3, <2>4, <2>6 DEF ExportInv, ExportedIsWhole, ExitedForAReason
<1> QED
  BY <1>1, <1>5, <1>6

LEMMA ExitStep ==
  ASSUME ExportInv, Exit, UNCHANGED json
  PROVE  ExportInv'
<1>1. /\ at = "parse commit" /\ UnknownStatus /\ at' = "exited" /\ UNCHANGED given
      /\ UNCHANGED <<requests, refused>>
      /\ files' = files /\ context' = context /\ i' = i /\ listed' = listed
  BY DEF Exit, Goto, Silent, entry
<1>2. TypeOK'
  BY <1>1, SameCommit DEF ExportInv, TypeOK
<1>3. FilesSoFar'
  BY <1>1 DEF FilesSoFar, Over, Before
<1>4. ContextSoFar'
  <2>1. /\ context' \in Seq(ToSet(context'))
        /\ \A n \in DOMAIN context' : context'[n].path \in Paths
    <3>1. /\ context \in Seq(ToSet(context))
          /\ \A n \in DOMAIN context : context[n].path \in Paths
      BY DEF ExportInv, ContextSoFar
    <3> QED
      BY <1>1, <3>1, Zenon
  <2>2. /\ at' \in Over
        /\ at' \notin Before \cup {"count files", "probe context", "rejected", "exported"}
    BY <1>1 DEF Over, Before
  <2> QED
    BY <2>1, <2>2, Zenon DEF ContextSoFar
<1>5. RequestsSoFar'
  BY <1>1, SilentStep DEF ExportInv, RequestsSoFar, NothingAskedTwice, Over
<1>6. \E f \in ToSet(doc.files) : f.status \notin Statuses
  <2>1. Given
    BY InvGiven DEF ExportInv
  <2>2. Offending \subseteq DOMAIN Listed /\ DOMAIN Listed \subseteq Nat
    BY <2>1, ListedFiles DEF Offending
  <2>3. PICK n \in DOMAIN Listed : Listed[n].status \notin Statuses
    <3>1. Offending # {} /\ Listed[Min(Offending)].status \notin Statuses
      BY <1>1 DEF UnknownStatus
    <3>2. Min(Offending) \in Offending
      BY <2>2, <3>1, FirstOf
    <3> QED
      BY <2>2, <3>1, <3>2
  <2>4. n \in DOMAIN doc.files /\ doc.files[n].status \notin Statuses
    BY <2>1, <2>3, ListedFiles
  <2> QED
    BY <2>4 DEF ToSet
<1>7. ExitedForAReason'
  BY <1>1, <1>6, SameCommit DEF ExitedForAReason, Statuses
<1> QED
  BY <1>1, <1>2, <1>3, <1>4, <1>5, <1>7 DEF ExportInv, ExportedIsWhole

LEMMA ParseCommitStep ==
  ASSUME ExportInv, ParseCommit, UNCHANGED json
  PROVE  ExportInv'
<1>1. /\ at = "parse commit" /\ UNCHANGED given /\ UNCHANGED <<requests, refused>>
      /\ \/ /\ HasParent /\ Offending = {}
            /\ files' = [n \in DOMAIN Listed |-> NewFile(Listed[n])]
            /\ at' = "count files"
            /\ context' = context /\ i' = i /\ listed' = listed
         \/ Reject
  BY DEF ParseCommit, Silent
<1>2. /\ Given /\ TypeOK /\ RequestsSoFar /\ at \notin Over
      /\ files = <<>> /\ context = <<>>
  BY <1>1, InvGiven DEF ExportInv, Over, FilesSoFar, ContextSoFar, Before
<1>3. refused = FALSE
  BY <1>1, <1>2 DEF RequestsSoFar, NothingAskedTwice, TypeOK
<1>4. CASE Reject
  <2>1. RequestsSoFar'
    BY <1>1, <1>2, <1>3, <1>4, SilentStep DEF Reject, Over
  <2> QED
    BY <1>1, <1>3, <1>4, <2>1, Rejected
<1>5. CASE /\ HasParent /\ Offending = {}
           /\ files' = [n \in DOMAIN Listed |-> NewFile(Listed[n])]
           /\ at' = "count files"
           /\ context' = context /\ i' = i /\ listed' = listed
  <2>1. /\ Len(Listed) \in Nat /\ DOMAIN Listed = 1 .. Len(Listed)
        /\ \A n \in DOMAIN Listed : n \in DOMAIN doc.files /\ Listed[n] = doc.files[n]
    BY <1>2, ListedFiles
  <2>2. ASSUME NEW n \in DOMAIN Listed
        PROVE  LET f == doc.files[n] IN
               /\ files'[n] = [status |-> f.status, path |-> New(f), previous |-> Old(f),
                               before |-> NULL, after |-> NULL]
               /\ f.status \in Statuses
               /\ New(f) \in Paths \cup {NULL} /\ Old(f) \in Paths \cup {NULL}
    <3>1. files'[n] = NewFile(doc.files[n]) /\ n \in DOMAIN doc.files
      BY <1>5, <2>1
    <3>2. doc.files[n].status \in Statuses
      BY <1>2, <1>5, AcceptedFiles
    <3> QED
      BY <1>2, <3>1, <3>2, Versions
  <2>3. ASSUME NEW n \in DOMAIN Listed
        PROVE  files'[n] \in FileStates
    <3> DEFINE f == doc.files[n]
    <3>1. /\ NULL \in ({"before"} \X Paths) \cup {NULL}
          /\ NULL \in ({"after"} \X Paths) \cup {NULL}
      OBVIOUS
    <3>2. /\ f.status \in Statuses
          /\ New(f) \in Paths \cup {NULL} /\ Old(f) \in Paths \cup {NULL}
      BY <2>2
    <3>3. [status |-> f.status, path |-> New(f), previous |-> Old(f),
           before |-> NULL, after |-> NULL] \in FileStates
      BY <3>1, <3>2, FileTyped, Zenon
    <3> QED
      BY <2>2, <3>3
  <2>4. DOMAIN files' = 1 .. Len(Listed)
    BY <1>5, <2>1
  <2>5. files' \in Seq(FileStates) /\ Len(files') = Len(Listed)
    <3>1. files' = [n \in 1 .. Len(Listed) |-> files'[n]]
      BY <1>5, <2>1
    <3>2. files' \in [1 .. Len(Listed) -> FileStates]
      BY <2>1, <2>3, <3>1
    <3>3. files' \in Seq(FileStates)
      BY <2>1, <3>2, SeqDef
    <3> QED
      BY <2>1, <2>4, <3>3, LenProperties
  <2>6. TypeOK'
    BY <1>1, <1>2, <1>3, <1>5, <2>5, Nothing, SameCommit DEF TypeOK
  <2>7. FilesSoFar'
    <3>1. at' \notin Before \cup {"rejected", "exported"}
      BY <1>5 DEF Before
    <3>2. HasParent' /\ Offending' = {} /\ Len(files') = Len(Listed')
      BY <1>1, <1>5, <2>5, SameCommit
    <3>3. \A n : ~BeforeFetched(n)' /\ ~AfterFetched(n)'
      BY <1>5 DEF BeforeFetched, AfterFetched
    <3>4. ASSUME NEW n \in DOMAIN files'
          PROVE  files'[n] = [status |-> doc'.files[n].status,
                              path |-> New(doc'.files[n]), previous |-> Old(doc'.files[n]),
                              before |-> Fetched(BeforeFetched(n)', "before", Old(doc'.files[n])),
                              after |-> Fetched(AfterFetched(n)', "after", New(doc'.files[n]))]
      BY <1>1, <2>1, <2>2, <2>4, <3>3, SameCommit DEF Fetched
    <3> QED
      BY <1>5, <3>1, <3>2, <3>4 DEF FilesSoFar
  <2>8. ContextSoFar'
    <3>1. context' = <<>> /\ context' \in Seq(ToSet(context')) /\ DOMAIN context' = {}
      BY <1>2, <1>5, Nothing, Zenon
    <3>2. i' = 1
      BY <1>1, <1>5, Start DEF ExportInv
    <3> QED
      BY <3>1, <3>2, Zenon DEF ContextSoFar
  <2>9. RequestsSoFar'
    <3>1. Answered \subseteq Answered'
      BY <1>1, <1>2, <1>5, Nothing, AnsweredGrows DEF Before
    <3> QED
      BY <1>1, <1>2, <1>3, <3>1, SilentStep
  <2> QED
    BY <1>5, <2>6, <2>7, <2>8, <2>9 DEF ExportInv, ExportedIsWhole, ExitedForAReason
<1> QED
  BY <1>1, <1>4, <1>5

LEMMA CountFilesStep ==
  ASSUME ExportInv, CountFiles, UNCHANGED json
  PROVE  ExportInv'
<1>1. /\ at = "count files" /\ UNCHANGED given /\ UNCHANGED <<requests, refused>>
      /\ \/ Reject
         \/ /\ at' \in {"probe context", "count context"}
            /\ files' = files /\ context' = context /\ i' = i /\ listed' = listed
            /\ files # <<>> /\ ~(Len(files) > config.maxCommit)
  BY DEF CountFiles, Silent, Goto, entry, Exceeds
<1>2. /\ Given /\ TypeOK /\ FilesSoFar /\ ContextSoFar /\ RequestsSoFar /\ at \notin Over
      /\ context = <<>>
  BY <1>1, InvGiven DEF ExportInv, Over, ContextSoFar, Before
<1>3. refused = FALSE
  BY <1>1, <1>2 DEF RequestsSoFar, NothingAskedTwice, TypeOK
<1>4. CASE Reject
  <2>1. RequestsSoFar'
    BY <1>1, <1>2, <1>3, <1>4, SilentStep DEF Reject, Over
  <2> QED
    BY <1>1, <1>3, <1>4, <2>1, Rejected
<1>5. CASE /\ at' \in {"probe context", "count context"}
           /\ files' = files /\ context' = context /\ i' = i /\ listed' = listed
           /\ files # <<>> /\ ~(Len(files) > config.maxCommit)
  <2>1. Len(files) \in 1 .. config.maxCommit
    <3>1. files \in Seq(FileStates)
      BY <1>2 DEF TypeOK
    <3>2. config.maxCommit \in Nat
      BY <1>2, GithubAssumption DEF Given
    <3> QED
      <4>1. Len(files) \in Nat \ {0} /\ ~(Len(files) > config.maxCommit)
        BY <1>5, <3>1, EmptySeq, Zenon
      <4> QED
        BY <3>2, <4>1
  <2>2. TypeOK'
    BY <1>1, <1>2, <1>3, <1>5, SameCommit DEF TypeOK
  <2>3. \A n : /\ ~BeforeFetched(n)' /\ ~AfterFetched(n)' /\ ~ContextFetched(n)'
               /\ ~BeforeFetched(n) /\ ~AfterFetched(n) /\ ~ContextFetched(n)
    BY <1>1, <1>5 DEF BeforeFetched, AfterFetched, ContextFetched
  <2>4. at \notin Before /\ at' \notin Before /\ at' \notin Over
    BY <1>1, <1>5 DEF Before, Over
  <2>5. FilesSoFar'
    BY <1>1, <1>2, <1>5, <2>1, <2>3, <2>4, SameFiles
  <2>6. ContextSoFar'
    <3>1. i' = 1
      BY <1>1, <1>2, <1>5, Start
    <3> QED
      BY <1>1, <1>2, <1>5, <2>3, <2>4, <3>1, SameContext
  <2>7. RequestsSoFar'
    <3>1. Answered \subseteq Answered'
      BY <1>1, <1>5, <2>3, AnsweredGrows DEF Before
    <3> QED
      BY <1>1, <1>2, <1>3, <3>1, SilentStep
  <2> QED
    BY <1>5, <2>2, <2>5, <2>6, <2>7 DEF ExportInv, ExportedIsWhole, ExitedForAReason
<1> QED
  BY <1>1, <1>4, <1>5

LEMMA ProbeContextStep ==
  ASSUME ExportInv, ProbeContext, UNCHANGED json
  PROVE  ExportInv'
<1> DEFINE r == Request("tree", "after", NULL)
<1>1. /\ at = "probe context" /\ UNCHANGED given /\ requests' = Append(requests, r)
      /\ \/ /\ listed' \in 0 .. Len(tree) /\ at' = "add context"
            /\ files' = files /\ context' = context /\ i' = i /\ refused' = refused
         \/ Reject /\ refused' = TRUE
  <2>1. Len(tree) \in Nat
    BY InvGiven, GithubAssumption DEF ExportInv, Given
  <2>2. \A limit \in TreeLimits : Min({limit, Len(tree)}) \in 0 .. Len(tree)
    BY <2>1, Smaller, GithubAssumption
  <2> QED
    BY <2>2 DEF ProbeContext, Ask, entry
<1>2. /\ Given /\ TypeOK /\ FilesSoFar /\ ContextSoFar /\ RequestsSoFar /\ at \notin Over
      /\ context = <<>> /\ at \notin Before
  BY <1>1, InvGiven DEF ExportInv, Over, ContextSoFar, Before
<1>3. \A n : ~BeforeFetched(n) /\ ~AfterFetched(n) /\ ~ContextFetched(n)
  BY <1>1 DEF BeforeFetched, AfterFetched, ContextFetched
<1>4. r \in Requests \ Answered
  BY <1>1, <1>3 DEF Request, Requests, Answered
<1>5. CASE Reject /\ refused' = TRUE
  <2>1. RequestsSoFar'
    BY <1>1, <1>2, <1>4, <1>5, AskStep DEF Reject
  <2> QED
    BY <1>1, <1>5, <2>1, Rejected
<1>6. CASE /\ listed' \in 0 .. Len(tree) /\ at' = "add context"
           /\ files' = files /\ context' = context /\ i' = i /\ refused' = refused
  <2>1. TypeOK'
    <3>1. i' = 1
      BY <1>1, <1>2, <1>6, Start, Zenon
    <3>2. listed' \in Nat
      <4>1. Len(tree) \in Nat /\ listed' \in 0 .. Len(tree)
        BY <1>2, <1>6, GithubAssumption, Zenon DEF Given
      <4> QED
        BY <4>1
    <3>3. i' \in 1 .. listed' + 1
      <4>1. \A m \in Nat : 1 \in 1 .. m + 1
        OBVIOUS
      <4> QED
        BY <3>1, <3>2, <4>1, Zenon
    <3> QED
      <4>1. config' = config /\ doc' = doc /\ tree' = tree
        BY <1>1, SameCommit
      <4>2. files' = files /\ context' = context /\ refused' = refused
        BY <1>6
      <4>3. at' = "add context" /\ listed' \in 0 .. Len(tree)
        BY <1>6, Zenon
      <4> QED
        BY <1>2, <3>3, <4>1, <4>2, <4>3 DEF TypeOK
  <2>2. \A n : ~BeforeFetched(n)' /\ ~AfterFetched(n)' /\ ~ContextFetched(n)'
    BY <1>6 DEF BeforeFetched, AfterFetched, ContextFetched
  <2>3. at' \notin Before /\ at' \notin Over /\ at # "count files"
    BY <1>1, <1>6 DEF Before, Over
  <2>4. FilesSoFar'
    <3>1. Len(files) \in 1 .. config.maxCommit
      BY <1>2, <2>3 DEF FilesSoFar
    <3> QED
      BY <1>1, <1>2, <1>3, <1>6, <2>2, <2>3, <3>1, SameFiles
  <2>5. ContextSoFar'
    <3>1. i' = 1
      BY <1>1, <1>2, <1>6, Start
    <3> QED
      BY <1>1, <1>2, <1>3, <1>6, <2>2, <2>3, <3>1, SameContext
  <2>6. Answered \cup {r} \subseteq Answered'
    <3>1. Answered \subseteq Answered'
      BY <1>1, <1>3, <1>6, AnsweredGrows DEF Before
    <3>2. r \in Answered'
      BY <1>4, <1>6 DEF Answered, Before
    <3> QED
      BY <3>1, <3>2
  <2>7. RequestsSoFar'
    BY <1>1, <1>2, <1>4, <1>6, <2>6, AskStep
  <2> QED
    BY <1>6, <2>1, <2>4, <2>5, <2>7 DEF ExportInv, ExportedIsWhole, ExitedForAReason
<1> QED
  BY <1>1, <1>5, <1>6

\* A file of the tree that joins the context is a new one there.
LEMMA ContextGrows ==
  ASSUME TypeOK, ContextSoFar, AddContextFile
  PROVE  ContextSoFar'
<1>1. /\ at = "add context" /\ i <= listed /\ UNCHANGED given
      /\ at' = at /\ files' = files /\ i' = i + 1
      /\ context' = IF IsContext(tree[i]) THEN Append(context, NewContextFile(tree[i].path))
                    ELSE context
  BY DEF AddContextFile, Silent
<1>2. /\ context \in Seq(ToSet(context))
      /\ \A n \in DOMAIN context : context[n].path \in Paths
      /\ \A n \in DOMAIN context :
           LET p == context[n].path IN
           /\ context[n] = [path |-> p, content |-> Fetched(ContextFetched(n), "after", p),
                            distances |-> context[n].distances]
           /\ \A k \in DOMAIN files : files[k].path # p
           /\ \E k \in DOMAIN tree : tree[k].path = p /\ (at = "add context" => k < i)
      /\ \A n, k \in DOMAIN context : context[n].path = context[k].path => n = k
  BY <1>1 DEF ContextSoFar, Over
<1>3. context \in Seq(ToSet(context))
  BY <1>2, Zenon
<1>4. \A n \in DOMAIN context : context[n].path \in Paths
  BY <1>2, Zenon
<1>5. \A n, k \in DOMAIN context : context[n].path = context[k].path => n = k
  BY <1>2, Zenon
<1>6. /\ Len(tree) \in Nat /\ DOMAIN tree = 1 .. Len(tree)
      /\ \A n \in DOMAIN tree : tree[n].type = "blob" => tree[n].path \in Paths
      /\ \A n, k \in DOMAIN tree : tree[n].path = tree[k].path => n = k
  BY GithubAssumption DEF TypeOK
<1>7. i \in DOMAIN tree
  <2>1. listed \in 0 .. Len(tree) /\ i \in 1 .. listed + 1
    BY <1>1 DEF TypeOK
  <2>2. i <= listed
    BY <1>1, Zenon
  <2> QED
    BY <1>6, <2>1, <2>2
<1>8. Len(context) \in Nat /\ DOMAIN context = 1 .. Len(context)
  BY <1>2, LenProperties
<1>9. \A n : ~ContextFetched(n) /\ ~ContextFetched(n)'
  BY <1>1 DEF ContextFetched
<1>10. \A n \in DOMAIN context :
        context[n] = [path |-> context[n].path, content |-> NULL,
                      distances |-> context[n].distances]
  BY <1>2, <1>9 DEF Fetched
<1>11. tree' = tree
  BY <1>1, SameCommit
<1>12. \A n \in DOMAIN context :
        \E k \in DOMAIN tree : tree[k].path = context[n].path /\ k < i
  BY <1>1, <1>2
<1>13. CASE ~IsContext(tree[i])
  <2>1. context' = context
    BY <1>1, <1>13
  <2>2. \A n \in DOMAIN context :
          \E k \in DOMAIN tree : tree[k].path = context[n].path /\ k < i + 1
    BY <1>6, <1>7, <1>12
  <2>3. ASSUME NEW n \in DOMAIN context'
        PROVE  LET p == context'[n].path IN
               /\ context'[n] = [path |-> p, content |-> Fetched(ContextFetched(n)', "after", p),
                                 distances |-> context'[n].distances]
               /\ \A k \in DOMAIN files' : files'[k].path # p
               /\ \E k \in DOMAIN tree' : tree'[k].path = p /\ (at' = "add context" => k < i')
    <3>1. context'[n] = context[n] /\ n \in DOMAIN context
      BY <2>1
    <3>2. Fetched(ContextFetched(n)', "after", context[n].path) = NULL
      BY <1>9, Zenon DEF Fetched
    <3>3. /\ context[n] = [path |-> context[n].path, content |-> NULL,
                           distances |-> context[n].distances]
          /\ \A k \in DOMAIN files : files[k].path # context[n].path
          /\ \E k \in DOMAIN tree : tree[k].path = context[n].path /\ k < i + 1
      BY <1>2, <1>10, <2>2, <3>1, Zenon
    <3> QED
      BY <1>1, <1>11, <3>1, <3>2, <3>3, Zenon
  <2>4. at' \notin Before \cup {"count files", "probe context", "rejected", "exported"}
    BY <1>1 DEF Before
  <2> QED
    BY <1>2, <2>1, <2>3, <2>4, Zenon DEF ContextSoFar
<1>14. CASE IsContext(tree[i])
  <2>1. PICK x : x = NewContextFile(tree[i].path)
    OBVIOUS
  <2>2. x = [path |-> tree[i].path, content |-> NULL, distances |-> x.distances]
    BY <2>1 DEF NewContextFile
  <2>3. /\ tree[i].path \in Paths
        /\ \A k \in DOMAIN files : files[k].path # tree[i].path
    BY <1>6, <1>7, <1>14 DEF IsContext, AlreadyInCommit
  <2>4. context' = Append(context, x)
    <3>1. context' = IF IsContext(tree[i])
                     THEN Append(context, NewContextFile(tree[i].path)) ELSE context
      BY <1>1, Zenon
    <3> QED
      BY <1>14, <2>1, <3>1, Zenon
  <2>5. PICK m \in Nat : m = Len(context)
    BY <1>8
  <2>6. /\ DOMAIN context' = 1 .. m + 1
        /\ \A n \in 1 .. m : context'[n] = context[n]
        /\ context'[m + 1] = x
        /\ context' \in Seq(ToSet(context) \cup {x})
    <3>1. PICK S : S = ToSet(context) \cup {x}
      OBVIOUS
    <3>2. context \in Seq(S) /\ x \in S
      BY <1>3, <3>1, SeqMonotonic
    <3>3. PICK s : s = Append(context, x)
      OBVIOUS
    <3>4. /\ DOMAIN s = 1 .. m + 1 /\ s \in Seq(S)
          /\ \A n \in 1 .. m : s[n] = context[n]
          /\ s[m + 1] = x
      BY <2>5, <3>2, <3>3
    <3> QED
      BY <2>4, <3>1, <3>3, <3>4, Zenon
  <2>7. context' \in Seq(ToSet(context'))
    BY <2>6, OwnElements
  <2>8. \A n \in DOMAIN context' : n \in DOMAIN context \/ n = m + 1
    BY <1>8, <2>5, <2>6
  <2>9. \A n \in DOMAIN context' : context'[n].path \in Paths
    <3> SUFFICES ASSUME NEW n \in DOMAIN context'
                 PROVE  context'[n].path \in Paths
      OBVIOUS
    <3>1. x.path = tree[i].path
      BY <2>2
    <3>2. CASE n \in DOMAIN context
      BY <1>8, <1>4, <2>5, <2>6, <3>2, Zenon
    <3>3. CASE n = m + 1
      BY <2>3, <2>6, <3>1, <3>3, Zenon
    <3> QED
      BY <2>8, <3>2, <3>3
  <2>10. \A n \in DOMAIN context : context[n].path # tree[i].path
    <3> SUFFICES ASSUME NEW n \in DOMAIN context, context[n].path = tree[i].path
                 PROVE  FALSE
      OBVIOUS
    <3>1. PICK k \in DOMAIN tree : tree[k].path = context[n].path /\ k < i
      BY <1>12
    <3>2. k = i
      BY <1>6, <1>7, <3>1
    <3> QED
      BY <1>6, <3>1, <3>2
  <2>11. \A n, k \in DOMAIN context' : context'[n].path = context'[k].path => n = k
    <3> SUFFICES ASSUME NEW n \in DOMAIN context', NEW k \in DOMAIN context',
                        context'[n].path = context'[k].path
                 PROVE  n = k
      OBVIOUS
    <3>1. x.path = tree[i].path
      BY <2>2
    <3>2. \A l \in DOMAIN context : context'[l] = context[l]
      BY <1>8, <2>5, <2>6, Zenon
    <3>3. context'[m + 1].path = tree[i].path
      BY <2>6, <3>1, Zenon
    <3> QED
      BY <1>5, <2>8, <2>10, <3>2, <3>3, Zenon
  <2>12. ASSUME NEW n \in DOMAIN context'
         PROVE  LET p == context'[n].path IN
                /\ context'[n] = [path |-> p, content |-> Fetched(ContextFetched(n)', "after", p),
                                  distances |-> context'[n].distances]
                /\ \A k \in DOMAIN files' : files'[k].path # p
                /\ \E k \in DOMAIN tree' : tree'[k].path = p /\ (at' = "add context" => k < i')
    <3>1. Fetched(ContextFetched(n)', "after", context'[n].path) = NULL
      BY <1>9 DEF Fetched
    <3>2. CASE n \in DOMAIN context
      <4>1. context'[n] = context[n]
        BY <1>8, <2>5, <2>6, <3>2
      <4>2. \E k \in DOMAIN tree : tree[k].path = context[n].path /\ k < i + 1
        BY <1>6, <1>7, <1>12, <3>2
      <4>3. \A k \in DOMAIN files : files[k].path # context[n].path
        BY <1>2, <3>2
      <4>4. context[n] = [path |-> context[n].path, content |-> NULL,
                          distances |-> context[n].distances]
        BY <1>10, <3>2
      <4> QED
        BY <1>1, <1>11, <3>1, <4>1, <4>2, <4>3, <4>4, Zenon
    <3>3. CASE n = m + 1
      <4>1. context'[n] = x
        BY <2>6, <3>3
      <4>2. x.path = tree[i].path /\ i \in DOMAIN tree /\ i < i + 1
        BY <1>6, <1>7, <2>2
      <4> QED
        BY <1>1, <1>11, <2>2, <2>3, <3>1, <4>1, <4>2, Zenon
    <3> QED
      BY <2>8, <3>2, <3>3
  <2>13. at' \notin Before \cup {"count files", "probe context", "rejected", "exported"}
    BY <1>1 DEF Before
  <2> QED
    BY <2>7, <2>9, <2>11, <2>12, <2>13, Zenon DEF ContextSoFar
<1> QED
  BY <1>13, <1>14

LEMMA AddContextFileStep ==
  ASSUME ExportInv, AddContextFile, UNCHANGED json
  PROVE  ExportInv'
<1>1. /\ at = "add context" /\ at' = at /\ UNCHANGED given /\ UNCHANGED <<requests, refused>>
      /\ files' = files /\ i' = i + 1 /\ listed' = listed /\ i <= listed
      /\ \/ context' = context
         \/ context' = Append(context, NewContextFile(tree[i].path))
  BY DEF AddContextFile, Silent
<1>2. /\ Given /\ TypeOK /\ FilesSoFar /\ ContextSoFar /\ RequestsSoFar
      /\ at \notin Over /\ at \notin Before
  BY <1>1, InvGiven DEF ExportInv, Over, Before
<1>3. refused = FALSE
  BY <1>1, <1>2 DEF RequestsSoFar, NothingAskedTwice, TypeOK
<1>4. \A n : /\ ~BeforeFetched(n) /\ ~AfterFetched(n) /\ ~ContextFetched(n)
             /\ ~BeforeFetched(n)' /\ ~AfterFetched(n)' /\ ~ContextFetched(n)'
  BY <1>1 DEF BeforeFetched, AfterFetched, ContextFetched
<1>5. ContextSoFar'
  BY <1>2, ContextGrows
<1>6. TypeOK'
  <2>1. /\ config' \in Configs /\ doc' \in Documents /\ tree' \in Trees[doc']
        /\ files' \in Seq(FileStates) /\ refused' \in BOOLEAN
        /\ listed' \in 0 .. Len(tree')
    BY <1>1, <1>2, <1>3, SameCommit DEF TypeOK
  <2>2. i' \in 1 .. listed' + 1
    <3>1. Len(tree) \in Nat
      BY <1>2, GithubAssumption DEF Given
    <3>2. listed \in 0 .. Len(tree) /\ i \in 1 .. listed + 1
      BY <1>1, <1>2 DEF TypeOK
    <3>3. i <= listed
      BY <1>1, Zenon
    <3>4. i + 1 \in 1 .. listed + 1
      BY <3>1, <3>2, <3>3
    <3> QED
      BY <1>1, <3>4, Zenon
  <2>3. \A n \in DOMAIN context' :
          /\ context'[n].path \in Paths
          /\ context'[n].content \in ({"after"} \X Paths) \cup {NULL}
    <3> SUFFICES ASSUME NEW n \in DOMAIN context'
                 PROVE  /\ context'[n].path \in Paths
                        /\ context'[n].content \in ({"after"} \X Paths) \cup {NULL}
      OBVIOUS
    <3>1. context'[n].path \in Paths
      BY <1>5, Zenon DEF ContextSoFar
    <3>2. context'[n] = [path |-> context'[n].path,
                         content |-> Fetched(ContextFetched(n)', "after", context'[n].path),
                         distances |-> context'[n].distances]
      BY <1>1, <1>2, <1>5, Zenon DEF ContextSoFar
    <3>3. Fetched(ContextFetched(n)', "after", context'[n].path) = NULL
      BY <1>4, Zenon DEF Fetched
    <3> QED
      BY <3>1, <3>2, <3>3
  <2>4. at' = "add context"
    BY <1>1, Zenon
  <2> QED
    BY <2>1, <2>2, <2>3, <2>4 DEF TypeOK
<1>7. FilesSoFar'
  <2>1. Len(files) \in 1 .. config.maxCommit
    BY <1>1, <1>2 DEF FilesSoFar
  <2> QED
    BY <1>1, <1>2, <1>4, <2>1, SameFiles
<1>8. RequestsSoFar'
  <2>1. Answered \subseteq Answered'
    BY <1>1, <1>4, AnsweredGrows
  <2> QED
    BY <1>1, <1>2, <1>3, <2>1, SilentStep
<1> QED
  BY <1>1, <1>5, <1>6, <1>7, <1>8 DEF ExportInv, ExportedIsWhole, ExitedForAReason

LEMMA ContextAddedStep ==
  ASSUME ExportInv, ContextAdded, UNCHANGED json
  PROVE  ExportInv'
<1>1. /\ at = "add context" /\ at' = "count context" /\ UNCHANGED given
      /\ UNCHANGED <<requests, refused>>
      /\ files' = files /\ context' = context /\ i' = i /\ listed' = listed
  BY DEF ContextAdded, Goto, Silent, entry
<1>2. /\ Given /\ TypeOK /\ FilesSoFar /\ ContextSoFar /\ RequestsSoFar
      /\ at \notin Over /\ at \notin Before /\ at' \notin Over /\ at' \notin Before
  BY <1>1, InvGiven DEF ExportInv, Over, Before
<1>3. refused = FALSE
  BY <1>1, <1>2 DEF RequestsSoFar, NothingAskedTwice, TypeOK
<1>4. \A n : /\ ~BeforeFetched(n) /\ ~AfterFetched(n) /\ ~ContextFetched(n)
             /\ ~BeforeFetched(n)' /\ ~AfterFetched(n)' /\ ~ContextFetched(n)'
  BY <1>1 DEF BeforeFetched, AfterFetched, ContextFetched
<1>5. TypeOK'
  BY <1>1, <1>2, <1>3, SameCommit DEF TypeOK
<1>6. FilesSoFar'
  <2>1. Len(files) \in 1 .. config.maxCommit
    BY <1>1, <1>2 DEF FilesSoFar
  <2> QED
    BY <1>1, <1>2, <1>4, <2>1, SameFiles
<1>7. ContextSoFar'
  BY <1>1, <1>2, <1>4, SameContext
<1>8. RequestsSoFar'
  <2>1. Answered \subseteq Answered'
    BY <1>1, <1>4, AnsweredGrows DEF Before
  <2> QED
    BY <1>1, <1>2, <1>3, <2>1, SilentStep
<1> QED
  BY <1>1, <1>5, <1>6, <1>7, <1>8 DEF ExportInv, ExportedIsWhole, ExitedForAReason

LEMMA CountContextStep ==
  ASSUME ExportInv, CountContext, UNCHANGED json
  PROVE  ExportInv'
<1>1. /\ at = "count context" /\ UNCHANGED given /\ UNCHANGED <<requests, refused>>
      /\ \/ Reject
         \/ /\ at' = "before" /\ i' = 1
            /\ files' = files /\ context' = context /\ listed' = listed
  BY DEF CountContext, Silent, entry
<1>2. /\ Given /\ TypeOK /\ FilesSoFar /\ ContextSoFar /\ RequestsSoFar
      /\ at \notin Over /\ at \notin Before
  BY <1>1, InvGiven DEF ExportInv, Over, Before
<1>3. refused = FALSE
  BY <1>1, <1>2 DEF RequestsSoFar, NothingAskedTwice, TypeOK
<1>4. CASE Reject
  <2>1. RequestsSoFar'
    BY <1>1, <1>2, <1>3, <1>4, SilentStep DEF Reject, Over
  <2> QED
    BY <1>1, <1>3, <1>4, <2>1, Rejected
<1>5. CASE /\ at' = "before" /\ i' = 1
           /\ files' = files /\ context' = context /\ listed' = listed
  <2>1. Len(files) \in Nat /\ DOMAIN files = 1 .. Len(files)
    BY <1>2, LenProperties DEF TypeOK
  <2>2. \A n \in DOMAIN files : /\ ~BeforeFetched(n) /\ ~AfterFetched(n)
                                /\ ~BeforeFetched(n)' /\ ~AfterFetched(n)'
    <3>1. \A n \in DOMAIN files : ~(n < 1)
      BY <2>1
    <3>2. at = "count context" /\ at' = "before" /\ i' = 1
      BY <1>1, <1>5, Zenon
    <3> QED
      BY <3>1, <3>2 DEF BeforeFetched, AfterFetched
  <2>3. \A n : ~ContextFetched(n) /\ ~ContextFetched(n)'
    BY <1>1, <1>5 DEF ContextFetched
  <2>4. at' \notin Over /\ at' \notin Before
    BY <1>5 DEF Over, Before
  <2>5. TypeOK'
    <3>1. Len(files) \in 1 .. config.maxCommit
      BY <1>1, <1>2 DEF FilesSoFar
    <3>2. i' \in 1 .. Len(files') + 1
      BY <1>5, <2>1
    <3> QED
      BY <1>1, <1>2, <1>3, <1>5, <3>2, SameCommit DEF TypeOK
  <2>6. FilesSoFar'
    <3>1. Len(files) \in 1 .. config.maxCommit
      BY <1>1, <1>2 DEF FilesSoFar
    <3> QED
      BY <1>1, <1>2, <1>5, <2>2, <2>4, <3>1, SameFiles
  <2>7. ContextSoFar'
    BY <1>1, <1>2, <1>5, <2>3, <2>4, SameContext DEF Before
  <2>8. RequestsSoFar'
    <3>1. Answered \subseteq Answered'
      BY <1>1, <1>5, <2>2, <2>3, AnsweredGrows DEF Before
    <3> QED
      BY <1>1, <1>2, <1>3, <3>1, SilentStep
  <2> QED
    BY <1>5, <2>5, <2>6, <2>7, <2>8 DEF ExportInv, ExportedIsWhole, ExitedForAReason
<1> QED
  BY <1>1, <1>4, <1>5

-----------------------------------------------------------------------------
(* The downloads.                                                          *)

\* The files of an entry are those of the commit, none of them twice.
LEMMA Held ==
  ASSUME ExportInv, at \in {"before", "after", "context", "accepted"}
  PROVE  /\ Len(files) \in Nat /\ DOMAIN files = 1 .. Len(files)
         /\ Len(files) \in 1 .. config.maxCommit
         /\ \A n \in DOMAIN files :
              LET f == doc.files[n] IN
              /\ n \in DOMAIN Listed /\ n \in DOMAIN doc.files
              /\ files[n] = [status |-> f.status, path |-> New(f), previous |-> Old(f),
                             before |-> Fetched(BeforeFetched(n), "before", Old(f)),
                             after |-> Fetched(AfterFetched(n), "after", New(f))]
              /\ files[n].path = New(f) /\ New(f) \in Paths \cup {NULL}
              /\ files[n].previous = Old(f) /\ Old(f) \in Paths \cup {NULL}
         /\ \A n, k \in DOMAIN files : n # k =>
              /\ files[n].path = files[k].path => files[n].path = NULL
              /\ files[n].previous = files[k].previous => files[n].previous = NULL
<1>1. TypeOK /\ FilesSoFar /\ Given /\ at \notin Before \cup Over /\ at # "count files"
  BY InvGiven DEF ExportInv, Before, Over
<1>2. Len(files) \in Nat /\ DOMAIN files = 1 .. Len(files)
  BY <1>1, LenProperties DEF TypeOK
<1>3. /\ Len(files) = Len(Listed) /\ Len(files) \in 1 .. config.maxCommit
      /\ \A n \in DOMAIN files :
           LET f == doc.files[n] IN
           files[n] = [status |-> f.status, path |-> New(f), previous |-> Old(f),
                       before |-> Fetched(BeforeFetched(n), "before", Old(f)),
                       after |-> Fetched(AfterFetched(n), "after", New(f))]
  BY <1>1, Zenon DEF FilesSoFar
<1>4. \A n \in DOMAIN files : n \in DOMAIN Listed /\ n \in DOMAIN doc.files
  BY <1>1, <1>2, <1>3, ListedFiles
<1>5. \A n \in DOMAIN files :
        files[n].path = New(doc.files[n]) /\ files[n].previous = Old(doc.files[n])
  BY <1>3
<1>6. /\ \A n \in DOMAIN doc.files :
           New(doc.files[n]) \in Paths \cup {NULL} /\ Old(doc.files[n]) \in Paths \cup {NULL}
      /\ \A n, k \in DOMAIN doc.files : n # k =>
           /\ New(doc.files[n]) = New(doc.files[k]) => New(doc.files[n]) = NULL
           /\ Old(doc.files[n]) = Old(doc.files[k]) => Old(doc.files[n]) = NULL
  BY <1>1, Versions
<1>7. \A n \in DOMAIN files :
        New(doc.files[n]) \in Paths \cup {NULL} /\ Old(doc.files[n]) \in Paths \cup {NULL}
  BY <1>4, <1>6, Zenon
<1>8. \A n, k \in DOMAIN files : n # k =>
        /\ files[n].path = files[k].path => files[n].path = NULL
        /\ files[n].previous = files[k].previous => files[n].previous = NULL
  BY <1>4, <1>5, <1>6
<1> QED
  BY <1>2, <1>3, <1>4, <1>5, <1>7, <1>8, Zenon

\* A download leaves every file of the entry with the versions it is to have.
LEMMA FilesStep ==
  ASSUME FilesSoFar, UNCHANGED given,
         at \in {"before", "after", "context"}, at' \in {"before", "after", "context", "accepted"},
         DOMAIN files' = DOMAIN files, Len(files') = Len(files),
         \A n \in DOMAIN files :
           LET f == doc.files[n] IN
           files'[n] = [status |-> f.status, path |-> New(f), previous |-> Old(f),
                        before |-> Fetched(BeforeFetched(n)', "before", Old(f)),
                        after |-> Fetched(AfterFetched(n)', "after", New(f))]
  PROVE  FilesSoFar'
<1>1. /\ at \notin Before \cup Over \cup {"count files"}
      /\ at' \notin Before \cup Over \cup {"count files", "rejected", "exported"}
  BY DEF Before, Over
<1>2. HasParent' /\ Offending' = {} /\ Len(files') = Len(Listed')
  BY <1>1, SameCommit DEF FilesSoFar
<1>3. Len(files') \in 1 .. config'.maxCommit
  BY <1>1, SameCommit DEF FilesSoFar
<1>4. \A n \in DOMAIN files' :
        LET f == doc'.files[n] IN
        files'[n] = [status |-> f.status, path |-> New(f), previous |-> Old(f),
                     before |-> Fetched(BeforeFetched(n)', "before", Old(f)),
                     after |-> Fetched(AfterFetched(n)', "after", New(f))]
  BY SameCommit, Zenon
<1> QED
  BY <1>1, <1>2, <1>3, <1>4, Zenon DEF FilesSoFar

\* The files keep their paths.
LEMMA PathsKept ==
  ASSUME ExportInv, FilesSoFar', UNCHANGED given, DOMAIN files' = DOMAIN files,
         at \in {"before", "after", "context"}, at' \in {"before", "after", "context", "accepted"}
  PROVE  \A n \in DOMAIN files :
           files'[n].path = files[n].path /\ files'[n].previous = files[n].previous
<1> SUFFICES ASSUME NEW n \in DOMAIN files
             PROVE  files'[n].path = files[n].path /\ files'[n].previous = files[n].previous
  OBVIOUS
<1>1. PICK f, x, b, a : /\ f = doc'.files[n] /\ x = files'[n]
                        /\ x = [status |-> f.status, path |-> New(f), previous |-> Old(f),
                                before |-> b, after |-> a]
  <2>1. at' \notin Before \cup Over
    BY DEF Before, Over
  <2> QED
    BY <2>1, ZenonT(30) DEF FilesSoFar
<1>2. x.path = New(f) /\ x.previous = Old(f)
  BY <1>1
<1>3. files[n].path = New(doc.files[n]) /\ files[n].previous = Old(doc.files[n])
  BY Held
<1> QED
  BY <1>1, <1>2, <1>3, SameCommit, Zenon

LEMMA DownloadBeforeStep ==
  ASSUME ExportInv, DownloadBefore, UNCHANGED json
  PROVE  ExportInv'
<1> DEFINE p == files[i].previous
           r == Request("content", "before", p)
<1>1. /\ at = "before" /\ i <= Len(files) /\ UNCHANGED given
      /\ \/ /\ p = NULL /\ at' = "after" /\ UNCHANGED <<requests, refused>>
            /\ files' = files /\ context' = context /\ i' = i /\ listed' = listed
         \/ /\ p # NULL /\ requests' = Append(requests, r) /\ refused' = refused
            /\ files' = [files EXCEPT ![i].before = Content("before", p)]
            /\ at' = "after" /\ context' = context /\ i' = i /\ listed' = listed
         \/ /\ p # NULL /\ requests' = Append(requests, r)
            /\ Reject /\ refused' = TRUE
  BY DEF DownloadBefore, Download, Ask, Goto, Silent, entry
<1>2. /\ Given /\ TypeOK /\ FilesSoFar /\ ContextSoFar /\ RequestsSoFar
      /\ at \notin Over /\ at \notin Before
  BY <1>1, InvGiven DEF ExportInv, Over, Before
<1>3. refused = FALSE
  BY <1>1, <1>2 DEF RequestsSoFar, NothingAskedTwice, TypeOK
<1>4. /\ Len(files) \in Nat /\ DOMAIN files = 1 .. Len(files)
      /\ \A n \in DOMAIN files :
           LET f == doc.files[n] IN
           /\ files[n] = [status |-> f.status, path |-> New(f), previous |-> Old(f),
                          before |-> Fetched(BeforeFetched(n), "before", Old(f)),
                          after |-> Fetched(AfterFetched(n), "after", New(f))]
           /\ files[n].path = New(f)
           /\ files[n].previous = Old(f) /\ Old(f) \in Paths \cup {NULL}
      /\ \A n, k \in DOMAIN files : n # k =>
           (files[n].previous = files[k].previous => files[n].previous = NULL)
  BY <1>1, Held, Zenon
<1>5. i \in 1 .. Len(files) /\ i \in DOMAIN files
  <2>1. i \in 1 .. Len(files) + 1
    BY <1>1, <1>2 DEF TypeOK
  <2>2. i <= Len(files)
    BY <1>1, Zenon
  <2> QED
    BY <1>4, <2>1, <2>2
<1>6. /\ \A n : ~ContextFetched(n)
      /\ \A n \in DOMAIN files : BeforeFetched(n) => n < i
      /\ \A n \in DOMAIN files : BeforeFetched(n) <=> AfterFetched(n)
  BY <1>1 DEF BeforeFetched, AfterFetched, ContextFetched
<1>7. p # NULL => r \in Requests \ Answered
  <2> SUFFICES ASSUME p # NULL PROVE r \in Requests \ Answered
    OBVIOUS
  <2>1. p \in Paths
    BY <1>4, <1>5
  <2>2. r \in Requests
    BY <2>1 DEF Request, Requests
  <2>3. \A k \in DOMAIN files : BeforeFetched(k) => files[k].previous # p
    BY <1>4, <1>5, <1>6
  <2>4. \A q : r = Request("content", "before", q) => q = p
    BY DEF Request
  <2>5. \A q : /\ r # Request("content", "after", q)
               /\ r # Request("commit", "after", q) /\ r # Request("tree", "after", q)
    BY DEF Request
  <2> QED
    BY <2>2, <2>3, <2>4, <2>5, Zenon DEF Answered
<1>8. CASE Reject /\ refused' = TRUE /\ p # NULL /\ requests' = Append(requests, r)
  <2>1. RequestsSoFar'
    BY <1>2, <1>7, <1>8, AskStep DEF Reject
  <2> QED
    BY <1>1, <1>8, <2>1, Rejected
<1>9. CASE /\ at' = "after" /\ context' = context /\ i' = i /\ listed' = listed
           /\ refused' = refused
           /\ \/ p = NULL /\ requests' = requests /\ files' = files
              \/ /\ p # NULL /\ requests' = Append(requests, r)
                 /\ files' = [files EXCEPT ![i].before = Content("before", p)]
  <2>1. /\ \A n \in DOMAIN files : BeforeFetched(n)' <=> (BeforeFetched(n) \/ n = i)
        /\ \A n \in DOMAIN files : AfterFetched(n)' <=> AfterFetched(n)
        /\ \A n : ~ContextFetched(n)'
    BY <1>1, <1>9 DEF BeforeFetched, AfterFetched, ContextFetched
  <2>2. /\ DOMAIN files' = DOMAIN files /\ Len(files') = Len(files)
        /\ files' \in Seq(FileStates)
    <3>1. CASE p = NULL
      BY <1>2, <1>9, <3>1 DEF TypeOK
    <3>2. CASE p # NULL
      <4>1. files \in Seq(FileStates) /\ files[i] \in FileStates
        BY <1>2, <1>5, ElementOfSeq DEF TypeOK
      <4>2. PICK c : c = Content("before", p)
        OBVIOUS
      <4>3. c \in {"before"} \X Paths
        BY <1>4, <1>5, <3>2, <4>2 DEF Content
      <4>4. [files[i] EXCEPT !.before = c] \in FileStates
        BY <4>1, <4>3 DEF FileStates
      <4>5. files' = [files EXCEPT ![i] = [files[i] EXCEPT !.before = c]]
        BY <1>9, <3>2, <4>2
      <4> QED
        BY <1>4, <1>5, <4>1, <4>4, <4>5, ExceptSeq
    <3> QED
      BY <3>1, <3>2
  <2>3. ASSUME NEW n \in DOMAIN files
        PROVE  LET f == doc.files[n] IN
               files'[n] = [status |-> f.status, path |-> New(f), previous |-> Old(f),
                            before |-> Fetched(BeforeFetched(n)', "before", Old(f)),
                            after |-> Fetched(AfterFetched(n)', "after", New(f))]
    <3> DEFINE f == doc.files[n]
    <3>1. files[n] = [status |-> f.status, path |-> New(f), previous |-> Old(f),
                      before |-> Fetched(BeforeFetched(n), "before", Old(f)),
                      after |-> Fetched(AfterFetched(n), "after", New(f))]
      BY <1>4
    <3>2. Fetched(AfterFetched(n)', "after", New(f)) = Fetched(AfterFetched(n), "after", New(f))
      BY <2>1 DEF Fetched
    <3>3. CASE n # i \/ p = NULL
      <4>1. files'[n] = files[n]
        BY <1>9, <3>3
      <4>2. Fetched(BeforeFetched(n)', "before", Old(f))
              = Fetched(BeforeFetched(n), "before", Old(f))
        BY <1>4, <2>1, <3>3 DEF Fetched
      <4> QED
        BY <3>1, <3>2, <4>1, <4>2
    <3>4. CASE n = i /\ p # NULL
      <4>1. files'[n] = [files[n] EXCEPT !.before = Content("before", p)]
        BY <1>9, <3>4
      <4>2. Fetched(BeforeFetched(n)', "before", Old(f)) = Content("before", p)
        BY <1>4, <2>1, <3>4 DEF Fetched
      <4> QED
        BY <3>1, <3>2, <4>1, <4>2
    <3> QED
      BY <3>3, <3>4
  <2>4. FilesSoFar'
    BY <1>1, <1>2, <1>9, <2>2, <2>3, FilesStep
  <2>5. \A n \in DOMAIN files :
          files'[n].path = files[n].path /\ files'[n].previous = files[n].previous
    BY <1>1, <1>9, <2>2, <2>4, PathsKept
  <2>6. TypeOK'
    <3>1. i' \in 1 .. Len(files')
      BY <1>5, <1>9, <2>2
    <3>2. /\ at' = "after" /\ context' = context /\ listed' = listed /\ refused' = refused
          /\ config' = config /\ doc' = doc /\ tree' = tree
      BY <1>1, <1>9, SameCommit, Zenon
    <3> QED
      BY <1>2, <2>2, <3>1, <3>2 DEF TypeOK
  <2>7. ContextSoFar'
    <3>1. at' \notin Over \cup Before
      BY <1>9 DEF Over, Before
    <3> QED
      BY <1>1, <1>2, <1>6, <1>9, <2>1, <2>2, <2>5, <3>1, SameContext
  <2>8. Answered \subseteq Answered'
    BY <1>6, <1>1, <1>9, <2>1, <2>2, <2>5, AnsweredGrows DEF Before
  <2>9. RequestsSoFar'
    <3>1. CASE p = NULL
      BY <1>2, <1>3, <1>9, <2>8, <3>1, SilentStep
    <3>2. CASE p # NULL
      <4>1. PICK k \in DOMAIN files : k = i
        BY <1>5
      <4>2. k \in DOMAIN files' /\ BeforeFetched(k)' /\ files'[k].previous = p
        BY <2>1, <2>2, <2>5, <4>1
      <4>3. r \in Answered'
        BY <1>7, <3>2, <4>2, Zenon DEF Answered
      <4> QED
        BY <1>2, <1>7, <1>9, <2>8, <3>2, <4>3, AskStep
    <3> QED
      BY <3>1, <3>2
  <2> QED
    BY <1>9, <2>4, <2>6, <2>7, <2>9 DEF ExportInv, ExportedIsWhole, ExitedForAReason
<1> QED
  <2> HIDE DEF p, r
  <2> QED
    BY <1>1, <1>8, <1>9

LEMMA DownloadAfterStep ==
  ASSUME ExportInv, DownloadAfter, UNCHANGED json
  PROVE  ExportInv'
<1> DEFINE p == files[i].path
           r == Request("content", "after", p)
<1>1. /\ at = "after" /\ UNCHANGED given
      /\ \/ /\ p = NULL /\ at' = "before" /\ UNCHANGED <<requests, refused>>
            /\ files' = files /\ context' = context /\ i' = i + 1 /\ listed' = listed
         \/ /\ p # NULL /\ requests' = Append(requests, r) /\ refused' = refused
            /\ files' = [files EXCEPT ![i].after = Content("after", p)]
            /\ at' = "before" /\ context' = context /\ i' = i + 1 /\ listed' = listed
         \/ /\ p # NULL /\ requests' = Append(requests, r)
            /\ Reject /\ refused' = TRUE
  BY DEF DownloadAfter, Download, Ask, Goto, Silent, entry
<1>2. /\ Given /\ TypeOK /\ FilesSoFar /\ ContextSoFar /\ RequestsSoFar
      /\ at \notin Over /\ at \notin Before
  BY <1>1, InvGiven DEF ExportInv, Over, Before
<1>3. refused = FALSE
  BY <1>1, <1>2 DEF RequestsSoFar, NothingAskedTwice, TypeOK
<1>4. /\ Len(files) \in Nat /\ DOMAIN files = 1 .. Len(files)
      /\ \A n \in DOMAIN files :
           LET f == doc.files[n] IN
           /\ files[n] = [status |-> f.status, path |-> New(f), previous |-> Old(f),
                          before |-> Fetched(BeforeFetched(n), "before", Old(f)),
                          after |-> Fetched(AfterFetched(n), "after", New(f))]
           /\ files[n].previous = Old(f)
           /\ files[n].path = New(f) /\ New(f) \in Paths \cup {NULL}
      /\ \A n, k \in DOMAIN files : n # k =>
           (files[n].path = files[k].path => files[n].path = NULL)
  BY <1>1, Held, Zenon
<1>5. i \in 1 .. Len(files) /\ i \in DOMAIN files
  BY <1>1, <1>2, <1>4 DEF TypeOK
<1>6. /\ \A n : ~ContextFetched(n)
      /\ \A n \in DOMAIN files : AfterFetched(n) => n < i
      /\ \A n \in DOMAIN files : BeforeFetched(n) <=> (AfterFetched(n) \/ n = i)
  BY <1>1 DEF BeforeFetched, AfterFetched, ContextFetched
<1>7. p # NULL => r \in Requests \ Answered
  <2> SUFFICES ASSUME p # NULL PROVE r \in Requests \ Answered
    OBVIOUS
  <2>1. p \in Paths
    BY <1>4, <1>5
  <2>2. r \in Requests
    BY <2>1 DEF Request, Requests
  <2>3. \A k \in DOMAIN files : AfterFetched(k) => files[k].path # p
    BY <1>4, <1>5, <1>6
  <2>4. \A q : r = Request("content", "after", q) => q = p
    BY DEF Request
  <2>5. \A q : /\ r # Request("content", "before", q)
               /\ r # Request("commit", "after", q) /\ r # Request("tree", "after", q)
    BY DEF Request
  <2> QED
    BY <1>6, <2>2, <2>3, <2>4, <2>5, Zenon DEF Answered
<1>8. CASE Reject /\ refused' = TRUE /\ p # NULL /\ requests' = Append(requests, r)
  <2>1. RequestsSoFar'
    BY <1>2, <1>7, <1>8, AskStep DEF Reject
  <2> QED
    BY <1>1, <1>8, <2>1, Rejected
<1>9. CASE /\ at' = "before" /\ context' = context /\ i' = i + 1 /\ listed' = listed
           /\ refused' = refused
           /\ \/ p = NULL /\ requests' = requests /\ files' = files
              \/ /\ p # NULL /\ requests' = Append(requests, r)
                 /\ files' = [files EXCEPT ![i].after = Content("after", p)]
  <2>1. /\ \A n \in DOMAIN files : BeforeFetched(n)' <=> BeforeFetched(n)
        /\ \A n \in DOMAIN files : AfterFetched(n)' <=> (AfterFetched(n) \/ n = i)
        /\ \A n : ~ContextFetched(n)'
    <3>1. \A n \in DOMAIN files : n < i + 1 <=> (n < i \/ n = i)
      BY <1>4, <1>5
    <3>2. at = "after" /\ at' = "before" /\ i' = i + 1
      BY <1>1, <1>9, Zenon
    <3> QED
      BY <3>1, <3>2 DEF BeforeFetched, AfterFetched, ContextFetched
  <2>2. /\ DOMAIN files' = DOMAIN files /\ Len(files') = Len(files)
        /\ files' \in Seq(FileStates)
    <3>1. CASE p = NULL
      BY <1>2, <1>9, <3>1 DEF TypeOK
    <3>2. CASE p # NULL
      <4>1. files \in Seq(FileStates) /\ files[i] \in FileStates
        BY <1>2, <1>5, ElementOfSeq DEF TypeOK
      <4>2. PICK c : c = Content("after", p)
        OBVIOUS
      <4>3. c \in {"after"} \X Paths
        BY <1>4, <1>5, <3>2, <4>2 DEF Content
      <4>4. [files[i] EXCEPT !.after = c] \in FileStates
        BY <4>1, <4>3 DEF FileStates
      <4>5. files' = [files EXCEPT ![i] = [files[i] EXCEPT !.after = c]]
        BY <1>9, <3>2, <4>2
      <4> QED
        BY <1>4, <1>5, <4>1, <4>4, <4>5, ExceptSeq
    <3> QED
      BY <3>1, <3>2
  <2>3. ASSUME NEW n \in DOMAIN files
        PROVE  LET f == doc.files[n] IN
               files'[n] = [status |-> f.status, path |-> New(f), previous |-> Old(f),
                            before |-> Fetched(BeforeFetched(n)', "before", Old(f)),
                            after |-> Fetched(AfterFetched(n)', "after", New(f))]
    <3> DEFINE f == doc.files[n]
    <3>1. files[n] = [status |-> f.status, path |-> New(f), previous |-> Old(f),
                      before |-> Fetched(BeforeFetched(n), "before", Old(f)),
                      after |-> Fetched(AfterFetched(n), "after", New(f))]
      BY <1>4
    <3>2. Fetched(BeforeFetched(n)', "before", Old(f))
            = Fetched(BeforeFetched(n), "before", Old(f))
      BY <2>1 DEF Fetched
    <3>3. CASE n # i \/ p = NULL
      <4>1. files'[n] = files[n]
        BY <1>9, <3>3
      <4>2. Fetched(AfterFetched(n)', "after", New(f))
              = Fetched(AfterFetched(n), "after", New(f))
        BY <1>4, <2>1, <3>3 DEF Fetched
      <4> QED
        BY <3>1, <3>2, <4>1, <4>2
    <3>4. CASE n = i /\ p # NULL
      <4>1. files'[n] = [files[n] EXCEPT !.after = Content("after", p)]
        BY <1>9, <3>4
      <4>2. Fetched(AfterFetched(n)', "after", New(f)) = Content("after", p)
        BY <1>4, <2>1, <3>4 DEF Fetched
      <4> QED
        BY <3>1, <3>2, <4>1, <4>2
    <3> QED
      BY <3>3, <3>4
  <2>4. FilesSoFar'
    BY <1>1, <1>2, <1>9, <2>2, <2>3, FilesStep
  <2>5. \A n \in DOMAIN files :
          files'[n].path = files[n].path /\ files'[n].previous = files[n].previous
    BY <1>1, <1>9, <2>2, <2>4, PathsKept
  <2>6. TypeOK'
    <3>1. i' \in 1 .. Len(files') + 1
      <4>1. i + 1 \in 1 .. Len(files) + 1
        BY <1>4, <1>5
      <4> QED
        BY <1>9, <2>2, <4>1, Zenon
    <3>2. /\ at' = "before" /\ context' = context /\ listed' = listed /\ refused' = refused
          /\ config' = config /\ doc' = doc /\ tree' = tree
      BY <1>1, <1>9, SameCommit, Zenon
    <3> QED
      BY <1>2, <2>2, <3>1, <3>2 DEF TypeOK
  <2>7. ContextSoFar'
    <3>1. at' \notin Over \cup Before
      BY <1>9 DEF Over, Before
    <3> QED
      BY <1>1, <1>2, <1>6, <1>9, <2>1, <2>2, <2>5, <3>1, SameContext
  <2>8. Answered \subseteq Answered'
    BY <1>6, <1>1, <1>9, <2>1, <2>2, <2>5, AnsweredGrows DEF Before
  <2>9. RequestsSoFar'
    <3>1. CASE p = NULL
      BY <1>2, <1>3, <1>9, <2>8, <3>1, SilentStep
    <3>2. CASE p # NULL
      <4>1. PICK k \in DOMAIN files : k = i
        BY <1>5
      <4>2. k \in DOMAIN files' /\ AfterFetched(k)' /\ files'[k].path = p
        BY <2>1, <2>2, <2>5, <4>1
      <4>3. r \in Answered'
        BY <1>7, <3>2, <4>2, Zenon DEF Answered
      <4> QED
        BY <1>2, <1>7, <1>9, <2>8, <3>2, <4>3, AskStep
    <3> QED
      BY <3>1, <3>2
  <2> QED
    BY <1>9, <2>4, <2>6, <2>7, <2>9 DEF ExportInv, ExportedIsWhole, ExitedForAReason
<1> QED
  <2> HIDE DEF p, r
  <2> QED
    BY <1>1, <1>8, <1>9

LEMMA FilesDownloadedStep ==
  ASSUME ExportInv, FilesDownloaded, UNCHANGED json
  PROVE  ExportInv'
<1>1. /\ at = "before" /\ at' = "context" /\ i > Len(files) /\ i' = 1 /\ UNCHANGED given
      /\ UNCHANGED <<requests, refused>>
      /\ files' = files /\ context' = context /\ listed' = listed
  BY DEF FilesDownloaded, FromTheStart, Silent, entry
<1>2. /\ Given /\ TypeOK /\ FilesSoFar /\ ContextSoFar /\ RequestsSoFar
      /\ at \notin Over /\ at \notin Before /\ at' \notin Over /\ at' \notin Before
  BY <1>1, InvGiven DEF ExportInv, Over, Before
<1>3. refused = FALSE
  BY <1>1, <1>2 DEF RequestsSoFar, NothingAskedTwice, TypeOK
<1>4. Len(files) \in Nat /\ DOMAIN files = 1 .. Len(files) /\ Len(files) \in 1 .. config.maxCommit
  BY <1>1, Held
<1>5. Len(context) \in Nat /\ DOMAIN context = 1 .. Len(context)
  BY <1>2, LenProperties DEF ContextSoFar
<1>6. \A n \in DOMAIN files : n < i
  <2>1. i \in 1 .. Len(files) + 1 /\ i > Len(files)
    <3>1. at = "before" /\ i > Len(files)
      BY <1>1, Zenon
    <3> QED
      BY <1>2, <3>1 DEF TypeOK
  <2> QED
    BY <1>4, <2>1
<1>7. \A n \in DOMAIN context : ~(n < 1)
  BY <1>5
<1>8. /\ \A n \in DOMAIN files : /\ BeforeFetched(n) /\ AfterFetched(n)
                                /\ BeforeFetched(n)' /\ AfterFetched(n)'
      /\ \A n \in DOMAIN context : ~ContextFetched(n) /\ ~ContextFetched(n)'
  <2>1. at = "before" /\ at' = "context" /\ i' = 1
    BY <1>1, Zenon
  <2> QED
    BY <1>6, <1>7, <2>1 DEF BeforeFetched, AfterFetched, ContextFetched
<1>9. TypeOK'
  <2>1. i' \in 1 .. Len(context') + 1
    BY <1>1, <1>5
  <2> QED
    BY <1>1, <1>2, <1>3, <2>1, SameCommit DEF TypeOK
<1>10. FilesSoFar'
  BY <1>1, <1>2, <1>4, <1>8, SameFiles
<1>11. ContextSoFar'
  BY <1>1, <1>2, <1>8, SameContext DEF Before
<1>12. RequestsSoFar'
  <2>1. Answered \subseteq Answered'
    BY <1>1, <1>8, AnsweredGrows DEF Before
  <2> QED
    BY <1>1, <1>2, <1>3, <2>1, SilentStep
<1> QED
  BY <1>1, <1>9, <1>10, <1>11, <1>12 DEF ExportInv, ExportedIsWhole, ExitedForAReason

LEMMA AcceptStep ==
  ASSUME ExportInv, Accept, UNCHANGED json
  PROVE  ExportInv'
<1>1. /\ at = "context" /\ at' = "accepted" /\ i > Len(context) /\ UNCHANGED given
      /\ UNCHANGED <<requests, refused>>
      /\ files' = files /\ context' = context /\ i' = i /\ listed' = listed
  BY DEF Accept, Goto, Silent, entry
<1>2. /\ Given /\ TypeOK /\ FilesSoFar /\ ContextSoFar /\ RequestsSoFar
      /\ at \notin Over /\ at \notin Before /\ at' \notin Over /\ at' \notin Before
  BY <1>1, InvGiven DEF ExportInv, Over, Before
<1>3. refused = FALSE
  BY <1>1, <1>2 DEF RequestsSoFar, NothingAskedTwice, TypeOK
<1>4. Len(files) \in 1 .. config.maxCommit
  BY <1>1, Held
<1>5. Len(context) \in Nat /\ DOMAIN context = 1 .. Len(context)
  BY <1>2, LenProperties DEF ContextSoFar
<1>6. \A n \in DOMAIN context : n < i
  <2>1. i \in 1 .. Len(context) + 1 /\ i > Len(context)
    <3>1. at = "context" /\ i > Len(context)
      BY <1>1, Zenon
    <3> QED
      BY <1>2, <3>1 DEF TypeOK
  <2> QED
    BY <1>5, <2>1
<1>7. /\ \A n \in DOMAIN files : /\ BeforeFetched(n) /\ AfterFetched(n)
                                /\ BeforeFetched(n)' /\ AfterFetched(n)'
      /\ \A n \in DOMAIN context : ContextFetched(n) /\ ContextFetched(n)'
  <2>1. at = "context" /\ at' = "accepted"
    BY <1>1, Zenon
  <2> QED
    BY <1>6, <2>1 DEF BeforeFetched, AfterFetched, ContextFetched
<1>8. TypeOK'
  BY <1>1, <1>2, <1>3, SameCommit DEF TypeOK
<1>9. FilesSoFar'
  BY <1>1, <1>2, <1>4, <1>7, SameFiles
<1>10. ContextSoFar'
  BY <1>1, <1>2, <1>7, SameContext DEF Before
<1>11. RequestsSoFar'
  <2>1. Answered \subseteq Answered'
    BY <1>1, <1>7, AnsweredGrows DEF Before
  <2> QED
    BY <1>1, <1>2, <1>3, <2>1, SilentStep
<1> QED
  BY <1>1, <1>8, <1>9, <1>10, <1>11 DEF ExportInv, ExportedIsWhole, ExitedForAReason

LEMMA DownloadContextStep ==
  ASSUME ExportInv, DownloadContext, UNCHANGED json
  PROVE  ExportInv'
<1> DEFINE p == context[i].path
           r == Request("content", "after", p)
<1>1. /\ at = "context" /\ i <= Len(context) /\ UNCHANGED given
      /\ requests' = Append(requests, r)
      /\ \/ /\ context' = [context EXCEPT ![i].content = Content("after", p)]
            /\ at' = at /\ i' = i + 1 /\ files' = files /\ listed' = listed
            /\ refused' = refused
         \/ Reject /\ refused' = TRUE
  BY DEF DownloadContext, Download, Ask
<1>2. /\ Given /\ TypeOK /\ FilesSoFar /\ ContextSoFar /\ RequestsSoFar
      /\ at \notin Over /\ at \notin Before
  BY <1>1, InvGiven DEF ExportInv, Over, Before
<1>3. Len(files) \in 1 .. config.maxCommit
  BY <1>1, Held
<1>4. /\ Len(context) \in Nat /\ DOMAIN context = 1 .. Len(context)
      /\ \A n \in DOMAIN context : context[n].path \in Paths
  BY <1>2, LenProperties DEF ContextSoFar
<1>5. i \in 1 .. Len(context) /\ i \in DOMAIN context
  <2>1. i \in 1 .. Len(context) + 1
    BY <1>1, <1>2 DEF TypeOK
  <2>2. i <= Len(context)
    BY <1>1, Zenon
  <2> QED
    BY <1>4, <2>1, <2>2
<1>6. /\ \A n \in DOMAIN context :
           /\ context[n] = [path |-> context[n].path,
                            content |-> Fetched(ContextFetched(n), "after", context[n].path),
                            distances |-> context[n].distances]
           /\ \A k \in DOMAIN files : files[k].path # context[n].path
           /\ \E k \in DOMAIN tree : tree[k].path = context[n].path
      /\ \A n, k \in DOMAIN context : context[n].path = context[k].path => n = k
  BY <1>2 DEF ContextSoFar
<1>7. p \in Paths /\ p # NULL
  BY <1>4, <1>5, GithubAssumption
<1>8. \A n \in DOMAIN context : ContextFetched(n) <=> n < i
  BY <1>1 DEF ContextFetched
<1>9. r \in Requests \ Answered
  <2>1. r \in Requests
    BY <1>7 DEF Request, Requests
  <2>2. \A k \in DOMAIN context : ContextFetched(k) => context[k].path # p
    BY <1>4, <1>5, <1>6, <1>8
  <2>3. \A k \in DOMAIN files : files[k].path # p
    BY <1>5, <1>6
  <2>4. \A q : r = Request("content", "after", q) => q = p
    BY DEF Request
  <2>5. \A q : /\ r # Request("content", "before", q)
               /\ r # Request("commit", "after", q) /\ r # Request("tree", "after", q)
    BY DEF Request
  <2> QED
    BY <2>1, <2>2, <2>3, <2>4, <2>5, Zenon DEF Answered
<1>10. CASE Reject /\ refused' = TRUE
  <2>1. RequestsSoFar'
    BY <1>1, <1>2, <1>9, <1>10, AskStep DEF Reject
  <2> QED
    BY <1>1, <1>10, <2>1, Rejected
<1>11. CASE /\ context' = [context EXCEPT ![i].content = Content("after", p)]
            /\ at' = at /\ i' = i + 1 /\ files' = files /\ listed' = listed
            /\ refused' = refused
  <2>1. at' = "context" /\ at' \notin Over /\ at' \notin Before
    BY <1>1, <1>11 DEF Over, Before
  <2>2. /\ \A n \in DOMAIN files : /\ BeforeFetched(n) /\ AfterFetched(n)
                                  /\ BeforeFetched(n)' /\ AfterFetched(n)'
        /\ \A n \in DOMAIN context : ContextFetched(n)' <=> (ContextFetched(n) \/ n = i)
    <3>1. \A n \in DOMAIN context : n < i + 1 <=> (n < i \/ n = i)
      BY <1>4, <1>5
    <3>2. at = "context" /\ at' = "context" /\ i' = i + 1
      BY <1>1, <1>11, Zenon
    <3> QED
      BY <3>1, <3>2 DEF BeforeFetched, AfterFetched, ContextFetched
  <2>3. PICK c : c = Content("after", p)
    OBVIOUS
  <2>4. PICK x : x = [context[i] EXCEPT !.content = c]
    OBVIOUS
  <2>5. x = [path |-> p, content |-> c, distances |-> context[i].distances]
    BY <1>5, <1>6, <2>4
  <2>6. x.path = p /\ x.content = c /\ x.distances = context[i].distances
    BY <2>5
  <2>7. /\ DOMAIN context' = DOMAIN context /\ Len(context') = Len(context)
        /\ \A n \in DOMAIN context : context'[n] = IF n = i THEN x ELSE context[n]
        /\ context' \in Seq(ToSet(context) \cup {x})
    <3>1. PICK S : S = ToSet(context) \cup {x}
      OBVIOUS
    <3>2. context \in Seq(ToSet(context))
      BY <1>2, Zenon DEF ContextSoFar
    <3>3. context \in Seq(S) /\ x \in S
      BY <3>1, <3>2, SeqMonotonic
    <3>4. context' = [context EXCEPT ![i] = x]
      BY <1>11, <2>3, <2>4
    <3> QED
      BY <1>4, <1>5, <3>1, <3>3, <3>4, ExceptSeq
  <2>8. \A n \in DOMAIN context :
          /\ context'[n].path = context[n].path
          /\ context'[n].distances = context[n].distances
    BY <2>6, <2>7
  <2>9. ASSUME NEW n \in DOMAIN context
        PROVE  context'[n] = [path |-> context[n].path,
                              content |-> Fetched(ContextFetched(n)', "after", context[n].path),
                              distances |-> context[n].distances]
    <3>1. CASE n = i
      <4>1. Fetched(ContextFetched(n)', "after", context[n].path) = c
        BY <1>7, <2>2, <2>3, <3>1 DEF Fetched
      <4> QED
        BY <2>5, <2>7, <3>1, <4>1
    <3>2. CASE n # i
      <4>1. Fetched(ContextFetched(n)', "after", context[n].path)
              = Fetched(ContextFetched(n), "after", context[n].path)
        BY <2>2, <3>2 DEF Fetched
      <4> QED
        BY <1>6, <2>7, <3>2, <4>1
    <3> QED
      BY <3>1, <3>2
  <2>10. FilesSoFar'
    BY <1>1, <1>2, <1>3, <1>11, <2>1, <2>2, SameFiles
  <2>11. ContextSoFar'
    <3>1. context' \in Seq(ToSet(context'))
      BY <2>7, OwnElements
    <3>2. \A n \in DOMAIN context' : context'[n].path \in Paths
      BY <1>4, <2>7, <2>8
    <3>3. \A n, k \in DOMAIN context' : context'[n].path = context'[k].path => n = k
      BY <1>6, <2>7, <2>8
    <3>4. ASSUME NEW n \in DOMAIN context'
          PROVE  LET q == context'[n].path IN
                 /\ context'[n] = [path |-> q, content |-> Fetched(ContextFetched(n)', "after", q),
                                   distances |-> context'[n].distances]
                 /\ \A k \in DOMAIN files' : files'[k].path # q
                 /\ \E k \in DOMAIN tree' : tree'[k].path = q /\ (at' = "add context" => k < i')
      <4>1. n \in DOMAIN context
        BY <2>7
      <4>2. /\ context'[n].path = context[n].path
            /\ context'[n].distances = context[n].distances
            /\ context'[n] = [path |-> context[n].path,
                              content |-> Fetched(ContextFetched(n)', "after", context[n].path),
                              distances |-> context[n].distances]
        BY <2>8, <2>9, <4>1
      <4>3. tree' = tree /\ files' = files /\ at' # "add context"
        BY <1>1, <1>11, <2>1, SameCommit
      <4> QED
        BY <1>6, <4>1, <4>2, <4>3, ZenonT(30)
    <3>5. at' \notin Before \cup {"count files", "probe context", "rejected", "exported"}
      BY <2>1 DEF Before
    <3> QED
      BY <3>1, <3>2, <3>3, <3>4, <3>5, Zenon DEF ContextSoFar
  <2>12. TypeOK'
    <3>1. i' \in 1 .. Len(context') + 1
      <4>1. i + 1 \in 1 .. Len(context) + 1
        BY <1>4, <1>5
      <4> QED
        BY <1>11, <2>7, <4>1, Zenon
    <3>2. \A n \in DOMAIN context' :
            /\ context'[n].path \in Paths
            /\ context'[n].content \in ({"after"} \X Paths) \cup {NULL}
      <4>1. c \in {"after"} \X Paths
        BY <1>7, <2>3 DEF Content
      <4>2. \A n \in DOMAIN context :
              context[n].content \in ({"after"} \X Paths) \cup {NULL}
        BY <1>2 DEF TypeOK
      <4> QED
        BY <1>4, <2>6, <2>7, <2>8, <4>1, <4>2
    <3>3. /\ at' = "context" /\ files' = files /\ listed' = listed /\ refused' = refused
          /\ config' = config /\ doc' = doc /\ tree' = tree
      BY <1>1, <1>11, <2>1, SameCommit, Zenon
    <3> QED
      BY <1>2, <3>1, <3>2, <3>3 DEF TypeOK
  <2>13. RequestsSoFar'
    <3>1. Answered \subseteq Answered'
      BY <1>1, <1>11, <2>1, <2>2, <2>7, <2>8, AnsweredGrows DEF Before
    <3>2. r \in Answered'
      <4>1. PICK k \in DOMAIN context : k = i
        BY <1>5
      <4>2. k \in DOMAIN context' /\ ContextFetched(k)' /\ context'[k].path = p
        BY <2>2, <2>7, <2>8, <4>1
      <4> QED
        BY <1>9, <4>2, Zenon DEF Answered
    <3> QED
      BY <1>1, <1>2, <1>9, <1>11, <3>1, <3>2, AskStep
  <2> QED
    BY <2>1, <2>10, <2>11, <2>12, <2>13, <1>1 DEF ExportInv, ExportedIsWhole, ExitedForAReason
<1> QED
  <2> HIDE DEF p, r
  <2> QED
    BY <1>1, <1>10, <1>11

-----------------------------------------------------------------------------
(* The export.                                                             *)

\* An object has a member exactly if there is a value for it.
LEMMA ObjectMember ==
  ASSUME NEW members, NEW name \in DOMAIN members
  PROVE  Member(Object(members), name, members[name])
BY DEF Member, Object

\* The text of a downloaded version.
LEMMA Text ==
  ASSUME NEW revision \in {"before", "after"}, NEW p \in Paths \cup {NULL}
  PROVE  String(Fetched(TRUE, revision, p)) = Version(revision, p)
<1>1. CASE p = NULL
  BY <1>1 DEF String, Fetched, Version
<1>2. CASE p # NULL
  <2>1. PICK c : c = Content(revision, p)
    OBVIOUS
  <2>2. c \in {"before", "after"} \X Paths /\ c[2] = p
    BY <1>2, <2>1 DEF Content
  <2>3. c # NULL
    BY <2>2, ExportAssumption
  <2>4. Fetched(TRUE, revision, p) = c
    BY <1>2, <2>1 DEF Fetched
  <2>5. String(c) = IF p \in Binary THEN Cut(c) ELSE c
    BY <2>2, <2>3, Zenon DEF String
  <2> QED
    BY <1>2, <2>1, <2>4, <2>5, Zenon DEF Version
<1> QED
  BY <1>1, <1>2

\* The grammar a file is parsed with is the one of both its paths.
LEMMA Grammar ==
  ASSUME ExportInv, at = "accepted", NEW n \in DOMAIN files
  PROVE  /\ LanguageOf(files[n]) \in {"c", "cpp"}
         /\ \A p \in {Old(doc.files[n]), New(doc.files[n])} \ {NULL} :
              LanguageOf(files[n]) = Language(p)
<1> DEFINE f == doc.files[n]
<1>1. /\ Given /\ Offending = {} /\ n \in DOMAIN Listed
      /\ files[n].path = New(f) /\ files[n].previous = Old(f)
  <2>1. Offending = {}
    BY Zenon DEF ExportInv, FilesSoFar, Before, Over
  <2> QED
    BY <2>1, Held, InvGiven DEF ExportInv
<1>2. /\ Language(f.filename) \in {"c", "cpp"}
      /\ \A p \in {Old(f), New(f)} \ {NULL} : Language(p) = Language(f.filename)
  BY <1>1, AcceptedFiles
<1>3. New(f) # NULL \/ Old(f) # NULL
  BY <1>1, ListedFiles, Versions
<1>4. LanguageOf(files[n]) = Language(IF New(f) # NULL THEN New(f) ELSE Old(f))
  BY <1>1 DEF LanguageOf
<1> QED
  BY <1>2, <1>3, <1>4

\* What is written of an affected file.
LEMMA WrittenFile ==
  ASSUME ExportInv, at = "accepted", NEW n \in DOMAIN files
  PROVE  LET object == FileObject(files[n])
             f == doc.files[n]
         IN  /\ Member(object, "path", New(f))
             /\ Member(object, "previous_path", Old(f))
             /\ Member(object, "content", Version("after", New(f)))
             /\ Member(object, "previous_content", Version("before", Old(f)))
             /\ \A p \in {Old(f), New(f)} \ {NULL} :
                  object.affected_functions.language = Language(p)
<1> DEFINE f == doc.files[n]
<1>1. /\ files[n] = [status |-> f.status, path |-> New(f), previous |-> Old(f),
                     before |-> Fetched(TRUE, "before", Old(f)),
                     after |-> Fetched(TRUE, "after", New(f))]
      /\ New(f) \in Paths \cup {NULL} /\ Old(f) \in Paths \cup {NULL}
  <2>1. BeforeFetched(n) /\ AfterFetched(n)
    BY DEF BeforeFetched, AfterFetched
  <2>2. /\ Fetched(BeforeFetched(n), "before", Old(f)) = Fetched(TRUE, "before", Old(f))
        /\ Fetched(AfterFetched(n), "after", New(f)) = Fetched(TRUE, "after", New(f))
    BY <2>1 DEF Fetched
  <2> QED
    BY <2>2, Held
<1>2. /\ files[n].path = New(f) /\ files[n].previous = Old(f)
      /\ String(files[n].before) = Version("before", Old(f))
      /\ String(files[n].after) = Version("after", New(f))
  <2>1. /\ files[n].path = New(f) /\ files[n].previous = Old(f)
        /\ files[n].before = Fetched(TRUE, "before", Old(f))
        /\ files[n].after = Fetched(TRUE, "after", New(f))
    BY <1>1
  <2> QED
    BY <1>1, <2>1, Text
<1>3. PICK members :
        members = [status |-> f.status, path |-> New(f), previous_path |-> Old(f),
                   content |-> Version("after", New(f)),
                   previous_content |-> Version("before", Old(f)),
                   affected_functions |-> Parsed(files[n])]
  OBVIOUS
<1>4. FileObject(files[n]) = Object(members)
  <2>1. files[n].status = f.status
    BY <1>1
  <2> QED
    BY <1>2, <1>3, <2>1 DEF FileObject
<1>5. /\ {"path", "previous_path", "content", "previous_content"} \subseteq DOMAIN members
      /\ members["path"] = New(f) /\ members["previous_path"] = Old(f)
      /\ members["content"] = Version("after", New(f))
      /\ members["previous_content"] = Version("before", Old(f))
      /\ "affected_functions" \in DOMAIN members
      /\ members["affected_functions"] = Parsed(files[n])
  BY <1>3
<1>6. /\ Member(Object(members), "path", New(f))
      /\ Member(Object(members), "previous_path", Old(f))
      /\ Member(Object(members), "content", Version("after", New(f)))
      /\ Member(Object(members), "previous_content", Version("before", Old(f)))
  <2>1. \A name \in DOMAIN members : Member(Object(members), name, members[name])
    BY ObjectMember
  <2> QED
    BY <1>5, <2>1
<1>7. Object(members).affected_functions.language = LanguageOf(files[n])
  <2>1. /\ files[n].before \in ({"before", "after"} \X Paths) \cup {NULL}
        /\ files[n].after \in ({"before", "after"} \X Paths) \cup {NULL}
    <3>1. files[n] \in FileStates
      <4>1. files \in Seq(FileStates)
        BY DEF ExportInv, TypeOK
      <4> QED
        BY <4>1, Held, ElementOfSeq
    <3> QED
      BY <3>1 DEF FileStates
  <2>2. Parsed(files[n]) # NULL
    <3>1. Parsed(files[n]) \in
            [language : {"c", "cpp"}, before : ({"before", "after"} \X Paths) \cup {NULL},
             after : ({"before", "after"} \X Paths) \cup {NULL}]
      BY <2>1, Grammar DEF Parsed
    <3> QED
      BY <3>1, ExportAssumption, Zenon
  <2>3. Object(members)["affected_functions"] = Parsed(files[n])
    BY <1>5, <2>2 DEF Object
  <2> QED
    BY <2>3 DEF Parsed
<1> QED
  BY <1>4, <1>6, <1>7, Grammar

\* What is written of a context file.
LEMMA WrittenContext ==
  ASSUME ExportInv, at = "accepted", NEW n \in DOMAIN context
  PROVE  LET object == ContextObject(context[n])
         IN  Member(object, "content", Version("after", object.path))
<1>1. PICK p \in Paths :
        /\ context[n].path = p
        /\ context[n] = [path |-> p, content |-> Fetched(ContextFetched(n), "after", p),
                         distances |-> context[n].distances]
  <2>1. at \notin Over
    BY DEF Over
  <2> QED
    BY <2>1, Zenon DEF ExportInv, ContextSoFar
<1>2. Fetched(ContextFetched(n), "after", p) = Fetched(TRUE, "after", p)
  BY DEF ContextFetched
<1>3. String(context[n].content) = Version("after", p)
  <2>1. context[n].content = Fetched(TRUE, "after", p)
    <3>1. PICK c : c = Fetched(ContextFetched(n), "after", p)
      OBVIOUS
    <3>2. PICK x, d : x = context[n] /\ x = [path |-> p, content |-> c, distances |-> d]
      BY <1>1, <3>1, Zenon
    <3>3. x.content = c
      BY <3>2
    <3> QED
      BY <1>2, <3>1, <3>2, <3>3, Zenon
  <2>2. p \in Paths \cup {NULL} /\ "after" \in {"before", "after"}
    OBVIOUS
  <2>3. String(Fetched(TRUE, "after", p)) = Version("after", p)
    BY <2>2, Text, Zenon
  <2> QED
    BY <2>1, <2>3, Zenon
<1>4. PICK members :
        members = [path |-> p, content |-> Version("after", p),
                   distances |-> context[n].distances]
  OBVIOUS
<1>5. ContextObject(context[n]) = Object(members)
  BY <1>1, <1>3, <1>4 DEF ContextObject
<1>6. /\ "path" \in DOMAIN members /\ members["path"] = p
      /\ "content" \in DOMAIN members /\ members["content"] = Version("after", p)
  BY <1>4
<1>7. p # NULL
  BY GithubAssumption
<1>8. Object(members)["path"] = p
  BY <1>6, <1>7 DEF Object
<1>9. Member(Object(members), "content", Version("after", p))
  BY <1>6, ObjectMember
<1> QED
  BY <1>5, <1>8, <1>9

\* The exported commit: all that GitHub lists of it, and what the answers vouch for.
LEMMA WholeCommit ==
  ASSUME ExportInv, at \in {"before", "after", "context", "accepted"}
  PROVE  /\ Len(files) = Len(Listed)
         /\ WholeAnswers => /\ Supportable
                            /\ Len(doc.files) \in 1 .. config.maxCommit
                            /\ Len(files) = Len(doc.files)
<1>1. Given /\ HasParent /\ Offending = {} /\ Len(files) = Len(Listed)
  <2>1. at \notin Before \cup Over
    BY DEF Before, Over
  <2> QED
    BY <2>1, InvGiven, Zenon DEF ExportInv, FilesSoFar
<1>2. Len(files) \in 1 .. config.maxCommit
  BY Held
<1>3. /\ Len(doc.files) \in Nat /\ DOMAIN doc.files = 1 .. Len(doc.files)
      /\ Len(Listed) \in Nat /\ DOMAIN Listed = 1 .. Len(Listed)
      /\ Len(Listed) = IF FilesPage <= Len(doc.files) THEN FilesPage ELSE Len(doc.files)
  BY <1>1, ListedFiles
<1>4. config.maxCommit \in Nat /\ FilesPage \in Nat
  BY <1>1, GithubAssumption DEF Given
<1>5. ASSUME WholeAnswers
      PROVE  Len(files) = Len(doc.files)
  <2>1. Len(doc.files) <= FilesPage \/ config.maxCommit < FilesPage
    BY <1>5 DEF WholeAnswers
  <2> QED
    BY <1>1, <1>2, <1>3, <1>4, <2>1
<1>6. ASSUME WholeAnswers
      PROVE  Supportable
  <2>1. ASSUME NEW f \in ToSet(doc.files)
        PROVE  Supported(f.filename) /\ (f.status = "renamed" => Ext[f.previous] = Ext[f.filename])
    <3>1. PICK n \in DOMAIN doc.files : doc.files[n] = f
      BY DEF ToSet
    <3>2. n \in DOMAIN Listed
      BY <1>1, <1>3, <1>5, <1>6, <3>1
    <3> QED
      BY <1>1, <3>1, <3>2, AcceptedFiles
  <2> QED
    BY <1>1, <2>1 DEF Supportable, HasParent
<1> QED
  BY <1>1, <1>2, <1>5, <1>6

LEMMA ExportEntryStep ==
  ASSUME ExportInv, ExportEntry
  PROVE  ExportInv'
<1>1. /\ at = "accepted" /\ UNCHANGED given /\ UNCHANGED <<requests, refused>>
  BY DEF ExportEntry, Silent
<1>2. /\ Given /\ TypeOK /\ RequestsSoFar /\ at \notin Over /\ at \notin Before
  BY <1>1, InvGiven DEF ExportInv, Over, Before
<1>3. refused = FALSE
  BY <1>1, <1>2 DEF RequestsSoFar, NothingAskedTwice, TypeOK
<1>4. ~ \E n \in DOMAIN files : LanguageOf(files[n]) = NULL
  BY <1>1, Grammar, ExportAssumption
<1>5. /\ json' = [header |-> Header, commit_files |-> Each(FileObject, files),
                  context_files |-> Each(ContextObject, context)]
      /\ files' = <<>> /\ context' = <<>> /\ at' = "exported"
      /\ i' = i /\ listed' = listed
  BY <1>4 DEF ExportEntry
<1>6. TypeOK'
  <2>1. <<>> \in Seq(FileStates) /\ DOMAIN <<>> = {}
    BY Nothing
  <2>2. config' = config /\ doc' = doc /\ tree' = tree
    BY <1>1, SameCommit
  <2>3. /\ files' = <<>> /\ context' = <<>> /\ at' = "exported"
        /\ listed' = listed /\ refused' = refused
    BY <1>1, <1>5, Zenon
  <2> QED
    BY <1>2, <2>1, <2>2, <2>3 DEF TypeOK
<1>7. FilesSoFar'
  <2>1. files' = <<>> /\ at' \in Over
    BY <1>5 DEF Over
  <2> QED
    BY <2>1, Zenon DEF FilesSoFar
<1>8. ContextSoFar'
  <2>1. context' = <<>> /\ context' \in Seq(ToSet(context')) /\ DOMAIN context' = {}
    BY <1>5, Nothing, Zenon
  <2>2. at' \in Over /\ at' \notin Before \cup {"count files", "probe context"}
    <3>1. at' = "exported"
      BY <1>5, Zenon
    <3> QED
      BY <3>1 DEF Over, Before
  <2> QED
    BY <2>1, <2>2, Zenon DEF ContextSoFar
<1>9. RequestsSoFar'
  <2>1. at' \in Over
    <3>1. at' = "exported"
      BY <1>5, Zenon
    <3> QED
      BY <3>1 DEF Over
  <2> QED
    BY <1>1, <1>2, <1>3, <2>1, SilentStep
<1>10. ExportedIsWhole'
  <2>1. /\ json'.header = Header
        /\ json'.commit_files = Each(FileObject, files)
        /\ json'.context_files = Each(ContextObject, context)
    BY <1>5
  <2>2. /\ DOMAIN json'.commit_files = DOMAIN files
        /\ \A n \in DOMAIN files : json'.commit_files[n] = FileObject(files[n])
        /\ DOMAIN json'.context_files = DOMAIN context
        /\ \A n \in DOMAIN context : json'.context_files[n] = ContextObject(context[n])
    BY <2>1 DEF Each
  <2>3. Len(json'.commit_files) = Len(files)
    BY <1>1, <2>2, Held
  <2>4. /\ config' = config /\ doc' = doc /\ tree' = tree /\ listed' = listed
        /\ Listed' = Listed /\ Supportable' = Supportable
    BY <1>1, <1>5, SameCommit
  <2>5. WholeAnswers' <=> WholeAnswers
    BY <2>4 DEF WholeAnswers, Truncated
  <2>6. /\ Len(json'.commit_files) = Len(Listed)
        /\ WholeAnswers => /\ Supportable
                           /\ Len(doc.files) \in 1 .. config.maxCommit
                           /\ Len(json'.commit_files) = Len(doc.files)
    BY <1>1, <2>3, WholeCommit
  <2>7. ASSUME NEW n \in DOMAIN json'.commit_files
        PROVE  LET object == json'.commit_files[n]
                   f == doc.files[n]
               IN  /\ Member(object, "path", New(f))
                   /\ Member(object, "previous_path", Old(f))
                   /\ Member(object, "content", Version("after", New(f)))
                   /\ Member(object, "previous_content", Version("before", Old(f)))
                   /\ \A p \in {Old(f), New(f)} \ {NULL} :
                        object.affected_functions.language = Language(p)
    BY <1>1, <2>2, <2>7, WrittenFile, Zenon
  <2>8. ASSUME NEW n \in DOMAIN json'.context_files
        PROVE  LET object == json'.context_files[n]
               IN  Member(object, "content", Version("after", object.path))
    BY <1>1, <2>2, <2>8, WrittenContext, Zenon
  <2>9. Member(json'.header, "CVE_description", Origin.cve_description)
    <3>1. PICK members :
            members = [CWE |-> Origin.cwe_id, CVE |-> Origin.cve_id,
                       CVE_published |-> Origin.published,
                       CVE_description |-> Origin.cve_description,
                       repository |-> Origin.repo_name, commit_hash |-> Origin.commit_hash,
                       commit_message |-> doc.message]
      OBVIOUS
    <3>2. /\ "CVE_description" \in DOMAIN members
          /\ members["CVE_description"] = Origin.cve_description
      BY <3>1
    <3>3. json'.header = Object(members)
      BY <2>1, <3>1, Zenon DEF Header
    <3> QED
      BY <3>2, <3>3, ObjectMember, Zenon
  <2> QED
    BY <2>4, <2>5, <2>6, <2>7, <2>8, <2>9, Zenon DEF ExportedIsWhole
<1>11. ExitedForAReason'
  BY <1>5 DEF ExitedForAReason
<1> QED
  BY <1>6, <1>7, <1>8, <1>9, <1>10, <1>11 DEF ExportInv

-----------------------------------------------------------------------------
(* The distance of two directories.                                        *)

\* The names a path is made of.
Names == UNION {ToSet(p) : p \in Paths}

Shared(a, b) == Len(LongestCommonPrefix({a, b}))

\* How many steps to a parent or a child directory lead from a to b.
Steps(a, b) == (Len(a) - Shared(a, b)) + (Len(b) - Shared(a, b))

\* Up to their c-th name two directories agree, and no further.
AgreeUpTo(c, a, b) ==
  /\ c \in Nat /\ c <= Len(a) /\ c <= Len(b)
  /\ \A k \in 1 .. c : a[k] = b[k]
  /\ c < Len(a) /\ c < Len(b) => a[c + 1] # b[c + 1]

LEMMA AgreeOnce ==
  ASSUME NEW S, NEW a \in Seq(S), NEW b \in Seq(S), NEW c, NEW d,
         AgreeUpTo(c, a, b), AgreeUpTo(d, a, b)
  PROVE  c = d
<1>1. Len(a) \in Nat /\ Len(b) \in Nat /\ c \in Nat /\ d \in Nat
  BY DEF AgreeUpTo
<1>2. ~(c < d)
  <2>1. SUFFICES ASSUME c < d PROVE FALSE
    OBVIOUS
  <2>2. c + 1 \in 1 .. d /\ c < Len(a) /\ c < Len(b)
    BY <1>1, <2>1 DEF AgreeUpTo
  <2> QED
    BY <2>2 DEF AgreeUpTo
<1>3. ~(d < c)
  <2>1. SUFFICES ASSUME d < c PROVE FALSE
    OBVIOUS
  <2>2. d + 1 \in 1 .. c /\ d < Len(a) /\ d < Len(b)
    BY <1>1, <2>1 DEF AgreeUpTo
  <2> QED
    BY <2>2 DEF AgreeUpTo
<1> QED
  BY <1>1, <1>2, <1>3

\* A set of numbers that has one and none above a limit has a largest one.
LEMMA LargestOf ==
  ASSUME NEW S \in SUBSET Nat, S # {}, NEW limit \in Nat, \A n \in S : n <= limit
  PROVE  \E n \in S : \A m \in S : m <= n
<1> DEFINE R == {limit - n : n \in S}
<1>1. R \in SUBSET Nat /\ R # {}
  <2>1. \A n \in S : limit - n \in Nat
    OBVIOUS
  <2> QED
    BY <2>1
<1>2. Min(R) \in R /\ \A r \in R : Min(R) <= r
  BY <1>1, FirstOf
<1>3. PICK n \in S : limit - n = Min(R)
  BY <1>2
<1>4. ASSUME NEW m \in S PROVE m <= n
  <2>1. limit - m \in R
    OBVIOUS
  <2>2. limit - n <= limit - m
    BY <1>2, <1>3, <2>1
  <2> QED
    BY <2>2
<1> QED
  BY <1>4

\* The common prefixes of two directories are what both begin with.
LEMMA CommonPrefix ==
  ASSUME NEW S, NEW a \in Seq(S), NEW b \in Seq(S)
  PROVE  /\ \A s \in CommonPrefixes({a, b}) :
              /\ s \in Seq(S) /\ Len(s) \in Nat /\ Len(s) <= Len(a) /\ Len(s) <= Len(b)
              /\ \A k \in 1 .. Len(s) : a[k] = b[k]
         /\ \A n \in Nat : n <= Len(a) /\ n <= Len(b) /\ (\A k \in 1 .. n : a[k] = b[k]) =>
              SubSeq(a, 1, n) \in CommonPrefixes({a, b}) /\ Len(SubSeq(a, 1, n)) = n
<1>1. ASSUME NEW s \in CommonPrefixes({a, b})
      PROVE  /\ s \in Seq(S) /\ Len(s) \in Nat /\ Len(s) <= Len(a) /\ Len(s) <= Len(b)
             /\ \A k \in 1 .. Len(s) : a[k] = b[k]
  <2>1. (s \in Prefixes(a) \/ s \in Prefixes(b)) /\ IsPrefix(s, a) /\ IsPrefix(s, b)
    BY DEF CommonPrefixes
  <2>2. s \in Seq(S)
    <3>1. CASE s \in Prefixes(a)
      <4>1. PICK l \in 0 .. Len(a) : s = SubSeq(a, 1, l)
        BY <3>1 DEF Prefixes
      <4> QED
        BY <4>1
    <3>2. CASE s \in Prefixes(b)
      <4>1. PICK l \in 0 .. Len(b) : s = SubSeq(b, 1, l)
        BY <3>2 DEF Prefixes
      <4> QED
        BY <4>1
    <3> QED
      BY <2>1, <3>1, <3>2
  <2>3. Len(s) \in Nat /\ Len(s) <= Len(a) /\ Len(s) <= Len(b)
    BY <2>1, <2>2 DEF IsPrefix
  <2>4. ASSUME NEW k \in 1 .. Len(s) PROVE a[k] = b[k]
    <3>1. SubSeq(s, 1, Len(s)) = SubSeq(a, 1, Len(s)) /\ SubSeq(s, 1, Len(s)) = SubSeq(b, 1, Len(s))
      BY <2>1 DEF IsPrefix
    <3>2. SubSeq(a, 1, Len(s))[k] = a[k] /\ SubSeq(b, 1, Len(s))[k] = b[k]
      BY <2>3
    <3> QED
      BY <3>1, <3>2
  <2> QED
    BY <2>2, <2>3, <2>4
<1>2. ASSUME NEW n \in Nat, n <= Len(a), n <= Len(b), \A k \in 1 .. n : a[k] = b[k]
      PROVE  SubSeq(a, 1, n) \in CommonPrefixes({a, b}) /\ Len(SubSeq(a, 1, n)) = n
  <2> DEFINE s == SubSeq(a, 1, n)
  <2>1. s \in Seq(S) /\ Len(s) = n /\ \A k \in 1 .. n : s[k] = a[k]
    BY <1>2
  <2>2. s \in Prefixes(a)
    BY <1>2 DEF Prefixes
  <2>3. SubSeq(s, 1, n) = s /\ SubSeq(b, 1, n) = s
    <3>1. SubSeq(s, 1, n) \in Seq(S) /\ Len(SubSeq(s, 1, n)) = n
          /\ \A k \in 1 .. n : SubSeq(s, 1, n)[k] = s[k]
      BY <2>1
    <3>2. SubSeq(b, 1, n) \in Seq(S) /\ Len(SubSeq(b, 1, n)) = n
          /\ \A k \in 1 .. n : SubSeq(b, 1, n)[k] = b[k]
      BY <1>2
    <3>3. \A k \in 1 .. n : SubSeq(b, 1, n)[k] = s[k]
      BY <1>2, <2>1, <3>2
    <3> HIDE DEF s
    <3> QED
      BY <2>1, <3>1, <3>2, <3>3, SeqEqual
  <2>4. IsPrefix(s, a) /\ IsPrefix(s, b)
    BY <1>2, <2>1, <2>3 DEF IsPrefix
  <2> QED
    BY <2>1, <2>2, <2>4 DEF CommonPrefixes
<1> QED
  BY <1>1, <1>2

\* context_distance compares the names up to the first that differs.
LEMMA SharedAgree ==
  ASSUME NEW S, NEW a \in Seq(S), NEW b \in Seq(S)
  PROVE  AgreeUpTo(Shared(a, b), a, b)
<1> DEFINE P == CommonPrefixes({a, b})
           L == {Len(s) : s \in P}
<1>1. L \in SUBSET Nat /\ \A n \in L : n <= Len(a)
  BY CommonPrefix
<1>2. SubSeq(a, 1, 0) \in P /\ Len(a) \in Nat
  BY CommonPrefix
<1>3. PICK n \in L : \A m \in L : m <= n
  <2> HIDE DEF P
  <2>1. L # {}
    BY <1>2
  <2> HIDE DEF L
  <2> QED
    BY <1>1, <1>2, <2>1, LargestOf
<1>4. PICK s \in P : \A t \in P : Len(t) <= Len(s)
  BY <1>3
<1> DEFINE c == LongestCommonPrefix({a, b})
<1>5. c \in P /\ \A t \in P : Len(t) <= Len(c)
  BY <1>4, Zenon DEF LongestCommonPrefix
<1> HIDE DEF c
<1>6. /\ Len(c) \in Nat /\ Len(c) <= Len(a) /\ Len(c) <= Len(b)
      /\ \A k \in 1 .. Len(c) : a[k] = b[k]
  BY <1>5, CommonPrefix
<1>7. ASSUME Len(c) < Len(a), Len(c) < Len(b), a[Len(c) + 1] = b[Len(c) + 1] PROVE FALSE
  <2> DEFINE m == Len(c) + 1
  <2>1. m \in Nat /\ m <= Len(a) /\ m <= Len(b)
    BY <1>2, <1>6, <1>7
  <2>2. \A k \in 1 .. m : a[k] = b[k]
    BY <1>6, <1>7
  <2>3. SubSeq(a, 1, m) \in P /\ Len(SubSeq(a, 1, m)) = m
    BY <2>1, <2>2, CommonPrefix, SMTT(30)
  <2>4. Len(SubSeq(a, 1, m)) <= Len(c)
    BY <1>5, <2>3, Zenon
  <2> QED
    BY <1>6, <2>3, <2>4
<1> QED
  BY <1>6, <1>7 DEF AgreeUpTo, Shared, c

\* What agrees is all that is shared.
LEMMA SharedIs ==
  ASSUME NEW S, NEW a \in Seq(S), NEW b \in Seq(S), NEW c, AgreeUpTo(c, a, b)
  PROVE  Shared(a, b) = c
  BY SharedAgree, AgreeOnce

LEMMA FrontIs ==
  ASSUME NEW S, NEW a \in Seq(S), a # <<>>
  PROVE  /\ Front(a) \in Seq(S) /\ Len(a) \in Nat \ {0} /\ Len(Front(a)) = Len(a) - 1
         /\ \A k \in 1 .. Len(a) - 1 : Front(a)[k] = a[k]
<1>1. PICK n \in Nat : n = Len(a) - 1 /\ n + 1 = Len(a)
  OBVIOUS
<1>2. /\ SubSeq(a, 1, n) \in Seq(S) /\ Len(SubSeq(a, 1, n)) = n
      /\ \A k \in 1 .. n : SubSeq(a, 1, n)[k] = a[k]
  BY <1>1
<1> QED
  BY <1>1, <1>2 DEF Front

\* No step leads from a directory to itself, and some to any other.
LEMMA NoSteps ==
  ASSUME NEW S, NEW a \in Seq(S), NEW b \in Seq(S)
  PROVE  Steps(a, b) \in Nat /\ (Steps(a, b) = 0 <=> a = b)
<1>1. AgreeUpTo(Shared(a, b), a, b)
  BY SharedAgree
<1>2. Steps(a, b) \in Nat
  BY <1>1 DEF AgreeUpTo, Steps
<1>3. ASSUME Steps(a, b) = 0 PROVE a = b
  <2>1. Shared(a, b) = Len(a) /\ Shared(a, b) = Len(b)
    BY <1>1, <1>3 DEF AgreeUpTo, Steps
  <2>2. \A k \in 1 .. Len(a) : a[k] = b[k]
    BY <1>1, <2>1 DEF AgreeUpTo
  <2> QED
    BY <2>1, <2>2, SeqEqual
<1>4. ASSUME a = b PROVE Steps(a, b) = 0
  <2>1. AgreeUpTo(Len(a), a, b)
    BY <1>4 DEF AgreeUpTo
  <2>2. Shared(a, b) = Len(a)
    BY <2>1, SharedIs
  <2> QED
    BY <1>4, <2>2 DEF Steps
<1> QED
  BY <1>2, <1>3, <1>4

\* The parent of b is a step farther from a if a is b or below it, and a step
\* nearer otherwise.
LEMMA ParentSteps ==
  ASSUME NEW S, NEW a \in Seq(S), NEW b \in Seq(S), b # <<>>
  PROVE  Steps(a, Front(b)) = IF Shared(a, b) = Len(b) THEN Steps(a, b) + 1 ELSE Steps(a, b) - 1
<1>1. AgreeUpTo(Shared(a, b), a, b)
  BY SharedAgree
<1>2. /\ Front(b) \in Seq(S) /\ Len(b) \in Nat \ {0} /\ Len(Front(b)) = Len(b) - 1
      /\ \A k \in 1 .. Len(b) - 1 : Front(b)[k] = b[k]
  BY FrontIs
<1>3. PICK c : c = Shared(a, b)
  OBVIOUS
<1>4. /\ c \in Nat /\ c <= Len(a) /\ c <= Len(b) /\ Len(a) \in Nat
      /\ \A k \in 1 .. c : a[k] = b[k]
      /\ c < Len(a) /\ c < Len(b) => a[c + 1] # b[c + 1]
  BY <1>1, <1>3 DEF AgreeUpTo
<1>5. CASE c = Len(b)
  <2>1. AgreeUpTo(c - 1, a, Front(b))
    BY <1>2, <1>4, <1>5 DEF AgreeUpTo
  <2>2. Shared(a, Front(b)) = c - 1
    BY <1>2, <2>1, SharedIs
  <2> QED
    BY <1>2, <1>3, <1>4, <1>5, <2>2 DEF Steps
<1>6. CASE c < Len(b)
  <2>1. c \in Nat /\ c <= Len(a) /\ c <= Len(Front(b))
    BY <1>2, <1>4, <1>6
  <2>2. \A k \in 1 .. c : a[k] = Front(b)[k]
    BY <1>2, <1>4, <2>1
  <2>3. c < Len(Front(b)) => c + 1 \in 1 .. Len(b) - 1
    BY <1>2, <1>4
  <2>4. AgreeUpTo(c, a, Front(b))
    BY <1>2, <1>4, <1>6, <2>1, <2>2, <2>3 DEF AgreeUpTo
  <2>5. Shared(a, Front(b)) = c
    BY <1>2, <2>4, SharedIs
  <2> QED
    BY <1>2, <1>3, <1>4, <1>6, <2>5 DEF Steps
<1> QED
  BY <1>2, <1>4, <1>5, <1>6

\* The directories are those of the files and the parents of these.
LEMMA DirectoriesClosed ==
  /\ \A p \in Paths : p \in Seq(Names) /\ p # <<>> /\ Front(p) \in Directories
  /\ \A d \in Directories :
       d \in Seq(Names) /\ \A n \in 0 .. Len(d) : SubSeq(d, 1, n) \in Directories
<1>1. ASSUME NEW p \in Paths
      PROVE  p \in Seq(Names) /\ p # <<>> /\ Front(p) \in Seq(Names)
             /\ Len(Front(p)) \in Nat
  <2>1. p \in Seq(ToSet(p)) /\ p # <<>>
    BY GithubAssumption
  <2>2. ToSet(p) \subseteq Names
    BY DEF Names
  <2>3. p \in Seq(Names)
    BY <2>1, <2>2, SeqMonotonic
  <2> QED
    BY <2>1, <2>3, FrontIs
<1>2. ASSUME NEW p \in Paths PROVE Front(p) \in Directories
  <2>1. SubSeq(Front(p), 1, Len(Front(p))) = Front(p)
    BY <1>1, SubSeqFull
  <2>2. Len(Front(p)) \in 0 .. Len(Front(p))
    BY <1>1
  <2>3. Front(p) \in Prefixes(Front(p))
    BY <2>1, <2>2, Zenon DEF Prefixes
  <2> QED
    BY <2>3 DEF Directories
<1>3. ASSUME NEW d \in Directories
      PROVE  d \in Seq(Names) /\ \A n \in 0 .. Len(d) : SubSeq(d, 1, n) \in Directories
  <2>1. PICK p \in Paths : d \in Prefixes(Front(p))
    BY DEF Directories
  <2>2. PICK l \in 0 .. Len(Front(p)) : d = SubSeq(Front(p), 1, l)
    BY <2>1 DEF Prefixes
  <2>3. d \in Seq(Names) /\ Len(d) = l
    BY <1>1, <2>2
  <2>4. ASSUME NEW n \in 0 .. Len(d) PROVE SubSeq(d, 1, n) \in Directories
    <3>1. n \in 0 .. Len(Front(p)) /\ n <= l
      BY <1>1, <2>2, <2>3
    <3>2. SubSeq(d, 1, n) = SubSeq(Front(p), 1, n)
      <4>1. \A k \in 1 .. n : /\ SubSeq(d, 1, n)[k] = Front(p)[k]
                             /\ SubSeq(Front(p), 1, n)[k] = Front(p)[k]
        BY <1>1, <2>2, <2>3, <3>1
      <4>2. /\ SubSeq(d, 1, n) \in Seq(Names) /\ Len(SubSeq(d, 1, n)) = n
            /\ SubSeq(Front(p), 1, n) \in Seq(Names) /\ Len(SubSeq(Front(p), 1, n)) = n
        BY <1>1, <2>3, <3>1
      <4> QED
        BY <4>1, <4>2, SeqEqual
    <3>3. SubSeq(Front(p), 1, n) \in Prefixes(Front(p))
      BY <3>1 DEF Prefixes
    <3> QED
      BY <3>2, <3>3 DEF Directories
  <2> QED
    BY <2>3, <2>4
<1> QED
  BY <1>1, <1>2, <1>3

-----------------------------------------------------------------------------
(* The directories around one.                                             *)

\* What one step reaches, or none.
Reach(dirs) == dirs \cup Neighbours(dirs)

\* A table of what n steps reach, for the first m numbers of steps.
IsTable(w, p, m) ==
  w = [n \in 0 .. m |-> IF n = 0 THEN {Front(p)} ELSE w[n - 1] \cup Neighbours(w[n - 1])]

LEMMA TableGrows ==
  ASSUME NEW p, NEW m \in Nat, NEW w, IsTable(w, p, m)
  PROVE  \E v : IsTable(v, p, m + 1)
<1> DEFINE v == [n \in 0 .. m + 1 |-> IF n = m + 1 THEN w[m] \cup Neighbours(w[m]) ELSE w[n]]
<1>1. ASSUME NEW n \in 0 .. m + 1
      PROVE  v[n] = IF n = 0 THEN {Front(p)} ELSE v[n - 1] \cup Neighbours(v[n - 1])
  <2>1. CASE n = m + 1
    <3>1. v[n] = w[m] \cup Neighbours(w[m]) /\ v[n - 1] = w[m] /\ n # 0
      BY <2>1
    <3> QED
      BY <2>1, <3>1
  <2>2. CASE n # m + 1
    <3>1. n \in 0 .. m /\ v[n] = w[n]
      BY <2>2
    <3>2. w[n] = IF n = 0 THEN {Front(p)} ELSE w[n - 1] \cup Neighbours(w[n - 1])
      BY <3>1, Zenon DEF IsTable
    <3>3. n # 0 => v[n - 1] = w[n - 1]
      BY <3>1
    <3> QED
      BY <3>1, <3>2, <3>3
  <2> QED
    BY <2>1, <2>2
<1>2. v = [n \in 0 .. m + 1 |-> v[n]]
  OBVIOUS
<1> HIDE DEF v
<1>3. IsTable(v, p, m + 1)
  <2>1. [n \in 0 .. m + 1 |-> v[n]] =
        [n \in 0 .. m + 1 |-> IF n = 0 THEN {Front(p)} ELSE v[n - 1] \cup Neighbours(v[n - 1])]
    BY <1>1, Zenon
  <2> QED
    BY <1>2, <2>1, Zenon DEF IsTable
<1> QED
  BY <1>3, Zenon

LEMMA TableExists ==
  ASSUME NEW p, NEW m \in Nat
  PROVE  \E w : IsTable(w, p, m)
<1> DEFINE Wrong == {n \in Nat : ~\E w : IsTable(w, p, n)}
<1>1. ASSUME Wrong # {} PROVE FALSE
  <2>1. PICK n \in Wrong : \A k \in Wrong : n <= k
    <3>1. Wrong \in SUBSET Nat
      OBVIOUS
    <3> HIDE DEF Wrong
    <3> QED
      BY <1>1, <3>1, FirstOf, Zenon
  <2>2. n # 0
    <3>1. IsTable([k \in 0 .. 0 |-> {Front(p)}], p, 0)
      <4> DEFINE w == [k \in 0 .. 0 |-> {Front(p)}]
      <4>1. w = [k \in 0 .. 0 |-> IF k = 0 THEN {Front(p)} ELSE w[k - 1] \cup Neighbours(w[k - 1])]
        OBVIOUS
      <4> QED
        BY <4>1, Zenon DEF IsTable
    <3> QED
      BY <3>1, Zenon
  <2>3. n - 1 \in Nat /\ n - 1 \notin Wrong /\ (n - 1) + 1 = n
    BY <2>1, <2>2
  <2>4. PICK w : IsTable(w, p, n - 1)
    BY <2>3
  <2>5. \E v : IsTable(v, p, (n - 1) + 1)
    BY <2>3, <2>4, TableGrows, Zenon
  <2> QED
    BY <2>3, <2>5
<1> QED
  BY <1>1

\* What Around says of each number of steps.
LEMMA AroundIs ==
  ASSUME NEW p \in Paths
  PROVE  /\ Around[p][0] = {Front(p)}
         /\ \A n \in 1 .. MaxDepth : Around[p][n] = Reach(Around[p][n - 1])
<1>1. MaxDepth \in Nat
  BY GithubAssumption
<1>2. Around[p] =
        CHOOSE w : w = [n \in 0 .. MaxDepth |->
                          IF n = 0 THEN {Front(p)} ELSE w[n - 1] \cup Neighbours(w[n - 1])]
  BY Zenon DEF Around
<1>3. IsTable(Around[p], p, MaxDepth)
  <2>1. \E w : IsTable(w, p, MaxDepth)
    BY <1>1, TableExists
  <2> QED
    BY <1>2, <2>1, Zenon DEF IsTable
<1>4. ASSUME NEW n \in 0 .. MaxDepth
      PROVE  Around[p][n] = IF n = 0 THEN {Front(p)}
                            ELSE Around[p][n - 1] \cup Neighbours(Around[p][n - 1])
  <2> DEFINE w == Around[p]
  <2>1. w = [k \in 0 .. MaxDepth |->
               IF k = 0 THEN {Front(p)} ELSE w[k - 1] \cup Neighbours(w[k - 1])]
    BY <1>3, Zenon DEF IsTable
  <2> HIDE DEF w
  <2>2. w[n] = IF n = 0 THEN {Front(p)} ELSE w[n - 1] \cup Neighbours(w[n - 1])
    BY <2>1, Zenon
  <2> QED
    BY <2>2, Zenon DEF w
<1>5. Around[p][0] = {Front(p)}
  <2>1. 0 \in 0 .. MaxDepth
    BY <1>1
  <2> QED
    BY <1>4, <2>1
<1>6. ASSUME NEW n \in 1 .. MaxDepth PROVE Around[p][n] = Reach(Around[p][n - 1])
  <2>1. n \in 0 .. MaxDepth /\ n # 0
    OBVIOUS
  <2> QED
    BY <1>4, <2>1 DEF Reach
<1> QED
  BY <1>5, <1>6

\* One step changes the number of steps by one.
LEMMA NeighbourSteps ==
  ASSUME NEW a \in Directories, NEW d \in Directories, NEW e \in Directories,
         (d # <<>> /\ e = Front(d)) \/ (e # <<>> /\ d = Front(e))
  PROVE  Steps(a, e) <= Steps(a, d) + 1
<1>1. a \in Seq(Names) /\ d \in Seq(Names) /\ e \in Seq(Names)
  BY DirectoriesClosed
<1>2. Steps(a, d) \in Nat /\ Steps(a, e) \in Nat
  BY <1>1, NoSteps
<1>3. CASE d # <<>> /\ e = Front(d)
  <2>1. Steps(a, e) = Steps(a, d) + 1 \/ Steps(a, e) = Steps(a, d) - 1
    BY <1>1, <1>3, ParentSteps
  <2> QED
    BY <1>2, <2>1
<1>4. CASE e # <<>> /\ d = Front(e)
  <2>1. Steps(a, d) = Steps(a, e) + 1 \/ Steps(a, d) = Steps(a, e) - 1
    BY <1>1, <1>4, ParentSteps
  <2> QED
    BY <1>2, <2>1
<1> QED
  BY <1>3, <1>4

\* To every directory but a itself there is one from a step nearer to a.
LEMMA StepNearer ==
  ASSUME NEW a \in Directories, NEW b \in Directories, a # b
  PROVE  \E d \in Directories : /\ (d # <<>> /\ b = Front(d)) \/ (b # <<>> /\ d = Front(b))
                                /\ Steps(a, d) + 1 = Steps(a, b)
<1>1. a \in Seq(Names) /\ b \in Seq(Names)
  BY DirectoriesClosed
<1>2. AgreeUpTo(Shared(a, b), a, b)
  BY <1>1, SharedAgree
<1>3. PICK c : c = Shared(a, b)
  OBVIOUS
<1>4. c \in Nat /\ c <= Len(a) /\ c <= Len(b) /\ Len(a) \in Nat /\ Len(b) \in Nat
  BY <1>1, <1>2, <1>3 DEF AgreeUpTo
<1>5. Steps(a, b) \in Nat
  BY <1>1, NoSteps
<1>6. CASE c < Len(b)
  <2>1. b # <<>>
    BY <1>4, <1>6
  <2>2. Front(b) \in Directories
    <3>1. Len(b) - 1 \in 0 .. Len(b)
      BY <1>4, <1>6
    <3> QED
      BY <3>1, DirectoriesClosed DEF Front
  <2>3. Steps(a, Front(b)) = Steps(a, b) - 1
    BY <1>1, <1>3, <1>4, <1>6, <2>1, ParentSteps
  <2>4. Steps(a, Front(b)) + 1 = Steps(a, b)
    BY <1>5, <2>3
  <2> QED
    BY <2>1, <2>2, <2>4
<1>7. CASE c = Len(b)
  <2>1. c < Len(a)
    <3>1. SUFFICES ASSUME c = Len(a) PROVE FALSE
      BY <1>4
    <3>2. Steps(a, b) = 0
      BY <1>3, <1>4, <1>7, <3>1 DEF Steps
    <3> QED
      BY <1>1, <3>2, NoSteps
  <2>2. PICK n \in Nat : n = c + 1 /\ n <= Len(a) /\ n \in 0 .. Len(a)
    BY <1>4, <2>1
  <2>3. PICK d : d = SubSeq(a, 1, n)
    OBVIOUS
  <2>4. d \in Directories
    BY <2>2, <2>3, DirectoriesClosed
  <2>5. d \in Seq(Names) /\ Len(d) = n /\ \A k \in 1 .. n : d[k] = a[k]
    BY <1>1, <2>2, <2>3
  <2>6. d # <<>>
    BY <2>2, <2>5, <1>4
  <2>7. Front(d) = b
    <3>1. /\ Front(d) \in Seq(Names) /\ Len(Front(d)) = c
          /\ \A k \in 1 .. c : Front(d)[k] = d[k]
      BY <1>4, <2>2, <2>5, <2>6, FrontIs
    <3>2. \A k \in 1 .. c : a[k] = b[k]
      BY <1>2, <1>3 DEF AgreeUpTo
    <3>3. \A k \in 1 .. c : d[k] = a[k]
      BY <1>4, <2>2, <2>5
    <3> QED
      BY <1>1, <1>7, <3>1, <3>2, <3>3, SeqEqual
  <2>8. AgreeUpTo(n, a, d)
    BY <2>2, <2>5 DEF AgreeUpTo
  <2>9. Shared(a, d) = Len(d)
    BY <1>1, <2>5, <2>8, SharedIs
  <2>10. Steps(a, b) = Steps(a, d) + 1
    BY <1>1, <2>5, <2>6, <2>7, <2>9, ParentSteps
  <2> QED
    BY <2>4, <2>6, <2>7, <2>10
<1> QED
  BY <1>4, <1>6, <1>7

\* What src/README.md says of the context depths is what the slashes count: the
\* directories within n steps of a file's are those that the number of names after
\* what is shared puts there.
LEMMA AroundIsSteps ==
  ASSUME NEW p \in Paths, NEW b \in Directories, NEW n \in 0 .. MaxDepth
  PROVE  b \in Around[p][n] <=> Steps(Front(p), b) <= n
<1> DEFINE a == Front(p)
           Right(k) == /\ Around[p][k] \subseteq Directories
                       /\ \A d \in Directories : d \in Around[p][k] <=> Steps(a, d) <= k
           Wrong == {k \in 0 .. MaxDepth : ~Right(k)}
<1>1. a \in Directories /\ a \in Seq(Names)
  BY DirectoriesClosed
<1>2. \A d \in Directories : d \in Seq(Names) /\ Steps(a, d) \in Nat
                             /\ (Steps(a, d) = 0 <=> a = d)
  BY <1>1, NoSteps, DirectoriesClosed
<1>3. Right(0)
  <2>1. Around[p][0] = {a}
    BY AroundIs
  <2>2. \A d \in Directories : d \in {a} <=> Steps(a, d) <= 0
    BY <1>2
  <2> QED
    BY <1>1, <2>1, <2>2
<1>4. ASSUME NEW k \in 1 .. MaxDepth, Right(k - 1) PROVE Right(k)
  <2>1. Around[p][k] = Reach(Around[p][k - 1])
    BY AroundIs
  <2>2. Around[p][k] \subseteq Directories
    BY <1>4, <2>1 DEF Reach, Neighbours
  <2>3. ASSUME NEW d \in Directories, d \in Around[p][k] PROVE Steps(a, d) <= k
    <3>1. CASE d \in Around[p][k - 1]
      <4>1. Steps(a, d) <= k - 1
        BY <1>4, <3>1
      <4> QED
        BY <1>2, <4>1
    <3>2. CASE d \in Neighbours(Around[p][k - 1])
      <4>1. PICK e \in Around[p][k - 1] : \/ e # <<>> /\ d = Front(e)
                                          \/ d # <<>> /\ e = Front(d)
        BY <3>2 DEF Neighbours
      <4>2. e \in Directories /\ Steps(a, e) <= k - 1
        BY <1>4, <4>1
      <4>3. Steps(a, d) <= Steps(a, e) + 1
        BY <1>1, <4>1, <4>2, NeighbourSteps
      <4> QED
        BY <1>2, <4>2, <4>3
    <3> QED
      BY <2>1, <2>3, <3>1, <3>2 DEF Reach
  <2>4. ASSUME NEW d \in Directories, Steps(a, d) <= k PROVE d \in Around[p][k]
    <3>1. CASE Steps(a, d) <= k - 1
      <4>1. d \in Around[p][k - 1]
        BY <1>4, <3>1
      <4> QED
        BY <2>1, <4>1 DEF Reach
    <3>2. CASE ~(Steps(a, d) <= k - 1)
      <4>1. Steps(a, d) = k /\ k # 0
        BY <1>2, <2>4, <3>2
      <4>2. a # d
        BY <1>2, <4>1
      <4>3. PICK e \in Directories : /\ (e # <<>> /\ d = Front(e)) \/ (d # <<>> /\ e = Front(d))
                                     /\ Steps(a, e) + 1 = Steps(a, d)
        BY <1>1, <4>2, StepNearer
      <4>4. Steps(a, e) <= k - 1
        BY <1>2, <4>1, <4>3
      <4>5. e \in Around[p][k - 1]
        BY <1>4, <4>4
      <4> QED
        BY <2>1, <4>3, <4>5 DEF Reach, Neighbours
    <3> QED
      BY <3>1, <3>2
  <2> QED
    BY <2>2, <2>3, <2>4
<1>5. ASSUME Wrong # {} PROVE FALSE
  <2>1. Wrong \in SUBSET Nat
    BY GithubAssumption
  <2>2. PICK k \in Wrong : \A m \in Wrong : k <= m
    <3> HIDE DEF Wrong
    <3> QED
      BY <1>5, <2>1, FirstOf, Zenon
  <2>3. k # 0
    BY <1>3, <2>2
  <2>4. k \in 1 .. MaxDepth /\ k - 1 \in 0 .. MaxDepth /\ ~(k <= k - 1)
    BY <2>1, <2>2, <2>3, GithubAssumption
  <2>5. k - 1 \notin Wrong
    BY <2>2, <2>4, Zenon
  <2> HIDE DEF Right
  <2>6. Right(k - 1)
    BY <2>4, <2>5
  <2>7. Right(k)
    BY <1>4, <2>4, <2>6
  <2> QED
    BY <2>2, <2>7
<1>6. Right(n)
  <2> HIDE DEF Right
  <2> QED
    BY <1>5
<1> QED
  BY <1>6

-----------------------------------------------------------------------------
(* The context of a commit.                                                *)

\* What context_distance counts is a step more than there is between the
\* directories.
LEMMA DistanceIs ==
  ASSUME NEW p \in Paths, NEW q \in Paths, p # q
  PROVE  /\ Distance(p, q) = Steps(Front(p), Front(q)) + 1
         /\ Steps(Front(p), Front(q)) \in Nat /\ Front(q) \in Directories
<1>1. Front(p) \in Seq(Names) /\ Front(q) \in Seq(Names) /\ Front(q) \in Directories
  BY DirectoriesClosed
<1>2. Steps(Front(p), Front(q)) \in Nat
  BY <1>1, NoSteps
<1>3. Distance(p, q) = Steps(Front(p), Front(q)) + 1
  BY DEF Distance, Steps, Shared
<1> QED
  BY <1>1, <1>2, <1>3

\* A file is near to another if its directory is within context-depth - 1 steps of
\* the other's, and at the distance of as many steps as these take.
LEMMA DepthOf ==
  ASSUME Given, NEW p \in Paths, NEW q \in Paths, p # q
  PROVE  /\ Distance(p, q) <= config.depth <=> Surrounds(q, p)
         /\ LET d == Distance(p, q) IN
            Surrounds(q, p) => /\ Front(q) \in Around[p][d - 1]
                               /\ d > 1 => Front(q) \notin Around[p][d - 2]
<1>1. config.depth \in 0 .. MaxDepth /\ MaxDepth \in Nat
  BY GithubAssumption DEF Given
<1>2. PICK n \in Nat : n = Steps(Front(p), Front(q))
  BY DistanceIs
<1>3. Distance(p, q) = n + 1 /\ Front(q) \in Directories
  BY <1>2, DistanceIs
<1>4. \A m \in 0 .. MaxDepth : Front(q) \in Around[p][m] <=> n <= m
  BY <1>2, <1>3, AroundIsSteps
<1>5. Surrounds(q, p) <=> n + 1 <= config.depth
  <2>1. config.depth > 0 => config.depth - 1 \in 0 .. MaxDepth
    BY <1>1
  <2>2. config.depth > 0 => (Front(q) \in Around[p][config.depth - 1] <=> n <= config.depth - 1)
    BY <1>4, <2>1
  <2> QED
    BY <1>1, <2>2 DEF Surrounds
<1>6. ASSUME n + 1 <= config.depth
      PROVE  /\ Front(q) \in Around[p][n + 1 - 1]
             /\ n + 1 > 1 => Front(q) \notin Around[p][n + 1 - 2]
  <2>1. /\ n \in 0 .. MaxDepth /\ n + 1 - 1 = n
        /\ n > 0 => n - 1 \in 0 .. MaxDepth /\ n + 1 - 2 = n - 1
    BY <1>1, <1>6
  <2>2. Front(q) \in Around[p][n] /\ (n > 0 => Front(q) \notin Around[p][n - 1])
    BY <1>4, <2>1
  <2> QED
    BY <2>1, <2>2
<1> QED
  BY <1>3, <1>5, <1>6

\* What GitHub lists are paths of the repository.
LEMMA ListedArePaths ==
  ASSUME Given
  PROVE  ListedPaths \subseteq Paths
<1>1. ASSUME NEW f \in ToSet(Listed) PROVE New(f) \in Paths \cup {NULL}
  <2>1. PICK n \in DOMAIN Listed : Listed[n] = f
    BY DEF ToSet
  <2>2. n \in DOMAIN doc.files /\ doc.files[n] = f
    BY <2>1, ListedFiles
  <2> QED
    BY <2>2, Versions
<1> QED
  BY <1>1 DEF ListedPaths

\* The files of the entry have the paths that GitHub lists.
LEMMA PathsOfFiles ==
  ASSUME ExportInv, at \notin Before \cup Over
  PROVE  /\ \A f \in ToSet(files) : f.path = NULL \/ f.path \in ListedPaths
         /\ \A p \in ListedPaths : \E n \in DOMAIN files : files[n].path = p
<1>1. Given /\ FilesSoFar
  BY InvGiven DEF ExportInv
<1>2. /\ Len(files) = Len(Listed)
      /\ \A n \in DOMAIN files : files[n].path = New(doc.files[n])
  <2>1. /\ Len(files) = Len(Listed)
        /\ \A n \in DOMAIN files :
            LET f == doc.files[n] IN
            files[n] = [status |-> f.status, path |-> New(f), previous |-> Old(f),
                        before |-> Fetched(BeforeFetched(n), "before", Old(f)),
                        after |-> Fetched(AfterFetched(n), "after", New(f))]
    BY <1>1, Zenon DEF FilesSoFar
  <2> QED
    BY <2>1
<1>3. DOMAIN files = 1 .. Len(files)
  <2>1. files \in Seq(FileStates)
    BY DEF ExportInv, TypeOK
  <2> QED
    BY <2>1, LenProperties
<1>4. /\ DOMAIN files = DOMAIN Listed
      /\ \A n \in DOMAIN Listed : Listed[n] = doc.files[n]
  BY <1>1, <1>2, <1>3, ListedFiles
<1>5. ASSUME NEW f \in ToSet(files) PROVE f.path = NULL \/ f.path \in ListedPaths
  <2>1. PICK n \in DOMAIN files : files[n] = f
    BY DEF ToSet
  <2>2. f.path = New(Listed[n]) /\ Listed[n] \in ToSet(Listed)
    BY <1>2, <1>4, <2>1 DEF ToSet
  <2> QED
    BY <2>2 DEF ListedPaths
<1>6. ASSUME NEW p \in ListedPaths PROVE \E n \in DOMAIN files : files[n].path = p
  <2>1. PICK f \in ToSet(Listed) : New(f) = p
    BY DEF ListedPaths
  <2>2. PICK n \in DOMAIN Listed : Listed[n] = f
    BY <2>1 DEF ToSet
  <2> QED
    BY <1>2, <1>4, <2>1, <2>2
<1> QED
  BY <1>5, <1>6

\* The entries of the tree that github_parse_context_files takes are the files around
\* the listed ones, with their distances to those they are around.
LEMMA ContextOf ==
  ASSUME ExportInv, at = "add context", NEW f, f.type = "blob" => f.path \in Paths
  PROVE  /\ IsContext(f) <=> IsAround(f)
         /\ IsContext(f) =>
              NewContextFile(f.path).distances =
                {[path |-> p, distance |-> Distance(p, f.path)] :
                   p \in {q \in ListedPaths : Surrounds(f.path, q)}}
<1>1. Given /\ at \notin Before \cup Over
  BY InvGiven DEF ExportInv, Before, Over
<1>2. /\ \A g \in ToSet(files) : g.path = NULL \/ g.path \in ListedPaths
      /\ \A p \in ListedPaths : \E g \in ToSet(files) : g.path = p
      /\ \A p \in ListedPaths : \E n \in DOMAIN files : files[n].path = p
      /\ \A n \in DOMAIN files : files[n] \in ToSet(files)
  BY <1>1, PathsOfFiles DEF ToSet
<1>3. ListedPaths \subseteq Paths /\ NULL \notin Paths
  BY <1>1, ListedArePaths, GithubAssumption
<1>4. ASSUME f.type = "blob" PROVE AlreadyInCommit(f.path) <=> f.path \in ListedPaths
  <2>1. f.path # NULL
    BY <1>3, <1>4
  <2> QED
    BY <1>2, <2>1 DEF AlreadyInCommit
<1>5. ASSUME f.type = "blob", f.path \notin ListedPaths, NEW p \in ListedPaths
      PROVE  Distance(p, f.path) <= config.depth <=> Surrounds(f.path, p)
  BY <1>1, <1>3, <1>5, DepthOf
<1>6. ASSUME f.type = "blob", f.path \notin ListedPaths
      PROVE  {g.path : g \in Near(f.path)} = {q \in ListedPaths : Surrounds(f.path, q)}
  <2>1. ASSUME NEW g \in Near(f.path)
        PROVE  g.path \in {q \in ListedPaths : Surrounds(f.path, q)}
    <3>1. g \in ToSet(files) /\ g.path # NULL /\ Distance(g.path, f.path) <= config.depth
      BY DEF Near
    <3>2. g.path \in ListedPaths
      BY <1>2, <3>1
    <3> QED
      BY <1>5, <1>6, <3>1, <3>2
  <2>2. ASSUME NEW q \in ListedPaths, Surrounds(f.path, q)
        PROVE  q \in {g.path : g \in Near(f.path)}
    <3>1. PICK g \in ToSet(files) : g.path = q
      BY <1>2
    <3>2. g.path # NULL /\ Distance(g.path, f.path) <= config.depth
      BY <1>3, <1>5, <1>6, <2>2, <3>1
    <3>3. g \in Near(f.path)
      BY <3>1, <3>2 DEF Near
    <3> QED
      BY <3>1, <3>3
  <2> QED
    BY <2>1, <2>2
<1>7. IsContext(f) <=> IsAround(f)
  <2>1. CASE f.type = "blob" /\ f.path \notin ListedPaths
    <3>1. Near(f.path) # {} <=> \E q \in ListedPaths : Surrounds(f.path, q)
      BY <1>6, <2>1
    <3> QED
      BY <1>4, <2>1, <3>1 DEF IsContext, IsAround
  <2>2. CASE ~(f.type = "blob" /\ f.path \notin ListedPaths)
    BY <1>4, <2>2 DEF IsContext, IsAround
  <2> QED
    BY <2>1, <2>2
<1>8. ASSUME IsContext(f)
      PROVE  NewContextFile(f.path).distances =
               {[path |-> p, distance |-> Distance(p, f.path)] :
                  p \in {q \in ListedPaths : Surrounds(f.path, q)}}
  <2>1. f.type = "blob" /\ f.path \notin ListedPaths
    BY <1>7, <1>8 DEF IsAround
  <2>2. NewContextFile(f.path).distances
          = {[path |-> g.path, distance |-> Distance(g.path, f.path)] : g \in Near(f.path)}
    BY DEF NewContextFile, NewDistance
  <2>3. {[path |-> g.path, distance |-> Distance(g.path, f.path)] : g \in Near(f.path)}
          = {[path |-> p, distance |-> Distance(p, f.path)] : p \in {g.path : g \in Near(f.path)}}
    BY Zenon
  <2> QED
    BY <1>6, <2>1, <2>2, <2>3, Zenon
<1> QED
  BY <1>7, <1>8

-----------------------------------------------------------------------------
(* What does not change with the worker's state.                           *)

LEMMA SameSurroundings ==
  ASSUME UNCHANGED given
  PROVE  /\ ListedPaths' = ListedPaths
         /\ \A q, p : Surrounds(q, p)' <=> Surrounds(q, p)
         /\ \A f : IsAround(f)' <=> IsAround(f)
         /\ Surroundings' = Surroundings
         /\ Acceptable' <=> Acceptable
<1>1. config' = config /\ doc' = doc /\ tree' = tree /\ Listed' = Listed
      /\ Supportable' = Supportable
  BY SameCommit
<1>2. ListedPaths' = ListedPaths
  BY <1>1 DEF ListedPaths, New
<1>3. \A q, p : Surrounds(q, p)' <=> Surrounds(q, p)
  BY <1>1, Zenon DEF Surrounds
<1>4. \A f : IsAround(f)' <=> IsAround(f)
  BY <1>2, <1>3, Zenon DEF IsAround
<1>5. Affected' = Affected
  BY <1>1, Zenon DEF Affected
<1>6. Surroundings' = Surroundings
  <2>1. \A g : (\E p \in Affected' : Surrounds(g.path, p)') <=>
               (\E p \in Affected : Surrounds(g.path, p))
    BY <1>3, <1>5, Zenon
  <2> QED
    BY <1>1, <1>5, <2>1 DEF Surroundings
<1>7. Acceptable' <=> Acceptable
  BY <1>1, <1>6, Zenon DEF Acceptable, WithinLimits
<1> QED
  BY <1>2, <1>3, <1>4, <1>6, <1>7

Fetching == {"before", "after", "context", "accepted"}
Counted == Fetching \cup {"count context"}

ContextPaths == {context[n].path : n \in DOMAIN context}

\* The context is known of a tree's entries once they have been looked at.
LEMMA AllKnown ==
  ASSUME ContextKnown, at \in Counted
  PROVE  /\ ContextPaths = {tree[k].path : k \in {m \in 1 .. listed : IsAround(tree[m])}}
         /\ \A n \in DOMAIN context :
              context[n].distances =
                {[path |-> p, distance |-> Distance(p, context[n].path)] :
                   p \in {q \in ListedPaths : Surrounds(context[n].path, q)}}
<1>1. at \notin NoContextYet /\ at # "add context"
  BY DEF Counted, Fetching, NoContextYet, Before, Over
<1>2. {context[n].path : n \in DOMAIN context} =
        {tree[k].path : k \in {m \in 1 .. listed :
                                 (at = "add context" => m < i) /\ IsAround(tree[m])}}
  BY <1>1, Zenon DEF ContextKnown
<1>3. {m \in 1 .. listed : (at = "add context" => m < i) /\ IsAround(tree[m])}
        = {m \in 1 .. listed : IsAround(tree[m])}
  BY <1>1
<1>4. ContextPaths = {tree[k].path : k \in {m \in 1 .. listed : IsAround(tree[m])}}
  BY <1>2, <1>3, Zenon DEF ContextPaths
<1>5. \A n \in DOMAIN context :
        context[n].distances =
          {[path |-> p, distance |-> Distance(p, context[n].path)] :
             p \in {q \in ListedPaths : Surrounds(context[n].path, q)}}
  BY <1>1, Zenon DEF ContextKnown
<1> QED
  BY <1>4, <1>5

\* A context file is in the context once.
LEMMA ContextCounted ==
  ASSUME ExportInv, at \notin Over
  PROVE  /\ Len(context) \in Nat /\ DOMAIN context = 1 .. Len(context)
         /\ IsFiniteSet(ContextPaths) /\ Cardinality(ContextPaths) = Len(context)
         /\ \A n, k \in DOMAIN context : context[n].path = context[k].path => n = k
<1>1. /\ context \in Seq(ToSet(context))
      /\ \A n, k \in DOMAIN context : context[n].path = context[k].path => n = k
  BY Zenon DEF ExportInv, ContextSoFar
<1>2. PICK m \in Nat : m = Len(context) /\ DOMAIN context = 1 .. m
  BY <1>1, LenProperties
<1> DEFINE f == [n \in 1 .. m |-> context[n].path]
<1>3. f \in Bijection(1 .. m, ContextPaths)
  <2>1. f \in [1 .. m -> ContextPaths]
    BY <1>2 DEF ContextPaths
  <2>2. \A a, b \in 1 .. m : f[a] = f[b] => a = b
    BY <1>1, <1>2
  <2>3. \A p \in ContextPaths : \E n \in 1 .. m : f[n] = p
    BY <1>2 DEF ContextPaths
  <2> QED
    BY <2>1, <2>2, <2>3 DEF Bijection, Injection, IsInjective, Surjection
<1>4. IsFiniteSet(1 .. m) /\ Cardinality(1 .. m) = m
  BY FS_Interval
<1>5. IsFiniteSet(ContextPaths) /\ Cardinality(ContextPaths) = Cardinality(1 .. m)
  <2> HIDE DEF f
  <2> QED
    BY <1>3, <1>4, FS_Bijection, Zenon DEF ExistsBijection
<1> QED
  BY <1>1, <1>2, <1>4, <1>5

LEMMA TreeOf ==
  ASSUME Given
  PROVE  /\ Len(tree) \in Nat /\ DOMAIN tree = 1 .. Len(tree)
         /\ \A n \in DOMAIN tree : tree[n].type = "blob" => tree[n].path \in Paths
BY GithubAssumption DEF Given

\* There are finitely many files around a commit's.
LEMMA SurroundingsFinite ==
  ASSUME Given
  PROVE  IsFiniteSet(Surroundings) /\ Cardinality(Surroundings) \in Nat
<1>1. PICK m \in Nat : m = Len(tree) /\ DOMAIN tree = 1 .. m
  BY TreeOf
<1> DEFINE T == {tree[k].path : k \in 1 .. m}
           f == [k \in 1 .. m |-> tree[k].path]
<1>2. f \in Surjection(1 .. m, T)
  BY DEF Surjection
<1>3. IsFiniteSet(1 .. m)
  BY FS_Interval
<1>4. IsFiniteSet(T)
  <2> HIDE DEF f, T
  <2> QED
    BY <1>2, <1>3, FS_Surjection, Zenon
<1>5. Surroundings \subseteq T
  BY <1>1 DEF Surroundings, ToSet
<1> QED
  BY <1>4, <1>5, FS_Subset, FS_CardinalityType

\* Where GitHub lists all files of a commit these are the affected ones.
LEMMA AllListed ==
  ASSUME Given, Len(doc.files) <= FilesPage
  PROVE  ListedPaths = Affected /\ Len(Listed) = Len(doc.files)
<1>1. /\ Len(doc.files) \in Nat /\ DOMAIN doc.files = 1 .. Len(doc.files)
      /\ DOMAIN Listed = 1 .. Len(Listed)
      /\ Len(Listed) = IF FilesPage <= Len(doc.files) THEN FilesPage ELSE Len(doc.files)
      /\ \A n \in DOMAIN Listed : Listed[n] = doc.files[n]
  BY ListedFiles
<1>2. Len(Listed) = Len(doc.files)
  BY <1>1, GithubAssumption
<1>3. ToSet(Listed) = ToSet(doc.files)
  BY <1>1, <1>2 DEF ToSet
<1>4. \A f \in ToSet(doc.files) :
        f.filename # NULL /\ New(f) = IF f.status = "removed" THEN NULL ELSE f.filename
  <2>1. \A f \in ToSet(doc.files) : f.filename \in Paths
    BY Versions DEF ToSet
  <2> QED
    BY <2>1, GithubAssumption DEF New
<1>5. ListedPaths = {New(f) : f \in ToSet(doc.files)} \ {NULL}
  BY <1>3 DEF ListedPaths
<1>6. ASSUME NEW p PROVE p \in ListedPaths <=> p \in Affected
  <2>1. p \in Affected <=> \E f \in ToSet(doc.files) : f.status # "removed" /\ p = f.filename
    BY Zenon DEF Affected, After
  <2>2. p \in ListedPaths <=> p # NULL /\ \E f \in ToSet(doc.files) : p = New(f)
    BY <1>5
  <2> QED
    BY <1>4, <2>1, <2>2
<1> QED
  BY <1>2, <1>6

\* The context is then the surroundings, or those of a part of the tree.
LEMMA WholeContext ==
  ASSUME ExportInv, ContextKnown, at \in Counted, Len(doc.files) <= FilesPage
  PROVE  /\ ListedPaths = Affected
         /\ ContextPaths \subseteq Surroundings
         /\ Len(context) <= Cardinality(Surroundings)
         /\ Truncated \/ Len(context) = Cardinality(Surroundings)
<1>1. Given /\ at \notin Over
  BY InvGiven DEF ExportInv, Counted, Fetching, Over
<1>2. ListedPaths = Affected
  BY <1>1, AllListed
<1>3. /\ Len(tree) \in Nat /\ DOMAIN tree = 1 .. Len(tree) /\ listed \in 0 .. Len(tree)
  BY <1>1, TreeOf DEF ExportInv, TypeOK
<1>4. ContextPaths = {tree[k].path : k \in {m \in 1 .. listed : IsAround(tree[m])}}
  BY AllKnown
<1>5. Surroundings = {tree[k].path : k \in {m \in 1 .. Len(tree) : IsAround(tree[m])}}
  <2>1. Surroundings = {f.path : f \in {g \in ToSet(tree) : IsAround(g)}}
    BY <1>2 DEF Surroundings, IsAround
  <2>2. {g \in ToSet(tree) : IsAround(g)}
          = {tree[k] : k \in {m \in 1 .. Len(tree) : IsAround(tree[m])}}
    BY <1>3 DEF ToSet
  <2> QED
    BY <2>1, <2>2
<1>6. {m \in 1 .. listed : IsAround(tree[m])} \subseteq {m \in 1 .. Len(tree) : IsAround(tree[m])}
  BY <1>3
<1>7. ContextPaths \subseteq Surroundings
  BY <1>4, <1>5, <1>6
<1>8. IsFiniteSet(Surroundings) /\ Cardinality(Surroundings) \in Nat
  BY <1>1, SurroundingsFinite
<1>9. Cardinality(ContextPaths) = Len(context)
  BY <1>1, ContextCounted
<1>10. Cardinality(ContextPaths) <= Cardinality(Surroundings)
  BY <1>7, <1>8, FS_Subset
<1>11. ~Truncated => ContextPaths = Surroundings
  <2>1. ~Truncated => listed = Len(tree)
    <3>1. \A m \in Nat : \A l \in 0 .. m : ~(l < m) => l = m
      OBVIOUS
    <3> QED
      BY <1>3, <3>1, Zenon DEF Truncated
  <2> QED
    BY <1>4, <1>5, <2>1
<1> QED
  BY <1>2, <1>7, <1>9, <1>10, <1>11

\* What README.md promises of a commit that GitHub lists whole.
LEMMA KnownSurroundings ==
  ASSUME ExportInv, ContextKnown
  PROVE  ContextIsSurroundings
<1> SUFFICES ASSUME at \in Fetching, Len(doc.files) <= FilesPage
             PROVE  /\ ContextPaths \subseteq Surroundings
                    /\ Truncated \/ Len(context) = Cardinality(Surroundings)
                    /\ \A n, k \in DOMAIN context : context[n].path = context[k].path => n = k
                    /\ \A n \in DOMAIN context :
                         LET distances == context[n].distances IN
                         /\ {d.path : d \in distances} =
                              {p \in Affected : Surrounds(context[n].path, p)}
                         /\ \A d \in distances :
                              /\ Front(context[n].path) \in Around[d.path][d.distance - 1]
                              /\ d.distance > 1 =>
                                   Front(context[n].path) \notin Around[d.path][d.distance - 2]
  BY Zenon DEF ContextIsSurroundings, Fetching, ContextPaths
<1>1. Given /\ at \notin Over /\ at \in Counted
  BY InvGiven DEF ExportInv, Counted, Fetching, Over
<1>2. /\ ListedPaths = Affected /\ ContextPaths \subseteq Surroundings
      /\ Truncated \/ Len(context) = Cardinality(Surroundings)
  BY <1>1, WholeContext
<1>3. \A n, k \in DOMAIN context : context[n].path = context[k].path => n = k
  BY <1>1, ContextCounted
<1>4. ASSUME NEW n \in DOMAIN context
      PROVE  LET distances == context[n].distances IN
             /\ {d.path : d \in distances} = {p \in Affected : Surrounds(context[n].path, p)}
             /\ \A d \in distances :
                  /\ Front(context[n].path) \in Around[d.path][d.distance - 1]
                  /\ d.distance > 1 =>
                       Front(context[n].path) \notin Around[d.path][d.distance - 2]
  <2>1. PICK q : q = context[n].path
    OBVIOUS
  <2>2. q \in Paths /\ q \notin Affected
    <3>1. q \in Surroundings
      BY <1>2, <2>1 DEF ContextPaths
    <3>2. PICK f \in ToSet(tree) : f.type = "blob" /\ f.path = q /\ q \notin Affected
      BY <3>1 DEF Surroundings
    <3> QED
      BY <1>1, <3>2, TreeOf DEF ToSet
  <2>3. PICK near : near = {p \in Affected : Surrounds(q, p)}
    OBVIOUS
  <2>4. context[n].distances = {[path |-> p, distance |-> Distance(p, q)] : p \in near}
    <3>1. context[n].distances =
            {[path |-> p, distance |-> Distance(p, context[n].path)] :
               p \in {r \in ListedPaths : Surrounds(context[n].path, r)}}
      BY <1>1, AllKnown
    <3> QED
      BY <1>2, <2>1, <2>3, <3>1, Zenon
  <2>5. {d.path : d \in context[n].distances} = near
    <3>1. ASSUME NEW d \in context[n].distances PROVE d.path \in near
      BY <2>4
    <3>2. ASSUME NEW p \in near PROVE \E d \in context[n].distances : d.path = p
      <4>1. [path |-> p, distance |-> Distance(p, q)] \in context[n].distances
        BY <2>4, Zenon
      <4> QED
        BY <4>1
    <3> QED
      BY <3>1, <3>2
  <2>6. ASSUME NEW d \in context[n].distances
        PROVE  /\ Front(q) \in Around[d.path][d.distance - 1]
               /\ d.distance > 1 => Front(q) \notin Around[d.path][d.distance - 2]
    <3>1. PICK p \in near : d = [path |-> p, distance |-> Distance(p, q)]
      BY <2>4
    <3>2. p \in Paths /\ p # q /\ Surrounds(q, p)
      BY <1>1, <1>2, <2>2, <2>3, ListedArePaths
    <3>3. d.path = p /\ d.distance = Distance(p, q)
      BY <3>1
    <3> QED
      BY <1>1, <2>2, <3>2, <3>3, DepthOf
  <2> QED
    BY <2>1, <2>3, <2>5, <2>6, Zenon
<1> QED
  BY <1>2, <1>3, <1>4

\* The content of a file is only asked for of a commit that is acceptable.
LEMMA MayAsk ==
  ASSUME ExportInv, ContextKnown, LimitsKept, at \in Fetching, WholeAnswers
  PROVE  Acceptable
<1>1. Given /\ at \in Counted
  BY InvGiven DEF ExportInv, Counted
<1>2. /\ Supportable /\ Len(doc.files) \in 1 .. config.maxCommit
      /\ Len(files) = Len(doc.files) /\ Len(files) = Len(Listed)
  BY WholeCommit DEF Fetching
<1>3. Len(doc.files) <= FilesPage
  <2>1. Len(Listed) = IF FilesPage <= Len(doc.files) THEN FilesPage ELSE Len(doc.files)
    BY <1>1, ListedFiles
  <2>2. Len(doc.files) \in Nat /\ FilesPage \in Nat
    BY <1>1, ListedFiles, GithubAssumption
  <2> QED
    BY <1>2, <2>1, <2>2
<1>4. Len(context) = Cardinality(Surroundings)
  BY <1>1, <1>3, WholeContext DEF WholeAnswers
<1>5. Len(context) <= config.maxContext /\ Len(files) + Len(context) <= config.maxTotal
  BY DEF LimitsKept, Fetching, TotalFiles
<1> QED
  BY <1>2, <1>4, <1>5 DEF Acceptable, WithinLimits

-----------------------------------------------------------------------------
(* The steps, for the context and the reasons of a rejection.              *)

\* A step that asks for nothing.
LEMMA SilentAsked ==
  ASSUME ContentAskedLast, UNCHANGED given, requests' = requests, listed' = listed
  PROVE  ContentAskedLast'
<1>1. (WholeAnswers' <=> WholeAnswers) /\ (Acceptable' <=> Acceptable)
  BY SameCommit, SameSurroundings DEF WholeAnswers, Truncated
<1> QED
  BY <1>1, Zenon DEF ContentAskedLast

\* A step while the contents are asked for.
LEMMA FetchingAsked ==
  ASSUME ExportInv, ContextInv, at \in Fetching, UNCHANGED given, listed' = listed
  PROVE  ContentAskedLast'
<1>1. (WholeAnswers' <=> WholeAnswers) /\ (Acceptable' <=> Acceptable)
  BY SameCommit, SameSurroundings DEF WholeAnswers, Truncated
<1>2. WholeAnswers => Acceptable
  BY MayAsk DEF ContextInv
<1> QED
  BY <1>1, <1>2, Zenon DEF ContentAskedLast

LEMMA AppendedIs ==
  ASSUME NEW S, NEW s \in Seq(S), NEW x
  PROVE  /\ DOMAIN Append(s, x) = 1 .. Len(s) + 1 /\ DOMAIN s = 1 .. Len(s)
         /\ \A k \in 1 .. Len(s) : Append(s, x)[k] = s[k]
         /\ Append(s, x)[Len(s) + 1] = x
         /\ ToSet(Append(s, x)) = ToSet(s) \cup {x}
<1>1. PICK T : T = S \cup {x}
  OBVIOUS
<1>2. s \in Seq(T) /\ x \in T
  BY <1>1, SeqMonotonic
<1>3. /\ DOMAIN Append(s, x) = 1 .. Len(s) + 1 /\ DOMAIN s = 1 .. Len(s) /\ Len(s) \in Nat
      /\ \A k \in 1 .. Len(s) : Append(s, x)[k] = s[k]
      /\ Append(s, x)[Len(s) + 1] = x
  BY <1>2
<1>4. ToSet(Append(s, x)) = ToSet(s) \cup {x}
  BY <1>3 DEF ToSet
<1> QED
  BY <1>3, <1>4

\* The requests for the commit and for its tree come before any for a content.
LEMMA NoContentYet ==
  ASSUME ExportInv, at \in {"probe commit", "probe context"},
         NEW r \in Requests, r.what # "content", requests' = Append(requests, r)
  PROVE  ContentAskedLast'
<1>1. requests \in Seq(Requests) /\ ToSet(requests) \subseteq Answered
  BY Zenon DEF ExportInv, RequestsSoFar, Over
<1>2. \A n : ~BeforeFetched(n) /\ ~AfterFetched(n) /\ ~ContextFetched(n)
  BY DEF BeforeFetched, AfterFetched, ContextFetched
<1>3. ASSUME NEW q \in Answered PROVE q.what # "content"
  <2>1. q = Request("commit", "after", NULL) \/ q = Request("tree", "after", NULL)
    BY <1>2, Zenon DEF Answered
  <2>2. /\ Request("commit", "after", NULL).what # "content"
        /\ Request("tree", "after", NULL).what # "content"
    BY DEF Request
  <2> QED
    BY <2>1, <2>2, Zenon
<1>4. ToSet(requests') = ToSet(requests) \cup {r}
  BY <1>1, AppendedIs, Zenon
<1>5. \A n \in DOMAIN requests' : requests'[n].what # "content"
  BY <1>1, <1>3, <1>4, Zenon DEF ToSet
<1> QED
  BY <1>5, Zenon DEF ContentAskedLast

\* A rejected commit needs nothing but a reason.
LEMMA RejectedStep ==
  ASSUME UNCHANGED given, Reject, ContentAskedLast',
         ~Acceptable \/ refused' \/ (Len(doc.files) > FilesPage /\ config.depth > 0)
  PROVE  ContextInv'
<1>1. at' = "rejected" /\ at' \in NoContextYet /\ at' \in Over
  BY DEF Reject, NoContextYet, Over
<1>2. ContextKnown'
  BY <1>1, Zenon DEF ContextKnown
<1>3. LimitsKept'
  BY <1>1 DEF LimitsKept, Over
<1>4. RejectedForAReason'
  BY SameCommit, SameSurroundings, Zenon DEF RejectedForAReason
<1> QED
  BY <1>2, <1>3, <1>4 DEF ContextInv

\* A step to a place where there is no context and no limit has been kept.
LEMMA PlainStep ==
  ASSUME ContentAskedLast', at' \in {"parse commit", "count files", "exited", "exported"}
  PROVE  ContextInv'
<1>1. at' \in NoContextYet /\ at' \in Before \cup Over \cup {"count files"}
  BY DEF NoContextYet, Over, Before
<1>2. ContextKnown'
  BY <1>1, Zenon DEF ContextKnown
<1>3. LimitsKept'
  BY <1>1 DEF LimitsKept, Over, Before
<1> QED
  BY <1>2, <1>3 DEF ContextInv, RejectedForAReason

\* A step that leaves the paths of the context and their distances.
LEMMA SameKnown ==
  ASSUME ContextKnown, UNCHANGED given, listed' = listed, at \in Counted, at' \in Counted,
         DOMAIN context' = DOMAIN context,
         \A n \in DOMAIN context : /\ context'[n].path = context[n].path
                                   /\ context'[n].distances = context[n].distances
  PROVE  ContextKnown'
<1>1. at' # "add context"
  BY DEF Counted, Fetching
<1>2. config' = config /\ tree' = tree /\ ListedPaths' = ListedPaths
  BY SameCommit, SameSurroundings
<1>3. /\ {context[n].path : n \in DOMAIN context} =
           {tree[k].path : k \in {m \in 1 .. listed : IsAround(tree[m])}}
      /\ \A n \in DOMAIN context :
           context[n].distances =
             {[path |-> p, distance |-> Distance(p, context[n].path)] :
                p \in {q \in ListedPaths : Surrounds(context[n].path, q)}}
  BY AllKnown DEF ContextPaths
<1>4. {context'[n].path : n \in DOMAIN context'} = {context[n].path : n \in DOMAIN context}
  BY Zenon
<1>5. \A m \in 1 .. listed : IsAround(tree[m])' <=> IsAround(tree[m])
  BY <1>2 DEF IsAround, Surrounds
<1>6. {context[n].path : n \in DOMAIN context}' =
        {tree[k].path : k \in {m \in 1 .. listed : (at = "add context" => m < i)
                                                       /\ IsAround(tree[m])}}'
  <2>1. {m \in 1 .. listed : (at = "add context" => m < i) /\ IsAround(tree[m])}'
          = {m \in 1 .. listed : IsAround(tree[m])}
    BY <1>1, <1>5
  <2> QED
    BY <1>2, <1>3, <1>4, <2>1, Zenon
<1>7. ASSUME NEW n \in DOMAIN context'
      PROVE  (context[n].distances =
               {[path |-> p, distance |-> Distance(p, context[n].path)] :
                  p \in {q \in ListedPaths : Surrounds(context[n].path, q)}})'
  <2>1. PICK x : x = context[n].path
    OBVIOUS
  <2>2. n \in DOMAIN context /\ context'[n].path = x /\ context'[n].distances = context[n].distances
    BY <2>1
  <2>3. {q \in ListedPaths : Surrounds(context[n].path, q)}'
          = {q \in ListedPaths : Surrounds(context[n].path, q)}
    BY <1>2, <2>2 DEF Surrounds
  <2>4. context[n].distances = {[path |-> p, distance |-> Distance(p, context[n].path)] :
                                  p \in {q \in ListedPaths : Surrounds(context[n].path, q)}}
    BY <1>3, <2>2, Zenon
  <2> QED
    BY <2>1, <2>2, <2>3, <2>4, Zenon
<1> QED
  BY <1>6, <1>7, Zenon DEF ContextKnown

LEMMA ProbeCommitContext ==
  ASSUME ExportInv, ContextInv, ProbeCommit
  PROVE  ContextInv'
<1> DEFINE r == Request("commit", "after", NULL)
<1>1. /\ at = "probe commit" /\ UNCHANGED given /\ requests' = Append(requests, r)
      /\ \/ at' = "parse commit"
         \/ Reject /\ refused' = TRUE
  BY DEF ProbeCommit, Ask, Goto
<1>2. r \in Requests /\ r.what # "content"
  BY DEF Request, Requests
<1>3. ContentAskedLast'
  <2> HIDE DEF r
  <2> QED
    BY <1>1, <1>2, NoContentYet
<1>4. CASE at' = "parse commit"
  BY <1>3, <1>4, PlainStep
<1>5. CASE Reject /\ refused' = TRUE
  BY <1>1, <1>3, <1>5, RejectedStep
<1> QED
  BY <1>1, <1>4, <1>5

\* A commit with a file the parser rejects is not supported.
LEMMA OffendingFile ==
  ASSUME Given, Offending # {}, ~UnknownStatus
  PROVE  ~Supportable
<1>1. Offending \subseteq DOMAIN Listed /\ DOMAIN Listed \subseteq Nat
  BY ListedFiles DEF Offending
<1>2. PICK n \in DOMAIN Listed : Listed[n].status \in Statuses /\ ~Accepts(Listed[n])
  <2>1. Min(Offending) \in Offending
    BY <1>1, FirstOf
  <2>2. Listed[Min(Offending)].status \in Statuses
    BY Zenon DEF UnknownStatus
  <2> QED
    BY <2>1, <2>2 DEF Offending
<1>3. Listed[n] \in ToSet(doc.files)
  BY ListedFiles DEF ToSet
<1>4. PICK f \in ToSet(doc.files) : f = Listed[n] /\ ~Accepts(f)
  BY <1>2, <1>3, Zenon
<1>5. ASSUME Supported(f.filename), f.status = "renamed",
             Ext[f.previous] = Ext[f.filename]
      PROVE  Ext[f.previous] # NULL
  BY <1>5, GithubAssumption DEF Supported
<1> QED
  BY <1>4, <1>5 DEF Accepts, Supportable

LEMMA ParseCommitContext ==
  ASSUME ExportInv, ContextInv, ParseCommit
  PROVE  ContextInv'
<1>1. /\ at = "parse commit" /\ UNCHANGED given /\ requests' = requests /\ listed' = listed
      /\ \/ at' = "count files"
         \/ Reject /\ (~HasParent \/ (Offending # {} /\ ~UnknownStatus))
  BY DEF ParseCommit, Silent, Reject
<1>2. ContentAskedLast'
  BY <1>1, SilentAsked DEF ContextInv
<1>3. CASE at' = "count files"
  BY <1>2, <1>3, PlainStep
<1>4. CASE Reject /\ (~HasParent \/ (Offending # {} /\ ~UnknownStatus))
  <2>1. ~HasParent => ~Supportable
    BY DEF HasParent, Supportable
  <2>2. ~Supportable
    BY <1>4, <2>1, OffendingFile, InvGiven DEF ExportInv
  <2> QED
    BY <1>1, <1>2, <1>4, <2>2, RejectedStep DEF Acceptable
<1> QED
  BY <1>1, <1>3, <1>4

LEMMA ExitContext ==
  ASSUME ContextInv, Exit
  PROVE  ContextInv'
<1>1. /\ UNCHANGED given /\ requests' = requests /\ listed' = listed /\ at' = "exited"
  BY DEF Exit, Goto, Silent
<1>2. ContentAskedLast'
  BY <1>1, SilentAsked DEF ContextInv
<1> QED
  BY <1>1, <1>2, PlainStep

\* A commit of which too many files are listed, or none, is not within the limits.
LEMMA FilesCounted ==
  ASSUME Given, Len(Listed) = 0 \/ Len(Listed) > config.maxCommit \/ Len(Listed) > config.maxTotal
  PROVE  ~Acceptable
<1>1. PICK m \in Nat, c \in Nat :
        /\ m = Len(doc.files) /\ c = Cardinality(Surroundings)
  BY ListedFiles, SurroundingsFinite
<1>2. PICK l \in Nat : l = Len(Listed) /\ l <= m /\ l = IF FilesPage <= m THEN FilesPage ELSE m
  BY <1>1, ListedFiles
<1>3. FilesPage \in Nat \ {0} /\ config.maxCommit \in Nat /\ config.maxTotal \in Nat
  BY GithubAssumption DEF Given
<1>4. m = 0 \/ m > config.maxCommit \/ m + c > config.maxTotal
  BY <1>2, <1>3
<1>5. WithinLimits => m \in 1 .. config.maxCommit /\ m + c <= config.maxTotal
  BY <1>1 DEF WithinLimits
<1>6. ~WithinLimits
  BY <1>3, <1>4, <1>5
<1> QED
  BY <1>6 DEF Acceptable

LEMMA CountFilesContext ==
  ASSUME ExportInv, ContextInv, CountFiles
  PROVE  ContextInv'
<1>1. /\ at = "count files" /\ UNCHANGED given /\ requests' = requests /\ listed' = listed
      /\ \/ /\ Reject
            /\ files = <<>> \/ Len(files) > config.maxCommit \/ Len(files) > config.maxTotal
         \/ /\ at' = IF config.depth > 0 THEN "probe context" ELSE "count context"
            /\ files' = files /\ context' = context
            /\ ~(Len(files) > config.maxTotal)
  BY DEF CountFiles, Silent, Goto, entry, Exceeds, Reject
<1>2. Given /\ Len(files) = Len(Listed) /\ context = <<>> /\ files \in Seq(FileStates)
  BY <1>1, InvGiven DEF ExportInv, TypeOK, FilesSoFar, ContextSoFar, Before, Over
<1>3. ContentAskedLast'
  BY <1>1, SilentAsked DEF ContextInv
<1>4. CASE /\ Reject
           /\ files = <<>> \/ Len(files) > config.maxCommit \/ Len(files) > config.maxTotal
  <2>1. files = <<>> => Len(files) = 0
    OBVIOUS
  <2>2. ~Acceptable
    BY <1>2, <1>4, <2>1, FilesCounted
  <2> QED
    BY <1>1, <1>3, <1>4, <2>2, RejectedStep
<1>5. CASE /\ at' = IF config.depth > 0 THEN "probe context" ELSE "count context"
           /\ files' = files /\ context' = context
           /\ ~(Len(files) > config.maxTotal)
  <2>1. config' = config /\ Len(files') <= config'.maxTotal
    <3>1. Len(files) \in Nat /\ config.maxTotal \in Nat
      BY <1>2, GithubAssumption DEF Given
    <3>2. Len(files) <= config.maxTotal
      <4>1. \A m, n \in Nat : ~(m > n) => m <= n
        OBVIOUS
      <4> QED
        BY <1>5, <3>1, <4>1, Zenon
    <3> QED
      BY <1>1, <1>5, <3>2, SameCommit, Zenon
  <2>2. LimitsKept'
    BY <1>5, <2>1 DEF LimitsKept
  <2>3. ContextKnown'
    <3>1. CASE config.depth > 0
      <4>1. at' \in NoContextYet
        BY <1>5, <3>1 DEF NoContextYet
      <4> QED
        BY <4>1, Zenon DEF ContextKnown
    <3>2. CASE ~(config.depth > 0)
      <4>1. \A f : ~IsAround(f)
        BY <3>2 DEF IsAround, Surrounds
      <4>2. \A m \in 1 .. listed' : ~IsAround(tree[m])'
        BY <2>1, <3>2 DEF IsAround, Surrounds
      <4>3. DOMAIN context' = {}
        BY <1>2, <1>5, Nothing
      <4> QED
        BY <4>2, <4>3 DEF ContextKnown
    <3> QED
      BY <3>1, <3>2
  <2>4. RejectedForAReason'
    BY <1>5 DEF RejectedForAReason
  <2> QED
    BY <1>3, <2>2, <2>3, <2>4 DEF ContextInv
<1> QED
  BY <1>1, <1>4, <1>5

LEMMA ProbeContextContext ==
  ASSUME ExportInv, ContextInv, ProbeContext
  PROVE  ContextInv'
<1> DEFINE r == Request("tree", "after", NULL)
<1>1. /\ at = "probe context" /\ UNCHANGED given /\ requests' = Append(requests, r)
      /\ \/ at' = "add context" /\ files' = files /\ context' = context /\ i' = i
         \/ Reject /\ refused' = TRUE
  BY DEF ProbeContext, Ask, entry
<1>2. r \in Requests /\ r.what # "content"
  BY DEF Request, Requests
<1>3. ContentAskedLast'
  <2> HIDE DEF r
  <2> QED
    BY <1>1, <1>2, NoContentYet
<1>4. CASE at' = "add context" /\ files' = files /\ context' = context /\ i' = i
  <2>1. context' = <<>> /\ i' = 1
    BY <1>1, <1>4, Start DEF ExportInv, ContextSoFar
  <2>2. LimitsKept'
    <3>1. Len(files) <= config.maxTotal
      BY <1>1 DEF ContextInv, LimitsKept, Before, Over
    <3> QED
      BY <1>1, <1>4, <3>1, SameCommit DEF LimitsKept
  <2>3. ContextKnown'
    <3>1. DOMAIN context' = {}
      BY <2>1, Nothing
    <3>2. {m \in 1 .. listed : (at = "add context" => m < i) /\ IsAround(tree[m])}' = {}
      <4>1. \A m \in 1 .. listed' : ~(m < i')
        BY <2>1
      <4> QED
        BY <1>4, <4>1
    <3> QED
      BY <3>1, <3>2 DEF ContextKnown
  <2>4. RejectedForAReason'
    BY <1>4 DEF RejectedForAReason
  <2> QED
    BY <1>3, <2>2, <2>3, <2>4 DEF ContextInv
<1>5. CASE Reject /\ refused' = TRUE
  BY <1>1, <1>3, <1>5, RejectedStep
<1> QED
  BY <1>1, <1>4, <1>5

\* A file around the listed ones joins the context, and no other.
LEMMA AddContextFileContext ==
  ASSUME ExportInv, ContextInv, AddContextFile
  PROVE  ContextInv'
<1>1. /\ at = "add context" /\ i <= listed /\ UNCHANGED given
      /\ requests' = requests /\ listed' = listed /\ at' = at /\ files' = files /\ i' = i + 1
      /\ context' = IF IsContext(tree[i]) THEN Append(context, NewContextFile(tree[i].path))
                    ELSE context
  BY DEF AddContextFile, Silent
<1>2. ContentAskedLast'
  BY <1>1, SilentAsked DEF ContextInv
<1>3. RejectedForAReason'
  BY <1>1 DEF RejectedForAReason
<1>4. LimitsKept'
  <2>1. Len(files) <= config.maxTotal
    BY <1>1 DEF ContextInv, LimitsKept, Before, Over
  <2> QED
    BY <1>1, <2>1, SameCommit DEF LimitsKept
<1>5. /\ Given /\ i \in 1 .. listed /\ listed \in 0 .. Len(tree)
      /\ Len(tree) \in Nat /\ DOMAIN tree = 1 .. Len(tree)
      /\ \A n \in DOMAIN tree : tree[n].type = "blob" => tree[n].path \in Paths
  <2>1. Given /\ i \in 1 .. listed + 1 /\ listed \in 0 .. Len(tree)
    BY <1>1, InvGiven DEF ExportInv, TypeOK
  <2>2. \A l \in Nat : \A k \in 1 .. l + 1 : k <= l => k \in 1 .. l
    OBVIOUS
  <2>3. Len(tree) \in Nat /\ \A l \in Nat : \A k \in 0 .. l : k \in Nat
    BY <2>1, TreeOf
  <2> QED
    BY <1>1, <2>1, <2>2, <2>3, TreeOf, Zenon
<1>6. i \in Nat /\ i \in DOMAIN tree
  BY <1>5
<1>7. /\ {context[n].path : n \in DOMAIN context} =
           {tree[k].path : k \in {m \in 1 .. listed : m < i /\ IsAround(tree[m])}}
      /\ \A n \in DOMAIN context :
           context[n].distances =
             {[path |-> p, distance |-> Distance(p, context[n].path)] :
                p \in {q \in ListedPaths : Surrounds(context[n].path, q)}}
  <2>1. at \notin NoContextYet
    BY <1>1 DEF NoContextYet, Before, Over
  <2>2. {m \in 1 .. listed : (at = "add context" => m < i) /\ IsAround(tree[m])}
          = {m \in 1 .. listed : m < i /\ IsAround(tree[m])}
    BY <1>1
  <2>3. ContextKnown
    BY DEF ContextInv
  <2> QED
    BY <2>1, <2>2, <2>3, Zenon DEF ContextKnown
<1>8. PICK f : f = tree[i]
  OBVIOUS
<1>9. PICK x : x = NewContextFile(f.path)
  OBVIOUS
<1>10. /\ IsContext(f) <=> IsAround(f)
       /\ IsContext(f) => x.distances = {[path |-> p, distance |-> Distance(p, f.path)] :
                                           p \in {q \in ListedPaths : Surrounds(f.path, q)}}
       /\ x.path = f.path
  <2>1. f.type = "blob" => f.path \in Paths
    BY <1>5, <1>6, <1>8
  <2>2. x.path = f.path
    BY <1>9 DEF NewContextFile
  <2> QED
    BY <1>1, <1>9, <2>1, <2>2, ContextOf
<1>11. context' = IF IsAround(f) THEN Append(context, x) ELSE context
  BY <1>1, <1>8, <1>9, <1>10, Zenon
<1>12. {m \in 1 .. listed : m < i + 1 /\ IsAround(tree[m])}
         = {m \in 1 .. listed : m < i /\ IsAround(tree[m])} \cup (IF IsAround(f) THEN {i} ELSE {})
  <2>1. \A m \in 1 .. listed : m < i + 1 <=> m < i \/ m = i
    BY <1>6
  <2> QED
    BY <1>5, <1>8, <2>1
<1>13. PICK m \in Nat : m = Len(context) /\ DOMAIN context = 1 .. m
  BY <1>1, ContextCounted DEF Over
<1>14. IsAround(f) =>
         /\ DOMAIN context' = 1 .. m + 1
         /\ \A n \in 1 .. m : context'[n] = context[n]
         /\ context'[m + 1] = x
  <2>1. context \in Seq(ToSet(context))
    BY Zenon DEF ExportInv, ContextSoFar
  <2> QED
    BY <1>11, <1>13, <2>1, AppendedIs
<1>15. {context'[n].path : n \in DOMAIN context'} =
         {context[n].path : n \in DOMAIN context} \cup (IF IsAround(f) THEN {f.path} ELSE {})
  <2>1. CASE IsAround(f)
    <3>1. \A n \in 1 .. m + 1 : n \in 1 .. m \/ n = m + 1
      OBVIOUS
    <3>2. \A n \in 1 .. m : n \in 1 .. m + 1
      OBVIOUS
    <3>3. m + 1 \in 1 .. m + 1
      OBVIOUS
    <3>4. ASSUME NEW n \in DOMAIN context'
          PROVE  context'[n].path \in {context[k].path : k \in DOMAIN context} \cup {f.path}
      BY <1>10, <1>13, <1>14, <2>1, <3>1, Zenon
    <3>5. ASSUME NEW n \in DOMAIN context
          PROVE  context[n].path \in {context'[k].path : k \in DOMAIN context'}
      BY <1>13, <1>14, <2>1, <3>2, Zenon
    <3>6. f.path \in {context'[k].path : k \in DOMAIN context'}
      BY <1>10, <1>14, <2>1, <3>3, Zenon
    <3> QED
      BY <2>1, <3>4, <3>5, <3>6
  <2>2. CASE ~IsAround(f)
    BY <1>11, <2>2
  <2> QED
    BY <2>1, <2>2
<1>16. config' = config /\ tree' = tree /\ ListedPaths' = ListedPaths
  BY <1>1, SameCommit, SameSurroundings
<1>17. ({context[n].path : n \in DOMAIN context} =
          {tree[k].path : k \in {j \in 1 .. listed :
                                   (at = "add context" => j < i) /\ IsAround(tree[j])}})'
  <2>1. \A j \in 1 .. listed : IsAround(tree[j])' <=> IsAround(tree[j])
    BY <1>16 DEF IsAround, Surrounds
  <2>2. {j \in 1 .. listed : (at = "add context" => j < i) /\ IsAround(tree[j])}'
          = {j \in 1 .. listed : j < i + 1 /\ IsAround(tree[j])}
    BY <1>1, <2>1
  <2>3. {tree[k].path : k \in {j \in 1 .. listed : j < i + 1 /\ IsAround(tree[j])}}
          = {tree[k].path : k \in {j \in 1 .. listed : j < i /\ IsAround(tree[j])}}
              \cup (IF IsAround(f) THEN {f.path} ELSE {})
    BY <1>8, <1>12
  <2>4. {tree[k].path : k \in {j \in 1 .. listed : (at = "add context" => j < i)
                                                       /\ IsAround(tree[j])}}'
          = {tree[k].path : k \in {j \in 1 .. listed : j < i + 1 /\ IsAround(tree[j])}}
    BY <1>16, <2>2, Zenon
  <2>5. {context'[n].path : n \in DOMAIN context'} =
          {tree[k].path : k \in {j \in 1 .. listed : j < i /\ IsAround(tree[j])}}
            \cup (IF IsAround(f) THEN {f.path} ELSE {})
    BY <1>7, <1>15, Zenon
  <2> QED
    BY <2>3, <2>4, <2>5, Zenon
<1>18. ASSUME NEW n \in DOMAIN context'
       PROVE  (context[n].distances =
                {[path |-> p, distance |-> Distance(p, context[n].path)] :
                   p \in {q \in ListedPaths : Surrounds(context[n].path, q)}})'
  <2>1. PICK y : y = context'[n]
    OBVIOUS
  <2>2. y.distances = {[path |-> p, distance |-> Distance(p, y.path)] :
                         p \in {q \in ListedPaths : Surrounds(y.path, q)}}
    <3>1. CASE n \in DOMAIN context /\ context[n] = y
      BY <1>7, <3>1, Zenon
    <3>2. CASE IsAround(f) /\ y = x
      BY <1>10, <3>2, Zenon
    <3>3. \A k \in 1 .. m + 1 : k \in 1 .. m \/ k = m + 1
      OBVIOUS
    <3> QED
      BY <1>11, <1>13, <1>14, <2>1, <3>1, <3>2, <3>3, Zenon
  <2>3. {q \in ListedPaths : Surrounds(context[n].path, q)}'
          = {q \in ListedPaths : Surrounds(y.path, q)}
    BY <1>16, <2>1 DEF Surrounds
  <2> QED
    BY <2>1, <2>2, <2>3, Zenon
<1>19. ContextKnown'
  BY <1>17, <1>18, Zenon DEF ContextKnown
<1> QED
  BY <1>2, <1>3, <1>4, <1>19 DEF ContextInv

LEMMA ContextAddedContext ==
  ASSUME ExportInv, ContextInv, ContextAdded
  PROVE  ContextInv'
<1>1. /\ at = "add context" /\ i > listed /\ UNCHANGED given /\ requests' = requests
      /\ at' = "count context" /\ files' = files /\ context' = context
      /\ i' = i /\ listed' = listed
  BY DEF ContextAdded, Silent, Goto, entry
<1>2. ContentAskedLast' /\ RejectedForAReason'
  BY <1>1, SilentAsked DEF ContextInv, RejectedForAReason
<1>3. config' = config /\ tree' = tree /\ ListedPaths' = ListedPaths
  BY <1>1, SameCommit, SameSurroundings
<1>4. LimitsKept'
  <2>1. Len(files) <= config.maxTotal
    BY <1>1 DEF ContextInv, LimitsKept, Before, Over
  <2> QED
    BY <1>1, <1>3, <2>1 DEF LimitsKept
<1>5. /\ {context[n].path : n \in DOMAIN context} =
           {tree[k].path : k \in {m \in 1 .. listed :
                                    (at = "add context" => m < i) /\ IsAround(tree[m])}}
      /\ \A n \in DOMAIN context :
           context[n].distances =
             {[path |-> p, distance |-> Distance(p, context[n].path)] :
                p \in {q \in ListedPaths : Surrounds(context[n].path, q)}}
  <2>1. at \notin NoContextYet
    BY <1>1 DEF NoContextYet, Before, Over
  <2> QED
    BY <2>1, Zenon DEF ContextInv, ContextKnown
<1>6. {m \in 1 .. listed : (at = "add context" => m < i) /\ IsAround(tree[m])}'
        = {m \in 1 .. listed : (at = "add context" => m < i) /\ IsAround(tree[m])}
  <2>1. \A m \in 1 .. listed : IsAround(tree[m])' <=> IsAround(tree[m])
    BY <1>3 DEF IsAround, Surrounds
  <2>2. \A m \in 1 .. listed : m < i
    <3>1. listed \in 0 .. Len(tree) /\ i \in 1 .. listed + 1 /\ Len(tree) \in Nat
      BY <1>1, InvGiven, TreeOf DEF ExportInv, TypeOK
    <3>2. \A l \in Nat : \A k \in 0 .. l : \A n \in 1 .. k + 1 : n > k => \A m \in 1 .. k : m < n
      OBVIOUS
    <3> QED
      BY <1>1, <3>1, <3>2, Zenon
  <2> QED
    BY <1>1, <2>1, <2>2
<1>7. ContextKnown'
  <2>1. ({context[n].path : n \in DOMAIN context} =
          {tree[k].path : k \in {m \in 1 .. listed :
                                   (at = "add context" => m < i) /\ IsAround(tree[m])}})'
    BY <1>1, <1>3, <1>5, <1>6, ZenonT(40)
  <2>2. ASSUME NEW n \in DOMAIN context'
        PROVE  (context[n].distances =
                 {[path |-> p, distance |-> Distance(p, context[n].path)] :
                    p \in {q \in ListedPaths : Surrounds(context[n].path, q)}})'
    <3>1. {q \in ListedPaths : Surrounds(context[n].path, q)}'
            = {q \in ListedPaths : Surrounds(context[n].path, q)}
      BY <1>1, <1>3 DEF Surrounds
    <3> QED
      BY <1>1, <1>5, <3>1, Zenon
  <2> QED
    BY <2>1, <2>2, Zenon DEF ContextKnown
<1> QED
  BY <1>2, <1>4, <1>7 DEF ContextInv

TooLarge ==
  \/ Len(context) > config.maxContext
  \/ Len(context) > config.maxTotal
  \/ TotalFiles > config.maxTotal

LEMMA Numbers ==
  /\ \A x, y \in Nat : ~(x <= y) => x > y
  /\ \A x, y, z \in Nat : z <= y => ~(0 > x \/ 0 > y \/ z + 0 > y)
OBVIOUS

LEMMA TooMany ==
  ASSUME NEW k \in Nat, NEW l \in Nat, NEW c \in Nat, NEW x \in Nat, NEW y \in Nat,
         k > x \/ k > y \/ l + k > y, k <= c
  PROVE  ~(c <= x /\ l + c <= y)
OBVIOUS

\* A commit whose context is too large is not within the limits, unless files that
\* GitHub does not list are in it.
LEMMA ContextTooLarge ==
  ASSUME ExportInv, ContextInv, at = "count context",
         TooLarge
  PROVE  ~Acceptable \/ (Len(doc.files) > FilesPage /\ config.depth > 0)
<1>1. /\ Given /\ at \in Counted /\ at \notin Over /\ at \notin Before
      /\ Len(files) = Len(Listed) /\ Len(files) <= config.maxTotal
  <2>1. at \notin Before \cup Over \cup {"count files"} /\ at \in Counted
    BY DEF Counted, Before, Over
  <2> QED
    BY <2>1, InvGiven, Zenon DEF ExportInv, FilesSoFar, ContextInv, LimitsKept
<1>2. PICK m \in Nat, c \in Nat, k \in Nat, l \in Nat :
        m = Len(doc.files) /\ c = Cardinality(Surroundings) /\ k = Len(context) /\ l = Len(Listed)
  <2>1. Len(doc.files) \in Nat /\ Len(Listed) \in Nat
    BY <1>1, ListedFiles
  <2> QED
    BY <1>1, <2>1, SurroundingsFinite, ContextCounted
<1>3. config.maxContext \in Nat /\ config.maxTotal \in Nat /\ FilesPage \in Nat
  BY <1>1, GithubAssumption DEF Given
<1>4. k > config.maxContext \/ k > config.maxTotal \/ l + k > config.maxTotal
  BY <1>1, <1>2 DEF TotalFiles, TooLarge
<1>5. CASE m <= FilesPage
  <2>1. k <= c /\ l = m
    BY <1>1, <1>2, <1>5, WholeContext, AllListed DEF ContextInv
  <2>2. WithinLimits => c <= config.maxContext /\ m + c <= config.maxTotal
    BY <1>2 DEF WithinLimits
  <2>3. ~(c <= config.maxContext /\ m + c <= config.maxTotal)
    BY <1>3, <1>4, <2>1, TooMany, Zenon
  <2> QED
    BY <2>2, <2>3 DEF Acceptable
<1>6. CASE ~(m <= FilesPage)
  <2>1. SUFFICES ASSUME ~(config.depth > 0) PROVE FALSE
    BY <1>2, <1>3, <1>6, Numbers, Zenon
  <2>2. \A f : ~IsAround(f)
    BY <2>1 DEF IsAround, Surrounds
  <2>3. ContextPaths = {}
    BY <1>1, <2>2, AllKnown DEF ContextInv
  <2>4. Len(context) = 0
    <3>1. Cardinality(ContextPaths) = Len(context)
      BY <1>1, ContextCounted
    <3> QED
      BY <2>3, <3>1, FS_EmptySet
  <2>5. k = 0 /\ l <= config.maxTotal
    BY <1>1, <1>2, <2>4
  <2> QED
    BY <1>2, <1>3, <1>4, <2>5, Numbers, Zenon
<1> QED
  BY <1>5, <1>6

LEMMA CountContextContext ==
  ASSUME ExportInv, ContextInv, CountContext
  PROVE  ContextInv'
<1>1. /\ at = "count context" /\ UNCHANGED given /\ requests' = requests /\ listed' = listed
      /\ \/ /\ Reject
            /\ TooLarge
         \/ /\ at' = "before" /\ files' = files /\ context' = context
            /\ ~(Len(context) > config.maxContext) /\ ~(TotalFiles > config.maxTotal)
  BY DEF CountContext, Silent, entry, Exceeds, Reject, TooLarge
<1>2. ContentAskedLast'
  BY <1>1, SilentAsked DEF ContextInv
<1>3. CASE /\ Reject
           /\ TooLarge
  BY <1>1, <1>2, <1>3, ContextTooLarge, RejectedStep
<1>4. CASE /\ at' = "before" /\ files' = files /\ context' = context
           /\ ~(Len(context) > config.maxContext) /\ ~(TotalFiles > config.maxTotal)
  <2>1. ContextKnown'
    <3>1. at \in Counted /\ at' \in Counted
      BY <1>1, <1>4 DEF Counted, Fetching
    <3> QED
      BY <1>1, <1>4, <3>1, SameKnown DEF ContextInv
  <2>2. LimitsKept'
    <3>1. Given /\ at \notin Over /\ Len(files) = Len(Listed) /\ Len(files) <= config.maxTotal
      <4>1. at \notin Before \cup Over \cup {"count files"}
        BY <1>1 DEF Before, Over
      <4> QED
        BY <4>1, InvGiven, Zenon DEF ExportInv, FilesSoFar, ContextInv, LimitsKept
    <3>2. Len(files) \in Nat /\ Len(context) \in Nat
      BY <3>1, ListedFiles, ContextCounted
    <3>3. config.maxContext \in Nat /\ config.maxTotal \in Nat
      BY <3>1, GithubAssumption DEF Given
    <3>4. Len(context) <= config.maxContext /\ Len(files) + Len(context) <= config.maxTotal
      <4>1. \A x, y \in Nat : ~(x > y) => x <= y
        OBVIOUS
      <4>2. Len(files) + Len(context) \in Nat
        BY <3>2
      <4> QED
        BY <1>4, <3>2, <3>3, <4>1, <4>2, Zenon DEF TotalFiles
    <3> QED
      BY <1>1, <1>4, <3>1, <3>4, SameCommit, Zenon DEF LimitsKept, TotalFiles
  <2> QED
    BY <1>2, <1>4, <2>1, <2>2 DEF ContextInv, RejectedForAReason
<1> QED
  BY <1>1, <1>3, <1>4

\* A step with the contents: the request is not answered, or the entry keeps its
\* files and context files.
LEMMA FetchingStep ==
  ASSUME ExportInv, ContextInv, at \in Fetching, UNCHANGED given, listed' = listed,
         \/ Reject /\ refused' = TRUE
         \/ /\ at' \in Fetching
            /\ Len(files') = Len(files) /\ Len(context') = Len(context)
            /\ DOMAIN context' = DOMAIN context
            /\ \A n \in DOMAIN context : /\ context'[n].path = context[n].path
                                         /\ context'[n].distances = context[n].distances
  PROVE  ContextInv'
<1>1. ContentAskedLast'
  BY FetchingAsked
<1>2. CASE Reject /\ refused' = TRUE
  BY <1>1, <1>2, RejectedStep
<1>3. CASE /\ at' \in Fetching
           /\ Len(files') = Len(files) /\ Len(context') = Len(context)
           /\ DOMAIN context' = DOMAIN context
           /\ \A n \in DOMAIN context : /\ context'[n].path = context[n].path
                                        /\ context'[n].distances = context[n].distances
  <2>1. ContextKnown'
    BY <1>3, SameKnown DEF ContextInv, Counted
  <2>2. LimitsKept'
    <3>1. /\ Len(files) <= config.maxTotal
          /\ Len(context) <= config.maxContext /\ TotalFiles <= config.maxTotal
      BY DEF ContextInv, LimitsKept, Fetching, Before, Over
    <3>2. TotalFiles' = TotalFiles
      BY <1>3 DEF TotalFiles
    <3> QED
      BY <1>3, <3>1, <3>2, SameCommit DEF LimitsKept
  <2>3. RejectedForAReason'
    BY <1>3 DEF RejectedForAReason, Fetching
  <2> QED
    BY <1>1, <2>1, <2>2, <2>3 DEF ContextInv
<1> QED
  BY <1>2, <1>3

\* What is stored in an element leaves the length.
LEMMA StoredLength ==
  ASSUME NEW S, NEW s \in Seq(S), NEW j, NEW e
  PROVE  DOMAIN [s EXCEPT ![j] = e] = DOMAIN s /\ Len([s EXCEPT ![j] = e]) = Len(s)
<1>1. PICK m \in Nat : m = Len(s) /\ DOMAIN s = 1 .. m
  BY LenProperties
<1>2. PICK T : T = S \cup {e}
  OBVIOUS
<1>3. s \in [1 .. m -> T]
  <2>1. s \in [1 .. m -> S]
    BY <1>1, LenProperties, Zenon
  <2> QED
    BY <1>2, <2>1
<1>4. PICK t : t = [s EXCEPT ![j] = e]
  OBVIOUS
<1>5. t \in [1 .. m -> T]
  BY <1>2, <1>3, <1>4
<1>6. t \in Seq(T) /\ DOMAIN t = 1 .. m
  BY <1>5, SeqDef
<1> QED
  BY <1>1, <1>4, <1>6, LenProperties

LEMMA DownloadBeforeContext ==
  ASSUME ExportInv, ContextInv, DownloadBefore
  PROVE  ContextInv'
<1>1. /\ at = "before" /\ UNCHANGED given /\ listed' = listed
      /\ \/ Reject /\ refused' = TRUE
         \/ /\ at' = "after" /\ context' = context
            /\ \/ files' = files
               \/ files' = [files EXCEPT ![i].before = Content("before", files[i].previous)]
  BY DEF DownloadBefore, Download, Ask, Goto, Silent, Reject, entry
<1>2. at' = "after" => Len(files') = Len(files)
  <2>1. \/ Reject
        \/ files' = files
        \/ files' = [files EXCEPT ![i].before = Content("before", files[i].previous)]
    BY <1>1
  <2>2. files \in Seq(FileStates)
    BY DEF ExportInv, TypeOK
  <2> QED
    BY <2>1, <2>2, StoredLength DEF Reject
<1> QED
  BY <1>1, <1>2, FetchingStep DEF Fetching

LEMMA DownloadAfterContext ==
  ASSUME ExportInv, ContextInv, DownloadAfter
  PROVE  ContextInv'
<1>1. /\ at = "after" /\ UNCHANGED given /\ listed' = listed
      /\ \/ Reject /\ refused' = TRUE
         \/ /\ at' = "before" /\ context' = context
            /\ \/ files' = files
               \/ files' = [files EXCEPT ![i].after = Content("after", files[i].path)]
  BY DEF DownloadAfter, Download, Ask, Silent, Reject, entry
<1>2. at' = "before" => Len(files') = Len(files)
  <2>1. \/ Reject
        \/ files' = files
        \/ files' = [files EXCEPT ![i].after = Content("after", files[i].path)]
    BY <1>1
  <2>2. files \in Seq(FileStates)
    BY DEF ExportInv, TypeOK
  <2> QED
    BY <2>1, <2>2, StoredLength DEF Reject
<1> QED
  BY <1>1, <1>2, FetchingStep DEF Fetching

LEMMA FilesDownloadedContext ==
  ASSUME ExportInv, ContextInv, FilesDownloaded
  PROVE  ContextInv'
<1>1. /\ at \in Fetching /\ UNCHANGED given /\ listed' = listed /\ at' \in Fetching
      /\ files' = files /\ context' = context
  BY DEF FilesDownloaded, Silent, entry, Fetching
<1> QED
  BY <1>1, FetchingStep

LEMMA AcceptContext ==
  ASSUME ExportInv, ContextInv, Accept
  PROVE  ContextInv'
<1>1. /\ at \in Fetching /\ UNCHANGED given /\ listed' = listed /\ at' \in Fetching
      /\ files' = files /\ context' = context
  BY DEF Accept, Goto, Silent, entry, Fetching
<1> QED
  BY <1>1, FetchingStep

LEMMA DownloadContextContext ==
  ASSUME ExportInv, ContextInv, DownloadContext
  PROVE  ContextInv'
<1>1. /\ at \in Fetching /\ at = "context" /\ UNCHANGED given /\ listed' = listed
      /\ \/ Reject /\ refused' = TRUE
         \/ /\ at' = at /\ files' = files
            /\ context' = [context EXCEPT ![i].content = Content("after", context[i].path)]
  BY DEF DownloadContext, Download, Ask, Reject, Fetching
<1>2. CASE Reject /\ refused' = TRUE
  BY <1>1, <1>2, FetchingStep
<1>3. CASE /\ at' = at /\ files' = files
           /\ context' = [context EXCEPT ![i].content = Content("after", context[i].path)]
  <2>1. PICK S : context \in Seq(S)
    BY Zenon DEF ExportInv, ContextSoFar
  <2>2. DOMAIN context' = DOMAIN context /\ Len(context') = Len(context)
    <3>1. context' = [context EXCEPT ![i] =
                        [context[i] EXCEPT !.content = Content("after", context[i].path)]]
      BY <1>3, Zenon
    <3> QED
      BY <2>1, <3>1, StoredLength
  <2>3. ASSUME NEW n \in DOMAIN context
        PROVE  /\ context'[n].path = context[n].path
               /\ context'[n].distances = context[n].distances
    <3>1. CASE n # i
      BY <1>3, <3>1
    <3>2. CASE n = i
      <4>1. PICK x : x = context[i]
        OBVIOUS
      <4>2. context'[n] = [x EXCEPT !.content = Content("after", x.path)]
        BY <1>3, <2>3, <3>2, <4>1, Zenon
      <4>3. PICK p, c, d : x = [path |-> p, content |-> c, distances |-> d]
        <5>1. at \notin Over
          BY <1>1 DEF Over
        <5> QED
          <6>1. LET q == context[n].path IN
                context[n] = [path |-> q, content |-> Fetched(ContextFetched(n), "after", q),
                              distances |-> context[n].distances]
            BY <2>3, <5>1, Zenon DEF ExportInv, ContextSoFar
          <6> QED
            BY <3>2, <4>1, <6>1, Zenon
      <4>4. context'[n].path = p /\ context'[n].distances = d /\ x.path = p /\ x.distances = d
        BY <4>2, <4>3
      <4> QED
        BY <3>2, <4>1, <4>4
    <3> QED
      BY <3>1, <3>2
  <2> QED
    BY <1>1, <1>3, <2>2, <2>3, FetchingStep
<1> QED
  BY <1>1, <1>2, <1>3

LEMMA ExportEntryContext ==
  ASSUME ContextInv, ExportEntry
  PROVE  ContextInv'
<1>1. /\ UNCHANGED given /\ requests' = requests /\ listed' = listed
      /\ at' \in {"exited", "exported"}
  BY DEF ExportEntry, Goto, Silent
<1>2. ContentAskedLast'
  BY <1>1, SilentAsked DEF ContextInv
<1> QED
  BY <1>1, <1>2, PlainStep

LEMMA StutterContext ==
  ASSUME ContextInv, UNCHANGED exportVars
  PROVE  ContextInv'
<1>1. /\ config' = config /\ doc' = doc /\ tree' = tree /\ at' = at
      /\ files' = files /\ context' = context /\ i' = i /\ listed' = listed
      /\ requests' = requests /\ refused' = refused /\ UNCHANGED given
  BY DEF exportVars, vars, given, entry
<1>2. ListedPaths' = ListedPaths /\ (Acceptable' <=> Acceptable)
  BY <1>1, SameSurroundings
<1>3. ContentAskedLast' /\ RejectedForAReason'
  BY <1>1, <1>2, SilentAsked, Zenon DEF ContextInv, RejectedForAReason
<1>4. LimitsKept'
  BY <1>1 DEF ContextInv, LimitsKept, TotalFiles
<1>5. ContextKnown'
  <2>1. \A m \in 1 .. listed : IsAround(tree[m])' <=> IsAround(tree[m])
    BY <1>1, <1>2 DEF IsAround, Surrounds
  <2>2. {m \in 1 .. listed : (at = "add context" => m < i) /\ IsAround(tree[m])}'
          = {m \in 1 .. listed : (at = "add context" => m < i) /\ IsAround(tree[m])}
    BY <1>1, <2>1
  <2>3. \A n \in DOMAIN context :
          {q \in ListedPaths : Surrounds(context[n].path, q)}'
            = {q \in ListedPaths : Surrounds(context[n].path, q)}
    BY <1>1, <1>2 DEF Surrounds
  <2> QED
    BY <1>1, <2>2, <2>3, ZenonT(40) DEF ContextInv, ContextKnown
<1> QED
  BY <1>3, <1>4, <1>5 DEF ContextInv

-----------------------------------------------------------------------------
(* The results.                                                            *)

LEMMA InitialInv == ExportInit => ExportInv
<1> SUFFICES ASSUME ExportInit PROVE ExportInv
  OBVIOUS
<1>1. /\ config \in Configs /\ doc \in Documents /\ tree \in Trees[doc]
      /\ at = "probe commit" /\ files = <<>> /\ context = <<>> /\ i = 1
      /\ listed = Len(tree) /\ requests = <<>> /\ refused = FALSE
  BY DEF ExportInit, Init
<1>2. at \in Before /\ at \notin Over
  BY <1>1 DEF Before, Over
<1>3. TypeOK
  <2>1. listed \in 0 .. Len(tree)
    <3>1. Len(tree) \in Nat
      BY <1>1, GithubAssumption, Zenon
    <3>2. \A m \in Nat : m \in 0 .. m
      OBVIOUS
    <3> QED
      BY <1>1, <3>1, <3>2, Zenon
  <2>2. files \in Seq(FileStates) /\ DOMAIN context = {}
    BY <1>1, Nothing, Zenon
  <2>3. /\ at # "add context" /\ at # "before" /\ at # "after" /\ at # "context"
        /\ refused \in BOOLEAN
    BY <1>1
  <2>4. config \in Configs /\ doc \in Documents /\ tree \in Trees[doc]
    BY <1>1, Zenon
  <2> QED
    BY <1>1, <2>1, <2>2, <2>3, <2>4, Zenon DEF TypeOK
<1>4. FilesSoFar
  BY <1>1, <1>2, Zenon DEF FilesSoFar
<1>5. ContextSoFar
  <2>1. context \in Seq(ToSet(context)) /\ DOMAIN context = {}
    BY <1>1, Nothing, Zenon
  <2> QED
    BY <1>1, <2>1, Zenon DEF ContextSoFar
<1>6. RequestsSoFar
  <2>1. requests \in Seq(Requests) /\ DOMAIN requests = {} /\ ToSet(requests) = {}
    BY <1>1, Nothing, Zenon
  <2> QED
    BY <1>1, <2>1 DEF RequestsSoFar, NothingAskedTwice
<1> QED
  BY <1>1, <1>3, <1>4, <1>5, <1>6 DEF ExportInv, ExportedIsWhole, ExitedForAReason

LEMMA StutterStep ==
  ASSUME ExportInv, UNCHANGED exportVars
  PROVE  ExportInv'
<1>1. /\ config' = config /\ doc' = doc /\ tree' = tree /\ at' = at /\ json' = json
      /\ files' = files /\ context' = context /\ i' = i /\ listed' = listed
      /\ requests' = requests /\ refused' = refused /\ UNCHANGED given
  BY DEF exportVars, vars, given, entry
<1>2. TypeOK'
  BY <1>1 DEF ExportInv, TypeOK
<1>3. /\ \A n : BeforeFetched(n)' = BeforeFetched(n)
      /\ \A n : AfterFetched(n)' = AfterFetched(n)
      /\ \A n : ContextFetched(n)' = ContextFetched(n)
  BY <1>1 DEF BeforeFetched, AfterFetched, ContextFetched
<1>4. FilesSoFar'
  BY <1>1, <1>3, SameCommit DEF ExportInv, FilesSoFar
<1>5. ContextSoFar'
  BY <1>1, <1>3 DEF ExportInv, ContextSoFar
<1>6. Answered' = Answered
  BY <1>1, <1>3, Zenon DEF Answered
<1>7. RequestsSoFar'
  BY <1>1, <1>6 DEF ExportInv, RequestsSoFar, NothingAskedTwice
<1>8. ExportedIsWhole'
  <2>1. WholeAnswers' = WholeAnswers
    BY <1>1, SameCommit DEF WholeAnswers, Truncated
  <2> QED
    BY <1>1, <2>1, SameCommit, Zenon DEF ExportInv, ExportedIsWhole
<1>9. ExitedForAReason'
  BY <1>1 DEF ExportInv, ExitedForAReason
<1> QED
  BY <1>2, <1>4, <1>5, <1>7, <1>8, <1>9 DEF ExportInv

\* Every step of a GitHub worker and of the parsing worker leaves the entry, the
\* requests and the file as they are to be.
LEMMA NextInv ==
  ASSUME ExportInv, [Next]_exportVars
  PROVE  ExportInv'
<1>1. CASE ProbeCommit /\ UNCHANGED json
  BY <1>1, ProbeCommitStep
<1>2. CASE ParseCommit /\ UNCHANGED json
  BY <1>2, ParseCommitStep
<1>3. CASE Exit /\ UNCHANGED json
  BY <1>3, ExitStep
<1>4. CASE CountFiles /\ UNCHANGED json
  BY <1>4, CountFilesStep
<1>5. CASE ProbeContext /\ UNCHANGED json
  BY <1>5, ProbeContextStep
<1>6. CASE AddContextFile /\ UNCHANGED json
  BY <1>6, AddContextFileStep
<1>7. CASE ContextAdded /\ UNCHANGED json
  BY <1>7, ContextAddedStep
<1>8. CASE CountContext /\ UNCHANGED json
  BY <1>8, CountContextStep
<1>9. CASE DownloadBefore /\ UNCHANGED json
  BY <1>9, DownloadBeforeStep
<1>10. CASE DownloadAfter /\ UNCHANGED json
  BY <1>10, DownloadAfterStep
<1>11. CASE FilesDownloaded /\ UNCHANGED json
  BY <1>11, FilesDownloadedStep
<1>12. CASE DownloadContext /\ UNCHANGED json
  BY <1>12, DownloadContextStep
<1>13. CASE Accept /\ UNCHANGED json
  BY <1>13, AcceptStep
<1>14. CASE ExportEntry
  BY <1>14, ExportEntryStep
<1>15. CASE UNCHANGED exportVars
  BY <1>15, StutterStep
<1> QED
  BY <1>1, <1>2, <1>3, <1>4, <1>5, <1>6, <1>7, <1>8, <1>9, <1>10, <1>11, <1>12, <1>13,
     <1>14, <1>15
     DEF Next, Process, Ended

LEMMA InitialContext == ExportInit => ContextInv
<1> SUFFICES ASSUME ExportInit PROVE ContextInv
  OBVIOUS
<1>1. at = "probe commit" /\ requests = <<>>
  BY DEF ExportInit, Init
<1>2. at \in NoContextYet /\ at \in Before
  BY <1>1 DEF NoContextYet, Before
<1>3. DOMAIN requests = {}
  BY <1>1, Nothing
<1> QED
  BY <1>1, <1>2, <1>3 DEF ContextInv, ContextKnown, LimitsKept, Before,
     RejectedForAReason, ContentAskedLast

\* Every step keeps the context what is around the listed files, rejects a commit
\* for a reason and asks for no content too early.
LEMMA NextContext ==
  ASSUME ExportInv, ContextInv, [Next]_exportVars
  PROVE  ContextInv'
<1>1. CASE ProbeCommit \/ ParseCommit \/ Exit \/ CountFiles
  BY <1>1, ProbeCommitContext, ParseCommitContext, ExitContext, CountFilesContext
<1>2. CASE ProbeContext \/ AddContextFile \/ ContextAdded \/ CountContext
  BY <1>2, ProbeContextContext, AddContextFileContext, ContextAddedContext, CountContextContext
<1>3. CASE DownloadBefore \/ DownloadAfter \/ FilesDownloaded \/ DownloadContext \/ Accept
  BY <1>3, DownloadBeforeContext, DownloadAfterContext, FilesDownloadedContext,
     DownloadContextContext, AcceptContext
<1>4. CASE ExportEntry
  BY <1>4, ExportEntryContext
<1>5. CASE UNCHANGED exportVars
  BY <1>5, StutterContext
<1> QED
  BY <1>1, <1>2, <1>3, <1>4, <1>5 DEF Next, Process, Ended

\* At any time the files of the entry are those that GitHub lists of the commit,
\* each with the versions downloaded so far, the context files are distinct files
\* of the tree, none of them one of the commit's, and what has been asked for is
\* the commit, the tree and the contents that are there.
THEOREM ExportInvariance == Spec => []ExportInv
<1>1. ExportInit => ExportInv
  BY InitialInv
<1>2. ExportInv /\ [Next]_exportVars => ExportInv'
  BY NextInv
<1> QED
  BY <1>1, <1>2, PTL DEF Spec

\* The worker's position is always one in the files, in the tree or in the
\* context: github_process_files and github_parse_context_files read no element
\* that is not there.
THEOREM PositionsTyped == Spec => []TypeOK
<1>1. ExportInv => TypeOK
  BY DEF ExportInv
<1> QED
  BY <1>1, ExportInvariance, PTL

\* What parse_and_export_commit writes is whole: every file GitHub lists of the
\* commit, under its old and its new path, with the content these have in the
\* parent's revision and in the commit's, and the content of every context file,
\* whichever downloads may fail before.
THEOREM Whole == Spec => []ExportedIsWhole
<1>1. ExportInv => ExportedIsWhole
  BY DEF ExportInv
<1> QED
  BY <1>1, ExportInvariance, PTL

\* A GitHub worker sends no request twice for a commit, be it for a version of an
\* affected file or for a file of the context, and none after a download failed.
THEOREM AskedOnce == Spec => []NothingAskedTwice
<1>1. ExportInv => NothingAskedTwice
  BY DEF ExportInv, RequestsSoFar
<1> QED
  BY <1>1, ExportInvariance, PTL

\* A file that github_parse_commit_files accepts never makes parser_set_language
\* end the process: only an unknown status does.
THEOREM ExitsForAReason == Spec => []ExitedForAReason
<1>1. ExportInv => ExitedForAReason
  BY DEF ExportInv
<1> QED
  BY <1>1, ExportInvariance, PTL

\* At any time the context has what is around the listed files in the part of the
\* tree that has been looked at, who goes on is within the limits, and so the two
\* properties below hold.
THEOREM ContextInvariance == Spec => [](ExportInv /\ ContextInv)
<1>1. ExportInit => ExportInv /\ ContextInv
  BY InitialInv, InitialContext
<1>2. ExportInv /\ ContextInv /\ [Next]_exportVars => ExportInv' /\ ContextInv'
  BY NextInv, NextContext
<1> QED
  BY <1>1, <1>2, PTL DEF Spec

\* The slashes that context_distance counts select exactly the files that
\* src/README.md describes by steps between directories, whatever the depth, the
\* tree and the directories: the context of a commit that GitHub lists whole is
\* what is around its files, each once, with the distances to these.
THEOREM ContextSurrounds == Spec => []ContextIsSurroundings
<1>1. ExportInv /\ ContextInv => ContextIsSurroundings
  BY KnownSurroundings DEF ContextInv
<1> QED
  BY <1>1, ContextInvariance, PTL

\* github_process_commit rejects a commit only if it is not one to accept, if a
\* request for it was not answered, or if GitHub lists a part of its files and the
\* others may be in its context.
THEOREM RejectsForAReason == Spec => []RejectedForAReason
<1>1. ExportInv /\ ContextInv => RejectedForAReason
  BY DEF ContextInv
<1> QED
  BY <1>1, ContextInvariance, PTL

\* No content is asked for before the commit is known to be acceptable, as far as
\* GitHub's answers are whole.
THEOREM ContentLast == Spec => []ContentAskedLast
<1>1. ExportInv /\ ContextInv => ContentAskedLast
  BY DEF ContextInv
<1> QED
  BY <1>1, ContextInvariance, PTL
=============================================================================
