------------------------------ MODULE NvdSweep ------------------------------
(***************************************************************************)
(* How src/src/nvd/nvd.c and nvd_parser.c find the commits: for each CWE   *)
(* the range of publication dates is swept in windows of at most           *)
(* DAYS_PER_WINDOW days, newest first; a window is probed for the number   *)
(* of its results and its pages are downloaded from the last to the first; *)
(* every CVE of a page yields one dataset entry per patch commit.          *)
(*                                                                         *)
(* The NVD is not under src/.  It answers a query with the CVEs of the     *)
(* CWE published within the window, in an order of its own, and may list   *)
(* and withdraw CVEs while the program runs.  A document that the parser   *)
(* cannot read ends the process (EXIT_IF): a behaviour that stops.  A URL  *)
(* is a sequence of symbols: Prefix, Suffix and what is around them.       *)
(***************************************************************************)
EXTENDS Integers, Sequences, SequencesExt, FiniteSetsExt

CONSTANTS Cves,          \* the CVEs the NVD may list
          NULL,          \* no URL, no tags, no English description
          References,    \* References[c]: the url and tags of each reference
          Descriptions,  \* Descriptions[c]: the lang and value of each one
          Prefix,        \* "https://github.com/"
          Suffix,        \* "/commit/"
          HashLen,       \* COMMIT_HASH_LEN
          CwesOf,        \* CwesOf[c]: the CWEs of CVE c
          CweCount,      \* config->cwe_ids_count; the CWE ids are 1 .. CweCount
          SecondsPerDay, \* 24 * 60 * 60
          DaysPerWindow, \* DAYS_PER_WINDOW
          ResultsPerPage,\* RESULTS_PER_PAGE
          After,         \* config->cve_published_after, 00:00:00 of its day
          Days,          \* the days from that day to the one of published_before
          Dates,         \* the seconds at which a CVE may have been published
          Catalogues,    \* what the NVD may list when the program starts
          MaxChanges     \* bound: how often the NVD changes what it lists

ASSUME SweepAssumption ==
  /\ CweCount \in Nat
  /\ SecondsPerDay \in Nat \ {0, 1}
  /\ DaysPerWindow \in Nat \ {0}
  /\ ResultsPerPage \in Nat \ {0}
  /\ After \in Int
  /\ Days \in Int

ASSUME NvdAssumption ==
  /\ \A c \in Cves :
       /\ References[c] \in Seq(ToSet(References[c]))
       /\ \A ref \in ToSet(References[c]) :
            ref.url # NULL => ref.url \in Seq(ToSet(ref.url)) \ {<<>>}
  /\ HashLen \in Nat \ {0}
  /\ CwesOf \in [Cves -> SUBSET (1 .. CweCount)]
  /\ Dates \subseteq Int
  /\ Catalogues \subseteq {s \in Seq(Cves) : \A i, k \in DOMAIN s : s[i] = s[k] => i = k}
  /\ MaxChanges \in Nat

\* config->cve_published_before is 23:59:59 of its day (parse_dates).
Before == After + Days * SecondsPerDay - 1

Window == DaysPerWindow * SecondsPerDay

VARIABLES
  listed,    \* the NVD: the CVEs it lists, in its order
  published, \* the NVD: when each CVE was published
  changes,   \* the NVD: how often its list has changed
  cwe,       \* the CWE being swept
  start, end,\* window_start and window_end
  at,        \* where the main thread is
  total,     \* total_pages of the window
  page,      \* the pages of the window still to download
  pushed,    \* the entries pushed to the GitHub queue, in order
  swept,     \* history: the seconds this sweep has downloaded
  stayed,    \* history: the CVEs listed ever since the window was probed
  parsed,    \* history: the CVEs parsed in this window, in order
  assigned,  \* history: how many were listed since the probe
  withdrawn  \* history: how many were withdrawn since the probe

nvd == <<listed, published, changes>>
since == <<stayed, assigned, withdrawn>>
vars == <<nvd, cwe, start, end, at, total, page, pushed, swept, parsed, since>>

Later(x, y) == IF x < y THEN y ELSE x

\* The elements of a sequence that are in a set, in its order: what SelectSeq does,
\* as a function that can be reasoned about.
Only(s, set) ==
  LET kept[n \in 0 .. Len(s)] ==
        IF n = 0 THEN <<>>
        ELSE IF s[n] \in set THEN Append(kept[n - 1], s[n]) ELSE kept[n - 1]
  IN  kept[Len(s)]

\* The NVD's answer to a query for the current window and CWE.
InWindow == {c \in Cves : cwe \in CwesOf[c] /\ published[c] \in start .. end}
Results == Only(listed, InWindow)

Init ==
  /\ listed \in Catalogues
  /\ published \in [Cves -> Dates]
  /\ changes = 0
  /\ cwe = 1
  /\ start = 0 /\ end = 0
  /\ at = "next cwe"
  /\ total = 0 /\ page = 0
  /\ pushed = <<>>
  /\ swept = {} /\ stayed = {} /\ parsed = <<>> /\ assigned = 0 /\ withdrawn = 0

-----------------------------------------------------------------------------
(* nvd_parser.c.                                                           *)

\* nvd_parser_get_total_results
TotalResults == Len(Results)

\* nvd_parser_get_description: the first one in English.
Description(c) ==
  LET english == {n \in DOMAIN Descriptions[c] : Descriptions[c][n].lang = "en"}
  IN  IF english = {} THEN NULL ELSE Descriptions[c][Min(english)].value

IsPatch(tags) == tags # NULL /\ "Patch" \in tags

\* Where the first "/commit/" after the prefix is; 0 if there is none.
SuffixAt(url) ==
  IF url[1] # Prefix THEN 0
  ELSE Min({i \in DOMAIN url : i > 1 /\ url[i] = Suffix} \cup {Len(url) + 1})
         % (Len(url) + 1)

RepoPath(url) == SubSeq(url, 2, SuffixAt(url) - 1)

\* A mistake the properties must catch: what follows the hash belongs to it.
WholeTail(url) == SubSeq(url, SuffixAt(url) + 1, Len(url))

\* What follows "/commit/", cut after the digits of a whole hash.
CommitHash(url) == SubSeq(url, SuffixAt(url) + 1, Min({Len(url), SuffixAt(url) + HashLen}))

IsCommit(ref) == ref.url # NULL /\ IsPatch(ref.tags) /\ SuffixAt(ref.url) > 0

\* check_is_duplicate, among the entries of the same CVE.
IsDuplicate(url, entries) ==
  \E i \in DOMAIN entries : /\ entries[i].repo_name = RepoPath(url)
                            /\ entries[i].commit_hash = CommitHash(url)

\* dataset_entry_new
NewEntry(c, url) ==
  [cwe_id |-> cwe, cve_id |-> c, repo_name |-> RepoPath(url), commit_hash |-> CommitHash(url),
   cve_description |-> Description(c), published |-> published[c]]

\* nvd_parser_parse_cve: a dataset entry for each patch commit, the first time.
Entries(c) ==
  LET refs == References[c]
      entries[n \in 0 .. Len(refs)] ==
        IF n = 0 THEN <<>>
        ELSE IF IsCommit(refs[n]) /\ ~IsDuplicate(refs[n].url, entries[n - 1])
             THEN Append(entries[n - 1], NewEntry(c, refs[n].url))
             ELSE entries[n - 1]
  IN  entries[Len(refs)]

\* nvd_parser_extract_commits goes through the document backwards.
Extract(document) == FlattenSeq([n \in DOMAIN document |-> Entries(document[n])])

-----------------------------------------------------------------------------
(* nvd.c.                                                                  *)

StartCwe ==
  /\ at = "next cwe"
  /\ cwe <= CweCount
  /\ end' = Before
  /\ start' = Later(Before - Window + 1, After)
  /\ at' = "window"
  /\ swept' = {}
  /\ UNCHANGED <<nvd, cwe, total, page, pushed, parsed, since>>

\* A mistake the properties must catch: an incomplete last page is not counted.
WholePages(results) == results \div ResultsPerPage

Pages(results) == (results + ResultsPerPage - 1) \div ResultsPerPage

\* download_window asks for totalResults first.
Probe ==
  /\ at = "window"
  /\ end > start
  /\ total' = Pages(TotalResults)
  /\ page' = total'
  /\ at' = "pages"
  /\ parsed' = <<>> /\ stayed' = ToSet(Results) /\ assigned' = 0 /\ withdrawn' = 0
  /\ UNCHANGED <<nvd, cwe, start, end, pushed, swept>>

\* One page, as the NVD would cut it now.
PageOf(n) ==
  SubSeq(Results, (n - 1) * ResultsPerPage + 1,
                  Min({n * ResultsPerPage, Len(Results)}))

\* A mistake the properties must catch: the first page is downloaded first.
FromTheFirst == total - page + 1

\* i goes down from the last page.
FromTheLast == page

DownloadPage ==
  /\ at = "pages"
  /\ page > 0
  /\ LET document == Reverse(PageOf(FromTheLast)) IN
       /\ pushed' = pushed \o Extract(document)
       /\ parsed' = parsed \o document
  /\ page' = page - 1
  /\ UNCHANGED <<nvd, cwe, start, end, at, total, swept, since>>

\* A mistake the properties must catch: the next window shares a day with this.
EarlierLess(time) == time - Window + SecondsPerDay

Earlier(time) == time - Window

NextWindow ==
  /\ at = "pages"
  /\ page = 0
  /\ swept' = swept \cup (start .. end)
  /\ end' = Earlier(end)
  /\ start' = Later(Earlier(start), After)
  /\ at' = "window"
  /\ UNCHANGED <<nvd, cwe, total, page, pushed, parsed, since>>

CweDone ==
  /\ at = "window"
  /\ end <= start
  /\ cwe' = cwe + 1
  /\ at' = "next cwe"
  /\ UNCHANGED <<nvd, start, end, total, page, pushed, swept, parsed, since>>

\* nvd_request returns.
Return ==
  /\ at = "next cwe"
  /\ cwe = CweCount + 1
  /\ at' = "returned"
  /\ UNCHANGED <<nvd, cwe, start, end, total, page, pushed, swept, parsed, since>>

-----------------------------------------------------------------------------
(* The NVD.                                                                *)

\* A CVE appears in the results: it is published, or only now given its CWE.
Assign(c) ==
  /\ changes < MaxChanges
  /\ at # "returned"
  /\ c \notin ToSet(listed)
  /\ \E i \in 1 .. Len(listed) + 1 : listed' = InsertAt(listed, i, c)
  /\ changes' = changes + 1
  /\ assigned' = assigned + 1
  /\ UNCHANGED <<published, cwe, start, end, at, total, page, pushed, swept, stayed,
                 parsed, withdrawn>>

\* A CVE disappears from the results: it is rejected, or loses its CWE.
Withdraw(c) ==
  /\ changes < MaxChanges
  /\ at # "returned"
  /\ \E i \in DOMAIN listed : listed[i] = c /\ listed' = RemoveAt(listed, i)
  /\ changes' = changes + 1
  /\ withdrawn' = withdrawn + 1
  /\ stayed' = stayed \ {c}
  /\ UNCHANGED <<published, cwe, start, end, at, total, page, pushed, swept, parsed,
                 assigned>>

-----------------------------------------------------------------------------

Sweep == StartCwe \/ Probe \/ DownloadPage \/ NextWindow \/ CweDone \/ Return

Ended == at = "returned" /\ UNCHANGED vars

Next ==
  \/ Sweep
  \/ \E c \in Cves : Assign(c) \/ Withdraw(c)
  \/ Ended

Spec == Init /\ [][Next]_vars

-----------------------------------------------------------------------------
(* Properties.                                                             *)

\* Where the main thread is, and what its variables and the NVD's hold.
TypeOK ==
  /\ listed \in Seq(Cves)
  /\ published \in [Cves -> Dates]
  /\ changes \in 0 .. MaxChanges
  /\ cwe \in 1 .. CweCount + 1
  /\ start \in Int /\ end \in Int
  /\ at \in {"next cwe", "window", "pages", "returned"}
  /\ total \in Nat /\ page \in 0 .. total
  /\ \A i \in DOMAIN pushed :
       /\ pushed[i].cwe_id \in 1 .. CweCount /\ pushed[i].cve_id \in Cves
       /\ Len(pushed[i].commit_hash) <= HashLen
  /\ parsed \in Seq(Cves)
  /\ stayed \subseteq Cves
  /\ assigned \in Nat /\ withdrawn \in Nat

\* The windows of a CWE tile the configured range.  No second is queried twice,
\* none is left out between two windows, none lies outside the range, no query
\* asks for more than DAYS_PER_WINDOW days, and when the loop ends for a CWE
\* nothing of the range is left, its first second included.
WindowsTile ==
  /\ at \in {"window", "pages"} => swept = {s \in After .. Before : s > end}
  /\ at = "pages" => start >= After /\ end <= Before /\ end - start < Window
  /\ at \in {"next cwe", "returned"} /\ cwe > 1 => swept = After .. Before

\* Inductive: what WindowsTile needs of the loop's variables.  The range ends a
\* second before a midnight and the windows are whole days, so that window_end
\* never falls on the first second of the range, which the loop's condition
\* window_end > window_start would then leave out.
SweepInv ==
  /\ at \in {"next cwe", "window", "pages", "returned"}
  /\ cwe \in Nat /\ start \in Int /\ end \in Int
  /\ at \in {"window", "pages"} =>
       /\ end <= Before
       /\ \E m \in Int : end = After + m * SecondsPerDay - 1
       /\ start = Later(end - Window + 1, After)
       /\ swept = {s \in After .. Before : s > end}
  /\ at = "pages" => end > start
  /\ at \in {"next cwe", "returned"} /\ cwe > 1 => swept = After .. Before

\* The commits that a URL leads to, whatever follows their hash: at most one.
Link(k) == <<Prefix>> \o k[1] \o <<Suffix>> \o k[2]

Slices(url) == {SubSeq(url, m, n) : m \in 1 .. Len(url) + 1, n \in 0 .. Len(url)}

CommitsAt(url) ==
  {k \in Slices(url) \X Slices(url) :
     /\ Suffix \notin ToSet(k[1])
     /\ Len(k[2]) <= HashLen
     /\ IsPrefix(Link(k), url)
     /\ Len(k[2]) = HashLen \/ Link(k) = url}

\* Those that a CVE has a patch reference to.
PatchUrls(c) ==
  {ref.url : ref \in {r \in ToSet(References[c]) :
                       r.url # NULL /\ r.tags # NULL /\ "Patch" \in r.tags}}

CommitsOf(c) == UNION {CommitsAt(url) : url \in PatchUrls(c)}

\* Their entries, for one of its CWEs, with what the NVD says of the CVE.
EntriesOf(w, c) ==
  {[cwe_id |-> w, cve_id |-> c, repo_name |-> k[1], commit_hash |-> k[2],
    cve_description |-> Description(c), published |-> published[c]] : k \in CommitsOf(c)}

\* What a sweep should push: those of every CVE that is listed and in range.
Expected ==
  UNION {UNION {EntriesOf(w, c) : w \in CwesOf[c]} :
           c \in {d \in ToSet(listed) : published[d] \in After .. Before}}

\* As long as the NVD does not change what it lists, a finished sweep has pushed
\* every patch commit of every CVE in the range, and none of them twice,
\* whatever the windows, the pages, the form of the URLs and the repeated
\* references are.
EachCommitOnce ==
  at = "returned" /\ changes = 0 =>
    /\ ToSet(pushed) = Expected
    /\ \A i, k \in DOMAIN pushed : pushed[i] = pushed[k] => i = k

\* The pages are cut anew for every download, and only as much as the list changed
\* meanwhile goes wrong.  A CVE that stayed listed from the probe of its window to
\* its last page is missed only because another one was listed and moved it to a
\* page already downloaded: withdrawals lose nothing, because the pages are
\* downloaded from the last to the first.  And a CVE is parsed twice only because
\* another one was withdrawn: assignments repeat nothing.
OnlyChangesDisturb ==
  at = "pages" /\ page = 0 =>
    /\ Cardinality(stayed \ ToSet(parsed)) <= assigned
    /\ Len(parsed) - Cardinality(ToSet(parsed)) <= withdrawn

-----------------------------------------------------------------------------
(* The invariants that NvdSweepProofs shows to be inductive.               *)

NothingTwice(s) == \A i, k \in DOMAIN s : s[i] = s[k] => i = k

\* The results behind the pages still to download, as the NVD would cut them now.
Passed == {Results[n] : n \in {m \in DOMAIN Results : m > page * ResultsPerPage}}

\* What OnlyChangesDisturb needs of the pages already downloaded: what stayed and has
\* got behind them unparsed, and what was parsed and is not behind them, and so is
\* parsed again if it is listed.
PagesInv ==
  /\ NothingTwice(listed)
  /\ at = "pages" =>
       /\ stayed \subseteq ToSet(Results)
       /\ Cardinality((stayed \cap Passed) \ ToSet(parsed)) <= assigned
       /\ Len(parsed) - Cardinality(ToSet(parsed)) + Cardinality(ToSet(parsed) \ Passed)
            <= withdrawn

\* Whether a CVE has been parsed for a CWE, if the list does not change: all are for
\* the CWEs done, for this CWE those of the windows done and those behind the pages
\* still to download of this window.
Done(w, c) ==
  \/ w < cwe
  \/ w = cwe /\ at \in {"window", "pages"} /\ published[c] \in swept
  \/ w = cwe /\ at = "pages" /\ c \in Passed

Covered ==
  {p \in (1 .. CweCount) \X ToSet(listed) :
     p[1] \in CwesOf[p[2]] /\ published[p[2]] \in After .. Before /\ Done(p[1], p[2])}

\* What EachCommitOnce needs of the sweep under way: the entries of what is parsed
\* have been pushed, and nothing else.
PushedInv ==
  changes = 0 =>
    /\ NothingTwice(pushed)
    /\ ToSet(pushed) = UNION {EntriesOf(p[1], p[2]) : p \in Covered}
=============================================================================
