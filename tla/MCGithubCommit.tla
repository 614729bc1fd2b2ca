--------------------------- MODULE MCGithubCommit ---------------------------
(***************************************************************************)
(* A small instance of Export with GithubCommit: a repository with files   *)
(* in the root, in a directory, in two of its subdirectories and in a      *)
(* directory beside, commits of no, one or two files of every status, and  *)
(* some of as many files as GitHub lists and of one more.                  *)
(***************************************************************************)
EXTENDS Export, TLC

readme == <<"README">>
a == <<"a.c">>
b == <<"d", "b.h">>
c == <<"d", "e", "c.cpp">>
f == <<"d", "f", "a.c">>
g == <<"g", "g.c">>

MCPaths == {readme, a, b, c, f, g}

MCExt == readme :> NULL @@ a :> ".c" @@ b :> ".h" @@ c :> ".cpp" @@ f :> ".c" @@ g :> ".c"

Entry(type, path) == [type |-> type, path |-> path]

Listing ==
  <<Entry("blob", readme), Entry("blob", a), Entry("tree", <<"d">>), Entry("blob", b),
    Entry("tree", <<"d", "e">>), Entry("blob", c), Entry("tree", <<"d", "f">>),
    Entry("blob", f), Entry("tree", <<"g">>), Entry("blob", g)>>

Change(status, previous, filename) ==
  [status |-> status, previous |-> previous, filename |-> filename]

\* A file to start from in every directory, every status, and renames that keep
\* the extension, change it, take it away or give one.
Changes ==
  {Change("modified", NULL, p) : p \in {readme, a, b, c, f}}
    \cup {Change("added", NULL, p) : p \in {a, c}}
    \cup {Change("removed", NULL, p) : p \in {b, f}}
    \cup {Change("renamed", g, f), Change("renamed", a, b), Change("renamed", readme, f),
          Change("renamed", a, readme), Change("copied", NULL, a)}

PathsOf(change) == {change.filename, change.previous} \ {NULL}

Pairs == {s \in [1 .. 2 -> Changes] : PathsOf(s[1]) \cap PathsOf(s[2]) = {}}

Fourth == {Change("removed", NULL, f), Change("modified", NULL, f), Change("modified", NULL, readme)}

MCDocuments ==
  [parents : {0, 1, 2}, files : {<<>>} \cup {<<x>> : x \in Changes}, message : {"m"}]
    \cup [parents : {1}, message : {"m"},
          files : Pairs \cup {<<Change("added", NULL, a), Change("removed", NULL, b),
                               Change("modified", NULL, c)>>}
                       \cup {<<Change("added", NULL, a), Change("removed", NULL, b),
                               Change("modified", NULL, c), x>> : x \in Fourth}]

\* The paths a commit takes away.
Gone(d) ==
  ({x.filename : x \in {y \in ToSet(d.files) : y.status = "removed"}}
     \cup {x.previous : x \in {y \in ToSet(d.files) : y.status = "renamed"}})
    \ After(d)

\* The tree at the commit has the files the commit leaves and not those it
\* takes away: with all that the commit does not touch, or with nothing else.
MCTrees ==
  [d \in MCDocuments |->
     {SelectSeq(Listing, LAMBDA x : x.path \notin Gone(d)),
      SelectSeq(Listing, LAMBDA x : x.path \in After(d) \/ x.type = "tree")}]

\* Both an affected file and a context file may be binary.
MCBinary == {b, readme}

MCOrigin ==
  [cwe_id |-> 1, cve_id |-> "CVE", published |-> "date", cve_description |-> NULL,
   repo_name |-> "repo", commit_hash |-> "hash"]

Config(depth, maxCommit, maxContext, maxTotal) ==
  [depth |-> depth, maxCommit |-> maxCommit, maxContext |-> maxContext,
   maxTotal |-> maxTotal, c |-> TRUE, cpp |-> TRUE]

\* Every depth without a limit in the way, every limit where it bites, and each
\* language alone.
MCConfigs ==
  {Config(depth, 9, 9, 9) : depth \in 0 .. 5}
    \cup {Config(depth, m, n, t) :
            depth \in {1, 3}, m \in {1, 2}, n \in {0, 1, 3}, t \in {1, 2, 4}}
    \cup {Config(depth, 9, 0, 9) : depth \in {0, 3}}
    \cup {[Config(2, 2, 9, 9) EXCEPT !.c = FALSE],
          [Config(2, 2, 9, 9) EXCEPT !.cpp = FALSE]}
=============================================================================
