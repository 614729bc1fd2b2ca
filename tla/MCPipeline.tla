----------------------------- MODULE MCPipeline -----------------------------
(***************************************************************************)
(* Small instances of Pipeline: three entries, two of which may be given   *)
(* the same file name (a commit and the same commit in a fork, or two      *)
(* commits whose repository name and first eight digits agree).            *)
(***************************************************************************)
EXTENDS Pipeline, TLC

CONSTANTS e1, e2, e3, n1, n2, n3

DistinctNames == e1 :> n1 @@ e2 :> n2 @@ e3 :> n3
SharedName == e1 :> n1 @@ e2 :> n1 @@ e3 :> n2
SharedPair == e1 :> n1 @@ e2 :> n1

\* The workers of a queue are interchangeable, and so are e1 and e2, which
\* SharedName gives the same name.
Interchangeable ==
  Permutations(GithubWorkers) \cup Permutations(ParsingWorkers)
    \cup Permutations({e1, e2})
=============================================================================
