---------------------------- MODULE FunctionDiff ----------------------------
(***************************************************************************)
(* How src/src/tree_sitter/exporter.c compares the functions of a file     *)
(* before and after a commit: generate_json_functions goes through the     *)
(* functions before the commit and looks each up among those after it, by  *)
(* name and number of parameters, and then the other way round.            *)
(***************************************************************************)
EXTENDS Integers, Sequences, SequencesExt, FiniteSetsExt

CONSTANTS NULL,
          Names,   \* the names of functions
          Contents \* their texts

\* dataset_function_t.
Functions == [name : Names, parameters : Nat, content : Contents]

ASSUME FunctionsAssumption == NULL \notin Contents /\ NULL \notin Functions

VARIABLES
  before,  \* file->before_functions
  after,   \* file->after_functions
  at,      \* which of the two loops runs
  i,       \* its loop variable, from 1
  affected \* the "affected_functions" of the file, in order

diff == <<before, after, at, i, affected>>

Init ==
  /\ before \in Seq(Functions)
  /\ after \in Seq(Functions)
  /\ at = "compare_before"
  /\ i = 1
  /\ affected = <<>>

\* A mistake the properties must catch: the number of parameters is ignored.
SameName(f, functions) == {k \in DOMAIN functions : functions[k].name = f.name}

Matches(f, functions) ==
  {k \in DOMAIN functions :
     functions[k].name = f.name /\ functions[k].parameters = f.parameters}

\* find_function_match: the first of them.
FindMatch(f, functions) ==
  IF Matches(f, functions) = {} THEN NULL ELSE functions[Min(Matches(f, functions))]

Entry(f, status, previous, content) ==
  [name |-> f.name, parameters |-> f.parameters, status |-> status,
   previous |-> previous, content |-> content]

\* generate_json_function.
Report(entry) == affected' = Append(affected, entry)

\* The first loop: removed and modified functions.
CompareBefore ==
  /\ at = "compare_before"
  /\ i <= Len(before)
  /\ LET f == before[i]
         match == FindMatch(f, after)
     IN  \/ /\ match = NULL
            /\ Report(Entry(f, "removed", f.content, NULL))
         \/ /\ match # NULL
            /\ f.content # match.content
            /\ Report(Entry(f, "modified", f.content, match.content))
         \/ /\ match # NULL
            /\ f.content = match.content
            /\ UNCHANGED affected
  /\ i' = i + 1
  /\ UNCHANGED <<before, after, at>>

EndBefore ==
  /\ at = "compare_before"
  /\ i > Len(before)
  /\ at' = "compare_after"
  /\ i' = 1
  /\ UNCHANGED <<before, after, affected>>

\* A mistake the properties must catch: every function of the second version is
\* reported, as if it had not been looked up in the first.
ReportAll ==
  /\ at = "compare_after"
  /\ i <= Len(after)
  /\ Report(Entry(after[i], "added", NULL, after[i].content))
  /\ i' = i + 1
  /\ UNCHANGED <<before, after, at>>

\* The second loop: added functions.
CompareAfter ==
  /\ at = "compare_after"
  /\ i <= Len(after)
  /\ LET f == after[i] IN
       IF FindMatch(f, before) = NULL
       THEN Report(Entry(f, "added", NULL, f.content))
       ELSE UNCHANGED affected
  /\ i' = i + 1
  /\ UNCHANGED <<before, after, at>>

EndAfter ==
  /\ at = "compare_after"
  /\ i > Len(after)
  /\ at' = "done"
  /\ UNCHANGED <<before, after, i, affected>>

Compare == CompareBefore \/ EndBefore \/ CompareAfter \/ EndAfter

Spec == Init /\ [][Compare]_diff

-----------------------------------------------------------------------------
(* Properties.                                                             *)

Key(f) == <<f.name, f.parameters>>

Keys(functions) == {Key(functions[k]) : k \in DOMAIN functions}

Unambiguous(functions) ==
  \A k, l \in DOMAIN functions : Key(functions[k]) = Key(functions[l]) => k = l

Removed(e) ==
  /\ e.status = "removed"
  /\ Key(e) \notin Keys(after) /\ e.content = NULL
  /\ \E k \in DOMAIN before : Key(before[k]) = Key(e) /\ before[k].content = e.previous

Added(e) ==
  /\ e.status = "added"
  /\ Key(e) \notin Keys(before) /\ e.previous = NULL
  /\ \E k \in DOMAIN after : Key(after[k]) = Key(e) /\ after[k].content = e.content

Modified(e) ==
  /\ e.status = "modified"
  /\ e.previous # e.content
  /\ \E k \in DOMAIN before : Key(before[k]) = Key(e) /\ before[k].content = e.previous
  /\ \E k \in DOMAIN after : Key(after[k]) = Key(e) /\ after[k].content = e.content

\* Whatever the two versions are, with functions that share a key or without,
\* what generate_json_functions reports is true: a removed function has no
\* namesake after the commit, an added one has none before it, a modified one has
\* one on each side with the contents that are shown, which differ.
ReportsAreTrue ==
  \A n \in DOMAIN affected :
    Removed(affected[n]) \/ Added(affected[n]) \/ Modified(affected[n])

\* When no two functions of a version share a name and a number of parameters,
\* the two loops report exactly the difference of the two versions, each
\* function once, in whatever order the functions come.
Difference ==
  {Entry(before[k], "removed", before[k].content, NULL) :
     k \in {m \in DOMAIN before : Key(before[m]) \notin Keys(after)}}
  \cup {Entry(after[k], "added", NULL, after[k].content) :
          k \in {m \in DOMAIN after : Key(after[m]) \notin Keys(before)}}
  \cup {Entry(before[p[1]], "modified", before[p[1]].content, after[p[2]].content) :
          p \in {q \in (DOMAIN before) \X (DOMAIN after) :
                   /\ Key(before[q[1]]) = Key(after[q[2]])
                   /\ before[q[1]].content # after[q[2]].content}}

DifferenceReported ==
  at = "done" /\ Unambiguous(before) /\ Unambiguous(after) =>
    /\ ToSet(affected) = Difference
    /\ \A m, n \in DOMAIN affected : affected[m] = affected[n] => m = n
=============================================================================
