----------------------------- MODULE MCNvdSweep -----------------------------
(***************************************************************************)
(* A small instance of NvdSweep: days of two seconds, windows of two days, *)
(* pages of two results, three days to sweep (so that the last window is   *)
(* cut short), hashes of two digits, and dates on both sides of every      *)
(* boundary.                                                               *)
(***************************************************************************)
EXTENDS NvdSweep, TLC

CONSTANTS c1, c2, c3, c4

Patch(path) == [url |-> <<"https://github.com/">> \o path, tags |-> {"Patch"}]
First == <<"owner", "repo", "/commit/", "a", "b">>

\* c1 repeats a commit, with its page of differences and abbreviated, and
\* points to a fork; c2 has references that are no patches, no URLs, no commits
\* and elsewhere; c3 has none, and c4 points to the same commit as c1, in a
\* path of two suffixes.
MCReferences ==
  c1 :> <<Patch(First), Patch(<<"fork", "repo", "/commit/", "a", "b">>),
          Patch(First \o <<"#">>), Patch(<<"owner", "repo", "/commit/", "a">>)>>
    @@ c2 :> <<[Patch(First) EXCEPT !.tags = NULL], [Patch(First) EXCEPT !.tags = {"Issue"}],
               [url |-> NULL, tags |-> {"Patch"}], Patch(<<"owner", "repo", "/issues/">>),
               [url |-> <<"https://gitlab.com/">> \o First, tags |-> {"Patch"}],
               Patch(<<"owner", "repo", "/commit/", "c", "d", ".patch">>)>>
    @@ c3 :> <<>>
    @@ c4 :> <<Patch(First \o <<"/commit/", "c">>)>>

Text(lang, value) == [lang |-> lang, value |-> value]
MCDescriptions ==
  c1 :> <<Text("es", "d1"), Text("en", "d2"), Text("en", "d3")>> @@ c2 :> <<Text("es", "d1")>>
    @@ c3 :> <<>> @@ c4 :> <<Text("en", "d1")>>

MCCwesOf == c1 :> {1} @@ c2 :> {1, 2} @@ c3 :> {1} @@ c4 :> {1, 2}

MCDates == {-1, 0, 1, 2, 5}

MCCatalogues == {<<c1, c2, c3, c4>>, <<c1, c3, c4>>}
=============================================================================
