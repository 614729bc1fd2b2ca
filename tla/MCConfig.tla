------------------------------ MODULE MCConfig ------------------------------
(***************************************************************************)
(* Small configuration files: lists of up to three CWEs, dates of every    *)
(* kind strptime can meet, keys that are missing, empty or repeated.       *)
(***************************************************************************)
EXTENDS Config

\* What glibc's strptime makes of the words: it knows no lengths of months, and
\* stops at the first number that is out of range.
MCFields ==
  "01/09/2026" :> <<1, 9, 2026>> @@ "29/02/2024" :> <<29, 2, 2024>>
    @@ "31/02/2026" :> <<31, 2, 2026>> @@ "31/12/1969" :> <<31, 12, 1969>>
    @@ "30/12/1969" :> <<30, 12, 1969>> @@ "12/13/2026" :> <<12>>
    @@ "2026-09-01" :> <<20>> @@ "32/01/2026" :> <<>> @@ "31/11/x" :> <<31, 11>>

Line(key, value) == <<key>> \o value \o <<"\n">>

NoList == [line |-> <<>>, ids |-> <<>>]

\* A list of CWEs, as it is written and as it is meant.
Lists ==
  {NoList,
   [line |-> Line("cwe-ids", <<>>), ids |-> <<>>],
   [line |-> Line("cwe-ids", <<"7", "8">>), ids |-> <<78>>],
   [line |-> Line("cwe-ids", <<"7", ",", "1", "2">>), ids |-> <<7, 12>>],
   [line |-> <<"#">> \o Line("cwe-ids", <<"4">>) \o Line("cwe-ids", <<"3", ",", "0", ",", "5">>)
               \o <<"\n">>,
    ids |-> <<3, 0, 5>>],
   [line |-> Line("cwe-ids", <<"3">>) \o Line("cwe-ids", <<"6">>), ids |-> <<6>>]}

\* Lists that end where the buffer ends, and one that goes on after it.
LongLists ==
  {[line |-> Line("cwe-ids", <<"7", ",", "8", ",", "9", "1">>), ids |-> <<7, 8, 91>>],
   [line |-> Line("cwe-ids", <<"7", ",", "8", ",", "9", "1", ",", "6">>), ids |-> <<7, 8, 91, 6>>],
   [line |-> Line("cwe-ids", <<"7", ",", "8", "1", ",", "1", "2", ",", "6">>), ids |-> <<7, 81, 12, 6>>]}

\* Dates as they are written and as they are meant: the calendar's, those it does
\* not have or that have another format, and one with something after it.
Valid(word) == [value |-> <<word>>, meant |-> MCFields[word]]
Invalid(value) == [value |-> value, meant |-> NULL]

NoDate == Invalid(NULL)

Dates ==
  {Valid(w) : w \in {"01/09/2026", "29/02/2024", "31/12/1969", "30/12/1969"}}
    \cup {Invalid(<<w>>) : w \in {"31/02/2026", "12/13/2026", "2026-09-01", "32/01/2026", "31/11/x"}}
    \cup {Invalid(<<"01/09/2026", "x">>), NoDate}

DateLine(key, date) == Line(key, IF date.value = NULL THEN <<>> ELSE date.value)

File(list, b, a, key, flag, number, digits, folder, opens) ==
  [text |-> Line("include-c-files", <<IF flag THEN "yes" ELSE "no">>)
              \o DateLine("cve-published-before", b) \o list.line
              \o Line("max-files-total", digits)
              \o (IF key = NULL THEN <<>> ELSE Line("github-api-key", <<key>>))
              \o DateLine("cve-published-after", a),
   cwe_ids |-> list.ids, before |-> b, after |-> a, key |-> key, flag |-> flag,
   number |-> number, folder |-> folder, opens |-> opens]

MCFiles ==
  {File(NoList, b, a, "k", TRUE, 50, <<"5", "0">>, TRUE, TRUE) : b \in Dates, a \in Dates}
  \cup {File(l, NoDate, NoDate, k, f, 0, <<"x">>, d, o) :
          l \in Lists \cup LongLists, k \in {NULL, "k"},
          f \in BOOLEAN, d \in BOOLEAN, o \in BOOLEAN}
  \cup {File(NoList, NoDate, NoDate, "k", TRUE, -1, <<"-", "1">>, TRUE, TRUE)}
=============================================================================
