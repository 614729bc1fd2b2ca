------------------------- MODULE FunctionDiffProofs -------------------------
(***************************************************************************)
(* What FunctionDiff reports of two versions of a file, proved for every   *)
(* two sequences of functions.                                             *)
(***************************************************************************)
EXTENDS FunctionDiff, TLAPS, SequenceTheorems, WellFoundedInduction

\* A set of positions has a first one.
LEMMA First ==
  ASSUME NEW S \in SUBSET Nat, S # {}
  PROVE  Min(S) \in S
<1> DEFINE below == {ss \in Nat \X Nat : ss[1] < ss[2]}
<1>1. OpToRel(<, Nat) = below
  BY Zenon DEF OpToRel
<1>2. IsWellFoundedOn(below, Nat)
  BY <1>1, NatLessThanWellFounded, Zenon
<1>3. \E x \in S : \A y \in S : ~(<<y, x>> \in below)
  <2> HIDE DEF below
  <2> QED
    BY <1>2, WFMin, Zenon
<1>4. PICK x \in S : \A y \in S : ~(<<y, x>> \in below)
  BY <1>3
<1>5. ASSUME NEW y \in S PROVE x <= y
  <2>1. x \in Nat /\ y \in Nat /\ ~(<<y, x>> \in below)
    BY <1>4
  <2>2. <<y, x>> \in Nat \X Nat /\ <<y, x>>[1] = y /\ <<y, x>>[2] = x
    BY <2>1
  <2>3. ~(y < x)
    BY <2>1, <2>2
  <2> QED
    BY <2>1, <2>3
<1> QED
  BY <1>5, Zenon DEF Min

\* find_function_match returns NULL if and only if the functions have no function
\* of that name and number of parameters, and one of those otherwise.
LEMMA MatchIsNamesake ==
  ASSUME NEW f, NEW functions \in Seq(Functions)
  PROVE  \/ /\ FindMatch(f, functions) = NULL
            /\ Key(f) \notin Keys(functions)
         \/ /\ FindMatch(f, functions) # NULL
            /\ \E k \in DOMAIN functions :
                 FindMatch(f, functions) = functions[k] /\ Key(functions[k]) = Key(f)
<1>1. CASE Matches(f, functions) = {}
  <2>1. FindMatch(f, functions) = NULL
    BY <1>1 DEF FindMatch
  <2>2. Key(f) \notin Keys(functions)
    BY <1>1 DEF Matches, Key, Keys
  <2> QED
    BY <2>1, <2>2
<1>2. CASE Matches(f, functions) # {}
  <2>1. Matches(f, functions) \in SUBSET Nat
    BY DEF Matches
  <2>2. PICK k \in Matches(f, functions) : k = Min(Matches(f, functions))
    BY <1>2, <2>1, First
  <2>3. FindMatch(f, functions) = functions[k]
    BY <1>2, <2>2 DEF FindMatch
  <2>4. k \in DOMAIN functions /\ Key(functions[k]) = Key(f)
    BY <2>2 DEF Matches, Key
  <2>5. functions[k] \in Functions
    BY <2>4, ElementOfSeq
  <2> QED
    BY <2>3, <2>4, <2>5, FunctionsAssumption
<1> QED
  BY <1>1, <1>2

-----------------------------------------------------------------------------
(* The inductive invariant.                                                *)

Entries ==
  [name : Names, parameters : Nat, status : {"removed", "added", "modified"},
   previous : Contents \cup {NULL}, content : Contents \cup {NULL}]

Typed ==
  /\ before \in Seq(Functions) /\ after \in Seq(Functions)
  /\ affected \in Seq(Entries)
  /\ i \in Nat \ {0}
  /\ at \in {"compare_before", "compare_after", "done"}

\* How many functions of each version have been looked up in the other.
BeforeDone == IF at = "compare_before" THEN i - 1 ELSE Len(before)

AfterDone ==
  IF at = "compare_before" THEN 0 ELSE IF at = "compare_after" THEN i - 1 ELSE Len(after)

InRange ==
  /\ at = "compare_before" => i <= Len(before) + 1
  /\ at = "compare_after" => i <= Len(after) + 1

\* What had to be reported of the functions looked up has been.
Complete ==
  /\ \A k \in 1 .. BeforeDone :
       Key(before[k]) \notin Keys(after) =>
         Entry(before[k], "removed", before[k].content, NULL) \in ToSet(affected)
  /\ \A k \in 1 .. AfterDone :
       Key(after[k]) \notin Keys(before) =>
         Entry(after[k], "added", NULL, after[k].content) \in ToSet(affected)
  /\ Unambiguous(after) =>
       \A k \in 1 .. BeforeDone : \A l \in DOMAIN after :
         Key(before[k]) = Key(after[l]) /\ before[k].content # after[l].content =>
           Entry(before[k], "modified", before[k].content, after[l].content)
             \in ToSet(affected)

\* What is reported is about a function that has been looked up.
LookedUp(e) ==
  \/ e.status # "added" /\ \E k \in 1 .. BeforeDone : Key(before[k]) = Key(e)
  \/ e.status = "added" /\ \E k \in 1 .. AfterDone : Key(after[k]) = Key(e)

Sourced == \A n \in DOMAIN affected : LookedUp(affected[n])

\* Nothing is reported twice.
Once ==
  Unambiguous(before) /\ Unambiguous(after) =>
    \A m, n \in DOMAIN affected : affected[m] = affected[n] => m = n

DiffInv == Typed /\ InRange /\ ReportsAreTrue /\ Complete /\ Sourced /\ Once

LEMMA DiffInit == Init => DiffInv
<1> SUFFICES ASSUME Init PROVE DiffInv
  OBVIOUS
<1>1. /\ before \in Seq(Functions) /\ after \in Seq(Functions)
      /\ at = "compare_before" /\ i = 1 /\ affected = <<>>
  BY DEF Init
<1>2. DOMAIN affected = {} /\ affected \in Seq(Entries)
  BY <1>1
<1>3. Typed /\ InRange
  BY <1>1, <1>2 DEF Typed, InRange
<1>4. BeforeDone = 0 /\ AfterDone = 0
  BY <1>1 DEF BeforeDone, AfterDone
<1>5. ReportsAreTrue /\ Sourced /\ Once
  BY <1>2 DEF ReportsAreTrue, Sourced, Once
<1>6. Complete
  BY <1>4 DEF Complete
<1> QED
  BY <1>3, <1>5, <1>6 DEF DiffInv

-----------------------------------------------------------------------------
(* One step of each loop, whichever of its cases it takes.                 *)

\* A report is added behind the others and leaves those as they are.
LEMMA ReportAdds ==
  ASSUME NEW s \in Seq(Entries), NEW e \in Entries
  PROVE  /\ Append(s, e) \in Seq(Entries)
         /\ DOMAIN Append(s, e) = DOMAIN s \cup {Len(s) + 1}
         /\ \A n \in DOMAIN s : Append(s, e)[n] = s[n]
         /\ Append(s, e)[Len(s) + 1] = e
         /\ ToSet(Append(s, e)) = ToSet(s) \cup {e}
<1>1. /\ Append(s, e) \in Seq(Entries)
      /\ Len(Append(s, e)) = Len(s) + 1
      /\ \A n \in 1 .. Len(s) : Append(s, e)[n] = s[n]
      /\ Append(s, e)[Len(s) + 1] = e
  OBVIOUS
<1>2. DOMAIN s = 1 .. Len(s) /\ DOMAIN Append(s, e) = 1 .. Len(s) + 1 /\ Len(s) \in Nat
  BY <1>1
<1>3. DOMAIN Append(s, e) = DOMAIN s \cup {Len(s) + 1}
  BY <1>2
<1>4. ToSet(Append(s, e)) = ToSet(s) \cup {e}
  BY <1>1, <1>2, <1>3, Zenon DEF ToSet
<1> QED
  BY <1>1, <1>2, <1>3, <1>4

\* What the first loop does with before[i].
LEMMA BeforeStep ==
  ASSUME Typed, CompareBefore
  PROVE  /\ i \in DOMAIN before
         /\ \/ affected' = affected
            \/ \E e \in Entries :
                 /\ affected' = Append(affected, e)
                 /\ Key(e) = Key(before[i]) /\ e.status # "added"
                 /\ Removed(e) \/ Modified(e)
         /\ Key(before[i]) \notin Keys(after) =>
              Entry(before[i], "removed", before[i].content, NULL) \in ToSet(affected')
         /\ Unambiguous(after) =>
              \A l \in DOMAIN after :
                Key(before[i]) = Key(after[l]) /\ before[i].content # after[l].content =>
                  Entry(before[i], "modified", before[i].content, after[l].content)
                    \in ToSet(affected')
<1> DEFINE f == before[i]
           match == FindMatch(f, after)
<1>1. i \in DOMAIN before /\ f \in Functions
  BY ElementOfSeq DEF Typed, CompareBefore
<1>2. f.name \in Names /\ f.parameters \in Nat /\ f.content \in Contents
  BY <1>1 DEF Functions
<1>3. CASE match = NULL
  <2> DEFINE e == Entry(f, "removed", f.content, NULL)
  <2>1. Key(f) \notin Keys(after)
    BY <1>3, MatchIsNamesake DEF Typed
  <2>2. affected' = Append(affected, e)
    BY <1>3 DEF CompareBefore, Report
  <2>3. e \in Entries /\ Key(e) = Key(f) /\ e.status # "added"
    BY <1>2 DEF Entry, Entries, Key
  <2>4. Removed(e)
    BY <1>1, <2>1, <2>3 DEF Removed, Entry
  <2>5. e \in ToSet(affected')
    BY <2>2, <2>3, ReportAdds DEF Typed
  <2>6. \A l \in DOMAIN after : Key(f) # Key(after[l])
    BY <2>1 DEF Keys
  <2> QED
    BY <1>1, <2>2, <2>3, <2>4, <2>5, <2>6
<1>4. CASE match # NULL
  <2>1. PICK l \in DOMAIN after : match = after[l] /\ Key(after[l]) = Key(f)
    BY <1>4, MatchIsNamesake DEF Typed
  <2>2. Key(f) \in Keys(after)
    BY <2>1 DEF Keys
  <2>3. after[l].content \in Contents
    <3>1. after[l] \in Functions
      BY <2>1, ElementOfSeq DEF Typed
    <3> QED
      BY <3>1 DEF Functions
  <2>4. Unambiguous(after) => \A m \in DOMAIN after : Key(f) = Key(after[m]) => m = l
    BY <2>1 DEF Unambiguous
  <2>5. CASE f.content # match.content
    <3> DEFINE e == Entry(f, "modified", f.content, match.content)
    <3>1. affected' = Append(affected, e)
      BY <1>4, <2>5 DEF CompareBefore, Report
    <3>2. e \in Entries /\ Key(e) = Key(f) /\ e.status # "added"
      BY <1>2, <2>1, <2>3 DEF Entry, Entries, Key
    <3>3. Modified(e)
      BY <1>1, <2>1, <2>5, <3>2 DEF Modified, Entry
    <3>4. e \in ToSet(affected')
      BY <3>1, <3>2, ReportAdds DEF Typed
    <3> QED
      BY <1>1, <2>1, <2>2, <2>4, <3>1, <3>2, <3>3, <3>4
  <2>6. CASE f.content = match.content
    <3>1. affected' = affected
      BY <1>4, <2>6 DEF CompareBefore
    <3> QED
      BY <1>1, <2>1, <2>2, <2>4, <2>6, <3>1
  <2> QED
    BY <2>5, <2>6
<1> QED
  BY <1>3, <1>4

\* What the second loop does with after[i].
LEMMA AfterStep ==
  ASSUME Typed, CompareAfter
  PROVE  /\ i \in DOMAIN after
         /\ \/ affected' = affected
            \/ \E e \in Entries :
                 /\ affected' = Append(affected, e)
                 /\ Key(e) = Key(after[i]) /\ e.status = "added"
                 /\ Added(e)
         /\ Key(after[i]) \notin Keys(before) =>
              Entry(after[i], "added", NULL, after[i].content) \in ToSet(affected')
<1> DEFINE f == after[i]
           match == FindMatch(f, before)
<1>1. i \in DOMAIN after /\ f \in Functions
  BY ElementOfSeq DEF Typed, CompareAfter
<1>2. f.name \in Names /\ f.parameters \in Nat /\ f.content \in Contents
  BY <1>1 DEF Functions
<1>3. CASE match = NULL
  <2> DEFINE e == Entry(f, "added", NULL, f.content)
  <2>1. Key(f) \notin Keys(before)
    BY <1>3, MatchIsNamesake DEF Typed
  <2>2. affected' = Append(affected, e)
    BY <1>3 DEF CompareAfter, Report
  <2>3. e \in Entries /\ Key(e) = Key(f) /\ e.status = "added"
    BY <1>2 DEF Entry, Entries, Key
  <2>4. Added(e)
    BY <1>1, <2>1, <2>3 DEF Added, Entry
  <2>5. e \in ToSet(affected')
    BY <2>2, <2>3, ReportAdds DEF Typed
  <2> QED
    BY <1>1, <2>2, <2>3, <2>4, <2>5
<1>4. CASE match # NULL
  <2>1. Key(f) \in Keys(before)
    BY <1>4, MatchIsNamesake DEF Typed, Keys
  <2>2. affected' = affected
    BY <1>4 DEF CompareAfter
  <2> QED
    BY <1>1, <2>1, <2>2
<1> QED
  BY <1>3, <1>4

-----------------------------------------------------------------------------
(* Every step keeps the invariant.                                         *)

\* One more true report, which is not a repetition, keeps what is said of all.
LEMMA Grows ==
  ASSUME Typed, ReportsAreTrue, Once, before' = before, after' = after,
         NEW e \in Entries, affected' = Append(affected, e),
         Removed(e) \/ Added(e) \/ Modified(e),
         Unambiguous(before) /\ Unambiguous(after) => e \notin ToSet(affected)
  PROVE  /\ affected' \in Seq(Entries)
         /\ ReportsAreTrue'
         /\ Once'
         /\ ToSet(affected) \subseteq ToSet(affected')
<1>1. /\ affected' \in Seq(Entries)
      /\ DOMAIN affected' = DOMAIN affected \cup {Len(affected) + 1}
      /\ \A n \in DOMAIN affected : affected'[n] = affected[n]
      /\ affected'[Len(affected) + 1] = e
      /\ ToSet(affected') = ToSet(affected) \cup {e}
  BY ReportAdds DEF Typed
<1>2. ReportsAreTrue'
  <2> SUFFICES ASSUME NEW n \in DOMAIN affected'
               PROVE (Removed(affected[n]) \/ Added(affected[n]) \/ Modified(affected[n]))'
    BY DEF ReportsAreTrue
  <2>1. Removed(affected'[n]) \/ Added(affected'[n]) \/ Modified(affected'[n])
    BY <1>1 DEF ReportsAreTrue
  <2> QED
    BY <2>1 DEF Removed, Added, Modified, Keys
<1>3. Once'
  <2> SUFFICES ASSUME Unambiguous(before), Unambiguous(after),
                      NEW m \in DOMAIN affected', NEW n \in DOMAIN affected',
                      affected'[m] = affected'[n]
               PROVE  m = n
    BY DEF Once, Unambiguous
  <2>1. \A k \in DOMAIN affected : affected[k] # e
    BY DEF ToSet
  <2> QED
    BY <1>1, <2>1 DEF Once
<1> QED
  BY <1>1, <1>2, <1>3

LEMMA BeforeKeeps == DiffInv /\ CompareBefore => DiffInv'
<1> SUFFICES ASSUME DiffInv, CompareBefore PROVE DiffInv'
  OBVIOUS
<1> USE DEF DiffInv
<1>1. /\ before' = before /\ after' = after
      /\ at = "compare_before" /\ at' = at /\ i' = i + 1
      /\ i <= Len(before) /\ i \in Nat \ {0} /\ Len(before) \in Nat
  BY DEF CompareBefore, Typed
<1>2. BeforeDone = i - 1 /\ BeforeDone' = i /\ AfterDone = 0 /\ AfterDone' = 0
  BY <1>1 DEF BeforeDone, AfterDone
<1>3. i \in DOMAIN before /\ \A k \in 1 .. i : k \in DOMAIN before /\ (k = i \/ k \in 1 .. i - 1)
  BY <1>1, BeforeStep DEF Typed
<1>4. /\ affected' \in Seq(Entries) /\ ReportsAreTrue' /\ Once'
      /\ ToSet(affected) \subseteq ToSet(affected')
      /\ Sourced'
  <2>1. CASE affected' = affected
    <3>1. ReportsAreTrue' /\ Once'
      BY <1>1, <2>1 DEF ReportsAreTrue, Once, Unambiguous, Removed, Added, Modified, Keys
    <3>2. Sourced'
      BY <1>1, <1>2, <1>3, <2>1 DEF Sourced, LookedUp
    <3> QED
      BY <2>1, <3>1, <3>2 DEF Typed
  <2>2. CASE affected' # affected
    <3>1. PICK e \in Entries :
            /\ affected' = Append(affected, e)
            /\ Key(e) = Key(before[i]) /\ e.status # "added"
            /\ Removed(e) \/ Modified(e)
      BY <2>2, BeforeStep
    <3>2. ASSUME Unambiguous(before), e \in ToSet(affected) PROVE FALSE
      <4>1. PICK n \in DOMAIN affected : affected[n] = e
        BY <3>2 DEF ToSet
      <4>2. PICK k \in 1 .. i - 1 : Key(before[k]) = Key(e)
        BY <1>2, <3>1, <4>1 DEF Sourced, LookedUp
      <4>3. k \in DOMAIN before /\ k # i
        BY <1>1, <1>3, <4>2
      <4> QED
        BY <1>3, <3>1, <3>2, <4>2, <4>3 DEF Unambiguous
    <3>3. /\ affected' \in Seq(Entries) /\ ReportsAreTrue' /\ Once'
          /\ ToSet(affected) \subseteq ToSet(affected')
      BY <1>1, <3>1, <3>2, Grows
    <3>4. Sourced'
      <4>1. /\ DOMAIN affected' = DOMAIN affected \cup {Len(affected) + 1}
            /\ \A n \in DOMAIN affected : affected'[n] = affected[n]
            /\ affected'[Len(affected) + 1] = e
        BY <3>1, ReportAdds DEF Typed
      <4>2. ASSUME NEW n \in DOMAIN affected'
            PROVE  \/ /\ affected'[n].status # "added"
                      /\ \E k \in 1 .. i : Key(before[k]) = Key(affected'[n])
                   \/ /\ affected'[n].status = "added"
                      /\ \E k \in 1 .. 0 : Key(after[k]) = Key(affected'[n])
        <5>1. CASE n \in DOMAIN affected
          BY <1>1, <1>2, <4>1, <5>1 DEF Sourced, LookedUp
        <5>2. CASE n = Len(affected) + 1
          BY <1>1, <3>1, <4>1, <5>2
        <5> QED
          BY <4>1, <5>1, <5>2
      <4> QED
        BY <1>1, <1>2, <4>2 DEF Sourced, LookedUp, Key
    <3> QED
      BY <3>3, <3>4
  <2> QED
    BY <2>1, <2>2
<1>5. Typed' /\ InRange'
  BY <1>1, <1>4 DEF Typed, InRange
<1>6. Complete'
  <2>1. \A k \in 1 .. i :
          Key(before[k]) \notin Keys(after) =>
            Entry(before[k], "removed", before[k].content, NULL) \in ToSet(affected')
    BY <1>2, <1>3, <1>4, BeforeStep DEF Complete
  <2>2. ASSUME Unambiguous(after), NEW k \in 1 .. i, NEW l \in DOMAIN after,
               Key(before[k]) = Key(after[l]), before[k].content # after[l].content
        PROVE  Entry(before[k], "modified", before[k].content, after[l].content)
                 \in ToSet(affected')
    BY <1>2, <1>3, <1>4, <2>2, BeforeStep DEF Complete
  <2> QED
    BY <1>1, <1>2, <2>1, <2>2 DEF Complete, Keys, Unambiguous
<1> QED
  BY <1>4, <1>5, <1>6

LEMMA AfterKeeps == DiffInv /\ CompareAfter => DiffInv'
<1> SUFFICES ASSUME DiffInv, CompareAfter PROVE DiffInv'
  OBVIOUS
<1> USE DEF DiffInv
<1>1. /\ before' = before /\ after' = after
      /\ at = "compare_after" /\ at' = at /\ i' = i + 1
      /\ i <= Len(after) /\ i \in Nat \ {0} /\ Len(after) \in Nat
  BY DEF CompareAfter, Typed
<1>2. /\ BeforeDone = Len(before) /\ BeforeDone' = Len(before)
      /\ AfterDone = i - 1 /\ AfterDone' = i
  BY <1>1 DEF BeforeDone, AfterDone
<1>3. i \in DOMAIN after /\ \A k \in 1 .. i : k \in DOMAIN after /\ (k = i \/ k \in 1 .. i - 1)
  BY <1>1, AfterStep DEF Typed
<1>4. /\ affected' \in Seq(Entries) /\ ReportsAreTrue' /\ Once'
      /\ ToSet(affected) \subseteq ToSet(affected')
      /\ Sourced'
  <2>1. CASE affected' = affected
    <3>1. ReportsAreTrue' /\ Once'
      BY <1>1, <2>1 DEF ReportsAreTrue, Once, Unambiguous, Removed, Added, Modified, Keys
    <3>2. Sourced'
      BY <1>1, <1>2, <1>3, <2>1 DEF Sourced, LookedUp
    <3> QED
      BY <2>1, <3>1, <3>2 DEF Typed
  <2>2. CASE affected' # affected
    <3>1. PICK e \in Entries :
            /\ affected' = Append(affected, e)
            /\ Key(e) = Key(after[i]) /\ e.status = "added"
            /\ Added(e)
      BY <2>2, AfterStep
    <3>2. ASSUME Unambiguous(after), e \in ToSet(affected) PROVE FALSE
      <4>1. PICK n \in DOMAIN affected : affected[n] = e
        BY <3>2 DEF ToSet
      <4>2. PICK k \in 1 .. i - 1 : Key(after[k]) = Key(e)
        BY <1>2, <3>1, <4>1 DEF Sourced, LookedUp
      <4>3. k \in DOMAIN after /\ k # i
        BY <1>1, <1>3, <4>2
      <4> QED
        BY <1>3, <3>1, <3>2, <4>2, <4>3 DEF Unambiguous
    <3>3. /\ affected' \in Seq(Entries) /\ ReportsAreTrue' /\ Once'
          /\ ToSet(affected) \subseteq ToSet(affected')
      BY <1>1, <3>1, <3>2, Grows
    <3>4. Sourced'
      <4>1. /\ DOMAIN affected' = DOMAIN affected \cup {Len(affected) + 1}
            /\ \A n \in DOMAIN affected : affected'[n] = affected[n]
            /\ affected'[Len(affected) + 1] = e
        BY <3>1, ReportAdds DEF Typed
      <4>2. ASSUME NEW n \in DOMAIN affected'
            PROVE  \/ /\ affected'[n].status # "added"
                      /\ \E k \in 1 .. Len(before) : Key(before[k]) = Key(affected'[n])
                   \/ /\ affected'[n].status = "added"
                      /\ \E k \in 1 .. i : Key(after[k]) = Key(affected'[n])
        <5>1. CASE n \in DOMAIN affected
          BY <1>1, <1>2, <4>1, <5>1 DEF Sourced, LookedUp
        <5>2. CASE n = Len(affected) + 1
          BY <1>1, <3>1, <4>1, <5>2
        <5> QED
          BY <4>1, <5>1, <5>2
      <4> QED
        BY <1>1, <1>2, <4>2 DEF Sourced, LookedUp, Key
    <3> QED
      BY <3>3, <3>4
  <2> QED
    BY <2>1, <2>2
<1>5. Typed' /\ InRange'
  BY <1>1, <1>4 DEF Typed, InRange
<1>6. Complete'
  <2>1. \A k \in 1 .. i :
          Key(after[k]) \notin Keys(before) =>
            Entry(after[k], "added", NULL, after[k].content) \in ToSet(affected')
    BY <1>2, <1>3, <1>4, AfterStep DEF Complete
  <2> QED
    BY <1>1, <1>2, <1>4, <2>1 DEF Complete, Keys, Unambiguous
<1> QED
  BY <1>4, <1>5, <1>6

\* Between the loops, at the end and in a stutter nothing is reported, and as much
\* as before has been looked up.
LEMMA EndKeeps ==
  ASSUME DiffInv, EndBefore \/ EndAfter \/ UNCHANGED diff
  PROVE  DiffInv'
<1> USE DEF DiffInv
<1>1. before' = before /\ after' = after /\ affected' = affected
  BY DEF EndBefore, EndAfter, diff
<1>2. Len(before) \in Nat /\ Len(after) \in Nat /\ i \in Nat
  BY DEF Typed
<1>3. Typed' /\ InRange' /\ BeforeDone' = BeforeDone /\ AfterDone' = AfterDone
  BY <1>1, <1>2 DEF EndBefore, EndAfter, diff, Typed, InRange, BeforeDone, AfterDone
<1>4. ReportsAreTrue' /\ Once'
  BY <1>1 DEF ReportsAreTrue, Once, Unambiguous, Removed, Added, Modified, Keys
<1>5. Sourced' /\ Complete'
  BY <1>1, <1>3 DEF Sourced, LookedUp, Complete, Keys, Unambiguous
<1> QED
  BY <1>3, <1>4, <1>5

\* The inductive invariant holds in every reachable state.
THEOREM Invariance == Spec => []DiffInv
<1>1. DiffInv /\ [Compare]_diff => DiffInv'
  BY BeforeKeeps, AfterKeeps, EndKeeps DEF Compare
<1> QED
  BY DiffInit, <1>1, PTL DEF Spec

\* A report is determined by the functions it is about.
LEMMA TrueIsInDifference ==
  ASSUME Typed, NEW e \in Entries, Removed(e) \/ Added(e) \/ Modified(e)
  PROVE  e \in Difference
<1>1. CASE Removed(e)
  <2>1. PICK k \in DOMAIN before : Key(before[k]) = Key(e) /\ before[k].content = e.previous
    BY <1>1 DEF Removed
  <2>2. e = Entry(before[k], "removed", before[k].content, NULL)
    BY <1>1, <2>1 DEF Removed, Entry, Entries, Key
  <2>3. Key(before[k]) \notin Keys(after)
    BY <1>1, <2>1 DEF Removed
  <2> QED
    BY <2>2, <2>3 DEF Difference
<1>2. CASE Added(e)
  <2>1. PICK k \in DOMAIN after : Key(after[k]) = Key(e) /\ after[k].content = e.content
    BY <1>2 DEF Added
  <2>2. e = Entry(after[k], "added", NULL, after[k].content)
    BY <1>2, <2>1 DEF Added, Entry, Entries, Key
  <2>3. Key(after[k]) \notin Keys(before)
    BY <1>2, <2>1 DEF Added
  <2> QED
    BY <2>2, <2>3 DEF Difference
<1>3. CASE Modified(e)
  <2>1. PICK k \in DOMAIN before : Key(before[k]) = Key(e) /\ before[k].content = e.previous
    BY <1>3 DEF Modified
  <2>2. PICK l \in DOMAIN after : Key(after[l]) = Key(e) /\ after[l].content = e.content
    BY <1>3 DEF Modified
  <2>3. e = Entry(before[k], "modified", before[k].content, after[l].content)
    BY <1>3, <2>1, <2>2 DEF Modified, Entry, Entries, Key
  <2>4. Key(before[k]) = Key(after[l]) /\ before[k].content # after[l].content
    BY <1>3, <2>1, <2>2 DEF Modified
  <2> DEFINE p == <<k, l>>
  <2>5. p \in (DOMAIN before) \X (DOMAIN after) /\ p[1] = k /\ p[2] = l
    OBVIOUS
  <2> QED
    BY <2>3, <2>4, <2>5 DEF Difference
<1> QED
  BY <1>1, <1>2, <1>3

\* At the end of the second loop everything has been looked up.
LEMMA AtTheEnd == DiffInv => DifferenceReported
<1> SUFFICES ASSUME DiffInv, at = "done", Unambiguous(before), Unambiguous(after)
             PROVE  /\ ToSet(affected) = Difference
                    /\ \A m, n \in DOMAIN affected : affected[m] = affected[n] => m = n
  BY DEF DifferenceReported
<1> USE DEF DiffInv
<1>1. BeforeDone = Len(before) /\ AfterDone = Len(after)
  BY DEF BeforeDone, AfterDone
<1>2. 1 .. BeforeDone = DOMAIN before /\ 1 .. AfterDone = DOMAIN after
  BY <1>1 DEF Typed
<1>3. ToSet(affected) \subseteq Difference
  <2> SUFFICES ASSUME NEW n \in DOMAIN affected PROVE affected[n] \in Difference
    BY DEF ToSet
  <2>1. affected[n] \in Entries
    BY ElementOfSeq DEF Typed
  <2> QED
    BY <2>1, TrueIsInDifference DEF ReportsAreTrue
<1>4. Difference \subseteq ToSet(affected)
  BY <1>2 DEF Complete, Difference
<1> QED
  BY <1>3, <1>4 DEF Once

-----------------------------------------------------------------------------
(* The theorems.                                                           *)

\* generate_json_functions never reports something untrue, whatever the two
\* versions are: no function that is in both versions as removed or added, no
\* content that is in neither, no pair of equal contents as modified.
THEOREM Truth == Spec => []ReportsAreTrue
<1>1. DiffInv => ReportsAreTrue
  BY DEF DiffInv
<1> QED
  BY Invariance, <1>1, PTL

\* Of versions without namesakes, the two loops report the difference, the whole
\* difference, and each part of it once.
THEOREM WholeDifference == Spec => []DifferenceReported
<1> QED
  BY Invariance, AtTheEnd, PTL
=============================================================================
