--------------------------- MODULE NvdSweepProofs ---------------------------
(***************************************************************************)
(* What NvdSweep promises, whatever the range, the windows, the page size, *)
(* the CWEs, the CVEs and their references are:                            *)
(*   - the windows tile the range of publication dates;                    *)
(*   - what the pages miss and repeat is bounded by how often the NVD      *)
(*     withdrew and assigned CVEs meanwhile;                               *)
(*   - of a list that does not change a finished sweep has pushed every    *)
(*     patch commit once.                                                  *)
(*                                                                         *)
(* Only's, nvd_parser_parse_cve's and FlattenSeq's loops are tables        *)
(* of partial results.  A lemma says that a table exists and what its      *)
(* entries are; what the last entry is follows by induction, which is      *)
(* stated for sets (AllNumbers, AllSequences) and rests on the least       *)
(* element of a set of numbers.                                            *)
(***************************************************************************)
EXTENDS NvdSweep, TLAPS, FiniteSetTheorems, SequenceTheorems, WellFoundedInduction

\* A range that ends a second before a midnight has no window_end on its first
\* second: that second would be a midnight and not one at once.
LEMMA NotOne ==
  ASSUME NEW m \in Int, NEW d \in Nat, d > 1
  PROVE  m * d # 1
<1>1. CASE m <= 0
  <2>1. m * d <= 0  BY <1>1, SMT
  <2> QED  BY <2>1, SMT
<1>2. CASE m >= 1
  <2>1. m * d >= d  BY <1>2, SMT
  <2> QED  BY <2>1, SMT
<1> QED  BY <1>1, <1>2

\* The configured range and the window are integers, and a window has room for
\* more than one second.
LEMMA Lengths ==
  /\ Before \in Int
  /\ Window \in Nat
  /\ Window > 1
<1>1. SecondsPerDay \in Nat /\ SecondsPerDay > 1 /\ DaysPerWindow \in Nat /\ DaysPerWindow >= 1
  BY SweepAssumption
<1>2. Window \in Nat  BY <1>1 DEF Window
<1>3. DaysPerWindow * SecondsPerDay >= SecondsPerDay  BY <1>1, SMT
<1>4. Window > 1  BY <1>1, <1>2, <1>3 DEF Window
<1>5. Before \in Int  BY <1>1, SweepAssumption DEF Before
<1> QED  BY <1>2, <1>4, <1>5

\* The invariant holds before the first CWE.
LEMMA SweepInit == Init => SweepInv
<1> SUFFICES ASSUME Init PROVE SweepInv  OBVIOUS
<1>1. at = "next cwe"  BY DEF Init
<1>2. cwe = 1 /\ start = 0 /\ end = 0  BY DEF Init
<1>3. cwe \in Nat /\ start \in Int /\ end \in Int /\ ~(cwe > 1)  BY <1>2
<1> QED  BY <1>1, <1>3 DEF SweepInv

\* A CWE starts with the newest window.
LEMMA StartCweKeeps == SweepInv /\ StartCwe => SweepInv'
<1> SUFFICES ASSUME SweepInv, StartCwe PROVE SweepInv'  OBVIOUS
<1>1. /\ at' = "window" /\ cwe' = cwe /\ end' = Before /\ swept' = {}
      /\ start' = Later(Before - Window + 1, After)
  BY DEF StartCwe, nvd
<1>2. cwe' \in Nat /\ end' \in Int /\ start' \in Int /\ end' <= Before
  <2>1. cwe' \in Nat  BY <1>1 DEF SweepInv
  <2>2. end' \in Int /\ end' <= Before  BY <1>1, Lengths
  <2>3. Before - Window + 1 \in Int /\ After \in Int  BY Lengths, SweepAssumption
  <2>4. start' \in Int  BY <1>1, <2>3 DEF Later
  <2> QED  BY <2>1, <2>2, <2>4
<1>3. \E m \in Int : end' = After + m * SecondsPerDay - 1
  BY <1>1, SweepAssumption DEF Before
<1>4. swept' = {s \in After .. Before : s > end'}
  BY <1>1, Lengths, SweepAssumption
<1>5. start' = Later(end' - Window + 1, After)  BY <1>1
<1>6. at' = "window"  BY <1>1
<1> QED  BY <1>2, <1>3, <1>4, <1>5, <1>6 DEF SweepInv

\* A window that was downloaded is added to what was swept, and the next one
\* ends where it started.
LEMMA NextWindowKeeps == SweepInv /\ NextWindow => SweepInv'
<1> SUFFICES ASSUME SweepInv, NextWindow PROVE SweepInv'  OBVIOUS
<1> USE Lengths, SweepAssumption
<1>1. /\ at = "pages" /\ at' = "window" /\ cwe' = cwe
      /\ swept' = swept \cup (start .. end)
      /\ end' = end - Window
      /\ start' = Later(start - Window, After)
  BY DEF NextWindow, Earlier, nvd
<1>2. /\ cwe \in Nat /\ start \in Int /\ end \in Int /\ end <= Before /\ end > start
      /\ start = Later(end - Window + 1, After)
      /\ swept = {s \in After .. Before : s > end}
  BY <1>1 DEF SweepInv
<1>3. PICK m \in Int : end = After + m * SecondsPerDay - 1
  BY <1>1 DEF SweepInv
<1>4. \E k \in Int : end' = After + k * SecondsPerDay - 1
  <2>1. m - DaysPerWindow \in Int  OBVIOUS
  <2>2. (m - DaysPerWindow) * SecondsPerDay
          = m * SecondsPerDay - DaysPerWindow * SecondsPerDay
    OBVIOUS
  <2>3. /\ m * SecondsPerDay \in Int
        /\ DaysPerWindow * SecondsPerDay \in Int
        /\ (m - DaysPerWindow) * SecondsPerDay \in Int
    OBVIOUS
  <2>4. end' = After + (m - DaysPerWindow) * SecondsPerDay - 1
    BY <1>1, <1>3, <2>2, <2>3 DEF Window
  <2> QED  BY <2>1, <2>4
<1>5. start' = Later(end' - Window + 1, After)
  BY <1>1, <1>2 DEF Later
<1>6. swept' = {s \in After .. Before : s > end'}
  <2>1. start >= After /\ start >= end' + 1 /\ (start = After \/ start = end' + 1)
    BY <1>1, <1>2 DEF Later
  <2> QED  BY <1>1, <1>2, <2>1
<1>7. start' \in Int /\ end' \in Int /\ end' <= Before
  BY <1>1, <1>2 DEF Later
<1> QED  BY <1>1, <1>2, <1>4, <1>5, <1>6, <1>7 DEF SweepInv

\* The loop ends for a CWE with nothing of the range left.
LEMMA CweDoneKeeps == SweepInv /\ CweDone => SweepInv'
<1> SUFFICES ASSUME SweepInv, CweDone PROVE SweepInv'  OBVIOUS
<1> USE Lengths, SweepAssumption
<1>0. at = "window" /\ at' = "next cwe"  BY DEF CweDone
<1>1. /\ cwe' = cwe + 1 /\ end <= start
      /\ start' = start /\ end' = end /\ swept' = swept
  BY DEF CweDone
<1>2. /\ cwe \in Nat /\ start \in Int /\ end \in Int
      /\ start = Later(end - Window + 1, After)
      /\ swept = {s \in After .. Before : s > end}
  BY <1>0 DEF SweepInv
<1>3. PICK m \in Int : end = After + m * SecondsPerDay - 1
  BY <1>0 DEF SweepInv
<1>4. end # After
  <2>1. m * SecondsPerDay \in Int  OBVIOUS
  <2>2. m * SecondsPerDay # 1  BY NotOne
  <2> QED  BY <1>3, <2>1, <2>2
<1>5. end < After
  <2>1. end <= start  BY <1>1
  <2>2. start = IF end - Window + 1 < After THEN After ELSE end - Window + 1
    BY <1>2 DEF Later
  <2>3. end - Window + 1 < end  BY <1>2
  <2> QED  BY <1>2, <1>4, <2>1, <2>2, <2>3
<1>6. swept' = After .. Before
  BY <1>1, <1>2, <1>5
<1>7. cwe' \in Nat /\ start' \in Int /\ end' \in Int
  BY <1>1, <1>2
<1> QED  BY <1>0, <1>6, <1>7 DEF SweepInv

\* No step of the sweep or of the NVD breaks the invariant.
LEMMA SweepStep == SweepInv /\ [Next]_vars => SweepInv'
<1> SUFFICES ASSUME SweepInv, [Next]_vars PROVE SweepInv'  OBVIOUS
<1>1. CASE StartCwe  BY <1>1, StartCweKeeps
<1>2. CASE Probe
  BY <1>2 DEF Probe, SweepInv
<1>3. CASE DownloadPage
  BY <1>3 DEF DownloadPage, SweepInv
<1>4. CASE NextWindow  BY <1>4, NextWindowKeeps
<1>5. CASE CweDone  BY <1>5, CweDoneKeeps
<1>6. CASE Return
  BY <1>6 DEF Return, SweepInv
<1>7. ASSUME NEW c \in Cves, Assign(c) PROVE SweepInv'
  BY <1>7 DEF Assign, SweepInv
<1>8. ASSUME NEW c \in Cves, Withdraw(c) PROVE SweepInv'
  BY <1>8 DEF Withdraw, SweepInv
<1>9. CASE Ended \/ UNCHANGED vars
  BY <1>9 DEF Ended, vars, SweepInv
<1> QED
  BY <1>1, <1>2, <1>3, <1>4, <1>5, <1>6, <1>7, <1>8, <1>9 DEF Next, Sweep

\* The invariant holds in every state of every sweep.
THEOREM SweepInvariance == Spec => []SweepInv
  BY SweepInit, SweepStep, PTL DEF Spec

\* The windows of nvd_request query every second of the range once.
THEOREM Tiling == Spec => []WindowsTile
<1>1. SweepInv => WindowsTile
  <2> SUFFICES ASSUME SweepInv PROVE WindowsTile  OBVIOUS
  <2>1. at \in {"window", "pages"} => swept = {s \in After .. Before : s > end}
    BY DEF SweepInv
  <2>2. at = "pages" => start >= After /\ end <= Before /\ end - start < Window
    BY Lengths, SweepAssumption DEF SweepInv, Later
  <2>3. at \in {"next cwe", "returned"} /\ cwe > 1 => swept = After .. Before
    BY DEF SweepInv
  <2> QED  BY <2>1, <2>2, <2>3 DEF WindowsTile
<1> QED  BY <1>1, SweepInvariance, PTL

\* The smaller of two numbers.
LEMMA Smaller ==
  ASSUME NEW m \in Nat, NEW n \in Nat
  PROVE  Min({m, n}) = IF m <= n THEN m ELSE n
<1>1. CASE m <= n
  <2>1. m \in {m, n} /\ \A y \in {m, n} : m <= y
    BY <1>1
  <2>2. \A x \in {m, n} : (\A y \in {m, n} : x <= y) => x = m
    BY <1>1
  <2> QED
    BY <1>1, <2>1, <2>2 DEF Min
<1>2. CASE ~(m <= n)
  <2>1. n \in {m, n} /\ \A y \in {m, n} : n <= y
    BY <1>2
  <2>2. \A x \in {m, n} : (\A y \in {m, n} : x <= y) => x = n
    BY <1>2
  <2> QED
    BY <1>2, <2>1, <2>2 DEF Min
<1> QED
  BY <1>1, <1>2

\* A set of numbers has a least one.
LEMMA FirstOf ==
  ASSUME NEW S \in SUBSET Nat, S # {}
  PROVE  Min(S) \in S /\ \A n \in S : Min(S) <= n
<1> DEFINE below == {ss \in Nat \X Nat : ss[1] < ss[2]}
<1>1. OpToRel(<, Nat) = below
  BY Zenon DEF OpToRel
<1>2. IsWellFoundedOn(below, Nat)
  BY <1>1, NatLessThanWellFounded, Zenon
<1>3. \E x \in S : \A y \in S : ~(<<y, x>> \in below)
  <2> HIDE DEF below
  <2> QED
    BY <1>2, WFMin, Zenon
<1>4. PICK x \in S : \A y \in S : ~(<<y, x>> \in below)
  BY <1>3
<1>5. ASSUME NEW y \in S PROVE x <= y
  <2>1. x \in Nat /\ y \in Nat /\ ~(<<y, x>> \in below)
    BY <1>4
  <2>2. <<y, x>> \in Nat \X Nat /\ <<y, x>>[1] = y /\ <<y, x>>[2] = x
    BY <2>1
  <2>3. ~(y < x)
    BY <2>1, <2>2
  <2> QED
    BY <2>1, <2>3
<1> QED
  BY <1>5, Zenon DEF Min

\* Induction, for the numbers and for the sequences of a set that have a property.
LEMMA AllNumbers ==
  ASSUME NEW S, 0 \in S, \A n \in Nat : n \in S => n + 1 \in S
  PROVE  Nat \subseteq S
<1> DEFINE Wrong == Nat \ S
<1> SUFFICES ASSUME Wrong # {} PROVE FALSE
  OBVIOUS
<1>1. Wrong \in SUBSET Nat
  OBVIOUS
<1>2. PICK n : n \in Wrong /\ \A k \in Wrong : n <= k
  <2> HIDE DEF Wrong
  <2> QED
    BY <1>1, FirstOf, Zenon
<1>3. n \in Nat /\ n # 0 /\ n \notin S
  BY <1>2
<1>4. n - 1 \in Nat /\ (n - 1) + 1 = n /\ ~(n <= n - 1)
  BY <1>3
<1>5. n - 1 \in S
  BY <1>2, <1>4
<1> QED
  BY <1>3, <1>4, <1>5

\* Induction over the sequences of a set, from the one over their lengths.
LEMMA AllSequences ==
  ASSUME NEW S, NEW Good, <<>> \in Good,
         \A s \in Seq(S) : \A x \in S : s \in Good => Append(s, x) \in Good
  PROVE  Seq(S) \subseteq Good
<1> DEFINE Long == {n \in Nat : \A s \in Seq(S) : Len(s) = n => s \in Good}
<1>1. 0 \in Long
  <2>1. \A s \in Seq(S) : Len(s) = 0 => s = <<>>
    BY EmptySeq
  <2> QED
    BY <2>1
<1>2. ASSUME NEW n \in Nat, n \in Long PROVE n + 1 \in Long
  <2> SUFFICES ASSUME NEW s \in Seq(S), Len(s) = n + 1 PROVE s \in Good
    BY <1>2
  <2>1. s # <<>>
    BY <1>2
  <2>2. PICK t \in Seq(S), x \in S : s = Append(t, x)
    BY <2>1, SequenceEmptyOrAppend
  <2>3. Len(s) = Len(t) + 1 /\ Len(t) \in Nat
    BY <2>2
  <2>4. Len(t) = n
    BY <2>3, <1>2
  <2>5. t \in Good
    BY <2>4, <1>2
  <2> QED
    BY <2>2, <2>5
<1>3. Nat \subseteq Long
  <2> HIDE DEF Long
  <2> QED
    BY <1>1, <1>2, AllNumbers, Zenon
<1> QED
  <2> SUFFICES ASSUME NEW s \in Seq(S) PROVE s \in Good
    OBVIOUS
  <2>1. Len(s) \in Nat
    OBVIOUS
  <2>2. Len(s) \in Long
    BY <2>1, <1>3, Zenon
  <2> QED
    BY <2>2

-----------------------------------------------------------------------------
(* The NVD's answer.                                                       *)

\* The table that Only defines, of its first m elements, and what it says.
OnlyTable(w, s, set, m) ==
  w = [n \in 0 .. m |->
         IF n = 0 THEN <<>>
         ELSE IF s[n] \in set THEN Append(w[n - 1], s[n]) ELSE w[n - 1]]

\* What such a table says of its entries.
IsKept(w, s, set, m) ==
  /\ w[0] = <<>>
  /\ \A n \in 1 .. m : w[n] = IF s[n] \in set THEN Append(w[n - 1], s[n]) ELSE w[n - 1]

\* What the table says, entry by entry.
LEMMA KeptIs ==
  ASSUME NEW s, NEW set, NEW m \in Nat, NEW w, OnlyTable(w, s, set, m)
  PROVE  IsKept(w, s, set, m)
<1>1. ASSUME NEW n \in 0 .. m
      PROVE  w[n] = IF n = 0 THEN <<>>
                    ELSE IF s[n] \in set THEN Append(w[n - 1], s[n]) ELSE w[n - 1]
  BY Zenon DEF OnlyTable
<1>2. 0 \in 0 .. m /\ \A n \in 1 .. m : n \in 0 .. m /\ n # 0
  OBVIOUS
<1>3. w[0] = <<>>
  BY <1>1, <1>2, Zenon
<1>4. ASSUME NEW n \in 1 .. m
      PROVE  w[n] = IF s[n] \in set THEN Append(w[n - 1], s[n]) ELSE w[n - 1]
  BY <1>1, <1>2, Zenon
<1> QED
  BY <1>3, <1>4, Zenon DEF IsKept

\* A table of the first m elements extends to one more.
LEMMA KeptGrows ==
  ASSUME NEW s, NEW set, NEW m \in Nat, NEW w, OnlyTable(w, s, set, m)
  PROVE  \E v : OnlyTable(v, s, set, m + 1)
<1> DEFINE next == IF s[m + 1] \in set THEN Append(w[m], s[m + 1]) ELSE w[m]
           v == [n \in 0 .. m + 1 |-> IF n = m + 1 THEN next ELSE w[n]]
<1>0. IsKept(w, s, set, m)
  BY KeptIs
<1>1. ASSUME NEW n \in 0 .. m + 1
      PROVE  v[n] = IF n = 0 THEN <<>>
                    ELSE IF s[n] \in set THEN Append(v[n - 1], s[n]) ELSE v[n - 1]
  <2> HIDE DEF next
  <2>1. CASE n = m + 1
    <3>1. v[n] = next /\ v[n - 1] = w[m] /\ n # 0
      BY <2>1
    <3> QED
      BY <2>1, <3>1, Zenon DEF next
  <2>2. CASE n = 0
    <3>1. v[n] = w[0]
      BY <2>2
    <3> QED
      BY <2>2, <3>1, <1>0, Zenon DEF IsKept
  <2>3. CASE n \in 1 .. m
    <3>1. v[n] = w[n] /\ v[n - 1] = w[n - 1] /\ n # 0
      BY <2>3
    <3>2. w[n] = IF s[n] \in set THEN Append(w[n - 1], s[n]) ELSE w[n - 1]
      BY <2>3, <1>0, Zenon DEF IsKept
    <3> HIDE DEF v
    <3> QED
      BY <3>1, <3>2, Zenon
  <2> QED
    BY <2>1, <2>2, <2>3
<1>2. v = [n \in 0 .. m + 1 |-> v[n]]
  <2> HIDE DEF next
  <2> QED
    OBVIOUS
<1> HIDE DEF v
<1>3. OnlyTable(v, s, set, m + 1)
  <2>1. [n \in 0 .. m + 1 |-> v[n]] =
        [n \in 0 .. m + 1 |->
           IF n = 0 THEN <<>>
           ELSE IF s[n] \in set THEN Append(v[n - 1], s[n]) ELSE v[n - 1]]
    BY <1>1, Zenon
  <2> QED
    BY <1>2, <2>1, Zenon DEF OnlyTable
<1> QED
  BY <1>3, Zenon

\* There is a table of every length.
LEMMA KeptExists ==
  ASSUME NEW s, NEW set, NEW m \in Nat
  PROVE  \E w : OnlyTable(w, s, set, m)
<1> DEFINE Good == {n \in Nat : \E w : OnlyTable(w, s, set, n)}
<1>1. 0 \in Good
  <2> DEFINE w == [n \in 0 .. 0 |-> <<>>]
  <2>1. w = [n \in 0 .. 0 |->
               IF n = 0 THEN <<>>
               ELSE IF s[n] \in set THEN Append(w[n - 1], s[n]) ELSE w[n - 1]]
    OBVIOUS
  <2>2. OnlyTable(w, s, set, 0)
    BY <2>1, Zenon DEF OnlyTable
  <2> HIDE DEF w
  <2> QED
    BY <2>2
<1>2. ASSUME NEW n \in Nat, n \in Good PROVE n + 1 \in Good
  <2>1. PICK w : OnlyTable(w, s, set, n)
    BY <1>2
  <2>2. \E v : OnlyTable(v, s, set, n + 1)
    BY <2>1, KeptGrows, Zenon
  <2> QED
    BY <2>2
<1>3. Nat \subseteq Good
  <2> HIDE DEF Good
  <2> QED
    BY <1>1, <1>2, AllNumbers, Zenon
<1> QED
  BY <1>3

\* Two tables agree as far as their sequences do.
LEMMA KeptOnce ==
  ASSUME NEW s, NEW t, NEW set, NEW m \in Nat, NEW k \in Nat, m <= k,
         NEW v, IsKept(v, s, set, m), NEW w, IsKept(w, t, set, k),
         \A n \in 1 .. m : s[n] = t[n]
  PROVE  v[m] = w[m]
<1> DEFINE Good == {n \in Nat : n <= m => v[n] = w[n]}
<1>1. 0 \in Good
  BY DEF IsKept
<1>2. ASSUME NEW n \in Nat, n \in Good PROVE n + 1 \in Good
  <2> SUFFICES ASSUME n + 1 <= m PROVE v[n + 1] = w[n + 1]
    OBVIOUS
  <2>1. n + 1 \in 1 .. m /\ n + 1 \in 1 .. k /\ (n + 1) - 1 = n /\ n <= m
    OBVIOUS
  <2>2. v[n] = w[n]
    BY <2>1, <1>2
  <2>3. v[n + 1] = IF s[n + 1] \in set THEN Append(v[(n + 1) - 1], s[n + 1]) ELSE v[(n + 1) - 1]
    BY <2>1, Zenon DEF IsKept
  <2>4. w[n + 1] = IF t[n + 1] \in set THEN Append(w[(n + 1) - 1], t[n + 1]) ELSE w[(n + 1) - 1]
    BY <2>1, Zenon DEF IsKept
  <2>5. s[n + 1] = t[n + 1]
    BY <2>1
  <2> HIDE DEF Good
  <2> QED
    BY <2>1, <2>2, <2>3, <2>4, <2>5
<1>3. Nat \subseteq Good
  <2> HIDE DEF Good
  <2> QED
    BY <1>1, <1>2, AllNumbers, Zenon
<1> QED
  BY <1>3

\* Only returns the last entry of a table.
LEMMA OnlyIs ==
  ASSUME NEW s, NEW set, Len(s) \in Nat
  PROVE  \E w : IsKept(w, s, set, Len(s)) /\ Only(s, set) = w[Len(s)]
<1> DEFINE table == CHOOSE w : w = [n \in 0 .. Len(s) |->
                       IF n = 0 THEN <<>>
                       ELSE IF s[n] \in set THEN Append(w[n - 1], s[n]) ELSE w[n - 1]]
<1>2. Only(s, set) = table[Len(s)]
  BY Zenon DEF Only
<1>3. \E w : OnlyTable(w, s, set, Len(s))
  BY KeptExists, Zenon
<1>4. OnlyTable(table, s, set, Len(s))
  BY <1>3, Zenon DEF OnlyTable
<1> HIDE DEF table
<1>5. IsKept(table, s, set, Len(s))
  BY <1>4, KeptIs, Zenon
<1> QED
  BY <1>2, <1>5, Zenon

\* Nothing is kept of the empty sequence.
LEMMA OnlyNothing == \A set : Only(<<>>, set) = <<>>
<1> SUFFICES ASSUME NEW set PROVE Only(<<>>, set) = <<>>
  OBVIOUS
<1>1. Len(<<>>) = 0 /\ Len(<<>>) \in Nat
  OBVIOUS
<1>2. PICK w : IsKept(w, <<>>, set, Len(<<>>)) /\ Only(<<>>, set) = w[Len(<<>>)]
  BY <1>1, OnlyIs, Zenon
<1>3. w[0] = <<>>
  BY <1>2, Zenon DEF IsKept
<1> QED
  BY <1>1, <1>2, <1>3

\* One element more is kept if it is in the set.
LEMMA OnlyAppend ==
  ASSUME NEW S, NEW s \in Seq(S), NEW x \in S, NEW set
  PROVE  Only(Append(s, x), set) = IF x \in set THEN Append(Only(s, set), x) ELSE Only(s, set)
<1> DEFINE t == Append(s, x)
           m == Len(s)
<1>1. /\ Len(t) = m + 1 /\ m \in Nat /\ t[m + 1] = x
      /\ \A n \in 1 .. m : s[n] = t[n]
  OBVIOUS
<1>2. \E v : IsKept(v, s, set, m) /\ Only(s, set) = v[m]
  BY <1>1, OnlyIs, Zenon
<1> HIDE DEF t, m
<1>3. m <= m + 1 /\ m + 1 \in Nat /\ m + 1 \in 1 .. m + 1 /\ (m + 1) - 1 = m
  BY <1>1
<1>4. PICK v : IsKept(v, s, set, m) /\ Only(s, set) = v[m]
  BY <1>2
<1>5. PICK w : IsKept(w, t, set, m + 1) /\ Only(t, set) = w[m + 1]
  BY <1>1, <1>3, OnlyIs
<1>6. v[m] = w[m]
  BY <1>1, <1>3, <1>4, <1>5, KeptOnce
<1>7. w[m + 1] = IF t[m + 1] \in set THEN Append(w[(m + 1) - 1], t[m + 1]) ELSE w[(m + 1) - 1]
  BY <1>3, <1>5, Zenon DEF IsKept
<1>8. Only(t, set) = IF x \in set THEN Append(Only(s, set), x) ELSE Only(s, set)
  BY <1>1, <1>3, <1>4, <1>5, <1>6, <1>7
<1> QED
  BY <1>8, Zenon DEF t

\* A sequence with one element more.
LEMMA AppendedIs ==
  ASSUME NEW S, NEW s \in Seq(S), NEW x \in S
  PROVE  /\ Append(s, x) \in Seq(S)
         /\ DOMAIN Append(s, x) = 1 .. Len(s) + 1 /\ DOMAIN s = 1 .. Len(s) /\ Len(s) \in Nat
         /\ \A k \in 1 .. Len(s) : Append(s, x)[k] = s[k]
         /\ Append(s, x)[Len(s) + 1] = x
         /\ ToSet(Append(s, x)) = ToSet(s) \cup {x}
         /\ NothingTwice(Append(s, x)) <=> NothingTwice(s) /\ x \notin ToSet(s)
<1>1. /\ Append(s, x) \in Seq(S)
      /\ DOMAIN Append(s, x) = 1 .. Len(s) + 1 /\ DOMAIN s = 1 .. Len(s) /\ Len(s) \in Nat
      /\ \A k \in 1 .. Len(s) : Append(s, x)[k] = s[k]
      /\ Append(s, x)[Len(s) + 1] = x
  OBVIOUS
<1>2. ToSet(Append(s, x)) = ToSet(s) \cup {x}
  BY <1>1 DEF ToSet
<1>3. ASSUME NothingTwice(Append(s, x)) PROVE NothingTwice(s) /\ x \notin ToSet(s)
  <2>1. \A k \in 1 .. Len(s) : k \in 1 .. Len(s) + 1 /\ k # Len(s) + 1
    BY <1>1
  <2>2. Len(s) + 1 \in 1 .. Len(s) + 1
    BY <1>1
  <2> DEFINE r == Append(s, x)
             n == Len(s)
  <2>3. \A k \in 1 .. n : r[k] = s[k] /\ r[n + 1] = x
    BY <1>1
  <2>4. \A i, k \in 1 .. n + 1 : r[i] = r[k] => i = k
    BY <1>1, <1>3 DEF NothingTwice
  <2> HIDE DEF r, n
  <2>5. \A i, k \in 1 .. n : s[i] = s[k] => i = k
    BY <2>1, <2>3, <2>4 DEF n
  <2>6. \A i \in 1 .. n : s[i] # x
    BY <2>1, <2>2, <2>3, <2>4, Zenon DEF n
  <2> QED
    BY <2>5, <2>6, <1>1, Zenon DEF n, ToSet, NothingTwice
<1>4. ASSUME NothingTwice(s), x \notin ToSet(s) PROVE NothingTwice(Append(s, x))
  <2> DEFINE r == Append(s, x)
             n == Len(s)
  <2>1. \A i, k \in 1 .. n : s[i] = s[k] => i = k
    BY <1>1, <1>4, Zenon DEF NothingTwice
  <2>2. \A i \in 1 .. n : s[i] # x
    BY <1>1, <1>4, Zenon DEF ToSet
  <2>3. \A k \in 1 .. n : r[k] = s[k]
    BY <1>1
  <2>4. r[n + 1] = x /\ n \in Nat /\ DOMAIN r = 1 .. n + 1
    BY <1>1
  <2> HIDE DEF r, n
  <2>5. \A i \in 1 .. n + 1 : i \in 1 .. n \/ i = n + 1
    BY <2>4
  <2>6. ASSUME NEW i \in 1 .. n + 1, NEW k \in 1 .. n + 1, r[i] = r[k] PROVE i = k
    BY <2>1, <2>2, <2>3, <2>4, <2>5, <2>6, Zenon
  <2>7. NothingTwice(r)
    BY <2>4, <2>6, Zenon DEF NothingTwice
  <2> QED
    BY <2>7 DEF r
<1> QED
  BY <1>1, <1>2, <1>3, <1>4

\* What Only keeps: the elements in the set, in a sequence that repeats none.
LEMMA OnlyOf ==
  ASSUME NEW S, NEW set, NEW s \in Seq(S)
  PROVE  /\ Only(s, set) \in Seq(S)
         /\ ToSet(Only(s, set)) = ToSet(s) \cap set
         /\ NothingTwice(s) => NothingTwice(Only(s, set))
<1> DEFINE Good == {t \in Seq(S) : /\ Only(t, set) \in Seq(S)
                                   /\ ToSet(Only(t, set)) = ToSet(t) \cap set
                                   /\ NothingTwice(t) => NothingTwice(Only(t, set))}
<1>1. <<>> \in Good
  <2>1. <<>> \in Seq(S) /\ ToSet(<<>>) = {} /\ NothingTwice(<<>>)
    BY DEF ToSet, NothingTwice
  <2>2. Only(<<>>, set) = <<>>
    BY OnlyNothing
  <2> QED
    BY <2>1, <2>2
<1>2. ASSUME NEW t \in Seq(S), NEW x \in S, t \in Good PROVE Append(t, x) \in Good
  <2> DEFINE r == Only(t, set)
  <2>1. r \in Seq(S) /\ ToSet(r) = ToSet(t) \cap set /\ (NothingTwice(t) => NothingTwice(r))
    BY <1>2
  <2> HIDE DEF r
  <2>2. /\ Append(t, x) \in Seq(S) /\ ToSet(Append(t, x)) = ToSet(t) \cup {x}
        /\ NothingTwice(Append(t, x)) <=> NothingTwice(t) /\ x \notin ToSet(t)
    <3>1. t \in Seq(S)
      OBVIOUS
    <3> HIDE DEF Good
    <3> QED
      BY <3>1, AppendedIs
  <2>3. CASE x \in set
    <3>1. Only(Append(t, x), set) = Append(r, x)
      BY <2>3, OnlyAppend DEF r
    <3>2. /\ Append(r, x) \in Seq(S) /\ ToSet(Append(r, x)) = ToSet(r) \cup {x}
          /\ NothingTwice(Append(r, x)) <=> NothingTwice(r) /\ x \notin ToSet(r)
      BY <2>1, AppendedIs, ZenonT(40)
    <3>3. ToSet(Append(r, x)) = ToSet(Append(t, x)) \cap set
      BY <2>1, <2>2, <2>3, <3>2
    <3>4. NothingTwice(Append(t, x)) => NothingTwice(Append(r, x))
      BY <2>1, <2>2, <3>2
    <3> QED
      BY <2>2, <3>1, <3>2, <3>3, <3>4
  <2>4. CASE x \notin set
    <3>1. Only(Append(t, x), set) = r
      BY <2>4, OnlyAppend DEF r
    <3>2. ToSet(r) = ToSet(Append(t, x)) \cap set
      BY <2>1, <2>2, <2>4
    <3>3. NothingTwice(Append(t, x)) => NothingTwice(r)
      BY <2>1, <2>2
    <3> QED
      BY <2>1, <2>2, <3>1, <3>2, <3>3
  <2> QED
    BY <2>3, <2>4
<1>3. Seq(S) \subseteq Good
  <2> HIDE DEF Good
  <2> QED
    BY <1>1, <1>2, AllSequences, Zenon
<1> QED
  BY <1>3

\* Only goes through one sequence after the other.
LEMMA OnlyConcat ==
  ASSUME NEW S, NEW set, NEW s \in Seq(S), NEW t \in Seq(S)
  PROVE  Only(s \o t, set) = Only(s, set) \o Only(t, set)
<1> DEFINE Good == {u \in Seq(S) : Only(s \o u, set) = Only(s, set) \o Only(u, set)}
<1>1. <<>> \in Good
  <2>1. s \o <<>> = s /\ Only(s, set) \o <<>> = Only(s, set) /\ <<>> \in Seq(S)
    BY OnlyOf, ConcatEmptySeq
  <2>2. Only(<<>>, set) = <<>>
    BY OnlyNothing
  <2> QED
    BY <2>1, <2>2
<1>2. ASSUME NEW u \in Seq(S), NEW x \in S, u \in Good PROVE Append(u, x) \in Good
  <2> DEFINE a == Only(s, set)
             b == Only(u, set)
  <2>1. a \in Seq(S) /\ b \in Seq(S) /\ Only(s \o u, set) = a \o b /\ s \o u \in Seq(S)
    BY <1>2, OnlyOf
  <2>2. s \o Append(u, x) = Append(s \o u, x) /\ a \o Append(b, x) = Append(a \o b, x)
    <3> HIDE DEF a, b, Good
    <3>1. \A v, w \in Seq(S) : v \o Append(w, x) = Append(v \o w, x)
      OBVIOUS
    <3> QED
      BY <2>1, <3>1
  <2> HIDE DEF a, b
  <2>3. Only(Append(s \o u, x), set) = IF x \in set THEN Append(a \o b, x) ELSE a \o b
    BY <2>1, OnlyAppend, ZenonT(40)
  <2>4. Only(Append(u, x), set) = IF x \in set THEN Append(b, x) ELSE b
    BY OnlyAppend DEF b
  <2>5. Only(s \o Append(u, x), set) = a \o Only(Append(u, x), set)
    BY <2>2, <2>3, <2>4
  <2>6. Append(u, x) \in Seq(S)
    OBVIOUS
  <2> QED
    BY <2>5, <2>6 DEF a
<1>3. Seq(S) \subseteq Good
  <2> HIDE DEF Good
  <2> QED
    BY <1>1, <1>2, AllSequences, Zenon
<1> QED
  BY <1>3

\* Two sequences, one after the other.
LEMMA ConcatIs ==
  ASSUME NEW S, NEW s \in Seq(S), NEW t \in Seq(S)
  PROVE  /\ s \o t \in Seq(S)
         /\ Len(s \o t) = Len(s) + Len(t)
         /\ ToSet(s \o t) = ToSet(s) \cup ToSet(t)
         /\ NothingTwice(s \o t) <=>
              NothingTwice(s) /\ NothingTwice(t) /\ ToSet(s) \cap ToSet(t) = {}
<1> DEFINE r == s \o t
           m == Len(s)
           n == Len(t)
<1>1. /\ r \in Seq(S) /\ Len(r) = m + n /\ m \in Nat /\ n \in Nat
      /\ DOMAIN r = 1 .. m + n /\ DOMAIN s = 1 .. m /\ DOMAIN t = 1 .. n
      /\ \A k \in 1 .. m + n : r[k] = IF k <= m THEN s[k] ELSE t[k - m]
  BY ConcatProperties
<1> HIDE DEF r, m, n
<1>2. \A k \in 1 .. m : k \in 1 .. m + n /\ r[k] = s[k]
  BY <1>1
<1>3. \A k \in 1 .. n : m + k \in 1 .. m + n /\ r[m + k] = t[k]
  <2> TAKE k \in 1 .. n
  <2>1. m + k \in 1 .. m + n /\ ~(m + k <= m) /\ (m + k) - m = k
    BY <1>1
  <2> QED
    BY <1>1, <2>1
<1>4. \A k \in 1 .. m + n : k \in 1 .. m \/ \E i \in 1 .. n : k = m + i
  <2> TAKE k \in 1 .. m + n
  <2>1. CASE k <= m
    BY <1>1, <2>1
  <2>2. CASE ~(k <= m)
    <3>1. k - m \in 1 .. n /\ k = m + (k - m)
      BY <1>1, <2>2
    <3> QED
      BY <3>1
  <2> QED
    BY <2>1, <2>2
<1>5. ToSet(r) = ToSet(s) \cup ToSet(t)
  <2>0. /\ \A k \in 1 .. m : s[k] \in ToSet(s)
        /\ \A k \in 1 .. n : t[k] \in ToSet(t)
        /\ \A k \in 1 .. m + n : r[k] \in ToSet(r)
    BY <1>1, Zenon DEF ToSet
  <2>1. ASSUME NEW k \in 1 .. m + n PROVE r[k] \in ToSet(s) \cup ToSet(t)
    <3>1. CASE k \in 1 .. m
      BY <2>0, <3>1, <1>2
    <3>2. CASE \E i \in 1 .. n : k = m + i
      BY <2>0, <3>2, <1>3
    <3> QED
      BY <1>4, <3>1, <3>2
  <2>2. \A k \in 1 .. m : s[k] \in ToSet(r)
    BY <2>0, <1>2, Zenon
  <2>3. \A k \in 1 .. n : t[k] \in ToSet(r)
    BY <2>0, <1>3, Zenon
  <2>4. ToSet(r) \subseteq ToSet(s) \cup ToSet(t)
    BY <1>1, <2>1, Zenon DEF ToSet
  <2>5. ToSet(s) \subseteq ToSet(r) /\ ToSet(t) \subseteq ToSet(r)
    BY <1>1, <2>2, <2>3, Zenon DEF ToSet
  <2> QED
    BY <2>4, <2>5
<1>6. ASSUME NothingTwice(r)
      PROVE  NothingTwice(s) /\ NothingTwice(t) /\ ToSet(s) \cap ToSet(t) = {}
  <2>1. \A i, k \in 1 .. m + n : r[i] = r[k] => i = k
    BY <1>1, <1>6, Zenon DEF NothingTwice
  <2>2. NothingTwice(s)
    BY <1>1, <1>2, <2>1, Zenon DEF NothingTwice
  <2>3. \A i, k \in 1 .. n : t[i] = t[k] => m + i = m + k
    BY <1>1, <1>3, <2>1, ZenonT(40)
  <2>4. \A i, k \in 1 .. n : m + i = m + k => i = k
    BY <1>1
  <2>5. NothingTwice(t)
    BY <1>1, <2>3, <2>4, Zenon DEF NothingTwice
  <2>6. ASSUME NEW i \in 1 .. m, NEW k \in 1 .. n PROVE s[i] # t[k]
    <3>1. i # m + k
      BY <1>1
    <3> QED
      BY <1>2, <1>3, <2>1, <3>1, Zenon
  <2>7. ToSet(s) \cap ToSet(t) = {}
    BY <1>1, <2>6, Zenon DEF ToSet
  <2> QED
    BY <2>2, <2>5, <2>7
<1>7. ASSUME NothingTwice(s), NothingTwice(t), ToSet(s) \cap ToSet(t) = {}
      PROVE  NothingTwice(r)
  <2>1. \A i, k \in 1 .. m : s[i] = s[k] => i = k
    BY <1>1, <1>7, Zenon DEF NothingTwice
  <2>2. \A i, k \in 1 .. n : t[i] = t[k] => i = k
    BY <1>1, <1>7, Zenon DEF NothingTwice
  <2>3. \A i \in 1 .. m : \A k \in 1 .. n : s[i] # t[k]
    <3>1. \A i \in 1 .. m : s[i] \in ToSet(s)
      BY <1>1, Zenon DEF ToSet
    <3>2. \A i \in 1 .. n : t[i] \in ToSet(t)
      BY <1>1, Zenon DEF ToSet
    <3> QED
      BY <1>7, <3>1, <3>2
  <2>4. ASSUME NEW i \in 1 .. m + n, NEW k \in 1 .. m + n, r[i] = r[k] PROVE i = k
    <3>1. CASE i \in 1 .. m /\ k \in 1 .. m
      BY <1>2, <2>1, <2>4, <3>1, Zenon
    <3>2. CASE i \in 1 .. m /\ \E h \in 1 .. n : k = m + h
      <4>1. PICK h \in 1 .. n : k = m + h
        BY <3>2
      <4>2. r[k] = t[h] /\ r[i] = s[i]
        BY <1>2, <1>3, <3>2, <4>1
      <4> QED
        BY <2>3, <2>4, <3>2, <4>2, Zenon
    <3>3. CASE k \in 1 .. m /\ \E h \in 1 .. n : i = m + h
      <4>1. PICK h \in 1 .. n : i = m + h
        BY <3>3
      <4>2. r[i] = t[h] /\ r[k] = s[k]
        BY <1>2, <1>3, <3>3, <4>1
      <4> QED
        BY <2>3, <2>4, <3>3, <4>2, Zenon
    <3>4. CASE (\E h \in 1 .. n : i = m + h) /\ \E h \in 1 .. n : k = m + h
      BY <1>3, <2>2, <2>4, <3>4, ZenonT(40)
    <3> QED
      BY <1>4, <3>1, <3>2, <3>3, <3>4, Zenon
  <2> QED
    BY <1>1, <2>4, Zenon DEF NothingTwice
<1> QED
  BY <1>1, <1>5, <1>6, <1>7 DEF r, m, n

\* A sequence with an element more, and with one less, in two parts.
LEMMA InsertedIs ==
  ASSUME NEW S, NEW s \in Seq(S), NEW x, NEW i \in 1 .. Len(s) + 1
  PROVE  /\ SubSeq(s, 1, i - 1) \in Seq(S) /\ SubSeq(s, i, Len(s)) \in Seq(S)
         /\ s = SubSeq(s, 1, i - 1) \o SubSeq(s, i, Len(s))
         /\ InsertAt(s, i, x) = (SubSeq(s, 1, i - 1) \o <<x>>) \o SubSeq(s, i, Len(s))
<1> DEFINE a == SubSeq(s, 1, i - 1)
           b == SubSeq(s, i, Len(s))
<1>0. Len(s) \in Nat /\ DOMAIN s = 1 .. Len(s) /\ \A n \in 1 .. Len(s) : s[n] \in S
  OBVIOUS
<1>1. a \in Seq(S)
  <2>1. \A n \in 1 .. i - 1 : s[n] \in S
    BY <1>0
  <2>2. i - 1 \in Int
    BY <1>0
  <2> QED
    BY <2>1, <2>2, SubSeqProperties
<1>2. b \in Seq(S)
  <2>1. \A n \in i .. Len(s) : s[n] \in S
    BY <1>0
  <2>2. i \in Int /\ Len(s) \in Int
    BY <1>0
  <2> QED
    BY <2>1, <2>2, SubSeqProperties
<1>3. s = a \o b
  <2>1. 1 \in 1 .. Len(s) + 1 /\ i - 1 \in 1 - 1 .. Len(s) /\ Len(s) \in i - 1 .. Len(s) /\ (i - 1) + 1 = i
    BY <1>0
  <2>2. SubSeq(s, 1, i - 1) \o SubSeq(s, (i - 1) + 1, Len(s)) = SubSeq(s, 1, Len(s))
    BY <2>1, ConcatAdjacentSubSeq
  <2>3. SubSeq(s, 1, Len(s)) = s
    BY SubSeqFull
  <2> QED
    BY <2>1, <2>2, <2>3
<1>4. InsertAt(s, i, x) = (a \o <<x>>) \o b
  BY Zenon DEF InsertAt
<1> QED
  BY <1>1, <1>2, <1>3, <1>4, Zenon

\* A sequence with one element less, and its two parts.
LEMMA RemovedIs ==
  ASSUME NEW S, NEW s \in Seq(S), NEW i \in 1 .. Len(s)
  PROVE  /\ SubSeq(s, 1, i - 1) \in Seq(S) /\ SubSeq(s, i + 1, Len(s)) \in Seq(S)
         /\ s = (SubSeq(s, 1, i - 1) \o <<s[i]>>) \o SubSeq(s, i + 1, Len(s))
         /\ RemoveAt(s, i) = SubSeq(s, 1, i - 1) \o SubSeq(s, i + 1, Len(s))
<1> DEFINE a == SubSeq(s, 1, i - 1)
           b == SubSeq(s, i + 1, Len(s))
<1>0. /\ Len(s) \in Nat /\ DOMAIN s = 1 .. Len(s) /\ \A n \in 1 .. Len(s) : s[n] \in S
      /\ 1 \in 1 .. Len(s)
  OBVIOUS
<1>1. a \in Seq(S)
  <2>1. \A n \in 1 .. i - 1 : s[n] \in S
    BY <1>0
  <2>2. i - 1 \in Int
    BY <1>0
  <2> QED
    BY <2>1, <2>2, SubSeqProperties
<1>2. b \in Seq(S)
  <2>1. \A n \in i + 1 .. Len(s) : s[n] \in S
    BY <1>0
  <2>2. i + 1 \in Int /\ Len(s) \in Int
    BY <1>0
  <2> QED
    BY <2>1, <2>2, SubSeqProperties
<1>3. s = (a \o <<s[i]>>) \o b
  <2>1. i \in 1 - 1 .. Len(s) /\ Len(s) \in i .. Len(s) /\ i \in 1 .. i /\ i \in 1 .. Len(s)
        /\ 1 \in 1 .. Len(s) + 1 /\ i \in 1 .. Len(s)
    BY <1>0
  <2>2. SubSeq(s, 1, i) \o SubSeq(s, i + 1, Len(s)) = SubSeq(s, 1, Len(s))
    BY <2>1, ConcatAdjacentSubSeq
  <2>3. SubSeq(s, 1, Len(s)) = s
    BY SubSeqFull
  <2>4. SubSeq(s, 1, i) = SubSeq(s, 1, i - 1) \o <<s[i]>>
    <3>1. i \in 1 .. Len(s)
      OBVIOUS
    <3> QED
      BY <1>0, <3>1, SubSeqRecursiveSecond
  <2> QED
    BY <2>2, <2>3, <2>4
<1>4. RemoveAt(s, i) = a \o b
  BY Zenon DEF RemoveAt
<1> QED
  BY <1>1, <1>2, <1>3, <1>4, Zenon

\* The elements of a sequence after the first k.
Behind(s, k) == {s[n] : n \in {m \in DOMAIN s : m > k}}

\* One more element in the middle moves one at most over a boundary.
LEMMA OneMoreBehind ==
  ASSUME NEW S, NEW a \in Seq(S), NEW b \in Seq(S), NEW mid \in Seq(S), Len(mid) <= 1,
         NEW k \in Nat
  PROVE  /\ Behind(a \o b, k) \subseteq Behind((a \o mid) \o b, k)
         /\ \E y : Behind((a \o mid) \o b, k) \subseteq Behind(a \o b, k) \cup {y}
<1> DEFINE o == a \o b
           r == (a \o mid) \o b
           m == Len(a)
           d == Len(mid)
           n == Len(b)
<1>1. /\ m \in Nat /\ n \in Nat /\ d \in Nat /\ d <= 1
      /\ DOMAIN o = 1 .. m + n
      /\ \A i \in 1 .. m + n : o[i] = IF i <= m THEN a[i] ELSE b[i - m]
  OBVIOUS
<1>2. /\ a \o mid \in Seq(S) /\ Len(a \o mid) = m + d
      /\ \A i \in 1 .. m : (a \o mid)[i] = a[i]
  OBVIOUS
<1>3. /\ DOMAIN r = 1 .. (m + d) + n
      /\ \A i \in 1 .. (m + d) + n :
           r[i] = IF i <= m + d THEN (a \o mid)[i] ELSE b[i - (m + d)]
  BY <1>2
<1> HIDE DEF o, r, m, d, n
<1>4. \A i \in 1 .. m : i \in 1 .. (m + d) + n /\ i \in 1 .. m + n /\ r[i] = o[i]
  <2> TAKE i \in 1 .. m
  <2>1. i <= m /\ i <= m + d /\ i \in 1 .. (m + d) + n /\ i \in 1 .. m + n
    BY <1>1
  <2>2. o[i] = a[i] /\ r[i] = (a \o mid)[i]
    BY <1>1, <1>3, <2>1
  <2> QED
    BY <1>2, <2>1, <2>2
<1>5. \A i \in m + 1 .. m + n : i + d \in 1 .. (m + d) + n /\ i \in 1 .. m + n /\ r[i + d] = o[i]
  <2> TAKE i \in m + 1 .. m + n
  <2>1. /\ ~(i <= m) /\ ~(i + d <= m + d) /\ i + d \in 1 .. (m + d) + n /\ i \in 1 .. m + n
        /\ (i + d) - (m + d) = i - m
    BY <1>1
  <2>2. o[i] = b[i - m]
    BY <1>1, <2>1
  <2>3. r[i + d] = b[(i + d) - (m + d)]
    BY <1>3, <2>1
  <2> QED
    BY <2>1, <2>2, <2>3
<1>6. Behind(o, k) \subseteq Behind(r, k)
  <2> SUFFICES ASSUME NEW i \in 1 .. m + n, i > k PROVE o[i] \in Behind(r, k)
    BY <1>1 DEF Behind
  <2>1. CASE i <= m
    <3>1. i \in 1 .. m
      BY <1>1, <2>1
    <3>2. i \in 1 .. (m + d) + n /\ o[i] = r[i]
      BY <1>4, <3>1
    <3> QED
      BY <1>3, <3>2 DEF Behind
  <2>2. CASE ~(i <= m)
    <3>1. i \in m + 1 .. m + n /\ i + d > k
      BY <1>1, <2>2
    <3>2. i + d \in 1 .. (m + d) + n /\ o[i] = r[i + d]
      BY <1>5, <3>1
    <3> QED
      BY <1>3, <3>1, <3>2 DEF Behind
  <2> QED
    BY <2>1, <2>2
<1>7. \E y : Behind(r, k) \subseteq Behind(o, k) \cup {y}
  <2> DEFINE y == IF m + d > k THEN r[m + d] ELSE r[k + 1]
  <2> SUFFICES ASSUME NEW i \in 1 .. (m + d) + n, i > k
               PROVE  r[i] \in Behind(o, k) \/ r[i] = y
    <3> HIDE DEF y
    <3>1. Behind(r, k) \subseteq Behind(o, k) \cup {y}
      BY <1>3 DEF Behind
    <3> QED
      BY <3>1
  <2>1. CASE i <= m
    <3>1. i \in 1 .. m
      BY <1>1, <2>1
    <3>2. i \in 1 .. m + n /\ r[i] = o[i]
      BY <1>4, <3>1
    <3> QED
      BY <1>1, <3>2 DEF Behind
  <2>2. CASE i > m /\ i <= m + d
    <3>1. i = m + d
      BY <1>1, <2>2
    <3>2. m + d > k
      BY <1>1, <3>1
    <3> QED
      BY <3>1, <3>2
  <2>3. CASE i > m + d /\ i - d > k
    <3>1. i - d \in m + 1 .. m + n /\ (i - d) + d = i
      BY <1>1, <2>3
    <3>2. i - d \in 1 .. m + n /\ r[(i - d) + d] = o[i - d]
      BY <1>5, <3>1
    <3> QED
      BY <1>1, <2>3, <3>1, <3>2 DEF Behind
  <2>4. CASE i > m + d /\ ~(i - d > k)
    <3>1. i = k + 1 /\ ~(m + d > k)
      BY <1>1, <2>4
    <3> QED
      BY <3>1
  <2>5. i <= m \/ (i > m /\ i <= m + d) \/ i > m + d
    BY <1>1
  <2> QED
    BY <2>1, <2>2, <2>3, <2>4, <2>5
<1> QED
  BY <1>6, <1>7 DEF o, r

\* What Only does with a sequence that has an element more.
LEMMA OnlyOneMore ==
  ASSUME NEW S, NEW set, NEW a \in Seq(S), NEW b \in Seq(S), NEW x \in S, NEW k \in Nat
  PROVE  LET less == Only(a \o b, set)
             more == Only((a \o <<x>>) \o b, set)
         IN  /\ Behind(less, k) \subseteq Behind(more, k)
             /\ \E y : Behind(more, k) \subseteq Behind(less, k) \cup {y}
<1> DEFINE mid == Only(<<x>>, set)
           oa == Only(a, set)
           ob == Only(b, set)
<1>1. <<x>> \in Seq(S) /\ a \o <<x>> \in Seq(S)
  OBVIOUS
<1>2. mid \in Seq(S) /\ oa \in Seq(S) /\ ob \in Seq(S)
  BY <1>1, OnlyOf
<1>3. Len(mid) <= 1
  <2>1. <<x>> = Append(<<>>, x) /\ <<>> \in Seq(S)
    OBVIOUS
  <2>2. Only(Append(<<>>, x), set) = IF x \in set THEN Append(Only(<<>>, set), x) ELSE Only(<<>>, set)
    BY <2>1, OnlyAppend, Zenon
  <2>3. Only(<<>>, set) = <<>>
    BY OnlyNothing, Zenon
  <2>4. mid = Only(Append(<<>>, x), set)
    BY <2>1, Zenon
  <2> HIDE DEF mid
  <2>5. mid = <<x>> \/ mid = <<>>
    BY <2>1, <2>2, <2>3, <2>4
  <2>6. CASE mid = <<x>>
    BY <2>6
  <2>7. CASE mid = <<>>
    BY <2>7
  <2> QED
    BY <2>5, <2>6, <2>7
<1>4. Only(a \o b, set) = oa \o ob
  BY OnlyConcat
<1>5. Only((a \o <<x>>) \o b, set) = (oa \o mid) \o ob
  <2>1. Only((a \o <<x>>) \o b, set) = Only(a \o <<x>>, set) \o ob
    BY <1>1, OnlyConcat
  <2>2. Only(a \o <<x>>, set) = oa \o mid
    BY <1>1, OnlyConcat
  <2> QED
    BY <2>1, <2>2
<1> HIDE DEF mid, oa, ob
<1>6. /\ Behind(oa \o ob, k) \subseteq Behind((oa \o mid) \o ob, k)
      /\ \E y : Behind((oa \o mid) \o ob, k) \subseteq Behind(oa \o ob, k) \cup {y}
  BY <1>2, <1>3, OneMoreBehind, Zenon
<1> QED
  BY <1>4, <1>5, <1>6, Zenon

-----------------------------------------------------------------------------
(* Sizes.                                                                  *)

\* A sequence has as many elements as places, or fewer when one is there twice.
LEMMA SizeOf ==
  ASSUME NEW S, NEW s \in Seq(S)
  PROVE  /\ IsFiniteSet(ToSet(s))
         /\ Cardinality(ToSet(s)) \in Nat
         /\ Cardinality(ToSet(s)) <= Len(s)
         /\ NothingTwice(s) => Cardinality(ToSet(s)) = Len(s)
<1> DEFINE m == Len(s)
           T == ToSet(s)
<1>1. m \in Nat /\ DOMAIN s = 1 .. m /\ s = [n \in 1 .. m |-> s[n]]
  OBVIOUS
<1> HIDE DEF m
<1>2. T = {s[n] : n \in 1 .. m}
  BY <1>1 DEF ToSet
<1> HIDE DEF T
<1>3. s \in [1 .. m -> T] /\ \A t \in T : \E n \in 1 .. m : s[n] = t
  BY <1>1, <1>2
<1>4. s \in Surjection(1 .. m, T)
  BY <1>3, Zenon DEF Surjection
<1>5. IsFiniteSet(1 .. m) /\ Cardinality(1 .. m) = m
  <2>1. 1 \in Int /\ m \in Int /\ (IF 1 > m THEN 0 ELSE m - 1 + 1) = m
    BY <1>1
  <2> QED
    BY <2>1, FS_Interval
<1>6. /\ IsFiniteSet(T) /\ Cardinality(T) <= m
      /\ Cardinality(T) = m <=> s \in Injection(1 .. m, T)
  BY <1>4, <1>5, FS_Surjection
<1>7. Cardinality(T) \in Nat
  BY <1>6, FS_CardinalityType
<1>8. NothingTwice(s) => Cardinality(T) = m
  <2> SUFFICES ASSUME NothingTwice(s) PROVE s \in Injection(1 .. m, T)
    BY <1>6
  <2>1. \A n, k \in 1 .. m : s[n] = s[k] => n = k
    BY <1>1, Zenon DEF NothingTwice
  <2> QED
    BY <1>3, <2>1, Zenon DEF Injection, IsInjective
<1> QED
  BY <1>6, <1>7, <1>8 DEF m, T

\* How many more elements a set has that may have one more.
LEMMA OneAtMostMore ==
  ASSUME NEW A, NEW B, NEW y, IsFiniteSet(B), A \subseteq B \cup {y}
  PROVE  /\ IsFiniteSet(A) /\ Cardinality(A) \in Nat /\ Cardinality(B) \in Nat
         /\ Cardinality(A) <= Cardinality(B) + 1
<1>1. /\ IsFiniteSet(B \cup {y})
      /\ Cardinality(B \cup {y}) = IF y \in B THEN Cardinality(B) ELSE Cardinality(B) + 1
  BY FS_AddElement
<1>2. IsFiniteSet(A) /\ Cardinality(A) <= Cardinality(B \cup {y})
  BY <1>1, FS_Subset
<1>3. Cardinality(A) \in Nat /\ Cardinality(B) \in Nat
  BY <1>2, FS_CardinalityType
<1> QED
  BY <1>1, <1>2, <1>3

\* A set has no more elements than one that holds it.
LEMMA NoneMore ==
  ASSUME NEW A, NEW B, IsFiniteSet(B), A \subseteq B
  PROVE  /\ IsFiniteSet(A) /\ Cardinality(A) \in Nat /\ Cardinality(B) \in Nat
         /\ Cardinality(A) <= Cardinality(B)
  BY FS_Subset, FS_CardinalityType

\* The elements of a new page D were behind the pages, in Q, before or are parsed
\* anew: the count of what was parsed twice, in P, does not change.
LEMMA PageCount ==
  ASSUME NEW P, NEW D, NEW Q, IsFiniteSet(P), IsFiniteSet(D), D \cap Q = {}
  PROVE  /\ Cardinality(P) \in Nat /\ Cardinality(D) \in Nat /\ Cardinality(P \cup D) \in Nat
         /\ Cardinality(P \ Q) \in Nat /\ Cardinality((P \cup D) \ (Q \cup D)) \in Nat
         /\ Cardinality(P) + Cardinality(D) - Cardinality(P \cup D)
              + Cardinality((P \cup D) \ (Q \cup D))
            = Cardinality(P \ Q)
<1> DEFINE both == P \cap D
           rest == P \ (Q \cup D)
<1>1. IsFiniteSet(both) /\ IsFiniteSet(rest) /\ IsFiniteSet(P \ Q) /\ IsFiniteSet(P \cup D)
  BY FS_Subset, FS_Union
<1>2. Cardinality(P \cup D) = Cardinality(P) + Cardinality(D) - Cardinality(both)
  BY FS_Union
<1>3. P \ Q = both \cup rest /\ both \cap rest = {} /\ (P \cup D) \ (Q \cup D) = rest
  OBVIOUS
<1> HIDE DEF both, rest
<1>4. Cardinality(both \cup rest) =
        Cardinality(both) + Cardinality(rest) - Cardinality(both \cap rest)
  BY <1>1, FS_Union
<1>5. Cardinality(both \cap rest) = 0
  BY <1>3, FS_EmptySet
<1>6. /\ Cardinality(P) \in Nat /\ Cardinality(D) \in Nat /\ Cardinality(both) \in Nat
      /\ Cardinality(rest) \in Nat /\ Cardinality(P \ Q) \in Nat /\ Cardinality(P \cup D) \in Nat
  BY <1>1, FS_CardinalityType
<1>7. Cardinality(P \ Q) = Cardinality(both) + Cardinality(rest)
  <2>1. Cardinality(P \ Q) = Cardinality(both \cup rest)
    BY <1>3, Zenon
  <2> QED
    BY <2>1, <1>4, <1>5, <1>6
<1>8. Cardinality((P \cup D) \ (Q \cup D)) = Cardinality(rest)
  BY <1>3, Zenon
<1> HIDE <1>3
<1> QED
  BY <1>2, <1>6, <1>7, <1>8

-----------------------------------------------------------------------------
(* Pages.                                                                  *)

\* The pages of a window have room for its results.
LEMMA RoomForAll ==
  ASSUME NEW n \in Nat
  PROVE  Pages(n) \in Nat /\ Pages(n) * ResultsPerPage >= n
<1> DEFINE r == ResultsPerPage
           q == Pages(n)
<1>1. r \in Nat /\ r >= 1
  BY SweepAssumption
<1>2. q = (n + r - 1) \div r
  BY DEF Pages
<1> HIDE DEF q, r
<1>3. n + r - 1 \in Nat
  BY <1>1
<1>4. \A a \in Nat : a \div r \in Nat /\ (a \div r) * r + r > a
  BY <1>1, SMT
<1>5. q \in Nat /\ q * r + r > n + r - 1
  BY <1>2, <1>3, <1>4
<1>6. q * r \in Nat
  BY <1>1, <1>5
<1>7. q * r >= n
  BY <1>1, <1>5, <1>6
<1> QED
  BY <1>5, <1>7 DEF q, r

\* The page before the first b results ends after the first a.
LEMMA PageIs ==
  ASSUME NEW S, NEW s \in Seq(S), NothingTwice(s), NEW a \in Nat, NEW b \in Nat, a <= b
  PROVE  LET D == Reverse(SubSeq(s, a + 1, Min({b, Len(s)}))) IN
         /\ D \in Seq(S)
         /\ NothingTwice(D)
         /\ ToSet(D) \cap Behind(s, b) = {}
         /\ Behind(s, a) = Behind(s, b) \cup ToSet(D)
<1> DEFINE m == Min({b, Len(s)})
           sub == SubSeq(s, a + 1, m)
           D == Reverse(sub)
<1>0. /\ Len(s) \in Nat /\ DOMAIN s = 1 .. Len(s)
      /\ \A n \in 1 .. Len(s) : s[n] \in S
  OBVIOUS
<1>1. m \in Nat /\ m <= Len(s) /\ m <= b /\ (m = b \/ m = Len(s))
  <2>1. m = IF b <= Len(s) THEN b ELSE Len(s)
    BY <1>0, Smaller
  <2>2. \A l \in Nat : m = (IF b <= l THEN b ELSE l) =>
                        m \in Nat /\ m <= l /\ m <= b /\ (m = b \/ m = l)
    <3> HIDE DEF m
    <3> QED
      OBVIOUS
  <2> QED
    BY <2>1, <2>2, <1>0, Zenon
<1> HIDE DEF m
<1>2. /\ sub \in Seq(S)
      /\ Len(sub) = IF a + 1 <= m THEN m - (a + 1) + 1 ELSE 0
      /\ \A n \in 1 .. m - (a + 1) + 1 : sub[n] = s[(a + 1) + n - 1]
  <2>1. ASSUME NEW n \in a + 1 .. m PROVE s[n] \in S
    <3>1. \A l \in Nat : m <= l => n \in 1 .. l
      BY <1>1
    <3>2. n \in 1 .. Len(s)
      BY <1>0, <1>1, <3>1, Zenon
    <3> QED
      BY <1>0, <3>2, Zenon
  <2>2. a + 1 \in Int /\ m \in Int
    BY <1>1
  <2> QED
    BY <2>1, <2>2, SubSeqProperties
<1> DEFINE n == Len(sub)
<1>3. n \in Nat /\ (n = m - a \/ (n = 0 /\ m <= a))
  BY <1>1, <1>2
<1>4. \A i \in 1 .. n : a + i \in 1 .. Len(s) /\ a + i <= m /\ sub[i] = s[a + i]
  <2> TAKE i \in 1 .. n
  <2>1. i \in 1 .. m - (a + 1) + 1 /\ (a + 1) + i - 1 = a + i /\ a + i \in 1 .. Len(s) /\ a + i <= m
    BY <1>1, <1>3
  <2> QED
    BY <1>2, <2>1
<1>5. D = [i \in 1 .. n |-> sub[(n - i) + 1]]
  BY Zenon DEF Reverse
<1> HIDE DEF n, sub, D
<1>6. \A i \in 1 .. n : (n - i) + 1 \in 1 .. n /\ (n - ((n - i) + 1)) + 1 = i
  BY <1>3
<1>7. /\ DOMAIN D = 1 .. n
      /\ \A i \in 1 .. n : D[i] = s[a + ((n - i) + 1)] /\ D[(n - i) + 1] = s[a + i]
  <2>1. DOMAIN D = 1 .. n /\ \A i \in 1 .. n : D[i] = sub[(n - i) + 1]
    BY <1>5, Zenon
  <2> QED
    BY <2>1, <1>4, <1>6
<1>8. D \in Seq(S)
  <2>1. \A i \in 1 .. n : D[i] \in S
    BY <1>0, <1>4, <1>6, <1>7
  <2>2. D = [i \in 1 .. n |-> D[i]]
    BY <1>5, <1>7
  <2>3. D \in [1 .. n -> S]
    BY <2>1, <2>2
  <2> QED
    BY <1>3, <2>3
<1>9. NothingTwice(D)
  <2>1. \A i, k \in 1 .. Len(s) : s[i] = s[k] => i = k
    BY <1>0, Zenon DEF NothingTwice
  <2>2. ASSUME NEW i \in 1 .. n, NEW k \in 1 .. n, D[i] = D[k] PROVE i = k
    <3>1. s[a + ((n - i) + 1)] = s[a + ((n - k) + 1)]
      BY <1>7, <2>2, Zenon
    <3>2. a + ((n - i) + 1) = a + ((n - k) + 1)
      BY <1>4, <1>6, <2>1, <3>1
    <3> QED
      BY <1>3, <3>2
  <2> QED
    BY <1>7, <2>2, Zenon DEF NothingTwice
<1>10. \A x : x \in ToSet(D) <=> \E i \in 1 .. n : x = s[a + i]
  <2>1. ASSUME NEW x \in ToSet(D) PROVE \E i \in 1 .. n : x = s[a + i]
    <3>1. PICK k \in 1 .. n : x = D[k]
      BY <1>7, Zenon DEF ToSet
    <3> QED
      BY <3>1, <1>6, <1>7, Zenon
  <2>2. ASSUME NEW i \in 1 .. n PROVE s[a + i] \in ToSet(D)
    <3>1. D[(n - i) + 1] = s[a + i] /\ (n - i) + 1 \in 1 .. n
      BY <1>6, <1>7
    <3> QED
      BY <3>1, <1>7, Zenon DEF ToSet
  <2> QED
    BY <2>1, <2>2, Zenon
<1>11. ToSet(D) \cap Behind(s, b) = {}
  <2> SUFFICES ASSUME NEW i \in 1 .. n, NEW k \in 1 .. Len(s), k > b, s[a + i] = s[k] PROVE FALSE
    BY <1>0, <1>10 DEF Behind
  <2>1. a + i = k
    BY <1>0, <1>4, Zenon DEF NothingTwice
  <2> QED
    BY <2>1, <1>1, <1>4
<1>12. Behind(s, a) = Behind(s, b) \cup ToSet(D)
  <2>1. ASSUME NEW k \in 1 .. Len(s), k > a PROVE s[k] \in Behind(s, b) \cup ToSet(D)
    <3>1. CASE k > b
      BY <3>1, <1>0 DEF Behind
    <3>2. CASE ~(k > b)
      <4>1. k - a \in 1 .. n /\ a + (k - a) = k
        <5>1. \A l \in Nat : k \in 1 .. l /\ (m = b \/ m = l) => k <= m
          BY <3>2
        <5>2. k <= m /\ k \in Nat
          <6>1. k <= m
            BY <1>0, <1>1, <5>1, Zenon
          <6> QED
            BY <6>1
        <5> QED
          BY <2>1, <5>2, <1>1, <1>3
      <4>2. s[k] \in ToSet(D)
        BY <4>1, <1>10
      <4> QED
        BY <4>2
    <3> QED
      BY <3>1, <3>2
  <2>2. Behind(s, a) \subseteq Behind(s, b) \cup ToSet(D)
    BY <2>1, <1>0 DEF Behind
  <2>3. Behind(s, b) \subseteq Behind(s, a)
    BY <1>0 DEF Behind
  <2>4. ASSUME NEW i \in 1 .. n PROVE s[a + i] \in Behind(s, a)
    <3>1. a + i > a
      OBVIOUS
    <3> QED
      BY <3>1, <1>0, <1>4 DEF Behind
  <2>5. ToSet(D) \subseteq Behind(s, a)
    BY <2>4, <1>10
  <2> QED
    BY <2>2, <2>3, <2>5
<1> QED
  BY <1>8, <1>9, <1>11, <1>12, Zenon DEF D, sub, m

\* What TypeOK and PagesInv say of the results.
LEMMA ResultsTyped ==
  ASSUME TypeOK, PagesInv
  PROVE  /\ listed \in Seq(Cves) /\ Results \in Seq(Cves) /\ NothingTwice(Results)
         /\ ToSet(Results) = ToSet(listed) \cap InWindow
         /\ Len(Results) \in Nat
<1>1. listed \in Seq(Cves) /\ NothingTwice(listed)
  BY DEF TypeOK, PagesInv
<1>2. Results = Only(listed, InWindow)
  BY DEF Results
<1>3. /\ Results \in Seq(Cves) /\ NothingTwice(Results)
      /\ ToSet(Results) = ToSet(listed) \cap InWindow
  BY <1>1, <1>2, OnlyOf
<1> QED
  BY <1>1, <1>3

\* Where the pages still to download end.
LEMMA Boundary ==
  ASSUME NEW n \in Nat
  PROVE  n * ResultsPerPage \in Nat
  BY SweepAssumption

\* PagesInv holds before the first window.
LEMMA PagesInit == Init => PagesInv
<1> SUFFICES ASSUME Init PROVE PagesInv
  OBVIOUS
<1>1. NothingTwice(listed)
  BY NvdAssumption DEF Init, NothingTwice
<1>2. at # "pages"
  BY DEF Init
<1> QED
  BY <1>1, <1>2 DEF PagesInv

\* Away from the pages there is nothing to show.
LEMMA PagesElsewhere ==
  ASSUME PagesInv, listed' = listed, at' # "pages"
  PROVE  PagesInv'
<1>1. NothingTwice(listed)'
  BY DEF PagesInv, NothingTwice
<1> QED
  BY <1>1 DEF PagesInv

\* PagesInv is about what a stuttering step leaves alone.
LEMMA PagesSame ==
  ASSUME PagesInv, UNCHANGED vars
  PROVE  PagesInv'
<1>1. /\ listed' = listed /\ published' = published /\ cwe' = cwe /\ start' = start /\ end' = end
      /\ at' = at /\ page' = page /\ stayed' = stayed /\ parsed' = parsed
      /\ assigned' = assigned /\ withdrawn' = withdrawn
  BY DEF vars, nvd, since
<1>2. InWindow' = InWindow
  BY <1>1 DEF InWindow
<1>3. Results' = Results
  BY <1>1, <1>2 DEF Results
<1>4. Passed' = Passed
  BY <1>1, <1>3 DEF Passed
<1> QED
  BY <1>1, <1>3, <1>4 DEF PagesInv, NothingTwice

\* A window is probed: its pages have room for all of its results.
\* The results change with the list, the CWE and the window.
LEMMA ResultsSame ==
  ASSUME listed' = listed, published' = published, cwe' = cwe, start' = start, end' = end
  PROVE  InWindow' = InWindow /\ Results' = Results
<1>1. InWindow' = InWindow
  BY DEF InWindow
<1> QED
  BY <1>1 DEF Results

\* Nothing is behind the pages before the last one is downloaded.
LEMMA PassedProbe ==
  ASSUME TypeOK, PagesInv, Probe
  PROVE  Passed' = {}
<1> DEFINE k == Pages(Len(Results)) * ResultsPerPage
<1>1. Results' = Results /\ page' * ResultsPerPage = k
  BY ResultsSame DEF Probe, nvd, TotalResults
<1>2. k \in Nat /\ k >= Len(Results) /\ DOMAIN Results = 1 .. Len(Results) /\ Len(Results) \in Nat
  BY ResultsTyped, RoomForAll, Boundary
<1> HIDE DEF k
<1>3. \A m \in DOMAIN Results : ~(m > k)
  BY <1>2
<1>4. Passed' = {Results[n] : n \in {m \in DOMAIN Results : m > k}}
  BY <1>1 DEF Passed
<1> QED
  BY <1>3, <1>4

\* A page is a sequence of CVEs, without repetition, behind no other.
LEMMA PageTyped ==
  ASSUME TypeOK, PagesInv, at = "pages", page > 0
  PROVE  /\ Reverse(PageOf(FromTheLast)) \in Seq(Cves)
         /\ NothingTwice(Reverse(PageOf(FromTheLast)))
         /\ ToSet(Reverse(PageOf(FromTheLast))) \cap Passed = {}
         /\ ToSet(Reverse(PageOf(FromTheLast))) \subseteq ToSet(Results)
         /\ Behind(Results, (page - 1) * ResultsPerPage)
              = Passed \cup ToSet(Reverse(PageOf(FromTheLast)))
<1> DEFINE D == Reverse(PageOf(FromTheLast))
           a == (page - 1) * ResultsPerPage
           b == page * ResultsPerPage
<1>4. a \in Nat /\ b \in Nat /\ a <= b
  <2>1. page \in Nat /\ page - 1 \in Nat /\ ResultsPerPage \in Nat
    BY SweepAssumption DEF TypeOK
  <2>2. b = (page - 1) * ResultsPerPage + ResultsPerPage
    BY <2>1
  <2>3. (page - 1) * ResultsPerPage \in Nat
    BY <2>1
  <2> QED
    BY <2>1, <2>2, <2>3
<1>5. D = Reverse(SubSeq(Results, a + 1, Min({b, Len(Results)})))
  BY Zenon DEF PageOf, FromTheLast
<1> HIDE DEF D, a, b
<1>6. /\ D \in Seq(Cves) /\ NothingTwice(D)
      /\ ToSet(D) \cap Behind(Results, b) = {}
      /\ Behind(Results, a) = Behind(Results, b) \cup ToSet(D)
  <2>1. Results \in Seq(Cves) /\ NothingTwice(Results)
    BY ResultsTyped
  <2> QED
    BY <1>4, <1>5, <2>1, PageIs, Zenon
<1>7. Passed = Behind(Results, b)
  BY Zenon DEF Passed, Behind, b
<1>8. Behind(Results, a) \subseteq ToSet(Results)
  BY Zenon DEF Behind, ToSet
<1>9. ToSet(D) \subseteq ToSet(Results) /\ ToSet(D) \cap Passed = {}
  BY <1>6, <1>7, <1>8
<1>10. Behind(Results, a) = Passed \cup ToSet(D)
  BY <1>6, <1>7
<1> QED
  BY <1>6, <1>9, <1>10, Zenon DEF D, a

\* The page downloaded is behind those still to download.
LEMMA PassedDownload ==
  ASSUME TypeOK, PagesInv, DownloadPage
  PROVE  Passed' = Passed \cup ToSet(Reverse(PageOf(FromTheLast)))
<1> DEFINE D == Reverse(PageOf(FromTheLast))
           a == (page - 1) * ResultsPerPage
<1>1. at = "pages" /\ page > 0 /\ page' = page - 1 /\ Results' = Results
  BY ResultsSame DEF DownloadPage, nvd
<1>2. Behind(Results, a) = Passed \cup ToSet(D)
  BY <1>1, PageTyped
<1> HIDE DEF D
<1>3. Passed' = Behind(Results, a)
  BY <1>1 DEF Passed, Behind
<1> QED
  BY <1>2, <1>3 DEF D

\* Every result is behind the pages after the first one is downloaded.
LEMMA PassedAll ==
  ASSUME TypeOK, PagesInv, page = 0
  PROVE  Passed = ToSet(Results)
<1>1. page * ResultsPerPage = 0
  BY SweepAssumption
<1>2. DOMAIN Results = 1 .. Len(Results) /\ Len(Results) \in Nat
  BY ResultsTyped
<1>3. {m \in DOMAIN Results : m > page * ResultsPerPage} = DOMAIN Results
  BY <1>1, <1>2
<1> QED
  BY <1>3, Zenon DEF Passed, ToSet

\* At the probe everything listed has stayed, and nothing is parsed.
LEMMA PagesProbe ==
  ASSUME TypeOK, PagesInv, Probe
  PROVE  PagesInv'
<1>1. /\ listed' = listed /\ published' = published /\ cwe' = cwe /\ start' = start /\ end' = end
      /\ total' = Pages(Len(Results)) /\ page' = total'
      /\ parsed' = <<>> /\ stayed' = ToSet(Results) /\ assigned' = 0 /\ withdrawn' = 0
  BY DEF Probe, nvd, TotalResults
<1>3. Results' = Results
  BY <1>1, ResultsSame
<1>6. Passed' = {}
  BY PassedProbe
<1>7. NothingTwice(listed)'
  BY <1>1 DEF PagesInv, NothingTwice
<1>8. (stayed \subseteq ToSet(Results))'
  BY <1>1, <1>3
<1>9. (Cardinality((stayed \cap Passed) \ ToSet(parsed)) <= assigned)'
  <2>1. ((stayed \cap Passed) \ ToSet(parsed))' = {}
    BY <1>6
  <2>2. Cardinality({}) = 0
    BY FS_EmptySet
  <2>3. Cardinality((stayed \cap Passed) \ ToSet(parsed))' = 0
    BY <2>1, <2>2
  <2> QED
    BY <1>1, <2>3
<1>10. (Len(parsed) - Cardinality(ToSet(parsed)) + Cardinality(ToSet(parsed) \ Passed) <= withdrawn)'
  <2>1. ToSet(parsed)' = {} /\ (ToSet(parsed) \ Passed)' = {} /\ Len(parsed)' = 0
    BY <1>1 DEF ToSet
  <2>2. Cardinality({}) = 0
    BY FS_EmptySet
  <2>3. Cardinality(ToSet(parsed))' = 0 /\ Cardinality(ToSet(parsed) \ Passed)' = 0
    BY <2>1, <2>2
  <2> QED
    BY <1>1, <2>1, <2>3
<1> QED
  BY <1>7, <1>8, <1>9, <1>10 DEF PagesInv

\* A page is downloaded: what it has is behind the others from now on.
LEMMA PagesDownload ==
  ASSUME TypeOK, PagesInv, DownloadPage
  PROVE  PagesInv'
<1> DEFINE D == Reverse(PageOf(FromTheLast))
           P == ToSet(parsed)
<1>1. /\ listed' = listed /\ published' = published /\ cwe' = cwe /\ start' = start /\ end' = end
      /\ at = "pages" /\ at' = at /\ page > 0 /\ page' = page - 1 /\ parsed' = parsed \o D
      /\ stayed' = stayed /\ assigned' = assigned /\ withdrawn' = withdrawn
  BY DEF DownloadPage, nvd, since
<1>3. Results' = Results
  BY <1>1, ResultsSame
<1>6. D \in Seq(Cves) /\ NothingTwice(D) /\ ToSet(D) \cap Passed = {}
  BY <1>1, PageTyped
<1>8. Passed' = Passed \cup ToSet(D)
  BY PassedDownload
<1> HIDE DEF D
<1>9. parsed \in Seq(Cves)
  BY DEF TypeOK
<1>10. ToSet(parsed)' = P \cup ToSet(D) /\ Len(parsed)' = Len(parsed) + Len(D)
  <2>1. ToSet(parsed \o D) = P \cup ToSet(D) /\ Len(parsed \o D) = Len(parsed) + Len(D)
    BY <1>6, <1>9, ConcatIs
  <2> QED
    BY <1>1, <2>1
<1>11. /\ IsFiniteSet(P) /\ IsFiniteSet(ToSet(D)) /\ Cardinality(ToSet(D)) = Len(D)
       /\ Len(parsed) \in Nat /\ Len(D) \in Nat
  BY <1>6, <1>9, SizeOf
<1>12. NothingTwice(listed)'
  BY <1>1 DEF PagesInv, NothingTwice
<1>13. (stayed \subseteq ToSet(Results))'
  BY <1>1, <1>3 DEF PagesInv
<1>14. (Cardinality((stayed \cap Passed) \ ToSet(parsed)) <= assigned)'
  <2> DEFINE old == (stayed \cap Passed) \ P
             new == ((stayed \cap Passed) \ ToSet(parsed))'
  <2>1. new \subseteq old
    BY <1>1, <1>8, <1>10
  <2>2. IsFiniteSet(old)
    <3>1. IsFiniteSet(ToSet(Results))
      BY ResultsTyped, SizeOf
    <3>2. old \subseteq ToSet(Results)
      BY <1>1 DEF PagesInv
    <3> QED
      BY <3>1, <3>2, FS_Subset
  <2>3. Cardinality(new) <= Cardinality(old) /\ Cardinality(new) \in Nat /\ Cardinality(old) \in Nat
    <3> HIDE DEF old, new
    <3> QED
      BY <2>1, <2>2, NoneMore
  <2>4. Cardinality(old) <= assigned /\ assigned \in Nat
    BY <1>1 DEF PagesInv, TypeOK
  <2> HIDE DEF old
  <2>5. Cardinality(new) <= assigned
    <3> HIDE DEF new
    <3> QED
      BY <2>3, <2>4
  <2> QED
    BY <1>1, <2>5
<1>15. (Len(parsed) - Cardinality(ToSet(parsed)) + Cardinality(ToSet(parsed) \ Passed) <= withdrawn)'
  <2> DEFINE d == ToSet(D)
  <2>1. d \cap Passed = {} /\ IsFiniteSet(d)
    BY <1>6, <1>11
  <2>2. /\ Cardinality(P) \in Nat /\ Cardinality(d) \in Nat /\ Cardinality(P \cup d) \in Nat
        /\ Cardinality(P \ Passed) \in Nat /\ Cardinality((P \cup d) \ (Passed \cup d)) \in Nat
        /\ Cardinality(P) + Cardinality(d) - Cardinality(P \cup d)
             + Cardinality((P \cup d) \ (Passed \cup d))
           = Cardinality(P \ Passed)
    <3> HIDE DEF P, d
    <3> QED
      BY <1>11, <2>1, PageCount, Zenon DEF P, d
  <2>3. /\ Len(parsed) - Cardinality(P) + Cardinality(P \ Passed) <= withdrawn
        /\ withdrawn \in Nat
    BY <1>1 DEF PagesInv, TypeOK
  <2>4. Cardinality(d) = Len(D)
    BY <1>11
  <2>5. Cardinality(ToSet(parsed)') = Cardinality(P \cup d)
    BY <1>10, Zenon
  <2>6. Cardinality(ToSet(parsed)' \ Passed') = Cardinality((P \cup d) \ (Passed \cup d))
    BY <1>8, <1>10, Zenon
  <2> HIDE DEF P, d
  <2>7. \A x \in Nat : \A y \in Nat : \A z \in Nat : \A u \in Nat : \A v \in Nat :
        \A q \in Nat : \A r \in Nat :
          y + z - u + v = q /\ x - y + q <= r => (x + z) - u + v <= r
    OBVIOUS
  <2>8. (Len(parsed) + Cardinality(d)) - Cardinality(P \cup d)
          + Cardinality((P \cup d) \ (Passed \cup d)) <= withdrawn
    BY <1>11, <2>2, <2>3, <2>7
  <2>9. Len(parsed)' = Len(parsed) + Cardinality(d) /\ withdrawn' = withdrawn
    BY <1>1, <1>10, <2>4
  <2> QED
    BY <2>5, <2>6, <2>8, <2>9, Zenon
<1> QED
  BY <1>12, <1>13, <1>14, <1>15 DEF PagesInv

\* A list with an element more.
LEMMA OnceMore ==
  ASSUME NEW S, NEW a \in Seq(S), NEW b \in Seq(S), NEW x \in S
  PROVE  /\ ToSet((a \o <<x>>) \o b) = ToSet(a \o b) \cup {x}
         /\ NothingTwice(a \o b) /\ x \notin ToSet(a \o b) => NothingTwice((a \o <<x>>) \o b)
         /\ NothingTwice((a \o <<x>>) \o b) => NothingTwice(a \o b)
<1>1. a \o <<x>> = Append(a, x) /\ Append(a, x) \in Seq(S)
  OBVIOUS
<1> DEFINE ax == Append(a, x)
<1>2. /\ ax \in Seq(S) /\ ToSet(ax) = ToSet(a) \cup {x}
      /\ NothingTwice(ax) <=> NothingTwice(a) /\ x \notin ToSet(a)
  BY AppendedIs
<1> HIDE DEF ax
<1>3. /\ ToSet(a \o b) = ToSet(a) \cup ToSet(b)
      /\ NothingTwice(a \o b) <=>
           NothingTwice(a) /\ NothingTwice(b) /\ ToSet(a) \cap ToSet(b) = {}
  BY ConcatIs, ZenonT(40)
<1>4. /\ ToSet(ax \o b) = ToSet(ax) \cup ToSet(b)
      /\ NothingTwice(ax \o b) <=>
           NothingTwice(ax) /\ NothingTwice(b) /\ ToSet(ax) \cap ToSet(b) = {}
  BY <1>2, ConcatIs, Zenon
<1>5. (a \o <<x>>) \o b = ax \o b
  BY <1>1, Zenon DEF ax
<1>6. ToSet(ax \o b) = ToSet(a \o b) \cup {x}
  BY <1>2, <1>3, <1>4
<1>7. NothingTwice(a \o b) /\ x \notin ToSet(a \o b) => NothingTwice(ax \o b)
  BY <1>2, <1>3, <1>4
<1>8. NothingTwice(ax \o b) => NothingTwice(a \o b)
  BY <1>2, <1>3, <1>4
<1> QED
  BY <1>5, <1>6, <1>7, <1>8, Zenon

\* What gets behind the pages is repeated no more.
LEMMA FewerRepeated ==
  ASSUME TypeOK, PagesInv, at = "pages", Passed \subseteq Passed',
         parsed' = parsed, withdrawn' = withdrawn
  PROVE  (Len(parsed) - Cardinality(ToSet(parsed)) + Cardinality(ToSet(parsed) \ Passed)
            <= withdrawn)'
<1> DEFINE old == ToSet(parsed) \ Passed
           new == ToSet(parsed) \ Passed'
<1>1. new \subseteq old
  OBVIOUS
<1>2. /\ IsFiniteSet(ToSet(parsed)) /\ Cardinality(ToSet(parsed)) \in Nat /\ Len(parsed) \in Nat
  BY SizeOf DEF TypeOK
<1>3. IsFiniteSet(old)
  BY <1>2, FS_Subset
<1>4. Len(parsed) - Cardinality(ToSet(parsed)) + Cardinality(old) <= withdrawn /\ withdrawn \in Nat
  BY DEF PagesInv, TypeOK
<1>5. Cardinality(ToSet(parsed) \ Passed)' = Cardinality(new)
  OBVIOUS
<1> HIDE DEF old, new
<1>6. /\ Cardinality(new) \in Nat /\ Cardinality(old) \in Nat /\ Cardinality(new) <= Cardinality(old)
  BY <1>1, <1>3, NoneMore
<1>7. Len(parsed) - Cardinality(ToSet(parsed)) + Cardinality(new) <= withdrawn
  BY <1>2, <1>4, <1>6
<1> QED
  BY <1>5, <1>7

\* A CVE is assigned: one at most of those before the pages gets behind them, and
\* none of those behind gets before them.
LEMMA PagesAssign ==
  ASSUME TypeOK, PagesInv, NEW c \in Cves, Assign(c)
  PROVE  PagesInv'
<1>1. /\ published' = published /\ cwe' = cwe /\ start' = start /\ end' = end
      /\ at' = at /\ page' = page /\ stayed' = stayed /\ parsed' = parsed
      /\ assigned' = assigned + 1 /\ withdrawn' = withdrawn /\ c \notin ToSet(listed)
  BY DEF Assign
<1>2. PICK i \in 1 .. Len(listed) + 1 : listed' = InsertAt(listed, i, c)
  BY DEF Assign
<1>3. listed \in Seq(Cves) /\ NothingTwice(listed)
  BY DEF TypeOK, PagesInv
<1>4. PICK a \in Seq(Cves), b \in Seq(Cves) : listed = a \o b /\ listed' = (a \o <<c>>) \o b
  <2> DEFINE a == SubSeq(listed, 1, i - 1)
             b == SubSeq(listed, i, Len(listed))
  <2>1. a \in Seq(Cves) /\ b \in Seq(Cves) /\ listed = a \o b
        /\ InsertAt(listed, i, c) = (a \o <<c>>) \o b
    BY <1>3, InsertedIs, ZenonT(40)
  <2> HIDE DEF a, b
  <2> QED
    BY <1>2, <2>1, Zenon
<1>5. NothingTwice(listed')
  BY <1>1, <1>3, <1>4, OnceMore
<1> SUFFICES ASSUME at = "pages" PROVE PagesInv'
  BY <1>1, <1>5 DEF PagesInv
<1>6. InWindow' = InWindow
  BY <1>1 DEF InWindow
<1>7. Results' = Only(listed', InWindow)
  BY <1>6 DEF Results
<1> DEFINE k == page * ResultsPerPage
<1>8. k \in Nat
  <2>1. page \in Nat
    BY DEF TypeOK
  <2> QED
    BY <2>1, Boundary
<1>9. Passed = Behind(Results, k) /\ Passed' = Behind(Results', k)
  BY <1>1 DEF Passed, Behind
<1> HIDE DEF k
<1>10. /\ Behind(Results, k) \subseteq Behind(Results', k)
       /\ \E y : Behind(Results', k) \subseteq Behind(Results, k) \cup {y}
  <2> DEFINE less == Only(a \o b, InWindow)
             more == Only((a \o <<c>>) \o b, InWindow)
  <2>1. /\ Behind(less, k) \subseteq Behind(more, k)
        /\ \E y : Behind(more, k) \subseteq Behind(less, k) \cup {y}
    BY <1>8, OnlyOneMore, ZenonT(40)
  <2>2. Results = less /\ Results' = more
    BY <1>4, <1>7, Zenon DEF Results
  <2> HIDE DEF less, more
  <2> QED
    BY <2>1, <2>2, Zenon
<1>11. Passed \subseteq Passed' /\ \E y : Passed' \subseteq Passed \cup {y}
  BY <1>9, <1>10, Zenon
<1>12. (stayed \subseteq ToSet(Results))'
  <2>1. ToSet(listed) \subseteq ToSet(listed')
    BY <1>4, OnceMore
  <2>2. listed' \in Seq(Cves)
    BY <1>4
  <2>3. ToSet(Results') = ToSet(listed') \cap InWindow
    BY <1>7, <2>2, OnlyOf
  <2>4. stayed \subseteq ToSet(listed) \cap InWindow
    BY ResultsTyped DEF PagesInv
  <2> QED
    BY <1>1, <2>1, <2>3, <2>4
<1>13. (Cardinality((stayed \cap Passed) \ ToSet(parsed)) <= assigned)'
  <2> DEFINE old == (stayed \cap Passed) \ ToSet(parsed)
             new == ((stayed \cap Passed) \ ToSet(parsed))'
  <2>1. PICK y : Passed' \subseteq Passed \cup {y}
    BY <1>11
  <2>2. new \subseteq old \cup {y}
    BY <1>1, <2>1
  <2>3. IsFiniteSet(old)
    <3>1. IsFiniteSet(ToSet(Results))
      BY ResultsTyped, SizeOf
    <3>2. old \subseteq ToSet(Results)
      BY DEF PagesInv
    <3> QED
      BY <3>1, <3>2, FS_Subset
  <2>4. Cardinality(old) <= assigned /\ assigned \in Nat
    BY DEF PagesInv, TypeOK
  <2> HIDE DEF old
  <2>5. /\ Cardinality(new) \in Nat /\ Cardinality(old) \in Nat
        /\ Cardinality(new) <= Cardinality(old) + 1
    <3> HIDE DEF new
    <3> QED
      BY <2>2, <2>3, OneAtMostMore
  <2>6. Cardinality(new) <= assigned + 1
    <3> HIDE DEF new
    <3> QED
      BY <2>4, <2>5
  <2> QED
    BY <1>1, <2>6
<1>14. (Len(parsed) - Cardinality(ToSet(parsed)) + Cardinality(ToSet(parsed) \ Passed) <= withdrawn)'
  BY <1>1, <1>11, FewerRepeated
<1> QED
  BY <1>1, <1>5, <1>12, <1>13, <1>14 DEF PagesInv

\* A CVE is withdrawn: one at most of those behind the pages gets before them, and
\* none gets behind them.
LEMMA PagesWithdraw ==
  ASSUME TypeOK, PagesInv, NEW c \in Cves, Withdraw(c)
  PROVE  PagesInv'
<1>1. /\ published' = published /\ cwe' = cwe /\ start' = start /\ end' = end
      /\ at' = at /\ page' = page /\ stayed' = stayed \ {c} /\ parsed' = parsed
      /\ assigned' = assigned /\ withdrawn' = withdrawn + 1
  BY DEF Withdraw
<1>2. PICK i \in DOMAIN listed : listed[i] = c /\ listed' = RemoveAt(listed, i)
  BY DEF Withdraw
<1>3. listed \in Seq(Cves) /\ NothingTwice(listed)
  BY DEF TypeOK, PagesInv
<1>4. PICK a \in Seq(Cves), b \in Seq(Cves) : listed = (a \o <<c>>) \o b /\ listed' = a \o b
  <2>1. i \in 1 .. Len(listed)
    BY <1>2, <1>3
  <2> QED
    <3> DEFINE a == SubSeq(listed, 1, i - 1)
               b == SubSeq(listed, i + 1, Len(listed))
    <3>1. a \in Seq(Cves) /\ b \in Seq(Cves) /\ listed = (a \o <<listed[i]>>) \o b
          /\ RemoveAt(listed, i) = a \o b
      BY <1>3, <2>1, RemovedIs, Zenon
    <3> HIDE DEF a, b
    <3> QED
      BY <1>2, <3>1, Zenon
<1>5. NothingTwice(listed')
  BY <1>3, <1>4, OnceMore
<1> SUFFICES ASSUME at = "pages" PROVE PagesInv'
  BY <1>1, <1>5 DEF PagesInv
<1>6. InWindow' = InWindow
  BY <1>1 DEF InWindow
<1>7. Results' = Only(listed', InWindow)
  BY <1>6 DEF Results
<1> DEFINE k == page * ResultsPerPage
<1>8. k \in Nat
  <2>1. page \in Nat
    BY DEF TypeOK
  <2> QED
    BY <2>1, Boundary
<1>9. Passed = Behind(Results, k) /\ Passed' = Behind(Results', k)
  BY <1>1 DEF Passed, Behind
<1> HIDE DEF k
<1>10. /\ Behind(Results', k) \subseteq Behind(Results, k)
       /\ \E y : Behind(Results, k) \subseteq Behind(Results', k) \cup {y}
  <2> DEFINE less == Only(a \o b, InWindow)
             more == Only((a \o <<c>>) \o b, InWindow)
  <2>1. /\ Behind(less, k) \subseteq Behind(more, k)
        /\ \E y : Behind(more, k) \subseteq Behind(less, k) \cup {y}
    BY <1>8, OnlyOneMore, ZenonT(40)
  <2>2. Results' = less /\ Results = more
    BY <1>4, <1>7, Zenon DEF Results
  <2> HIDE DEF less, more
  <2> QED
    BY <2>1, <2>2, Zenon
<1>11. Passed' \subseteq Passed /\ \E y : Passed \subseteq Passed' \cup {y}
  BY <1>9, <1>10, Zenon
<1>12. (stayed \subseteq ToSet(Results))'
  <2>1. ToSet(listed) \ {c} \subseteq ToSet(listed')
    BY <1>4, OnceMore
  <2>2. listed' \in Seq(Cves)
    BY <1>4
  <2>3. ToSet(Results') = ToSet(listed') \cap InWindow
    BY <1>7, <2>2, OnlyOf
  <2>4. stayed \subseteq ToSet(listed) \cap InWindow
    BY ResultsTyped DEF PagesInv
  <2> QED
    BY <1>1, <2>1, <2>3, <2>4
<1>13. (Cardinality((stayed \cap Passed) \ ToSet(parsed)) <= assigned)'
  <2> DEFINE old == (stayed \cap Passed) \ ToSet(parsed)
             new == ((stayed \cap Passed) \ ToSet(parsed))'
  <2>1. new \subseteq old
    BY <1>1, <1>11
  <2>2. IsFiniteSet(old)
    <3>1. IsFiniteSet(ToSet(Results))
      BY ResultsTyped, SizeOf
    <3>2. old \subseteq ToSet(Results)
      BY DEF PagesInv
    <3> QED
      BY <3>1, <3>2, FS_Subset
  <2>3. Cardinality(old) <= assigned /\ assigned \in Nat
    BY DEF PagesInv, TypeOK
  <2> HIDE DEF old
  <2>4. Cardinality(new) <= assigned
    <3> HIDE DEF new
    <3>1. /\ Cardinality(new) \in Nat /\ Cardinality(old) \in Nat
          /\ Cardinality(new) <= Cardinality(old)
      BY <2>1, <2>2, NoneMore
    <3> QED
      BY <2>3, <3>1
  <2> QED
    BY <1>1, <2>4
<1>14. (Len(parsed) - Cardinality(ToSet(parsed)) + Cardinality(ToSet(parsed) \ Passed) <= withdrawn)'
  <2> DEFINE old == ToSet(parsed) \ Passed
             new == ToSet(parsed) \ Passed'
  <2>1. PICK y : Passed \subseteq Passed' \cup {y}
    BY <1>11
  <2>2. new \subseteq old \cup {y}
    BY <2>1
  <2>3. /\ IsFiniteSet(ToSet(parsed)) /\ Cardinality(ToSet(parsed)) \in Nat /\ Len(parsed) \in Nat
    BY SizeOf DEF TypeOK
  <2>4. IsFiniteSet(old)
    BY <2>3, FS_Subset
  <2>5. Len(parsed) - Cardinality(ToSet(parsed)) + Cardinality(old) <= withdrawn /\ withdrawn \in Nat
    BY DEF PagesInv, TypeOK
  <2>6. Cardinality(ToSet(parsed) \ Passed)' = Cardinality(new)
    BY <1>1
  <2> HIDE DEF old, new
  <2>7. /\ Cardinality(new) \in Nat /\ Cardinality(old) \in Nat
        /\ Cardinality(new) <= Cardinality(old) + 1
    BY <2>2, <2>4, OneAtMostMore
  <2>8. Len(parsed) - Cardinality(ToSet(parsed)) + Cardinality(new) <= withdrawn + 1
    BY <2>3, <2>5, <2>7
  <2> QED
    BY <1>1, <2>6, <2>8
<1> QED
  BY <1>1, <1>5, <1>12, <1>13, <1>14 DEF PagesInv

\* No step breaks the invariant.
LEMMA PagesStep ==
  ASSUME TypeOK, PagesInv, [Next]_vars
  PROVE  PagesInv'
<1>1. CASE StartCwe
  BY <1>1, PagesElsewhere DEF StartCwe, nvd
<1>2. CASE Probe
  BY <1>2, PagesProbe
<1>3. CASE DownloadPage
  BY <1>3, PagesDownload
<1>4. CASE NextWindow
  BY <1>4, PagesElsewhere DEF NextWindow, nvd
<1>5. CASE CweDone
  BY <1>5, PagesElsewhere DEF CweDone, nvd
<1>6. CASE Return
  BY <1>6, PagesElsewhere DEF Return, nvd
<1>7. ASSUME NEW c \in Cves, Assign(c) PROVE PagesInv'
  BY <1>7, PagesAssign
<1>8. ASSUME NEW c \in Cves, Withdraw(c) PROVE PagesInv'
  BY <1>8, PagesWithdraw
<1>9. CASE Ended \/ UNCHANGED vars
  BY <1>9, PagesSame DEF Ended
<1> QED
  BY <1>1, <1>2, <1>3, <1>4, <1>5, <1>6, <1>7, <1>8, <1>9 DEF Next, Sweep

\* At the end of a window all of its results are behind the pages.
LEMMA AllBehind ==
  ASSUME TypeOK, PagesInv
  PROVE  OnlyChangesDisturb
<1> SUFFICES ASSUME at = "pages", page = 0
             PROVE  /\ Cardinality(stayed \ ToSet(parsed)) <= assigned
                    /\ Len(parsed) - Cardinality(ToSet(parsed)) <= withdrawn
  BY DEF OnlyChangesDisturb
<1>1. Passed = ToSet(Results)
  BY PassedAll
<1>2. stayed \cap Passed = stayed
  BY <1>1 DEF PagesInv
<1>3. Cardinality(stayed \ ToSet(parsed)) <= assigned
  BY <1>2 DEF PagesInv
<1>4. /\ IsFiniteSet(ToSet(parsed) \ Passed) /\ Cardinality(ToSet(parsed)) \in Nat
      /\ Len(parsed) \in Nat
  BY SizeOf, FS_Subset DEF TypeOK
<1>5. Cardinality(ToSet(parsed) \ Passed) \in Nat
  BY <1>4, FS_CardinalityType
<1>6. Len(parsed) - Cardinality(ToSet(parsed)) + Cardinality(ToSet(parsed) \ Passed) <= withdrawn
      /\ withdrawn \in Nat
  BY DEF PagesInv, TypeOK
<1> QED
  BY <1>3, <1>4, <1>5, <1>6

-----------------------------------------------------------------------------
(* The entries of a CVE.                                                   *)

\* The table that Entries defines, of the first m references, and what it says.
EntriesTable(w, c, m) ==
  w = [n \in 0 .. m |->
         IF n = 0 THEN <<>>
         ELSE IF IsCommit(References[c][n]) /\ ~IsDuplicate(References[c][n].url, w[n - 1])
              THEN Append(w[n - 1], NewEntry(c, References[c][n].url))
              ELSE w[n - 1]]

\* What such a table says of its entries.
IsCollected(w, c, m) ==
  /\ w[0] = <<>>
  /\ \A n \in 1 .. m :
       w[n] = IF IsCommit(References[c][n]) /\ ~IsDuplicate(References[c][n].url, w[n - 1])
              THEN Append(w[n - 1], NewEntry(c, References[c][n].url))
              ELSE w[n - 1]

\* What the table says, reference by reference.
LEMMA CollectedIs ==
  ASSUME NEW c, NEW m \in Nat, NEW w, EntriesTable(w, c, m)
  PROVE  IsCollected(w, c, m)
<1>1. ASSUME NEW n \in 0 .. m
      PROVE  w[n] =
               IF n = 0 THEN <<>>
               ELSE IF IsCommit(References[c][n]) /\ ~IsDuplicate(References[c][n].url, w[n - 1])
                    THEN Append(w[n - 1], NewEntry(c, References[c][n].url))
                    ELSE w[n - 1]
  BY Zenon DEF EntriesTable
<1>2. 0 \in 0 .. m /\ \A n \in 1 .. m : n \in 0 .. m /\ n # 0
  OBVIOUS
<1>3. w[0] = <<>>
  BY <1>1, <1>2, Zenon
<1>4. ASSUME NEW n \in 1 .. m
      PROVE  w[n] =
               IF IsCommit(References[c][n]) /\ ~IsDuplicate(References[c][n].url, w[n - 1])
               THEN Append(w[n - 1], NewEntry(c, References[c][n].url))
               ELSE w[n - 1]
  BY <1>1, <1>2, Zenon
<1> QED
  BY <1>3, <1>4, Zenon DEF IsCollected

\* A table of the first m references extends to one more.
LEMMA CollectedGrows ==
  ASSUME NEW c, NEW m \in Nat, NEW w, EntriesTable(w, c, m)
  PROVE  \E v : EntriesTable(v, c, m + 1)
<1> DEFINE ref == References[c][m + 1]
           next == IF IsCommit(ref) /\ ~IsDuplicate(ref.url, w[m])
                   THEN Append(w[m], NewEntry(c, ref.url)) ELSE w[m]
           v == [n \in 0 .. m + 1 |-> IF n = m + 1 THEN next ELSE w[n]]
<1>0. IsCollected(w, c, m)
  BY CollectedIs
<1>1. ASSUME NEW n \in 0 .. m + 1
      PROVE  v[n] =
               IF n = 0 THEN <<>>
               ELSE IF IsCommit(References[c][n]) /\ ~IsDuplicate(References[c][n].url, v[n - 1])
                    THEN Append(v[n - 1], NewEntry(c, References[c][n].url))
                    ELSE v[n - 1]
  <2> HIDE DEF next
  <2>1. CASE n = m + 1
    <3>1. v[n] = next /\ v[n - 1] = w[m] /\ n # 0
      BY <2>1
    <3> QED
      BY <2>1, <3>1, Zenon DEF next
  <2>2. CASE n = 0
    <3>1. v[n] = w[0]
      BY <2>2
    <3> QED
      BY <2>2, <3>1, <1>0, Zenon DEF IsCollected
  <2>3. CASE n \in 1 .. m
    <3>1. v[n] = w[n] /\ v[n - 1] = w[n - 1] /\ n # 0
      BY <2>3
    <3>2. w[n] = IF IsCommit(References[c][n]) /\ ~IsDuplicate(References[c][n].url, w[n - 1])
                 THEN Append(w[n - 1], NewEntry(c, References[c][n].url))
                 ELSE w[n - 1]
      BY <2>3, <1>0, Zenon DEF IsCollected
    <3> HIDE DEF v
    <3> QED
      BY <3>1, <3>2, Zenon
  <2> QED
    BY <2>1, <2>2, <2>3
<1>2. v = [n \in 0 .. m + 1 |-> v[n]]
  <2> HIDE DEF next
  <2> QED
    OBVIOUS
<1> HIDE DEF v
<1>3. EntriesTable(v, c, m + 1)
  <2>1. [n \in 0 .. m + 1 |-> v[n]] =
        [n \in 0 .. m + 1 |->
           IF n = 0 THEN <<>>
           ELSE IF IsCommit(References[c][n]) /\ ~IsDuplicate(References[c][n].url, v[n - 1])
                THEN Append(v[n - 1], NewEntry(c, References[c][n].url))
                ELSE v[n - 1]]
    BY <1>1, Zenon
  <2> QED
    BY <1>2, <2>1, Zenon DEF EntriesTable
<1> QED
  BY <1>3, Zenon

\* There is a table of every length.
LEMMA CollectedExists ==
  ASSUME NEW c, NEW m \in Nat
  PROVE  \E w : EntriesTable(w, c, m)
<1> DEFINE Good == {n \in Nat : \E w : EntriesTable(w, c, n)}
<1>1. 0 \in Good
  <2> DEFINE w == [n \in 0 .. 0 |-> <<>>]
  <2>1. ASSUME NEW n \in 0 .. 0 PROVE n = 0
    OBVIOUS
  <2>2. w = [n \in 0 .. 0 |->
         IF n = 0 THEN <<>>
         ELSE IF IsCommit(References[c][n]) /\ ~IsDuplicate(References[c][n].url, w[n - 1])
              THEN Append(w[n - 1], NewEntry(c, References[c][n].url))
              ELSE w[n - 1]]
    BY <2>1, Zenon
  <2>3. EntriesTable(w, c, 0)
    BY <2>2, Zenon DEF EntriesTable
  <2> HIDE DEF w
  <2> QED
    BY <2>3
<1>2. ASSUME NEW n \in Nat, n \in Good PROVE n + 1 \in Good
  <2>1. PICK w : EntriesTable(w, c, n)
    BY <1>2
  <2>2. \E v : EntriesTable(v, c, n + 1)
    BY <2>1, CollectedGrows, Zenon
  <2> QED
    BY <2>2
<1>3. Nat \subseteq Good
  <2> HIDE DEF Good
  <2> QED
    BY <1>1, <1>2, AllNumbers, Zenon
<1> QED
  BY <1>3

\* nvd_parser_parse_cve returns the last entry of a table.
LEMMA EntriesIs ==
  ASSUME NEW c, Len(References[c]) \in Nat
  PROVE  \E w : IsCollected(w, c, Len(References[c])) /\ Entries(c) = w[Len(References[c])]
<1> DEFINE table ==
      CHOOSE w : w = [n \in 0 .. Len(References[c]) |->
         IF n = 0 THEN <<>>
         ELSE IF IsCommit(References[c][n]) /\ ~IsDuplicate(References[c][n].url, w[n - 1])
              THEN Append(w[n - 1], NewEntry(c, References[c][n].url))
              ELSE w[n - 1]]
<1>2. Entries(c) = table[Len(References[c])]
  BY Zenon DEF Entries
<1>3. \E w : EntriesTable(w, c, Len(References[c]))
  BY CollectedExists, Zenon
<1>4. EntriesTable(table, c, Len(References[c]))
  BY <1>3, Zenon DEF EntriesTable
<1> HIDE DEF table
<1>5. IsCollected(table, c, Len(References[c]))
  BY <1>4, CollectedIs, Zenon
<1> QED
  BY <1>2, <1>5, Zenon

\* The entries of the commits that the first m references of a CVE are.
Collected(c, m) ==
  {NewEntry(c, References[c][i].url) : i \in {n \in 1 .. m : IsCommit(References[c][n])}}

\* The fields of an entry that tell it from others.
LEMMA EntryIs ==
  ASSUME NEW c, NEW u
  PROVE  /\ NewEntry(c, u).cwe_id = cwe /\ NewEntry(c, u).cve_id = c
         /\ NewEntry(c, u).repo_name = RepoPath(u) /\ NewEntry(c, u).commit_hash = CommitHash(u)
  BY DEF NewEntry

\* Two URLs of the same repository and hash give a CVE the same entry.
LEMMA SameEntry ==
  ASSUME NEW c, NEW u, NEW v, RepoPath(u) = RepoPath(v), CommitHash(u) = CommitHash(v)
  PROVE  NewEntry(c, u) = NewEntry(c, v)
  BY Zenon DEF NewEntry

\* The entries of a CVE: one for each of its commits, and none twice.
LEMMA EntriesAre ==
  ASSUME NEW c \in Cves
  PROVE  /\ Entries(c) \in Seq(Collected(c, Len(References[c])))
         /\ ToSet(Entries(c)) = Collected(c, Len(References[c]))
         /\ NothingTwice(Entries(c))
<1> DEFINE refs == References[c]
           m == Len(refs)
           All == Collected(c, m)
<1>1. m \in Nat
  BY NvdAssumption
<1>2. PICK w : IsCollected(w, c, m) /\ Entries(c) = w[m]
  BY <1>1, EntriesIs, Zenon
<1> DEFINE Good == {n \in Nat : n <= m => /\ w[n] \in Seq(All)
                                          /\ ToSet(w[n]) = Collected(c, n)
                                          /\ NothingTwice(w[n])}
<1> HIDE DEF m
<1>3. 0 \in Good
  <2>1. w[0] = <<>>
    BY <1>2, Zenon DEF IsCollected
  <2>2. Collected(c, 0) = {}
    BY DEF Collected
  <2>3. <<>> \in Seq(All) /\ ToSet(<<>>) = {} /\ NothingTwice(<<>>)
    <3> HIDE DEF All
    <3> QED
      BY DEF ToSet, NothingTwice
  <2> HIDE DEF All
  <2> QED
    BY <2>1, <2>2, <2>3
<1>4. ASSUME NEW n \in Nat, n \in Good PROVE n + 1 \in Good
  <2> SUFFICES ASSUME n + 1 <= m
               PROVE  /\ w[n + 1] \in Seq(All)
                      /\ ToSet(w[n + 1]) = Collected(c, n + 1)
                      /\ NothingTwice(w[n + 1])
    OBVIOUS
  <2>1. n <= m /\ n + 1 \in 1 .. m /\ (n + 1) - 1 = n /\ \A i \in 1 .. n + 1 : i \in 1 .. n \/ i = n + 1
    BY <1>1
  <2> DEFINE ref == refs[n + 1]
             url == ref.url
             s == w[n]
  <2>2. s \in Seq(All) /\ ToSet(s) = Collected(c, n) /\ NothingTwice(s)
    BY <1>4, <2>1
  <2>3. w[n + 1] = IF IsCommit(ref) /\ ~IsDuplicate(url, s) THEN Append(s, NewEntry(c, url)) ELSE s
    <3>1. w[n + 1] = IF IsCommit(ref) /\ ~IsDuplicate(url, w[(n + 1) - 1])
                     THEN Append(w[(n + 1) - 1], NewEntry(c, url)) ELSE w[(n + 1) - 1]
      BY <1>2, <2>1, Zenon DEF IsCollected
    <3> QED
      BY <2>1, <3>1, Zenon
  <2>4. /\ IsCommit(ref) => Collected(c, n + 1) = Collected(c, n) \cup {NewEntry(c, url)}
        /\ ~IsCommit(ref) => Collected(c, n + 1) = Collected(c, n)
    <3>1. 1 .. n \subseteq 1 .. n + 1 /\ n + 1 \in 1 .. n + 1
      OBVIOUS
    <3> DEFINE now == {i \in 1 .. n + 1 : IsCommit(refs[i])}
               before == {i \in 1 .. n : IsCommit(refs[i])}
    <3>2. IsCommit(ref) => now = before \cup {n + 1}
      BY <2>1, <3>1, Zenon
    <3>3. ~IsCommit(ref) => now = before
      BY <2>1, <3>1, Zenon
    <3>4. Collected(c, n + 1) = {NewEntry(c, refs[i].url) : i \in now}
      BY Zenon DEF Collected
    <3>5. Collected(c, n) = {NewEntry(c, refs[i].url) : i \in before}
      BY Zenon DEF Collected
    <3>6. {NewEntry(c, refs[i].url) : i \in before \cup {n + 1}} =
             {NewEntry(c, refs[i].url) : i \in before} \cup {NewEntry(c, url)}
      <4> HIDE DEF before
      <4> QED
        OBVIOUS
    <3> HIDE DEF now, before
    <3> QED
      BY <3>2, <3>3, <3>4, <3>5, <3>6
  <2>5. IsCommit(ref) => NewEntry(c, url) \in All
    BY <2>1, Zenon DEF Collected
  <2>6. DOMAIN s = 1 .. Len(s) /\ \A k \in DOMAIN s : s[k] \in ToSet(s)
    <3> HIDE DEF All
    <3> QED
      BY <2>2 DEF ToSet
  <2>7. NewEntry(c, url) \in Collected(c, n) <=> IsDuplicate(url, s)
    <3> HIDE DEF url, s
    <3>1. ASSUME NewEntry(c, url) \in Collected(c, n) PROVE IsDuplicate(url, s)
      <4>1. NewEntry(c, url) \in ToSet(s)
        BY <2>2, <3>1, Zenon
      <4>2. PICK k \in DOMAIN s : s[k] = NewEntry(c, url)
        BY <4>1, Zenon DEF ToSet
      <4> QED
        <5>1. s[k].repo_name = RepoPath(url) /\ s[k].commit_hash = CommitHash(url)
          BY <4>2, EntryIs
        <5> QED
          BY <5>1, Zenon DEF IsDuplicate
    <3>2. ASSUME IsDuplicate(url, s) PROVE NewEntry(c, url) \in Collected(c, n)
      <4>1. PICK k \in DOMAIN s : s[k].repo_name = RepoPath(url) /\ s[k].commit_hash = CommitHash(url)
        BY <3>2, Zenon DEF IsDuplicate
      <4>2. s[k] \in Collected(c, n)
        BY <4>1, <2>2, <2>6, Zenon
      <4>3. PICK i \in 1 .. n : s[k] = NewEntry(c, refs[i].url)
        BY <4>2, Zenon DEF Collected
      <4>4. NewEntry(c, refs[i].url) = NewEntry(c, url)
        <5>1. RepoPath(refs[i].url) = RepoPath(url) /\ CommitHash(refs[i].url) = CommitHash(url)
          BY <4>1, <4>3, EntryIs
        <5> QED
          BY <5>1, SameEntry, Zenon
      <4> QED
        BY <4>2, <4>3, <4>4, Zenon
    <3> QED
      BY <3>1, <3>2
  <2> HIDE DEF All, s, url, ref
  <2>8. CASE IsCommit(ref) /\ ~IsDuplicate(url, s)
    <3>1. w[n + 1] = Append(s, NewEntry(c, url)) /\ NewEntry(c, url) \notin ToSet(s)
      BY <2>2, <2>3, <2>7, <2>8, Zenon
    <3>2. NewEntry(c, url) \in All
      BY <2>5, <2>8
    <3>3. /\ Append(s, NewEntry(c, url)) \in Seq(All)
          /\ ToSet(Append(s, NewEntry(c, url))) = ToSet(s) \cup {NewEntry(c, url)}
          /\ NothingTwice(Append(s, NewEntry(c, url))) <=> NothingTwice(s) /\ NewEntry(c, url) \notin ToSet(s)
      <4>1. \A x \in All : /\ Append(s, x) \in Seq(All)
                           /\ ToSet(Append(s, x)) = ToSet(s) \cup {x}
                           /\ NothingTwice(Append(s, x)) <=> NothingTwice(s) /\ x \notin ToSet(s)
        BY <2>2, AppendedIs
      <4> QED
        BY <3>2, <4>1, Zenon
    <3> QED
      BY <2>2, <2>4, <2>8, <3>1, <3>3, Zenon
  <2>9. CASE ~(IsCommit(ref) /\ ~IsDuplicate(url, s))
    <3>1. w[n + 1] = s
      BY <2>3, <2>9
    <3>2. Collected(c, n + 1) = Collected(c, n)
      BY <2>4, <2>7, <2>9
    <3> QED
      BY <2>2, <3>1, <3>2, Zenon
  <2> QED
    BY <2>8, <2>9
<1>5. Nat \subseteq Good
  <2> HIDE DEF Good
  <2> QED
    BY <1>3, <1>4, AllNumbers, Zenon
<1>6. m \in Good /\ m <= m
  BY <1>1, <1>5
<1> QED
  BY <1>2, <1>6 DEF m

-----------------------------------------------------------------------------
(* The entries of a document.                                              *)

\* The table that FlattenSeq defines, and what it says.
FlatTable(w, g, m) ==
  w = [i \in 1 .. m |-> IF i = 1 THEN g[i] ELSE w[i - 1] \o g[i]]

\* What such a table says of its entries.
IsFlat(w, g, m) ==
  /\ m > 0 => w[1] = g[1]
  /\ \A i \in 2 .. m : w[i] = w[i - 1] \o g[i]

\* What the table says, sequence by sequence.
LEMMA FlatIs ==
  ASSUME NEW g, NEW m \in Nat, NEW w, FlatTable(w, g, m)
  PROVE  IsFlat(w, g, m)
<1>1. ASSUME NEW i \in 1 .. m PROVE w[i] = IF i = 1 THEN g[i] ELSE w[i - 1] \o g[i]
  BY Zenon DEF FlatTable
<1>2. /\ m > 0 => 1 \in 1 .. m
      /\ \A i \in 2 .. m : i \in 1 .. m /\ i # 1
  OBVIOUS
<1>3. m > 0 => w[1] = g[1]
  BY <1>1, <1>2, Zenon
<1>4. ASSUME NEW i \in 2 .. m PROVE w[i] = w[i - 1] \o g[i]
  BY <1>1, <1>2, Zenon
<1> QED
  BY <1>3, <1>4, Zenon DEF IsFlat

\* A table of the first m sequences extends to one more.
LEMMA FlatGrows ==
  ASSUME NEW g, NEW m \in Nat, NEW w, FlatTable(w, g, m)
  PROVE  \E v : FlatTable(v, g, m + 1)
<1> DEFINE next == IF m = 0 THEN g[1] ELSE w[m] \o g[m + 1]
           v == [i \in 1 .. m + 1 |-> IF i = m + 1 THEN next ELSE w[i]]
<1>0. IsFlat(w, g, m)
  BY FlatIs
<1>1. ASSUME NEW i \in 1 .. m + 1 PROVE v[i] = IF i = 1 THEN g[i] ELSE v[i - 1] \o g[i]
  <2> HIDE DEF next
  <2>1. CASE i = m + 1 /\ m = 0
    <3>1. v[i] = next /\ i = 1
      BY <2>1
    <3> QED
      BY <2>1, <3>1, Zenon DEF next
  <2>2. CASE i = m + 1 /\ m # 0
    <3>1. v[i] = next /\ v[i - 1] = w[m] /\ i # 1
      BY <2>2
    <3> QED
      BY <2>2, <3>1, Zenon DEF next
  <2>3. CASE i = 1 /\ i # m + 1
    <3>1. v[i] = w[1] /\ m > 0
      BY <2>3
    <3> QED
      BY <2>3, <3>1, <1>0, Zenon DEF IsFlat
  <2>4. CASE i # 1 /\ i # m + 1
    <3>1. v[i] = w[i] /\ v[i - 1] = w[i - 1] /\ i \in 2 .. m
      BY <2>4
    <3>2. w[i] = w[i - 1] \o g[i]
      BY <3>1, <1>0, Zenon DEF IsFlat
    <3> HIDE DEF v
    <3> QED
      BY <2>4, <3>1, <3>2, Zenon
  <2> QED
    BY <2>1, <2>2, <2>3, <2>4
<1>2. v = [i \in 1 .. m + 1 |-> v[i]]
  <2> HIDE DEF next
  <2> QED
    OBVIOUS
<1> HIDE DEF v
<1>3. FlatTable(v, g, m + 1)
  <2>1. [i \in 1 .. m + 1 |-> v[i]] =
        [i \in 1 .. m + 1 |-> IF i = 1 THEN g[i] ELSE v[i - 1] \o g[i]]
    BY <1>1, Zenon
  <2> QED
    BY <1>2, <2>1, Zenon DEF FlatTable
<1> QED
  BY <1>3, Zenon

\* There is a table of every length.
LEMMA FlatExists ==
  ASSUME NEW g, NEW m \in Nat
  PROVE  \E w : FlatTable(w, g, m)
<1> DEFINE Good == {n \in Nat : \E w : FlatTable(w, g, n)}
<1>1. 0 \in Good
  <2> DEFINE w == [n \in 1 .. 0 |-> <<>>]
  <2>1. ASSUME NEW n \in 1 .. 0 PROVE FALSE
    OBVIOUS
  <2>2. w = [i \in 1 .. 0 |-> IF i = 1 THEN g[i] ELSE w[i - 1] \o g[i]]
    BY <2>1, Zenon
  <2>3. FlatTable(w, g, 0)
    BY <2>2, Zenon DEF FlatTable
  <2> HIDE DEF w
  <2> QED
    BY <2>3
<1>2. ASSUME NEW n \in Nat, n \in Good PROVE n + 1 \in Good
  <2>1. PICK w : FlatTable(w, g, n)
    BY <1>2
  <2>2. \E v : FlatTable(v, g, n + 1)
    BY <2>1, FlatGrows, Zenon
  <2> QED
    BY <2>2
<1>3. Nat \subseteq Good
  <2> HIDE DEF Good
  <2> QED
    BY <1>1, <1>2, AllNumbers, Zenon
<1> QED
  BY <1>3

\* Two tables agree where what they concatenate does.
LEMMA FlatOnce ==
  ASSUME NEW g, NEW h, NEW m \in Nat, NEW k \in Nat, m <= k, m > 0,
         NEW v, IsFlat(v, g, m), NEW w, IsFlat(w, h, k),
         \A n \in 1 .. m : g[n] = h[n]
  PROVE  v[m] = w[m]
<1> DEFINE Good == {n \in Nat : n + 1 <= m => v[n + 1] = w[n + 1]}
<1>1. 0 \in Good
  <2>1. 1 \in 1 .. m /\ k > 0
    OBVIOUS
  <2>2. v[1] = g[1] /\ w[1] = h[1] /\ g[1] = h[1]
    BY <2>1, Zenon DEF IsFlat
  <2> QED
    BY <2>2
<1>2. ASSUME NEW n \in Nat, n \in Good PROVE n + 1 \in Good
  <2> DEFINE i == (n + 1) + 1
  <2> SUFFICES ASSUME i <= m PROVE v[i] = w[i]
    OBVIOUS
  <2>1. i \in 2 .. m /\ i \in 2 .. k /\ i \in 1 .. m /\ i - 1 = n + 1 /\ n + 1 <= m
    OBVIOUS
  <2>2. v[n + 1] = w[n + 1]
    BY <2>1, <1>2
  <2> HIDE DEF i, Good
  <2>3. v[i] = v[i - 1] \o g[i]
    BY <2>1, Zenon DEF IsFlat
  <2>4. w[i] = w[i - 1] \o h[i]
    BY <2>1, Zenon DEF IsFlat
  <2>5. g[i] = h[i]
    BY <2>1, Zenon
  <2> QED
    BY <2>1, <2>2, <2>3, <2>4, <2>5, Zenon
<1>3. Nat \subseteq Good
  <2> HIDE DEF Good
  <2> QED
    BY <1>1, <1>2, AllNumbers, Zenon
<1>4. m - 1 \in Nat /\ (m - 1) + 1 = m
  OBVIOUS
<1>5. m - 1 \in Good
  BY <1>3, <1>4
<1> QED
  BY <1>4, <1>5

\* FlattenSeq returns the last entry of a table.
LEMMA FlattenIs ==
  ASSUME NEW g, Len(g) \in Nat \ {0}
  PROVE  \E w : IsFlat(w, g, Len(g)) /\ FlattenSeq(g) = w[Len(g)]
<1> DEFINE table ==
      CHOOSE w : w = [i \in 1 .. Len(g) |-> IF i = 1 THEN g[i] ELSE w[i - 1] \o g[i]]
<1>1. Len(g) # 0 /\ Len(g) \in Nat
  OBVIOUS
<1>2. FlattenSeq(g) = table[Len(g)]
  BY <1>1, Zenon DEF FlattenSeq
<1>3. \E w : FlatTable(w, g, Len(g))
  BY <1>1, FlatExists, Zenon
<1>4. FlatTable(table, g, Len(g))
  BY <1>3, Zenon DEF FlatTable
<1> HIDE DEF table
<1>5. IsFlat(table, g, Len(g))
  BY <1>1, <1>4, FlatIs, Zenon
<1> QED
  BY <1>2, <1>5, Zenon

\* One sequence more.
LEMMA FlattenAppend ==
  ASSUME NEW S, NEW T, NEW g \in Seq(S), NEW e \in S, e \in Seq(T)
  PROVE  FlattenSeq(Append(g, e)) = FlattenSeq(g) \o e
<1> DEFINE h == Append(g, e)
           m == Len(g)
<1>1. /\ Len(h) = m + 1 /\ m \in Nat /\ h[m + 1] = e
      /\ \A n \in 1 .. m : g[n] = h[n]
  OBVIOUS
<1>2. m # 0 => \E v : IsFlat(v, g, m) /\ FlattenSeq(g) = v[m]
  <2> SUFFICES ASSUME m # 0 PROVE \E v : IsFlat(v, g, m) /\ FlattenSeq(g) = v[m]
    OBVIOUS
  <2>1. Len(g) \in Nat \ {0}
    OBVIOUS
  <2> QED
    BY <2>1, FlattenIs, Zenon
<1>3. m = 0 => FlattenSeq(g) = <<>>
  <2> SUFFICES ASSUME m = 0 PROVE FlattenSeq(g) = <<>>
    OBVIOUS
  <2>1. g = <<>> /\ Len(g) = 0
    BY EmptySeq
  <2> QED
    BY <2>1, Zenon DEF FlattenSeq
<1> HIDE DEF h, m
<1>4. Len(h) \in Nat \ {0} /\ m + 1 > 0 /\ m + 1 \in Nat /\ m <= m + 1 /\ (m + 1) - 1 = m
  BY <1>1
<1>5. PICK w : IsFlat(w, h, m + 1) /\ FlattenSeq(h) = w[m + 1]
  BY <1>1, <1>4, FlattenIs
<1>6. CASE m = 0
  <2>1. FlattenSeq(h) = e
    <3>1. w[1] = h[1]
      BY <1>4, <1>5, Zenon DEF IsFlat
    <3> QED
      BY <1>1, <1>5, <1>6, <3>1
  <2>2. <<>> \o e = e
    BY ConcatEmptySeq
  <2> QED
    BY <1>3, <1>6, <2>1, <2>2, Zenon DEF h
<1>7. CASE m # 0
  <2>1. PICK v : IsFlat(v, g, m) /\ FlattenSeq(g) = v[m]
    BY <1>2, <1>7
  <2>2. m > 0 /\ m + 1 \in 2 .. m + 1
    BY <1>1, <1>7
  <2>3. v[m] = w[m]
    BY <1>1, <1>4, <1>5, <2>1, <2>2, FlatOnce
  <2>4. w[m + 1] = w[(m + 1) - 1] \o h[m + 1]
    BY <1>5, <2>2, Zenon DEF IsFlat
  <2> QED
    BY <1>1, <1>4, <1>5, <2>1, <2>3, <2>4, Zenon DEF h
<1> QED
  BY <1>6, <1>7

\* An empty document has no entries.
LEMMA ExtractNothing == Extract(<<>>) = <<>>
<1> DEFINE g == [n \in DOMAIN <<>> |-> Entries(<<>>[n])]
<1>1. g = <<>>
  OBVIOUS
<1>2. Extract(<<>>) = FlattenSeq(g)
  BY Zenon DEF Extract
<1> HIDE DEF g
<1>3. FlattenSeq(<<>>) = <<>>
  <2>1. Len(<<>>) = 0
    OBVIOUS
  <2> QED
    BY <2>1, Zenon DEF FlattenSeq
<1> QED
  BY <1>1, <1>2, <1>3, Zenon

\* A document with one CVE more has its entries at the end.
LEMMA ExtractAppend ==
  ASSUME NEW d \in Seq(Cves), NEW c \in Cves
  PROVE  Extract(Append(d, c)) = Extract(d) \o Entries(c)
<1> DEFINE S == {Entries(x) : x \in Cves}
           g == [n \in DOMAIN d |-> Entries(d[n])]
           h == [n \in DOMAIN Append(d, c) |-> Entries(Append(d, c)[n])]
           e == Entries(c)
<1>1. /\ DOMAIN d = 1 .. Len(d) /\ Len(d) \in Nat /\ DOMAIN Append(d, c) = 1 .. Len(d) + 1
      /\ \A n \in 1 .. Len(d) : Append(d, c)[n] = d[n] /\ d[n] \in Cves
      /\ Append(d, c)[Len(d) + 1] = c
  OBVIOUS
<1>2. g \in Seq(S) /\ Len(g) = Len(d)
  <2>1. g \in [1 .. Len(d) -> S]
    BY <1>1, Zenon
  <2> HIDE DEF g
  <2> QED
    BY <1>1, <2>1
<1>3. e \in S /\ e \in Seq(Collected(c, Len(References[c])))
  BY EntriesAre
<1>4. h = Append(g, e)
  <2>1. h \in [1 .. Len(d) + 1 -> S]
    <3>1. \A n \in 1 .. Len(d) + 1 : Append(d, c)[n] \in Cves
      BY <1>1
    <3> QED
      BY <1>1, <3>1, Zenon
  <2>2. \A n \in 1 .. Len(d) : h[n] = g[n]
    <3>1. \A n \in 1 .. Len(d) : n \in 1 .. Len(d) + 1
      BY <1>1
    <3> QED
      BY <1>1, <3>1, Zenon
  <2>3. h[Len(d) + 1] = e
    <3>1. Len(d) + 1 \in 1 .. Len(d) + 1
      BY <1>1
    <3> QED
      BY <1>1, <3>1, Zenon
  <2> HIDE DEF h, g, e, S
  <2>4. h \in Seq(S) /\ Len(h) = Len(d) + 1
    BY <1>1, <2>1
  <2>5. /\ Append(g, e) \in Seq(S) /\ Len(Append(g, e)) = Len(g) + 1
        /\ \A i \in 1 .. Len(g) : Append(g, e)[i] = g[i]
        /\ Append(g, e)[Len(g) + 1] = e
    BY <1>2, <1>3, AppendProperties
  <2>6. \A i \in 1 .. Len(h) : h[i] = Append(g, e)[i]
    BY <1>1, <1>2, <2>2, <2>3, <2>4, <2>5
  <2> QED
    BY <1>2, <2>4, <2>5, <2>6, SeqEqual
<1>5. Extract(Append(d, c)) = FlattenSeq(h) /\ Extract(d) = FlattenSeq(g)
  BY Zenon DEF Extract
<1> HIDE DEF h, g, e, S
<1>6. FlattenSeq(Append(g, e)) = FlattenSeq(g) \o e
  BY <1>2, <1>3, FlattenAppend, Zenon
<1> QED
  BY <1>4, <1>5, <1>6, Zenon DEF e

\* The entries of all commits of a CVE.
AllOf(c) == Collected(c, Len(References[c]))

\* An entry names its CVE and the CWE being swept.
LEMMA AllAreOf ==
  ASSUME NEW c, NEW e \in AllOf(c)
  PROVE  e.cve_id = c /\ e.cwe_id = cwe
<1>1. PICK i \in 1 .. Len(References[c]) : e = NewEntry(c, References[c][i].url)
  BY Zenon DEF AllOf, Collected
<1> QED
  BY <1>1, EntryIs

\* The entries of a document: those of its CVEs, and none twice.
LEMMA ExtractAre ==
  ASSUME NEW d \in Seq(Cves)
  PROVE  /\ Extract(d) \in Seq(UNION {AllOf(c) : c \in Cves})
         /\ ToSet(Extract(d)) = UNION {AllOf(c) : c \in ToSet(d)}
         /\ NothingTwice(d) => NothingTwice(Extract(d))
<1> DEFINE E == UNION {AllOf(c) : c \in Cves}
           Good == {t \in Seq(Cves) : /\ Extract(t) \in Seq(E)
                                      /\ ToSet(Extract(t)) = UNION {AllOf(c) : c \in ToSet(t)}
                                      /\ NothingTwice(t) => NothingTwice(Extract(t))}
<1>1. <<>> \in Good
  <2>1. <<>> \in Seq(Cves) /\ <<>> \in Seq(E) /\ ToSet(<<>>) = {} /\ NothingTwice(<<>>)
    <3> HIDE DEF E
    <3> QED
      BY DEF ToSet, NothingTwice
  <2>2. Extract(<<>>) = <<>>
    BY ExtractNothing
  <2>3. UNION {AllOf(c) : c \in {}} = {}
    OBVIOUS
  <2> HIDE DEF E
  <2> QED
    BY <2>1, <2>2, <2>3
<1>2. ASSUME NEW t \in Seq(Cves), NEW c \in Cves, t \in Good PROVE Append(t, c) \in Good
  <2> DEFINE x == Extract(t)
             y == Entries(c)
  <2>1. /\ x \in Seq(E) /\ ToSet(x) = UNION {AllOf(b) : b \in ToSet(t)}
        /\ NothingTwice(t) => NothingTwice(x)
    BY <1>2
  <2>2. y \in Seq(AllOf(c)) /\ ToSet(y) = AllOf(c) /\ NothingTwice(y)
    BY EntriesAre DEF AllOf
  <2>3. Extract(Append(t, c)) = x \o y
    BY ExtractAppend
  <2> HIDE DEF x, y, Good
  <2>4. /\ Append(t, c) \in Seq(Cves) /\ ToSet(Append(t, c)) = ToSet(t) \cup {c}
        /\ NothingTwice(Append(t, c)) <=> NothingTwice(t) /\ c \notin ToSet(t)
    BY AppendedIs
  <2>5. y \in Seq(E)
    <3>1. AllOf(c) \subseteq E
      OBVIOUS
    <3> HIDE DEF E
    <3> QED
      BY <2>2, <3>1, SeqMonotonic
  <2> HIDE DEF E
  <2>6. /\ x \o y \in Seq(E) /\ ToSet(x \o y) = ToSet(x) \cup ToSet(y)
        /\ NothingTwice(x \o y) <=>
             NothingTwice(x) /\ NothingTwice(y) /\ ToSet(x) \cap ToSet(y) = {}
    BY <2>1, <2>5, ConcatIs, Zenon
  <2>7. ToSet(x \o y) = UNION {AllOf(b) : b \in ToSet(Append(t, c))}
    BY <2>1, <2>2, <2>4, <2>6
  <2>8. c \notin ToSet(t) => ToSet(x) \cap ToSet(y) = {}
    <3> SUFFICES ASSUME c \notin ToSet(t), NEW e \in ToSet(x), e \in ToSet(y) PROVE FALSE
      OBVIOUS
    <3>1. PICK b \in ToSet(t) : e \in AllOf(b)
      BY <2>1
    <3>2. e.cve_id = b
      BY <3>1, AllAreOf, Zenon
    <3>3. e.cve_id = c
      BY <2>2, AllAreOf, Zenon
    <3> QED
      BY <3>1, <3>2, <3>3
  <2>9. NothingTwice(Append(t, c)) => NothingTwice(x \o y)
    BY <2>1, <2>2, <2>4, <2>6, <2>8
  <2> QED
    BY <2>3, <2>4, <2>6, <2>7, <2>9 DEF Good, E
<1>3. Seq(Cves) \subseteq Good
  <2> HIDE DEF Good
  <2> QED
    BY <1>1, <1>2, AllSequences, Zenon
<1> QED
  BY <1>3

-----------------------------------------------------------------------------
(* How a URL is cut.                                                       *)

\* The remainder that SuffixAt takes makes the place behind the end a 0.
LEMMA Remainder ==
  ASSUME NEW n \in Nat, NEW q \in 1 .. n + 1
  PROVE  q % (n + 1) = IF q = n + 1 THEN 0 ELSE q
  OBVIOUS

\* Where the hash begins: after the first "/commit/" behind the prefix.
LEMMA SuffixIs ==
  ASSUME NEW S, NEW url \in Seq(S), url # <<>>
  PROVE  /\ SuffixAt(url) \in 0 .. Len(url) /\ Len(url) \in Nat \ {0}
         /\ SuffixAt(url) > 0 =>
              /\ url[1] = Prefix /\ SuffixAt(url) > 1 /\ url[SuffixAt(url)] = Suffix
              /\ \A i \in 2 .. SuffixAt(url) - 1 : url[i] # Suffix
         /\ \A i \in 2 .. Len(url) : url[1] = Prefix /\ url[i] = Suffix => SuffixAt(url) > 0
<1> DEFINE n == Len(url)
           p == SuffixAt(url)
           M == {i \in DOMAIN url : i > 1 /\ url[i] = Suffix} \cup {n + 1}
           q == Min(M)
<1>1. n \in Nat /\ n # 0 /\ DOMAIN url = 1 .. n
  BY EmptySeq
<1>2. p = IF url[1] # Prefix THEN 0 ELSE q % (n + 1)
  BY Zenon DEF SuffixAt
<1> HIDE DEF n, p
<1>3. M \in SUBSET Nat /\ M # {}
  BY <1>1
<1>4. q \in M /\ \A i \in M : q <= i
  <2> HIDE DEF M
  <2> QED
    BY <1>3, FirstOf, Zenon
<1> HIDE DEF q
<1>5. q \in 1 .. n + 1 /\ (q = n + 1 \/ (q \in 2 .. n /\ url[q] = Suffix))
  BY <1>1, <1>4
<1>6. \A i \in 2 .. n : url[i] = Suffix => q <= i /\ q # n + 1
  BY <1>1, <1>4, <1>5
<1>7. q % (n + 1) = IF q = n + 1 THEN 0 ELSE q
  BY <1>1, <1>5, Remainder
<1> HIDE DEF M
<1>8. p = 0 \/ (p = q /\ url[1] = Prefix /\ q # n + 1)
  BY <1>2, <1>7
<1>9. p \in 0 .. n
  BY <1>1, <1>5, <1>8
<1>10. p > 0 => /\ url[1] = Prefix /\ p > 1 /\ url[p] = Suffix
                /\ \A i \in 2 .. p - 1 : url[i] # Suffix
  BY <1>1, <1>5, <1>6, <1>8
<1>11. ASSUME NEW i \in 2 .. n, url[1] = Prefix, url[i] = Suffix PROVE p > 0
  BY <1>1, <1>2, <1>5, <1>6, <1>7, <1>11
<1> QED
  BY <1>1, <1>9, <1>10, <1>11 DEF n, p

\* The hash is cut after its digits.
LEMMA HashIs ==
  ASSUME NEW S, NEW url \in Seq(S), url # <<>>, SuffixAt(url) > 0
  PROVE  /\ CommitHash(url) \in Seq(S) /\ Len(CommitHash(url)) \in Nat
         /\ Len(CommitHash(url)) <= HashLen
         /\ SuffixAt(url) + Len(CommitHash(url)) <= Len(url)
         /\ Len(CommitHash(url)) = HashLen \/ SuffixAt(url) + Len(CommitHash(url)) = Len(url)
         /\ CommitHash(url) = SubSeq(url, SuffixAt(url) + 1, SuffixAt(url) + Len(CommitHash(url)))
<1> DEFINE p == SuffixAt(url)
           n == Len(url)
           u == Min({n, p + HashLen})
           h == CommitHash(url)
<1>0. HashLen \in Nat
  BY NvdAssumption
<1>1. p \in Nat /\ p > 0 /\ n \in Nat /\ p <= n
  <2>1. p \in 0 .. n /\ n \in Nat
    BY SuffixIs, Zenon
  <2> HIDE DEF p
  <2> QED
    BY <2>1 DEF p
<1>2. \A i \in 1 .. n : url[i] \in S
  OBVIOUS
<1>3. h = SubSeq(url, p + 1, u)
  BY Zenon DEF CommitHash
<1> HIDE DEF p, n, h
<1>4. p + HashLen \in Nat
  BY <1>0, <1>1
<1>5. u = IF n <= p + HashLen THEN n ELSE p + HashLen
  BY <1>1, <1>4, Smaller
<1> HIDE DEF u
<1>6. u \in Nat /\ p <= u /\ u <= n /\ u - p <= HashLen /\ (u - p = HashLen \/ u = n)
  BY <1>0, <1>1, <1>5
<1>7. /\ h \in Seq(S)
      /\ Len(h) = IF p + 1 <= u THEN u - (p + 1) + 1 ELSE 0
  <2>1. \A i \in p + 1 .. u : url[i] \in S
    BY <1>1, <1>2, <1>6
  <2>2. p + 1 \in Int /\ u \in Int
    BY <1>1, <1>6
  <2> QED
    BY <1>3, <2>1, <2>2, SubSeqProperties
<1>8. Len(h) = u - p
  BY <1>1, <1>6, <1>7
<1>9. /\ h \in Seq(S) /\ Len(h) \in Nat /\ Len(h) <= HashLen /\ p + Len(h) <= n
      /\ Len(h) = HashLen \/ p + Len(h) = n
      /\ p + Len(h) = u
  BY <1>1, <1>6, <1>7, <1>8
<1> QED
  BY <1>3, <1>9 DEF p, n, h

-----------------------------------------------------------------------------
(* Types.                                                                  *)

\* Inductive: TypeOK, and where the sweep is among the CWEs.
TypeInv ==
  /\ TypeOK
  /\ pushed \in Seq(ToSet(pushed))
  /\ at \in {"window", "pages"} => cwe <= CweCount
  /\ at = "returned" => cwe = CweCount + 1

\* A sequence is one of its own elements.
LEMMA OwnElements ==
  ASSUME NEW S, NEW s \in Seq(S)
  PROVE  s \in Seq(ToSet(s))
<1>1. Len(s) \in Nat /\ DOMAIN s = 1 .. Len(s) /\ s = [n \in 1 .. Len(s) |-> s[n]]
  OBVIOUS
<1>2. \A n \in 1 .. Len(s) : s[n] \in ToSet(s)
  BY <1>1, Zenon DEF ToSet
<1>3. s \in [1 .. Len(s) -> ToSet(s)]
  BY <1>1, <1>2, Zenon
<1> HIDE DEF ToSet
<1> QED
  BY <1>1, <1>3

\* The entries of a commit have a CWE, a CVE and at most a whole hash.
LEMMA EntryTyped ==
  ASSUME NEW c \in Cves, NEW e \in AllOf(c)
  PROVE  e.cwe_id = cwe /\ e.cve_id = c /\ Len(e.commit_hash) <= HashLen
<1>1. PICK i \in 1 .. Len(References[c]) :
        e = NewEntry(c, References[c][i].url) /\ IsCommit(References[c][i])
  BY Zenon DEF AllOf, Collected
<1> DEFINE url == References[c][i].url
<1>2. References[c][i] \in ToSet(References[c])
  <2>1. References[c] \in Seq(ToSet(References[c]))
    BY NvdAssumption
  <2>2. DOMAIN References[c] = 1 .. Len(References[c])
    BY <2>1
  <2> QED
    BY <1>1, <2>2, Zenon DEF ToSet
<1>3. url # NULL /\ SuffixAt(url) > 0
  BY <1>1, Zenon DEF IsCommit
<1>4. url \in Seq(ToSet(url)) /\ url # <<>>
  BY <1>2, <1>3, NvdAssumption
<1>5. Len(CommitHash(url)) <= HashLen
  BY <1>3, <1>4, HashIs
<1>6. e.cwe_id = cwe /\ e.cve_id = c /\ e.commit_hash = CommitHash(url)
  BY <1>1, EntryIs
<1> QED
  BY <1>5, <1>6

\* TypeInv holds before the first CWE.
LEMMA TypeInit == Init => TypeInv
<1> SUFFICES ASSUME Init PROVE TypeInv
  OBVIOUS
<1>1. /\ listed \in Catalogues /\ published \in [Cves -> Dates] /\ changes = 0 /\ cwe = 1
      /\ start = 0 /\ end = 0 /\ at = "next cwe" /\ total = 0 /\ page = 0 /\ pushed = <<>>
      /\ stayed = {} /\ parsed = <<>> /\ assigned = 0 /\ withdrawn = 0
  BY DEF Init
<1>2. listed \in Seq(Cves) /\ 0 \in 0 .. MaxChanges /\ 1 \in 1 .. CweCount + 1
  <2>1. listed \in Seq(Cves)
    BY <1>1, NvdAssumption
  <2>2. MaxChanges \in Nat /\ CweCount \in Nat
    BY NvdAssumption, SweepAssumption
  <2>3. 0 \in 0 .. MaxChanges /\ 1 \in 1 .. CweCount + 1
    BY <2>2
  <2> QED
    BY <2>1, <2>3
<1>3. DOMAIN pushed = {} /\ pushed \in Seq(ToSet(pushed)) /\ parsed \in Seq(Cves)
  <2>1. DOMAIN <<>> = {} /\ \A S : <<>> \in Seq(S)
    OBVIOUS
  <2> QED
    BY <1>1, <2>1
<1>4. TypeOK
  <2>1. \A i \in DOMAIN pushed :
          /\ pushed[i].cwe_id \in 1 .. CweCount /\ pushed[i].cve_id \in Cves
          /\ Len(pushed[i].commit_hash) <= HashLen
    BY <1>3, Zenon
  <2>2. /\ changes \in 0 .. MaxChanges /\ cwe \in 1 .. CweCount + 1
        /\ at \in {"next cwe", "window", "pages", "returned"} /\ stayed \subseteq Cves
    BY <1>1, <1>2, Zenon
  <2>3. start \in Int /\ end \in Int /\ total \in Nat /\ page \in 0 .. total
        /\ assigned \in Nat /\ withdrawn \in Nat
    <3>1. 0 \in Int /\ 0 \in Nat /\ 0 \in 0 .. 0
      OBVIOUS
    <3> QED
      BY <1>1, <3>1, Zenon
  <2> QED
    BY <1>1, <1>2, <1>3, <2>1, <2>2, <2>3, Zenon DEF TypeOK
<1> QED
  BY <1>1, <1>3, <1>4 DEF TypeInv

\* The steps that push nothing.
LEMMA TypeQuiet ==
  ASSUME TypeInv,
         pushed' = pushed, published' = published,
         listed' \in Seq(Cves), changes' \in 0 .. MaxChanges, cwe' \in 1 .. CweCount + 1,
         start' \in Int, end' \in Int, at' \in {"next cwe", "window", "pages", "returned"},
         total' \in Nat, page' \in 0 .. total', parsed' \in Seq(Cves), stayed' \subseteq Cves,
         assigned' \in Nat, withdrawn' \in Nat,
         at' \in {"window", "pages"} => cwe' <= CweCount,
         at' = "returned" => cwe' = CweCount + 1
  PROVE  TypeInv'
<1>1. published' \in [Cves -> Dates]
  BY DEF TypeInv, TypeOK
<1>2. (\A i \in DOMAIN pushed :
         /\ pushed[i].cwe_id \in 1 .. CweCount /\ pushed[i].cve_id \in Cves
         /\ Len(pushed[i].commit_hash) <= HashLen)'
  BY DEF TypeInv, TypeOK
<1>3. (pushed \in Seq(ToSet(pushed)))'
  BY DEF TypeInv
<1>4. TypeOK'
  BY <1>1, <1>2, Zenon DEF TypeOK
<1> QED
  BY <1>3, <1>4, Zenon DEF TypeInv

\* The entries that a page adds are typed.
LEMMA TypeDownload ==
  ASSUME TypeInv, PagesInv, DownloadPage
  PROVE  TypeInv'
<1> DEFINE D == Reverse(PageOf(FromTheLast))
           X == Extract(D)
           E == UNION {AllOf(c) : c \in Cves}
<1>0. TypeOK
  BY DEF TypeInv
<1>1. /\ pushed' = pushed \o X /\ parsed' = parsed \o D /\ page' = page - 1
      /\ listed' = listed /\ published' = published /\ changes' = changes /\ cwe' = cwe
      /\ start' = start /\ end' = end /\ at' = at /\ total' = total /\ at = "pages" /\ page > 0
      /\ stayed' = stayed /\ assigned' = assigned /\ withdrawn' = withdrawn
  BY DEF DownloadPage, nvd, since
<1>2. D \in Seq(Cves)
  BY <1>0, <1>1, PageTyped
<1> HIDE DEF D
<1>3. X \in Seq(E) /\ ToSet(X) = UNION {AllOf(c) : c \in ToSet(D)}
  BY <1>2, ExtractAre, Zenon
<1> HIDE DEF X
<1>4. parsed' \in Seq(Cves)
  BY <1>0, <1>1, <1>2 DEF TypeOK
<1> DEFINE B == ToSet(pushed) \cup E
<1>5. pushed \in Seq(B) /\ X \in Seq(B)
  <2>1. ToSet(pushed) \subseteq B /\ E \subseteq B
    OBVIOUS
  <2>2. pushed \in Seq(ToSet(pushed))
    BY DEF TypeInv
  <2> HIDE DEF B, E
  <2> QED
    BY <1>3, <2>1, <2>2, SeqMonotonic
<1> HIDE DEF B
<1>6. pushed' \in Seq(B) /\ ToSet(pushed') = ToSet(pushed) \cup ToSet(X)
  <2>1. pushed \o X \in Seq(B) /\ ToSet(pushed \o X) = ToSet(pushed) \cup ToSet(X)
    BY <1>5, ConcatIs
  <2> QED
    BY <1>1, <2>1
<1>7. pushed' \in Seq(ToSet(pushed'))
  BY <1>6, OwnElements
<1>8. ASSUME NEW e \in ToSet(pushed')
      PROVE  e.cwe_id \in 1 .. CweCount /\ e.cve_id \in Cves /\ Len(e.commit_hash) <= HashLen
  <2>1. CASE e \in ToSet(pushed)
    <3>1. PICK i \in DOMAIN pushed : e = pushed[i]
      BY <2>1, Zenon DEF ToSet
    <3> QED
      BY <1>0, <3>1 DEF TypeOK
  <2>2. CASE e \in ToSet(X)
    <3>1. PICK c \in ToSet(D) : e \in AllOf(c)
      BY <1>3, <2>2
    <3>2. c \in Cves
      BY <1>2, <3>1 DEF ToSet
    <3>3. e.cwe_id = cwe /\ e.cve_id = c /\ Len(e.commit_hash) <= HashLen
      BY <3>1, <3>2, EntryTyped
    <3>4. cwe \in 1 .. CweCount
      BY <1>0, <1>1, SweepAssumption DEF TypeInv, TypeOK
    <3> QED
      BY <3>2, <3>3, <3>4
  <2> QED
    BY <1>6, <2>1, <2>2
<1>9. \A i \in DOMAIN pushed' : pushed'[i] \in ToSet(pushed')
  BY Zenon DEF ToSet
<1>10. page' \in 0 .. total'
  BY <1>0, <1>1 DEF TypeOK
<1>11. (\A i \in DOMAIN pushed :
         /\ pushed[i].cwe_id \in 1 .. CweCount /\ pushed[i].cve_id \in Cves
         /\ Len(pushed[i].commit_hash) <= HashLen)'
  BY <1>8, <1>9, Zenon
<1>12. TypeOK'
  BY <1>0, <1>1, <1>4, <1>10, <1>11 DEF TypeOK
<1> QED
  BY <1>1, <1>7, <1>12 DEF TypeInv

\* No step of the sweep or of the NVD breaks TypeInv.
LEMMA TypeStep ==
  ASSUME TypeInv, PagesInv, [Next]_vars
  PROVE  TypeInv'
<1>0. /\ TypeOK
      /\ listed \in Seq(Cves) /\ changes \in 0 .. MaxChanges /\ cwe \in 1 .. CweCount + 1
      /\ start \in Int /\ end \in Int /\ at \in {"next cwe", "window", "pages", "returned"}
      /\ total \in Nat /\ page \in 0 .. total /\ parsed \in Seq(Cves) /\ stayed \subseteq Cves
      /\ assigned \in Nat /\ withdrawn \in Nat
      /\ at \in {"window", "pages"} => cwe <= CweCount
      /\ at = "returned" => cwe = CweCount + 1
  BY DEF TypeInv, TypeOK
<1>00. Before \in Int /\ Window \in Nat /\ After \in Int /\ CweCount \in Nat /\ MaxChanges \in Nat
  BY Lengths, SweepAssumption, NvdAssumption
<1>1. CASE StartCwe
  <2>1. start' \in Int /\ end' \in Int /\ at' = "window" /\ cwe' = cwe /\ cwe <= CweCount
    <3>1. Before - Window + 1 \in Int
      BY <1>00
    <3> QED
      BY <1>1, <1>00, <3>1 DEF StartCwe, Later
  <2>2. /\ pushed' = pushed /\ published' = published /\ listed' = listed /\ changes' = changes
        /\ total' = total /\ page' = page /\ parsed' = parsed /\ stayed' = stayed
        /\ assigned' = assigned /\ withdrawn' = withdrawn
    BY <1>1 DEF StartCwe, nvd, since
  <2> QED
    BY <1>0, <2>1, <2>2, TypeQuiet
<1>2. CASE Probe
  <2>1. /\ total' = Pages(Len(Results)) /\ page' = total' /\ at' = "pages" /\ at = "window"
        /\ parsed' = <<>> /\ stayed' = ToSet(Results) /\ assigned' = 0 /\ withdrawn' = 0
        /\ pushed' = pushed /\ published' = published /\ listed' = listed /\ changes' = changes
        /\ cwe' = cwe /\ start' = start /\ end' = end
    BY <1>2 DEF Probe, nvd, TotalResults
  <2>2. total' \in Nat /\ page' \in 0 .. total'
    <3>1. Pages(Len(Results)) \in Nat
      BY <1>0, ResultsTyped, RoomForAll
    <3> QED
      BY <2>1, <3>1
  <2>3. stayed' \subseteq Cves
    <3>1. Results \in Seq(Cves)
      BY <1>0, ResultsTyped
    <3> QED
      BY <2>1, <3>1 DEF ToSet
  <2>4. parsed' \in Seq(Cves) /\ assigned' \in Nat /\ withdrawn' \in Nat
    BY <2>1
  <2> QED
    BY <1>0, <2>1, <2>2, <2>3, <2>4, TypeQuiet
<1>3. CASE DownloadPage
  BY <1>3, TypeDownload
<1>4. CASE NextWindow
  <2>1. start' \in Int /\ end' \in Int /\ at' = "window" /\ cwe' = cwe /\ at = "pages"
    BY <1>0, <1>00, <1>4 DEF NextWindow, Later, Earlier
  <2>2. /\ pushed' = pushed /\ published' = published /\ listed' = listed /\ changes' = changes
        /\ total' = total /\ page' = page /\ parsed' = parsed /\ stayed' = stayed
        /\ assigned' = assigned /\ withdrawn' = withdrawn
    BY <1>4 DEF NextWindow, nvd, since
  <2> QED
    BY <1>0, <2>1, <2>2, TypeQuiet
<1>5. CASE CweDone
  <2>1. at = "window" /\ at' = "next cwe" /\ cwe' = cwe + 1 /\ start' = start /\ end' = end
    BY <1>5 DEF CweDone
  <2>2. /\ pushed' = pushed /\ published' = published /\ listed' = listed /\ changes' = changes
        /\ total' = total /\ page' = page /\ parsed' = parsed /\ stayed' = stayed
        /\ assigned' = assigned /\ withdrawn' = withdrawn
    BY <1>5 DEF CweDone, nvd, since
  <2>3. cwe' \in 1 .. CweCount + 1
    <3>1. cwe <= CweCount /\ cwe \in 1 .. CweCount + 1
      BY <1>0, <2>1
    <3>2. \A m \in Nat : \A n \in 1 .. m + 1 : n <= m => n + 1 \in 1 .. m + 1
      OBVIOUS
    <3> QED
      BY <1>00, <2>1, <3>1, <3>2, Zenon
  <2> QED
    BY <1>0, <2>1, <2>2, <2>3, TypeQuiet
<1>6. CASE Return
  <2>1. at' = "returned" /\ cwe' = cwe /\ cwe = CweCount + 1 /\ start' = start /\ end' = end
    BY <1>6 DEF Return
  <2>2. /\ pushed' = pushed /\ published' = published /\ listed' = listed /\ changes' = changes
        /\ total' = total /\ page' = page /\ parsed' = parsed /\ stayed' = stayed
        /\ assigned' = assigned /\ withdrawn' = withdrawn
    BY <1>6 DEF Return, nvd, since
  <2> QED
    BY <1>0, <2>1, <2>2, TypeQuiet
<1>7. ASSUME NEW c \in Cves, Assign(c) PROVE TypeInv'
  <2>1. /\ published' = published /\ cwe' = cwe /\ start' = start /\ end' = end /\ at' = at
        /\ total' = total /\ page' = page /\ pushed' = pushed /\ stayed' = stayed
        /\ parsed' = parsed /\ withdrawn' = withdrawn /\ assigned' = assigned + 1
        /\ changes' = changes + 1 /\ changes < MaxChanges
    BY <1>7 DEF Assign
  <2>2. PICK i \in 1 .. Len(listed) + 1 : listed' = InsertAt(listed, i, c)
    BY <1>7 DEF Assign
  <2>3. listed' \in Seq(Cves)
    <3> DEFINE a == SubSeq(listed, 1, i - 1)
               b == SubSeq(listed, i, Len(listed))
    <3>1. a \in Seq(Cves) /\ b \in Seq(Cves) /\ InsertAt(listed, i, c) = (a \o <<c>>) \o b
      BY <1>0, InsertedIs, ZenonT(40)
    <3> HIDE DEF a, b
    <3>2. (a \o <<c>>) \o b \in Seq(Cves)
      BY <3>1
    <3> QED
      BY <2>2, <3>1, <3>2
  <2>4. changes' \in 0 .. MaxChanges /\ assigned' \in Nat
    <3>1. changes \in 0 .. MaxChanges /\ assigned \in Nat
      BY <1>0
    <3> QED
      BY <1>00, <2>1, <3>1
  <2> QED
    BY <1>0, <2>1, <2>3, <2>4, TypeQuiet
<1>8. ASSUME NEW c \in Cves, Withdraw(c) PROVE TypeInv'
  <2>1. /\ published' = published /\ cwe' = cwe /\ start' = start /\ end' = end /\ at' = at
        /\ total' = total /\ page' = page /\ pushed' = pushed /\ stayed' = stayed \ {c}
        /\ parsed' = parsed /\ withdrawn' = withdrawn + 1 /\ assigned' = assigned
        /\ changes' = changes + 1 /\ changes < MaxChanges
    BY <1>8 DEF Withdraw
  <2>2. PICK i \in DOMAIN listed : listed' = RemoveAt(listed, i)
    BY <1>8 DEF Withdraw
  <2>3. listed' \in Seq(Cves)
    <3> DEFINE a == SubSeq(listed, 1, i - 1)
               b == SubSeq(listed, i + 1, Len(listed))
    <3>1. i \in 1 .. Len(listed)
      <4>1. listed \in Seq(Cves)
        BY <1>0
      <4> QED
        BY <2>2, <4>1
    <3>2. a \in Seq(Cves) /\ b \in Seq(Cves) /\ RemoveAt(listed, i) = a \o b
      BY <1>0, <3>1, RemovedIs, Zenon
    <3> HIDE DEF a, b
    <3>3. a \o b \in Seq(Cves)
      BY <3>2
    <3> QED
      BY <2>2, <3>2, <3>3
  <2>4. changes' \in 0 .. MaxChanges /\ withdrawn' \in Nat /\ stayed' \subseteq Cves
    <3>1. changes \in 0 .. MaxChanges /\ withdrawn \in Nat /\ stayed \subseteq Cves
      BY <1>0
    <3> QED
      BY <1>00, <2>1, <3>1
  <2> QED
    BY <1>0, <2>1, <2>3, <2>4, TypeQuiet
<1>9. CASE Ended \/ UNCHANGED vars
  <2>1. /\ pushed' = pushed /\ published' = published /\ listed' = listed /\ changes' = changes
        /\ total' = total /\ page' = page /\ parsed' = parsed /\ stayed' = stayed
        /\ assigned' = assigned /\ withdrawn' = withdrawn
        /\ cwe' = cwe /\ start' = start /\ end' = end /\ at' = at
    BY <1>9 DEF Ended, vars, nvd, since
  <2> QED
    BY <1>0, <2>1, TypeQuiet
<1> QED
  BY <1>1, <1>2, <1>3, <1>4, <1>5, <1>6, <1>7, <1>8, <1>9 DEF Next, Sweep

-----------------------------------------------------------------------------
(* The commits of a CVE, as the reference definition has them.             *)

\* The parts of a link and their places.
IsLink(l, path, hash) ==
  /\ Len(path) \in Nat /\ Len(hash) \in Nat
  /\ Len(l) = Len(path) + Len(hash) + 2
  /\ l[1] = Prefix
  /\ \A i \in 1 .. Len(path) : l[i + 1] = path[i]
  /\ l[Len(path) + 2] = Suffix
  /\ \A i \in 1 .. Len(hash) : l[Len(path) + 2 + i] = hash[i]

\* Where the parts of a link are in it.
LEMMA LinkIs ==
  ASSUME NEW T, NEW path \in Seq(T), NEW hash \in Seq(T), Prefix \in T, Suffix \in T
  PROVE  Link(<<path, hash>>) \in Seq(T) /\ IsLink(Link(<<path, hash>>), path, hash)
<1> DEFINE a == <<Prefix>> \o path
           b == a \o <<Suffix>>
           c == b \o hash
<1>1. a \in Seq(T) /\ Len(a) = Len(path) + 1 /\ a[1] = Prefix
      /\ \A i \in 1 .. Len(path) : a[i + 1] = path[i]
  OBVIOUS
<1>2. Len(path) \in Nat /\ Len(hash) \in Nat
  OBVIOUS
<1>3. Link(<<path, hash>>) = c
  BY DEF Link
<1> HIDE DEF a
<1>4. b \in Seq(T) /\ Len(b) = Len(a) + 1 /\ b[Len(a) + 1] = Suffix
      /\ \A i \in 1 .. Len(a) : b[i] = a[i]
  BY <1>1
<1> HIDE DEF b
<1>5. c \in Seq(T) /\ Len(c) = Len(b) + Len(hash)
      /\ (\A i \in 1 .. Len(b) : c[i] = b[i])
      /\ (\A i \in 1 .. Len(hash) : c[Len(b) + i] = hash[i])
  <2>1. c \in Seq(T) /\ Len(c) = Len(b) + Len(hash)
    BY <1>4
  <2>2. \A i \in 1 .. Len(b) : c[i] = b[i]
    BY <1>4, ConcatProperties
  <2>3. \A i \in 1 .. Len(hash) : c[Len(b) + i] = hash[i]
    BY <1>4, <2>1
  <2> QED
    BY <2>1, <2>2, <2>3
<1> HIDE DEF c
<1>6. Len(c) = Len(path) + Len(hash) + 2 /\ Len(b) = Len(path) + 2
  BY <1>1, <1>2, <1>4, <1>5
<1>7. c[1] = Prefix /\ c[Len(path) + 2] = Suffix
  BY <1>1, <1>2, <1>4, <1>5
<1>8. \A i \in 1 .. Len(path) : c[i + 1] = path[i]
  BY <1>1, <1>2, <1>4, <1>5
<1>9. \A i \in 1 .. Len(hash) : c[Len(path) + 2 + i] = hash[i]
  BY <1>2, <1>5, <1>6
<1> QED
  BY <1>2, <1>3, <1>5, <1>6, <1>7, <1>8, <1>9 DEF IsLink

\* A prefix is one element by element.
LEMMA PrefixIs ==
  ASSUME NEW T, NEW s \in Seq(T), NEW t \in Seq(T)
  PROVE  IsPrefix(s, t) <=> Len(s) <= Len(t) /\ \A i \in 1 .. Len(s) : s[i] = t[i]
<1>1. Len(s) \in Nat /\ Len(t) \in Nat
  OBVIOUS
<1>2. CASE Len(s) <= Len(t)
  <2> DEFINE u == SubSeq(s, 1, Len(s))
             v == SubSeq(t, 1, Len(s))
  <2>1. /\ u \in Seq(T) /\ Len(u) = Len(s) /\ (\A i \in 1 .. Len(s) : u[i] = s[i])
        /\ v \in Seq(T) /\ Len(v) = Len(s) /\ (\A i \in 1 .. Len(s) : v[i] = t[i])
    BY <1>1, <1>2
  <2> HIDE DEF u, v
  <2>2. u = v <=> \A i \in 1 .. Len(s) : s[i] = t[i]
    <3>1. ASSUME \A i \in 1 .. Len(s) : s[i] = t[i] PROVE u = v
      <4>1. \A i \in 1 .. Len(u) : u[i] = v[i]
        BY <2>1, <3>1
      <4> QED
        BY <2>1, <4>1, SeqEqual
    <3>2. ASSUME u = v PROVE \A i \in 1 .. Len(s) : s[i] = t[i]
      BY <2>1, <3>2
    <3> QED
      BY <3>1, <3>2
  <2> QED
    BY <1>2, <2>2 DEF IsPrefix, u, v
<1> QED
  BY <1>2 DEF IsPrefix

\* What is between the prefix and "/commit/".
LEMMA PathIs ==
  ASSUME NEW S, NEW url \in Seq(S), url # <<>>, SuffixAt(url) > 0
  PROVE  /\ RepoPath(url) \in Seq(S) /\ Len(RepoPath(url)) = SuffixAt(url) - 2
         /\ \A i \in 1 .. SuffixAt(url) - 2 : RepoPath(url)[i] = url[i + 1]
<1> DEFINE p == SuffixAt(url)
           r == RepoPath(url)
<1>1. p \in 0 .. Len(url) /\ p > 1 /\ Len(url) \in Nat
  BY SuffixIs
<1>2. r = SubSeq(url, 2, p - 1)
  BY Zenon DEF RepoPath
<1> HIDE DEF p, r
<1>3. \A i \in 2 .. p - 1 : url[i] \in S
  BY <1>1
<1>4. /\ r \in Seq(S)
      /\ Len(r) = IF 2 <= p - 1 THEN (p - 1) - 2 + 1 ELSE 0
      /\ \A i \in 1 .. (p - 1) - 2 + 1 : r[i] = url[2 + i - 1]
  BY <1>1, <1>2, <1>3, SubSeqProperties
<1>5. Len(r) = p - 2 /\ \A i \in 1 .. p - 2 : r[i] = url[i + 1]
  BY <1>1, <1>4
<1> QED
  BY <1>4, <1>5 DEF p, r

\* Exactly one path and hash make the link of a URL.
LEMMA LinkOf ==
  ASSUME NEW S, NEW url \in Seq(S), url # <<>>, NEW path \in Seq(S), NEW hash \in Seq(S)
  PROVE  (/\ Suffix \notin ToSet(path) /\ Len(hash) <= HashLen
          /\ IsPrefix(Link(<<path, hash>>), url)
          /\ Len(hash) = HashLen \/ Link(<<path, hash>>) = url)
         <=> SuffixAt(url) > 0 /\ path = RepoPath(url) /\ hash = CommitHash(url)
<1> DEFINE T == S \cup {Prefix, Suffix}
           p == SuffixAt(url)
           l == Link(<<path, hash>>)
           r == RepoPath(url)
           h == CommitHash(url)
           n == Len(url)
<1>0. HashLen \in Nat
  BY NvdAssumption
<1>1. url \in Seq(T) /\ path \in Seq(T) /\ hash \in Seq(T) /\ Prefix \in T /\ Suffix \in T
  <2>1. S \subseteq T /\ Prefix \in T /\ Suffix \in T
    OBVIOUS
  <2> HIDE DEF T
  <2> QED
    BY <2>1, SeqMonotonic
<1> HIDE DEF T, l
<1>2. /\ l \in Seq(T)
      /\ Len(path) \in Nat /\ Len(hash) \in Nat
      /\ Len(l) = Len(path) + Len(hash) + 2
      /\ l[1] = Prefix
      /\ \A i \in 1 .. Len(path) : l[i + 1] = path[i]
      /\ l[Len(path) + 2] = Suffix
      /\ \A i \in 1 .. Len(hash) : l[Len(path) + 2 + i] = hash[i]
  <2>1. l \in Seq(T) /\ IsLink(l, path, hash)
    BY <1>1, LinkIs, Zenon DEF l
  <2> QED
    BY <2>1 DEF IsLink
<1>3. IsPrefix(l, url) <=> Len(l) <= n /\ \A i \in 1 .. Len(l) : l[i] = url[i]
  <2>1. l \in Seq(T) /\ url \in Seq(T)
    BY <1>1, <1>2
  <2> QED
    BY <2>1, PrefixIs
<1>4. /\ p \in 0 .. n /\ n \in Nat
      /\ p > 0 => p > 1 /\ url[1] = Prefix /\ url[p] = Suffix /\ \A i \in 2 .. p - 1 : url[i] # Suffix
      /\ \A i \in 2 .. n : url[1] = Prefix /\ url[i] = Suffix => p > 0
  BY SuffixIs, Zenon
<1>5. p > 0 => /\ r \in Seq(S) /\ Len(r) = p - 2
               /\ \A i \in 1 .. p - 2 : r[i] = url[i + 1]
  BY PathIs, Zenon
<1>6. p > 0 => /\ h \in Seq(S) /\ Len(h) \in Nat
               /\ Len(h) <= HashLen /\ p + Len(h) <= n
               /\ Len(h) = HashLen \/ p + Len(h) = n
               /\ \A i \in 1 .. Len(h) : h[i] = url[p + i]
  <2> SUFFICES ASSUME p > 0
               PROVE  /\ h \in Seq(S) /\ Len(h) \in Nat
                      /\ Len(h) <= HashLen /\ p + Len(h) <= n
                      /\ Len(h) = HashLen \/ p + Len(h) = n
                      /\ \A i \in 1 .. Len(h) : h[i] = url[p + i]
    OBVIOUS
  <2>1. /\ h \in Seq(S) /\ Len(h) \in Nat
        /\ Len(h) <= HashLen /\ p + Len(h) <= n
        /\ Len(h) = HashLen \/ p + Len(h) = n
        /\ h = SubSeq(url, p + 1, p + Len(h))
    BY HashIs, Zenon
  <2> HIDE DEF p, n, h
  <2>2. \A i \in 1 .. n : url[i] \in S
    BY DEF n
  <2>3. \A i \in p + 1 .. p + Len(h) : url[i] \in S
    BY <1>4, <2>1, <2>2
  <2>4. \A i \in 1 .. (p + Len(h)) - (p + 1) + 1 : h[i] = url[(p + 1) + i - 1]
    <3> DEFINE k == p + Len(h)
    <3>1. p + 1 \in Int /\ k \in Int
      BY <1>4, <2>1
    <3>2. h = SubSeq(url, p + 1, k) /\ \A i \in p + 1 .. k : url[i] \in S
      BY <2>1, <2>3
    <3> HIDE DEF k
    <3>3. \A i \in 1 .. k - (p + 1) + 1 : SubSeq(url, p + 1, k)[i] = url[(p + 1) + i - 1]
      BY <3>1, <3>2, SubSeqProperties
    <3> QED
      BY <3>2, <3>3 DEF k
  <2>5. \A i \in 1 .. Len(h) : h[i] = url[p + i]
    BY <1>4, <2>1, <2>4
  <2> QED
    BY <2>1, <2>5
<1>7. \A i \in 1 .. Len(path) : path[i] \in ToSet(path)
  BY <1>2 DEF ToSet
<1> HIDE DEF p, r, h, n
<1>8. ASSUME Suffix \notin ToSet(path), Len(hash) <= HashLen, IsPrefix(l, url),
             Len(hash) = HashLen \/ l = url
      PROVE  p > 0 /\ path = r /\ hash = h
  <2>1. Len(l) <= n /\ \A i \in 1 .. Len(l) : l[i] = url[i]
    BY <1>3, <1>8
  <2>2. url[1] = Prefix /\ url[Len(path) + 2] = Suffix /\ Len(path) + 2 \in 2 .. n
    BY <1>2, <1>4, <2>1
  <2>3. p > 0
    BY <1>4, <2>2
  <2>4. p <= Len(path) + 2
    BY <1>2, <1>4, <2>2, <2>3
  <2>5. p >= Len(path) + 2
    <3> SUFFICES ASSUME p < Len(path) + 2 PROVE FALSE
      BY <1>2, <1>4
    <3>1. p - 1 \in 1 .. Len(path) /\ (p - 1) + 1 = p /\ p \in 1 .. Len(l)
      BY <1>2, <1>4, <2>3
    <3>2. path[p - 1] = url[p]
      BY <1>2, <2>1, <3>1
    <3> QED
      BY <1>4, <1>7, <1>8, <2>3, <3>1, <3>2
  <2>6. p = Len(path) + 2
    BY <1>2, <1>4, <2>4, <2>5
  <2>7. path = r
    <3>1. Len(r) = Len(path)
      BY <1>2, <1>4, <1>5, <2>3, <2>6
    <3>2. ASSUME NEW i \in 1 .. Len(path) PROVE path[i] = r[i]
      <4>1. i + 1 \in 1 .. Len(l) /\ i \in 1 .. p - 2
        BY <1>2, <2>6
      <4>2. path[i] = l[i + 1] /\ l[i + 1] = url[i + 1] /\ r[i] = url[i + 1]
        BY <1>2, <1>5, <2>1, <2>3, <4>1
      <4> QED
        BY <4>2
    <3> QED
      BY <1>5, <2>3, <3>1, <3>2, SeqEqual
  <2>8. Len(l) = p + Len(hash)
    BY <1>2, <1>4, <2>6
  <2>9. Len(hash) = HashLen \/ p + Len(hash) = n
    BY <1>8, <2>8 DEF n
  <2>10. Len(hash) = Len(h)
    BY <1>0, <1>2, <1>4, <1>6, <1>8, <2>1, <2>3, <2>8, <2>9
  <2>11. ASSUME NEW i \in 1 .. Len(hash) PROVE hash[i] = h[i]
    <3>1. p + i \in 1 .. Len(l) /\ i \in 1 .. Len(h)
      BY <1>2, <1>4, <2>8, <2>10
    <3>2. hash[i] = l[p + i] /\ l[p + i] = url[p + i] /\ h[i] = url[p + i]
      BY <1>2, <1>6, <2>1, <2>3, <2>6, <3>1
    <3> QED
      BY <3>2
  <2>12. hash = h
    BY <1>6, <2>3, <2>10, <2>11, SeqEqual
  <2> QED
    BY <2>3, <2>7, <2>12
<1>9. ASSUME p > 0, path = r, hash = h
      PROVE  /\ Suffix \notin ToSet(path) /\ Len(hash) <= HashLen /\ IsPrefix(l, url)
             /\ Len(hash) = HashLen \/ l = url
  <2>1. Len(path) = p - 2 /\ \A i \in 1 .. p - 2 : path[i] = url[i + 1]
    BY <1>5, <1>9
  <2>2. Suffix \notin ToSet(path)
    <3>1. ASSUME NEW i \in 1 .. p - 2 PROVE path[i] # Suffix
      <4>1. i + 1 \in 2 .. p - 1
        BY <1>4
      <4> QED
        BY <1>4, <1>9, <2>1, <4>1
    <3>2. DOMAIN path = 1 .. p - 2
      BY <2>1
    <3> QED
      BY <3>1, <3>2 DEF ToSet
  <2>3. /\ Len(hash) <= HashLen /\ p + Len(hash) <= n
        /\ Len(hash) = HashLen \/ p + Len(hash) = n
        /\ \A i \in 1 .. Len(hash) : hash[i] = url[p + i]
    BY <1>6, <1>9
  <2>4. Len(l) = p + Len(hash)
    BY <1>2, <1>4, <1>9, <2>1
  <2>5. ASSUME NEW i \in 1 .. Len(l) PROVE l[i] = url[i]
    <3>1. i \in Nat /\ (i = 1 \/ i - 1 \in 1 .. p - 2 \/ i = p \/ i - p \in 1 .. Len(hash))
      BY <1>2, <1>4, <1>9, <2>4
    <3>2. CASE i = 1
      BY <1>2, <1>4, <1>9, <3>2
    <3>3. CASE i - 1 \in 1 .. p - 2
      <4>1. l[(i - 1) + 1] = path[i - 1] /\ path[i - 1] = url[(i - 1) + 1]
        BY <1>2, <2>1, <3>3
      <4> QED
        BY <3>1, <4>1
    <3>4. CASE i = p
      BY <1>2, <1>4, <1>9, <2>1, <3>4
    <3>5. CASE i - p \in 1 .. Len(hash)
      <4>1. l[Len(path) + 2 + (i - p)] = hash[i - p] /\ hash[i - p] = url[p + (i - p)]
        BY <1>2, <2>3, <3>5
      <4> QED
        BY <1>2, <1>4, <2>1, <3>1, <4>1
    <3> QED
      BY <3>1, <3>2, <3>3, <3>4, <3>5
  <2>6. IsPrefix(l, url)
    BY <1>3, <2>3, <2>4, <2>5
  <2>7. p + Len(hash) = n => l = url
    <3> SUFFICES ASSUME p + Len(hash) = n PROVE l = url
      OBVIOUS
    <3>1. Len(l) = Len(url)
      BY <2>4 DEF n
    <3> QED
      BY <1>1, <1>2, <2>5, <3>1, SeqEqual
  <2> QED
    BY <2>2, <2>3, <2>6, <2>7
<1> QED
  BY <1>8, <1>9 DEF p, l, r, h

\* A slice of a URL is made of its symbols.
LEMMA SliceOf ==
  ASSUME NEW S, NEW url \in Seq(S)
  PROVE  Slices(url) \subseteq Seq(S)
<1> SUFFICES ASSUME NEW m \in 1 .. Len(url) + 1, NEW n \in 0 .. Len(url)
             PROVE  SubSeq(url, m, n) \in Seq(S)
  <2> SUFFICES ASSUME NEW s \in Slices(url) PROVE s \in Seq(S)
    OBVIOUS
  <2>1. PICK m \in 1 .. Len(url) + 1, n \in 0 .. Len(url) : s = SubSeq(url, m, n)
    BY DEF Slices
  <2> QED
    BY <2>1
<1>1. \A l \in m .. n : url[l] \in S
  OBVIOUS
<1>2. m \in Int /\ n \in Int
  OBVIOUS
<1> QED
  BY <1>1, <1>2, SubSeqProperties

\* What SubSeq cuts out of a URL is a slice of it.
LEMMA SliceIn ==
  ASSUME NEW url, NEW m \in 1 .. Len(url) + 1, NEW n \in 0 .. Len(url)
  PROVE  SubSeq(url, m, n) \in Slices(url)
  BY DEF Slices

\* A URL leads to the commit that nvd_parser_parse_cve cuts out of it.
LEMMA CommitAt ==
  ASSUME NEW S, NEW url \in Seq(S), url # <<>>
  PROVE  CommitsAt(url) =
           {k \in {<<RepoPath(url), CommitHash(url)>>} : SuffixAt(url) > 0}
<1> DEFINE p == SuffixAt(url)
           r == RepoPath(url)
           h == CommitHash(url)
           C == CommitsAt(url)
           Cut(k) == /\ Suffix \notin ToSet(k[1]) /\ Len(k[2]) <= HashLen
                     /\ IsPrefix(Link(k), url)
                     /\ Len(k[2]) = HashLen \/ Link(k) = url
<1>1. C = {k \in Slices(url) \X Slices(url) : Cut(k)}
  BY Zenon DEF CommitsAt
<1>2. ASSUME NEW a \in Seq(S), NEW b \in Seq(S)
      PROVE  Cut(<<a, b>>) <=> p > 0 /\ a = r /\ b = h
  <2> DEFINE k == <<a, b>>
  <2>1. k[1] = a /\ k[2] = b
    OBVIOUS
  <2>2. (/\ Suffix \notin ToSet(a) /\ Len(b) <= HashLen
         /\ IsPrefix(Link(k), url)
         /\ Len(b) = HashLen \/ Link(k) = url)
        <=> p > 0 /\ a = r /\ b = h
    BY LinkOf, Zenon
  <2> HIDE DEF k
  <2> QED
    BY <2>1, <2>2, Zenon DEF k
<1>3. p > 0 => r \in Slices(url) /\ h \in Slices(url)
  <2> SUFFICES ASSUME p > 0 PROVE r \in Slices(url) /\ h \in Slices(url)
    OBVIOUS
  <2>1. p \in 0 .. Len(url) /\ Len(url) \in Nat /\ p > 1
    BY SuffixIs
  <2>2. r = SubSeq(url, 2, p - 1)
    BY Zenon DEF RepoPath
  <2>3. h = SubSeq(url, p + 1, p + Len(h)) /\ Len(h) \in Nat /\ p + Len(h) <= Len(url)
    BY HashIs
  <2> HIDE DEF p, r, h
  <2>4. 2 \in 1 .. Len(url) + 1 /\ p - 1 \in 0 .. Len(url)
    BY <2>1
  <2>5. p + 1 \in 1 .. Len(url) + 1 /\ p + Len(h) \in 0 .. Len(url)
    BY <2>1, <2>3
  <2> QED
    BY <2>2, <2>3, <2>4, <2>5, SliceIn
<1>4. Slices(url) \subseteq Seq(S)
  BY SliceOf
<1> HIDE DEF p, r, h, C, Cut
<1>5. ASSUME NEW k \in C PROVE p > 0 /\ k = <<r, h>>
  <2>1. k \in Slices(url) \X Slices(url) /\ Cut(k)
    BY <1>1, <1>5
  <2>2. PICK a \in Slices(url), b \in Slices(url) : k = <<a, b>>
    BY <2>1
  <2> QED
    BY <1>2, <1>4, <2>1, <2>2
<1>6. ASSUME p > 0 PROVE <<r, h>> \in C
  <2>1. r \in Slices(url) /\ h \in Slices(url)
    BY <1>3, <1>6
  <2>2. Cut(<<r, h>>)
    BY <1>2, <1>4, <1>6, <2>1
  <2> QED
    BY <1>1, <2>1, <2>2
<1>7. C = {k \in {<<r, h>>} : p > 0}
  BY <1>5, <1>6
<1> QED
  BY <1>7 DEF C, p, r, h

\* The path and hash of each patch commit that a CVE refers to.
LEMMA CommitsAre ==
  ASSUME NEW c \in Cves
  PROVE  CommitsOf(c) = {<<RepoPath(References[c][i].url), CommitHash(References[c][i].url)>> :
                           i \in {n \in 1 .. Len(References[c]) : IsCommit(References[c][n])}}
<1> DEFINE refs == References[c]
           I == {n \in 1 .. Len(refs) : IsCommit(refs[n])}
           Cut(url) == <<RepoPath(url), CommitHash(url)>>
<1>1. refs \in Seq(ToSet(refs)) /\ ToSet(refs) = {refs[n] : n \in 1 .. Len(refs)}
  <2>1. refs \in Seq(ToSet(refs))
    BY NvdAssumption
  <2> HIDE DEF refs
  <2>2. DOMAIN refs = 1 .. Len(refs)
    BY <2>1
  <2> QED
    BY <2>1, <2>2, Zenon DEF ToSet
<1>2. ASSUME NEW ref \in ToSet(refs), ref.url # NULL
      PROVE  CommitsAt(ref.url) = {k \in {Cut(ref.url)} : SuffixAt(ref.url) > 0}
  <2> DEFINE url == ref.url
  <2>1. url \in Seq(ToSet(url)) /\ url # <<>>
    BY <1>2, NvdAssumption
  <2> HIDE DEF url
  <2>2. CommitsAt(url) = {k \in {<<RepoPath(url), CommitHash(url)>>} : SuffixAt(url) > 0}
    BY <2>1, CommitAt, Zenon
  <2> QED
    BY <2>2 DEF url
<1> DEFINE Patches == {ref \in ToSet(refs) : ref.url # NULL /\ ref.tags # NULL /\ "Patch" \in ref.tags}
<1>3. CommitsOf(c) = UNION {CommitsAt(ref.url) : ref \in Patches}
  BY DEF CommitsOf, PatchUrls
<1>4. \A ref \in ToSet(refs) : IsCommit(ref) <=> ref \in Patches /\ SuffixAt(ref.url) > 0
  BY DEF IsCommit, IsPatch
<1>5. \A ref \in Patches : ref \in ToSet(refs) /\ ref.url # NULL
  OBVIOUS
<1> HIDE DEF Patches, refs, Cut
<1>6. CommitsOf(c) = {Cut(ref.url) : ref \in {r \in ToSet(refs) : IsCommit(r)}}
  <2>1. ASSUME NEW k \in CommitsOf(c)
        PROVE  \E ref \in ToSet(refs) : IsCommit(ref) /\ k = Cut(ref.url)
    <3>1. PICK ref \in Patches : k \in CommitsAt(ref.url)
      BY <1>3, <2>1
    <3>2. k \in {j \in {Cut(ref.url)} : SuffixAt(ref.url) > 0} /\ ref \in ToSet(refs)
      BY <1>2, <1>5, <3>1
    <3> QED
      BY <1>4, <3>1, <3>2
  <2>2. ASSUME NEW ref \in ToSet(refs), IsCommit(ref) PROVE Cut(ref.url) \in CommitsOf(c)
    <3>1. ref \in Patches /\ SuffixAt(ref.url) > 0 /\ ref.url # NULL
      BY <1>4, <1>5, <2>2
    <3>2. Cut(ref.url) \in CommitsAt(ref.url)
      BY <1>2, <3>1
    <3> QED
      BY <1>3, <3>1, <3>2
  <2> QED
    BY <2>1, <2>2
<1>7. {r \in ToSet(refs) : IsCommit(r)} = {refs[n] : n \in I}
  BY <1>1
<1>8. {Cut(ref.url) : ref \in {refs[n] : n \in I}} = {Cut(refs[n].url) : n \in I}
  OBVIOUS
<1> QED
  BY <1>6, <1>7, <1>8 DEF Cut, refs

\* What nvd_parser_parse_cve collects is what the reference definition says.
LEMMA AllIsExpected ==
  ASSUME NEW c \in Cves
  PROVE  AllOf(c) = EntriesOf(cwe, c)
<1> DEFINE I == {n \in 1 .. Len(References[c]) : IsCommit(References[c][n])}
           E(k) == [cwe_id |-> cwe, cve_id |-> c, repo_name |-> k[1], commit_hash |-> k[2],
                    cve_description |-> Description(c), published |-> published[c]]
           K(i) == <<RepoPath(References[c][i].url), CommitHash(References[c][i].url)>>
<1>1. AllOf(c) = {NewEntry(c, References[c][i].url) : i \in I}
  BY Zenon DEF AllOf, Collected
<1>2. EntriesOf(cwe, c) = {E(k) : k \in CommitsOf(c)}
  BY Zenon DEF EntriesOf
<1>3. CommitsOf(c) = {K(i) : i \in I}
  BY CommitsAre, Zenon
<1>4. \A i \in I : NewEntry(c, References[c][i].url) = E(K(i))
  BY DEF NewEntry
<1> HIDE DEF I, E, K
<1> QED
  BY <1>1, <1>2, <1>3, <1>4

-----------------------------------------------------------------------------
(* What has been pushed.                                                   *)

\* Covered stays as it is when Done does for the CVEs in the range.
LEMMA CoveredSame ==
  ASSUME listed' = listed, published' = published,
         \A w \in 1 .. CweCount, c \in ToSet(listed) :
           w \in CwesOf[c] /\ published[c] \in After .. Before => (Done(w, c)' <=> Done(w, c))
  PROVE  Covered' = Covered
<1> DEFINE Pairs == (1 .. CweCount) \X ToSet(listed)
           In(p) == p[1] \in CwesOf[p[2]] /\ published[p[2]] \in After .. Before
<1>1. Covered = {p \in Pairs : In(p) /\ Done(p[1], p[2])}
  BY DEF Covered
<1>2. Covered' = {p \in Pairs : In(p) /\ Done(p[1], p[2])'}
  <2>1. ToSet(listed)' = ToSet(listed)
    BY DEF ToSet
  <2> QED
    BY <2>1 DEF Covered
<1>3. ASSUME NEW p \in Pairs, In(p) PROVE Done(p[1], p[2])' <=> Done(p[1], p[2])
  <2>1. p[1] \in 1 .. CweCount /\ p[2] \in ToSet(listed)
    BY <1>3
  <2> QED
    BY <1>3, <2>1
<1> HIDE DEF Pairs, In
<1> QED
  BY <1>1, <1>2, <1>3

\* PushedInv is kept by a step that pushes and covers nothing.
LEMMA PushedSame ==
  ASSUME PushedInv, changes' = changes, pushed' = pushed, published' = published,
         Covered' = Covered
  PROVE  PushedInv'
<1>1. NothingTwice(pushed)' <=> NothingTwice(pushed)
  BY DEF NothingTwice
<1>2. (ToSet(pushed) = UNION {EntriesOf(p[1], p[2]) : p \in Covered})'
        <=> ToSet(pushed) = UNION {EntriesOf(p[1], p[2]) : p \in Covered}
  BY DEF ToSet, EntriesOf
<1> QED
  BY <1>1, <1>2 DEF PushedInv

\* PushedInv holds before the first CWE: nothing is covered.
LEMMA PushedInit == Init => PushedInv
<1> SUFFICES ASSUME Init PROVE PushedInv
  OBVIOUS
<1>1. pushed = <<>> /\ cwe = 1 /\ at = "next cwe"
  BY DEF Init
<1>2. ToSet(<<>>) = {} /\ NothingTwice(<<>>)
  BY DEF ToSet, NothingTwice
<1>3. Covered = {}
  <2> SUFFICES ASSUME NEW p \in Covered PROVE FALSE
    OBVIOUS
  <2>1. p[1] \in 1 .. CweCount /\ Done(p[1], p[2])
    BY DEF Covered
  <2>2. ~(p[1] < 1)
    BY <2>1, SweepAssumption
  <2> QED
    BY <1>1, <2>1, <2>2 DEF Done
<1> QED
  BY <1>1, <1>2, <1>3 DEF PushedInv

\* The pages of a window push the entries of what they list.
LEMMA PushedDownload ==
  ASSUME TypeInv, PagesInv, SweepInv, PushedInv, DownloadPage
  PROVE  PushedInv'
<1> SUFFICES ASSUME changes' = 0
             PROVE  /\ NothingTwice(pushed')
                    /\ (ToSet(pushed) = UNION {EntriesOf(p[1], p[2]) : p \in Covered})'
  BY DEF PushedInv, NothingTwice
<1> DEFINE D == Reverse(PageOf(FromTheLast))
           X == Extract(D)
           E == UNION {AllOf(c) : c \in Cves}
           B == ToSet(pushed) \cup E
<1>0. TypeOK
  BY DEF TypeInv
<1>1. /\ pushed' = pushed \o X /\ listed' = listed /\ published' = published /\ changes' = changes
      /\ cwe' = cwe /\ at' = at /\ swept' = swept /\ at = "pages" /\ page > 0
  BY DEF DownloadPage, nvd
<1>2. /\ D \in Seq(Cves) /\ NothingTwice(D) /\ ToSet(D) \cap Passed = {}
      /\ ToSet(D) \subseteq ToSet(Results)
  BY <1>0, <1>1, PageTyped
<1>3. Passed' = Passed \cup ToSet(D)
  BY <1>0, PassedDownload
<1> HIDE DEF D
<1>4. ToSet(D) \subseteq ToSet(listed) \cap InWindow /\ ToSet(listed) \subseteq Cves
  <2>1. ToSet(Results) = ToSet(listed) \cap InWindow /\ listed \in Seq(Cves)
    BY <1>0, ResultsTyped
  <2>2. ToSet(listed) \subseteq Cves
    BY <2>1 DEF ToSet
  <2> QED
    BY <1>2, <2>1, <2>2
<1>5. /\ cwe \in 1 .. CweCount
      /\ start \in Int /\ end \in Int /\ start >= After /\ end <= Before
      /\ swept = {s \in After .. Before : s > end}
  <2>1. cwe \in 1 .. CweCount
    BY <1>0, <1>1, SweepAssumption DEF TypeInv, TypeOK
  <2> QED
    BY <1>1, <2>1, Lengths, SweepAssumption DEF SweepInv, Later
<1>6. ASSUME NEW c \in ToSet(D)
      PROVE  /\ c \in ToSet(listed) /\ cwe \in CwesOf[c] /\ published[c] \in After .. Before
             /\ published[c] \notin swept /\ c \notin Passed
  <2>1. c \in ToSet(listed) /\ cwe \in CwesOf[c] /\ published[c] \in start .. end
    BY <1>4, <1>6 DEF InWindow
  <2>2. published[c] \in After .. Before /\ ~(published[c] > end)
    BY <1>5, <2>1, Lengths, SweepAssumption
  <2> QED
    BY <1>2, <1>5, <1>6, <2>1, <2>2
<1>7. Covered' = Covered \cup {<<cwe, c>> : c \in ToSet(D)}
  <2> DEFINE Pairs == (1 .. CweCount) \X ToSet(listed)
             In(p) == p[1] \in CwesOf[p[2]] /\ published[p[2]] \in After .. Before
  <2>1. Covered = {p \in Pairs : In(p) /\ Done(p[1], p[2])}
    BY DEF Covered
  <2>2. Covered' = {p \in Pairs : In(p) /\ Done(p[1], p[2])'}
    <3>1. ToSet(listed)' = ToSet(listed)
      BY <1>1 DEF ToSet
    <3> QED
      BY <1>1, <3>1 DEF Covered
  <2>3. ASSUME NEW p \in Pairs
        PROVE  Done(p[1], p[2])' <=> Done(p[1], p[2]) \/ (p[1] = cwe /\ p[2] \in ToSet(D))
    BY <1>1, <1>3 DEF Done
  <2>4. \A p \in Pairs : p[1] = cwe /\ p[2] \in ToSet(D) <=> p \in {<<cwe, c>> : c \in ToSet(D)}
    OBVIOUS
  <2>5. \A c \in ToSet(D) : <<cwe, c>> \in Pairs /\ In(<<cwe, c>>)
    BY <1>5, <1>6
  <2> HIDE DEF Pairs, In
  <2> QED
    BY <2>1, <2>2, <2>3, <2>4, <2>5
<1>8. /\ X \in Seq(E) /\ NothingTwice(X)
      /\ ToSet(X) = UNION {EntriesOf(cwe, c) : c \in ToSet(D)}
  <2>1. X \in Seq(E) /\ ToSet(X) = UNION {AllOf(c) : c \in ToSet(D)} /\ NothingTwice(X)
    BY <1>2, ExtractAre
  <2>2. \A c \in ToSet(D) : AllOf(c) = EntriesOf(cwe, c)
    BY <1>4, AllIsExpected
  <2> HIDE DEF X, E
  <2> QED
    BY <2>1, <2>2
<1> HIDE DEF X
<1>9. pushed \in Seq(B) /\ X \in Seq(B)
  <2>1. ToSet(pushed) \subseteq B /\ E \subseteq B
    OBVIOUS
  <2>2. pushed \in Seq(ToSet(pushed))
    BY DEF TypeInv
  <2> HIDE DEF B, E
  <2> QED
    BY <1>8, <2>1, <2>2, SeqMonotonic
<1> HIDE DEF B, E
<1>10. NothingTwice(pushed) /\ ToSet(pushed) = UNION {EntriesOf(p[1], p[2]) : p \in Covered}
  BY <1>1 DEF PushedInv
<1>11. ToSet(pushed) \cap ToSet(X) = {}
  <2> SUFFICES ASSUME NEW e \in ToSet(pushed), e \in ToSet(X) PROVE FALSE
    OBVIOUS
  <2>1. PICK p \in Covered : e \in EntriesOf(p[1], p[2])
    BY <1>10
  <2>2. PICK c \in ToSet(D) : e \in EntriesOf(cwe, c)
    BY <1>8
  <2>3. p[1] = e.cwe_id /\ p[2] = e.cve_id /\ cwe = e.cwe_id /\ c = e.cve_id
    BY <2>1, <2>2 DEF EntriesOf
  <2>4. Done(cwe, c)
    BY <2>1, <2>3 DEF Covered
  <2> QED
    BY <1>5, <1>6, <2>2, <2>4 DEF Done
<1>12. /\ NothingTwice(pushed \o X)
       /\ ToSet(pushed \o X) = ToSet(pushed) \cup ToSet(X)
  BY <1>8, <1>9, <1>10, <1>11, ConcatIs
<1>13. ToSet(pushed)' = UNION {EntriesOf(p[1], p[2]) : p \in Covered'}
  <2> DEFINE F(p) == EntriesOf(p[1], p[2])
  <2>1. ToSet(X) = UNION {F(p) : p \in {<<cwe, c>> : c \in ToSet(D)}}
    <3>1. \A c \in ToSet(D) : F(<<cwe, c>>) = EntriesOf(cwe, c)
      OBVIOUS
    <3> HIDE DEF F
    <3> QED
      BY <1>8, <3>1
  <2>2. ToSet(pushed)' = ToSet(pushed) \cup ToSet(X)
    BY <1>1, <1>12
  <2> QED
    BY <1>7, <1>10, <2>1, <2>2
<1>14. \A w, c : EntriesOf(w, c)' = EntriesOf(w, c)
  BY <1>1 DEF EntriesOf
<1> QED
  BY <1>1, <1>12, <1>13, <1>14

\* No step of the sweep or of the NVD breaks PushedInv.
LEMMA PushedStep ==
  ASSUME TypeInv, PagesInv, SweepInv, PushedInv, [Next]_vars
  PROVE  PushedInv'
<1>0. /\ TypeOK /\ cwe \in Nat /\ cwe \in 1 .. CweCount + 1 /\ CweCount \in Nat
      /\ listed \in Seq(Cves) /\ page \in Nat
  <2>1. TypeOK
    BY DEF TypeInv
  <2>2. /\ cwe \in 1 .. CweCount + 1 /\ CweCount \in Nat /\ total \in Nat
        /\ listed \in Seq(Cves) /\ page \in 0 .. total
    BY <2>1, SweepAssumption DEF TypeOK
  <2>3. cwe \in Nat /\ page \in Nat
    BY <2>2
  <2> QED
    BY <2>1, <2>2, <2>3
<1>1. CASE StartCwe
  <2>1. /\ listed' = listed /\ published' = published /\ changes' = changes /\ pushed' = pushed
        /\ cwe' = cwe /\ at = "next cwe" /\ at' = "window" /\ swept' = {}
    BY <1>1 DEF StartCwe, nvd
  <2>2. \A w \in 1 .. CweCount, c \in ToSet(listed) : Done(w, c)' <=> Done(w, c)
    BY <2>1 DEF Done
  <2> QED
    BY <2>1, <2>2, CoveredSame, PushedSame
<1>2. CASE Probe
  <2>1. /\ listed' = listed /\ published' = published /\ changes' = changes /\ pushed' = pushed
        /\ cwe' = cwe /\ at = "window" /\ at' = "pages" /\ swept' = swept
    BY <1>2 DEF Probe, nvd
  <2>2. Passed' = {}
    BY <1>0, <1>2, PassedProbe
  <2>3. \A w \in 1 .. CweCount, c \in ToSet(listed) : Done(w, c)' <=> Done(w, c)
    BY <2>1, <2>2 DEF Done
  <2> QED
    BY <2>1, <2>3, CoveredSame, PushedSame
<1>3. CASE DownloadPage
  BY <1>3, PushedDownload
<1>4. CASE NextWindow
  <2>1. /\ listed' = listed /\ published' = published /\ changes' = changes /\ pushed' = pushed
        /\ cwe' = cwe /\ at = "pages" /\ at' = "window" /\ page = 0
        /\ swept' = swept \cup (start .. end)
    BY <1>4 DEF NextWindow, nvd
  <2>2. Passed = ToSet(listed) \cap InWindow /\ ToSet(listed) \subseteq Cves
    <3>1. Passed = ToSet(Results)
      BY <1>0, <2>1, PassedAll
    <3>2. ToSet(Results) = ToSet(listed) \cap InWindow
      BY <1>0, ResultsTyped
    <3> QED
      BY <1>0, <3>1, <3>2 DEF ToSet
  <2>3. ASSUME NEW w \in 1 .. CweCount, NEW c \in ToSet(listed), w \in CwesOf[c]
        PROVE  Done(w, c)' <=> Done(w, c)
    <3>1. w = cwe => (c \in Passed <=> published[c] \in start .. end)
      BY <2>2, <2>3 DEF InWindow
    <3> QED
      BY <2>1, <3>1 DEF Done
  <2> QED
    BY <2>1, <2>3, CoveredSame, PushedSame
<1>5. CASE CweDone
  <2>1. /\ listed' = listed /\ published' = published /\ changes' = changes /\ pushed' = pushed
        /\ cwe' = cwe + 1 /\ at = "window" /\ at' = "next cwe" /\ swept' = swept
    BY <1>5 DEF CweDone, nvd
  <2>2. SweepInv'
    BY <1>5, CweDoneKeeps
  <2>3. swept = After .. Before
    <3>1. cwe + 1 > 1
      BY <1>0
    <3> QED
      BY <2>1, <2>2, <3>1 DEF SweepInv
  <2>4. ASSUME NEW w \in 1 .. CweCount, NEW c \in ToSet(listed), published[c] \in After .. Before
        PROVE  Done(w, c)' <=> Done(w, c)
    <3>1. w < cwe + 1 <=> w < cwe \/ w = cwe
      BY <1>0
    <3> QED
      BY <2>1, <2>3, <2>4, <3>1 DEF Done
  <2> QED
    BY <2>1, <2>4, CoveredSame, PushedSame
<1>6. CASE Return
  <2>1. /\ listed' = listed /\ published' = published /\ changes' = changes /\ pushed' = pushed
        /\ cwe' = cwe /\ at = "next cwe" /\ at' = "returned"
    BY <1>6 DEF Return, nvd
  <2>2. \A w \in 1 .. CweCount, c \in ToSet(listed) : Done(w, c)' <=> Done(w, c)
    BY <2>1 DEF Done
  <2> QED
    BY <2>1, <2>2, CoveredSame, PushedSame
<1>7. ASSUME NEW c \in Cves, Assign(c) \/ Withdraw(c) PROVE PushedInv'
  <2>1. changes' = changes + 1 /\ changes \in 0 .. MaxChanges
    BY <1>0, <1>7 DEF Assign, Withdraw, TypeOK
  <2>2. changes' # 0
    BY <2>1
  <2> QED
    BY <2>2 DEF PushedInv
<1>8. CASE Ended \/ UNCHANGED vars
  <2>1. /\ listed' = listed /\ published' = published /\ changes' = changes /\ pushed' = pushed
        /\ cwe' = cwe /\ start' = start /\ end' = end /\ at' = at /\ swept' = swept /\ page' = page
    BY <1>8 DEF Ended, vars, nvd
  <2>2. Passed' = Passed
    <3>1. Results' = Results
      BY <2>1, ResultsSame
    <3> QED
      BY <2>1, <3>1 DEF Passed
  <2>3. \A w \in 1 .. CweCount, c \in ToSet(listed) : Done(w, c)' <=> Done(w, c)
    BY <2>1, <2>2 DEF Done
  <2> QED
    BY <2>1, <2>3, CoveredSame, PushedSame
<1> QED
  BY <1>1, <1>2, <1>3, <1>4, <1>5, <1>6, <1>7, <1>8 DEF Next, Sweep

\* A finished sweep has covered every CVE of every CWE.
LEMMA AllPushed ==
  ASSUME TypeInv, PushedInv
  PROVE  EachCommitOnce
<1> SUFFICES ASSUME at = "returned", changes = 0
             PROVE  ToSet(pushed) = Expected /\ NothingTwice(pushed)
  BY DEF EachCommitOnce, NothingTwice
<1>1. listed \in Seq(Cves) /\ cwe = CweCount + 1 /\ CweCount \in Nat
  BY SweepAssumption DEF TypeInv, TypeOK
<1>2. ToSet(listed) \subseteq Cves
  BY <1>1 DEF ToSet
<1>3. \A c \in Cves : CwesOf[c] \subseteq 1 .. CweCount
  BY NvdAssumption
<1>4. NothingTwice(pushed) /\ ToSet(pushed) = UNION {EntriesOf(p[1], p[2]) : p \in Covered}
  BY DEF PushedInv
<1> DEFINE In == {d \in ToSet(listed) : published[d] \in After .. Before}
<1>5. Expected = UNION {UNION {EntriesOf(w, c) : w \in CwesOf[c]} : c \in In}
  BY Zenon DEF Expected
<1>6. ASSUME NEW c \in In, NEW w \in CwesOf[c] PROVE <<w, c>> \in Covered
  <2>1. w \in 1 .. CweCount /\ w < cwe
    BY <1>1, <1>2, <1>3, <1>6
  <2>2. Done(w, c)
    BY <2>1 DEF Done
  <2>3. c \in ToSet(listed) /\ published[c] \in After .. Before
    BY <1>6
  <2> QED
    BY <1>6, <2>1, <2>2, <2>3 DEF Covered
<1>7. \A p \in Covered : p[2] \in In /\ p[1] \in CwesOf[p[2]]
  BY DEF Covered
<1> HIDE DEF In
<1>8. ASSUME NEW e \in ToSet(pushed) PROVE e \in Expected
  <2>1. PICK p \in Covered : e \in EntriesOf(p[1], p[2])
    BY <1>4, <1>8
  <2> DEFINE c == p[2]
             w == p[1]
  <2>2. c \in In /\ w \in CwesOf[c] /\ e \in EntriesOf(w, c)
    BY <1>7, <2>1
  <2> HIDE DEF c, w
  <2> QED
    BY <1>5, <2>2
<1>9. ASSUME NEW e \in Expected PROVE e \in ToSet(pushed)
  <2>1. PICK c \in In : e \in UNION {EntriesOf(w, c) : w \in CwesOf[c]}
    BY <1>5, <1>9, Zenon
  <2>2. PICK w \in CwesOf[c] : e \in EntriesOf(w, c)
    BY <2>1, Zenon
  <2> DEFINE p == <<w, c>>
  <2>3. p \in Covered /\ p[1] = w /\ p[2] = c
    BY <1>6
  <2> HIDE DEF p
  <2>4. e \in EntriesOf(p[1], p[2])
    BY <2>2, <2>3, Zenon
  <2> QED
    BY <1>4, <2>3, <2>4, Zenon
<1> QED
  BY <1>4, <1>8, <1>9

-----------------------------------------------------------------------------
(* The theorems.                                                           *)

\* The invariants that hold together in every state of every sweep.
THEOREM PagesInvariance == Spec => [](TypeInv /\ PagesInv)
<1>1. Init => TypeInv /\ PagesInv
  BY TypeInit, PagesInit
<1>2. TypeInv /\ PagesInv /\ [Next]_vars => (TypeInv /\ PagesInv)'
  <2> SUFFICES ASSUME TypeInv, PagesInv, [Next]_vars PROVE TypeInv' /\ PagesInv'
    OBVIOUS
  <2>1. TypeInv'
    BY TypeStep
  <2>2. TypeOK
    BY DEF TypeInv
  <2>3. PagesInv'
    BY <2>2, PagesStep
  <2> QED
    BY <2>1, <2>3
<1> QED
  BY <1>1, <1>2, PTL DEF Spec

\* The variables of nvd_request, and the entries it pushes, have their types: an entry
\* names a configured CWE and a CVE, and its hash is cut at COMMIT_HASH_LEN.
THEOREM SweepTypes == Spec => []TypeOK
<1>1. TypeInv /\ PagesInv => TypeOK
  BY DEF TypeInv
<1> QED
  BY <1>1, PagesInvariance, PTL

\* Downloading the pages of a window from the last to the first loses a CVE that
\* stayed listed only to an assignment, and repeats one only for a withdrawal.
THEOREM ChangesDisturb == Spec => []OnlyChangesDisturb
<1>1. TypeInv /\ PagesInv => OnlyChangesDisturb
  BY AllBehind DEF TypeInv
<1> QED
  BY <1>1, PagesInvariance, PTL

\* What has been pushed is always what has been covered.
THEOREM PushedInvariance == Spec => []PushedInv
<1> DEFINE IInv == TypeInv /\ PagesInv /\ SweepInv
<1>1. Spec => []IInv
  BY PagesInvariance, SweepInvariance, PTL
<1>2. IInv /\ PushedInv /\ [Next]_vars => PushedInv'
  BY PushedStep
<1> HIDE DEF IInv
<1> QED
  BY <1>1, <1>2, PushedInit, PTL DEF Spec

\* A sweep of an NVD that does not change pushes every patch commit of every CVE of
\* the configured CWEs and dates, and none twice.
THEOREM EachOnce == Spec => []EachCommitOnce
<1>1. TypeInv /\ PagesInv /\ PushedInv => EachCommitOnce
  BY AllPushed
<1> QED
  BY <1>1, PagesInvariance, PushedInvariance, PTL
=============================================================================
