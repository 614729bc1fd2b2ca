--------------------------- MODULE DisplayProofs ---------------------------
(***************************************************************************)
(* What the progress display of src/src/history.c shows during a run, for  *)
(* any entries, workers, CWEs and number of restarts.                      *)
(***************************************************************************)
EXTENDS PipelineProofs

\* The unsigned counters: they stay in their width, and count as integers do
\* between its ends.
LEMMA Unsigned ==
  ASSUME NEW x \in Counts
  PROVE  /\ UintMod \in Nat \ {0, 1}
         /\ \A n \in Int : Plus(x, n) \in Counts
         /\ x + 1 < UintMod => Plus(x, 1) = x + 1
         /\ x > 0 => Plus(x, -1) = x - 1
         /\ \A n \in 0 .. x : Plus(x, -n) = x - n
<1>1. UintMod \in Nat \ {0, 1} /\ x \in 0 .. UintMod - 1
  BY HistoryAssumption DEF Counts
<1>2. \A n \in Int : (x + n) % UintMod \in 0 .. UintMod - 1
  BY <1>1
<1>3. \A y \in 0 .. UintMod - 1 : y % UintMod = y
  BY <1>1
<1> QED
  BY <1>1, <1>2, <1>3 DEF Plus, Counts

-----------------------------------------------------------------------------
(* The operations of the display.                                          *)

\* A display whose cursor is where the last redraw has left it, and whose
\* sections are what the program may have made of them.
Formed(h) ==
  /\ h \in [section : [SectionNames -> Sections], previous : Int, top : Int, cursor : Int]
  /\ \A s \in SectionNames : Len(h.section[s].lines) <= SectionLen

\* A redraw starts where the last one did.
LEMMA Redrawn ==
  ASSUME NEW h, NEW g, Shown(h), Formed(g),
         g.previous = h.previous, g.top = h.top, g.cursor = h.cursor
  PROVE  Shown(Display(g)) /\ Display(g).section = g.section
<1>1. /\ g.top = 0 /\ g.previous \in Int /\ g.cursor \in Int
      /\ \/ g.previous = -1 /\ g.cursor = 0
         \/ g.previous >= 0 /\ g.cursor = g.previous + 6
  BY DEF Shown, Formed
<1>2. Drawn(g.section) \in Nat
  <2>1. \A s \in SectionNames : Len(g.section[s].lines) \in Nat
    BY LenProperties DEF Formed, Sections
  <2>2. {"nvd", "github", "parsing"} \subseteq SectionNames
    BY DEF SectionNames
  <2>3. /\ Len(g.section["nvd"].lines) \in Nat
        /\ Len(g.section["github"].lines) \in Nat
        /\ Len(g.section["parsing"].lines) \in Nat
    BY <2>1, <2>2
  <2> DEFINE a == Len(g.section["nvd"].lines)
             b == Len(g.section["github"].lines)
             c == Len(g.section["parsing"].lines)
  <2>4. Drawn(g.section) = a + b + c
    BY DEF Drawn
  <2>5. a \in Nat /\ b \in Nat /\ c \in Nat
    BY <2>3
  <2> HIDE DEF a, b, c
  <2>6. a + b + c \in Nat
    BY <2>5
  <2> QED
    BY <2>4, <2>6
<1> DEFINE start == g.cursor - IF g.previous < 0 THEN 0 ELSE g.previous + 6
<1>3. start = 0
  BY <1>1
<1>4. PICK d \in Nat : d = Drawn(g.section)
  BY <1>2
<1>5. Display(g) = [section |-> g.section, previous |-> d, top |-> 0, cursor |-> d + 6]
  <2>1. Display(g) = [g EXCEPT !.previous = d, !.top = start, !.cursor = start + d + 6]
    BY <1>4 DEF Display
  <2>2. start + d + 6 = d + 6
    BY <1>3, <1>4
  <2> HIDE DEF start
  <2>3. Display(g) = [g EXCEPT !.previous = d, !.top = 0, !.cursor = d + 6]
    BY <1>3, <2>1, <2>2, Zenon
  <2> QED
    BY <2>3 DEF Formed
<1>6. /\ Display(g).section = g.section /\ Display(g).top = 0
      /\ Display(g).previous = d /\ Display(g).cursor = d + 6
      /\ Display(g) \in [section : [SectionNames -> Sections], previous : Int, top : Int,
                         cursor : Int]
  BY <1>4, <1>5 DEF Formed
<1> QED
  BY <1>4, <1>6 DEF Shown, Formed

\* A display with another section, redrawn.
LEMMA SectionRedrawn ==
  ASSUME NEW h, Shown(h), NEW s \in SectionNames, NEW sec \in Sections,
         Len(sec.lines) <= SectionLen
  PROVE  LET g == Display([h EXCEPT !.section[s] = sec])
         IN  /\ Shown(g)
             /\ g.section[s] = sec
             /\ \A t \in SectionNames : t # s => g.section[t] = h.section[t]
<1> DEFINE f == [h EXCEPT !.section[s] = sec]
<1>1. /\ h \in [section : [SectionNames -> Sections], previous : Int, top : Int, cursor : Int]
      /\ \A t \in SectionNames : Len(h.section[t].lines) <= SectionLen
  BY DEF Shown
<1>2. /\ f \in [section : [SectionNames -> Sections], previous : Int, top : Int, cursor : Int]
      /\ f.section[s] = sec
      /\ \A t \in SectionNames : t # s => f.section[t] = h.section[t]
      /\ f.previous = h.previous /\ f.top = h.top /\ f.cursor = h.cursor
  BY <1>1
<1>3. Formed(f)
  BY <1>1, <1>2 DEF Formed
<1>4. Shown(Display(f)) /\ Display(f).section = f.section
  BY <1>2, <1>3, Redrawn
<1> QED
  BY <1>2, <1>4

\* The sections of a display that is shown.
LEMMA SectionTypes ==
  ASSUME NEW h, Shown(h), NEW s \in SectionNames
  PROVE  /\ h.section[s] \in Sections
         /\ h.section[s].pending \in Counts /\ h.section[s].ongoing \in Counts
         /\ h.section[s].done \in Counts /\ h.section[s].pushed \in Counts
         /\ h.section[s].lines \in Seq(Lines)
         /\ Len(h.section[s].lines) \in Nat
         /\ Len(h.section[s].lines) <= SectionLen
<1>1. h.section[s] \in Sections /\ Len(h.section[s].lines) <= SectionLen
  BY DEF Shown
<1> QED
  BY <1>1, LenProperties DEF Sections

\* What the operations do to the section s, and that they leave the others.
LEMMA PendingSet ==
  ASSUME NEW h, Shown(h), NEW s \in SectionNames, NEW n \in Counts
  PROVE  LET g == SetPending(h, s, n)
         IN  /\ Shown(g)
             /\ g.section[s].pending = n
             /\ g.section[s].ongoing = h.section[s].ongoing
             /\ g.section[s].done = h.section[s].done
             /\ g.section[s].pushed = h.section[s].pushed
             /\ g.section[s].lines = h.section[s].lines
             /\ \A t \in SectionNames : t # s => g.section[t] = h.section[t]
<1> DEFINE sec == [h.section[s] EXCEPT !.pending = n]
<1>1. /\ sec \in Sections /\ Len(sec.lines) <= SectionLen
      /\ sec.pending = n /\ sec.ongoing = h.section[s].ongoing /\ sec.done = h.section[s].done
      /\ sec.pushed = h.section[s].pushed /\ sec.lines = h.section[s].lines
  BY SectionTypes DEF Sections
<1>2. [h EXCEPT !.section[s].pending = n] = [h EXCEPT !.section[s] = sec]
  BY DEF Shown
<1> HIDE DEF sec
<1> QED
  BY <1>1, <1>2, SectionRedrawn DEF SetPending

LEMMA PendingIncremented ==
  ASSUME NEW h, Shown(h), NEW s \in SectionNames
  PROVE  LET g == IncrementPending(h, s)
         IN  /\ Shown(g)
             /\ g.section[s].pending = Plus(h.section[s].pending, 1)
             /\ g.section[s].ongoing = h.section[s].ongoing
             /\ g.section[s].done = h.section[s].done
             /\ g.section[s].pushed = h.section[s].pushed
             /\ g.section[s].lines = h.section[s].lines
             /\ \A t \in SectionNames : t # s => g.section[t] = h.section[t]
<1> DEFINE n == Plus(h.section[s].pending, 1)
           sec == [h.section[s] EXCEPT !.pending = n]
<1>1. n \in Counts
  BY SectionTypes, Unsigned
<1>2. /\ sec \in Sections /\ Len(sec.lines) <= SectionLen
      /\ sec.pending = n /\ sec.ongoing = h.section[s].ongoing /\ sec.done = h.section[s].done
      /\ sec.pushed = h.section[s].pushed /\ sec.lines = h.section[s].lines
  BY <1>1, SectionTypes DEF Sections
<1>3. [h EXCEPT !.section[s].pending = Plus(@, 1)] = [h EXCEPT !.section[s] = sec]
  BY DEF Shown
<1> HIDE DEF sec
<1> QED
  BY <1>2, <1>3, SectionRedrawn DEF IncrementPending

\* The lines of a section, newest first, when one is added.
LEMMA Shifted ==
  ASSUME NEW lines \in Seq(Lines), Len(lines) <= SectionLen, NEW new \in Lines
  PROVE  LET n == IF Len(lines) < SectionLen THEN Len(lines) + 1 ELSE SectionLen
         IN  /\ Shift(new, lines) \in Seq(Lines)
             /\ Len(Shift(new, lines)) = n
             /\ Shift(new, lines)[1] = new
             /\ \A i \in 2 .. n : Shift(new, lines)[i] = lines[i - 1]
<1> DEFINE kept == IF Len(lines) < SectionLen THEN Len(lines) ELSE SectionLen - 1
           rest == SubSeq(lines, 1, kept)
<1>1. SectionLen \in Nat \ {0} /\ Len(lines) \in Nat
  BY HistoryAssumption, LenProperties
<1>2. kept \in 0 .. Len(lines)
  BY <1>1
<1>3. \A i \in 1 .. kept : lines[i] \in Lines
  BY <1>1, <1>2, ElementOfSeq
<1>4. /\ rest \in Seq(Lines) /\ Len(rest) = kept
      /\ \A i \in 1 .. kept : rest[i] = lines[i]
  <2>1. /\ rest \in Seq(Lines)
        /\ Len(rest) = IF 1 <= kept THEN kept - 1 + 1 ELSE 0
        /\ \A i \in 1 .. kept - 1 + 1 : rest[i] = lines[1 + i - 1]
    BY <1>1, <1>2, <1>3, SubSeqProperties, Z3
  <2> QED
    BY <1>1, <1>2, <2>1
<1>5. <<new>> \in Seq(Lines) /\ Len(<<new>>) = 1 /\ <<new>>[1] = new
  OBVIOUS
<1>6. /\ Shift(new, lines) = <<new>> \o rest
      /\ <<new>> \o rest \in Seq(Lines)
      /\ Len(<<new>> \o rest) = 1 + kept
      /\ \A i \in 1 .. 1 + kept : (<<new>> \o rest)[i] = IF i <= 1 THEN <<new>>[i] ELSE rest[i - 1]
  BY <1>4, <1>5, ConcatProperties DEF Shift
<1> HIDE DEF rest
<1> QED
  BY <1>1, <1>2, <1>4, <1>5, <1>6

\* When one is given another text.
Told(lines, i, t) == [lines EXCEPT ![i].text = t]

LEMMA Retold ==
  ASSUME NEW lines \in Seq(Lines), NEW i \in Int, NEW t \in {"new", "working", "done"}
  PROVE  /\ Told(lines, i, t) \in Seq(Lines)
         /\ Len(Told(lines, i, t)) = Len(lines)
         /\ \A j \in 1 .. Len(lines) :
              Told(lines, i, t)[j] = IF j = i THEN [who |-> lines[j].who, text |-> t] ELSE lines[j]
<1> DEFINE told == Told(lines, i, t)
<1>1. lines \in [1 .. Len(lines) -> Lines] /\ Len(lines) \in Nat
  BY LenProperties
<1>2. CASE i \in 1 .. Len(lines)
  <2>1. [who |-> lines[i].who, text |-> t] \in Lines
    BY <1>1, <1>2 DEF Lines
  <2>2. told = [lines EXCEPT ![i] = [who |-> lines[i].who, text |-> t]]
    <3>1. told = [lines EXCEPT ![i] = [lines[i] EXCEPT !.text = t]]
      BY DEF Told
    <3>2. lines[i] \in Lines
      BY <1>1, <1>2
    <3>3. [lines[i] EXCEPT !.text = t] = [who |-> lines[i].who, text |-> t]
      BY <3>2 DEF Lines
    <3> QED
      BY <3>1, <3>3
  <2> QED
    BY <1>2, <2>1, <2>2, ExceptSeq
<1>3. CASE i \notin 1 .. Len(lines)
  <2>1. told = lines
    BY <1>1, <1>3 DEF Told
  <2> QED
    BY <1>3, <2>1
<1> QED
  BY <1>2, <1>3

LEMMA LineAdded ==
  ASSUME NEW h, Shown(h), NEW s \in SectionNames, NEW who \in Entries \cup 0 .. CweCount
  PROVE  LET g == AddLine(h, s, who)
             old == h.section[s]
         IN  /\ Shown(g)
             /\ g.section[s].pending = Plus(old.pending, -1)
             /\ g.section[s].ongoing = Plus(old.ongoing, 1)
             /\ g.section[s].done = old.done
             /\ g.section[s].pushed = Plus(old.pushed, 1)
             /\ g.section[s].lines = Shift([who |-> who, text |-> "new"], old.lines)
             /\ \A t \in SectionNames : t # s => g.section[t] = h.section[t]
<1> DEFINE old == h.section[s]
           new == [who |-> who, text |-> "new"]
           sec == [pending |-> Plus(old.pending, -1), ongoing |-> Plus(old.ongoing, 1),
                   done |-> old.done, pushed |-> Plus(old.pushed, 1),
                   lines |-> Shift(new, old.lines)]
<1>1. new \in Lines
  BY DEF Lines
<1>2. /\ Shift(new, old.lines) \in Seq(Lines)
      /\ Len(Shift(new, old.lines)) <= SectionLen
  <2>1. SectionLen \in Nat \ {0} /\ Len(old.lines) \in Nat /\ Len(old.lines) <= SectionLen
    BY HistoryAssumption, SectionTypes
  <2>2. PICK lines \in Seq(Lines) : lines = old.lines
    BY SectionTypes
  <2>3. PICK line1 \in Lines : line1 = new
    BY <1>1
  <2> HIDE DEF new
  <2>4. /\ Shift(line1, lines) \in Seq(Lines)
        /\ Len(Shift(line1, lines)) = IF Len(lines) < SectionLen THEN Len(lines) + 1
                                      ELSE SectionLen
    BY <2>1, <2>2, Shifted
  <2> QED
    BY <2>1, <2>2, <2>3, <2>4
<1>3. Plus(old.pending, -1) \in Counts /\ Plus(old.ongoing, 1) \in Counts
      /\ Plus(old.pushed, 1) \in Counts /\ old.done \in Counts
  BY SectionTypes, Unsigned
<1>4. sec \in Sections /\ Len(sec.lines) <= SectionLen
  BY <1>2, <1>3 DEF Sections
<1>5. AddLine(h, s, who) = Display([h EXCEPT !.section[s] = sec])
  BY DEF AddLine
<1> HIDE DEF new
<1> QED
  BY <1>4, <1>5, SectionRedrawn DEF new

LEMMA LineUpdated ==
  ASSUME NEW h, Shown(h), NEW s \in SectionNames, NEW n \in Counts, NEW finished \in BOOLEAN
  PROVE  LET g == UpdateLine(h, s, n, finished)
             old == h.section[s]
         IN  /\ Shown(g)
             /\ g.section[s].pending = old.pending
             /\ g.section[s].ongoing = IF finished THEN Plus(old.ongoing, -1) ELSE old.ongoing
             /\ g.section[s].done = IF finished THEN Plus(old.done, 1) ELSE old.done
             /\ g.section[s].pushed = old.pushed
             /\ Len(g.section[s].lines) = Len(old.lines)
             /\ \A j \in 1 .. Len(old.lines) :
                  g.section[s].lines[j] = IF j = LineIndex(h, s, n) + 1
                                          THEN [who |-> old.lines[j].who, text |-> Text(finished)]
                                          ELSE old.lines[j]
             /\ \A t \in SectionNames : t # s => g.section[t] = h.section[t]
<1> DEFINE old == h.section[s]
           i == LineIndex(h, s, n)
           ongoing == IF finished THEN Plus(old.ongoing, -1) ELSE old.ongoing
           done == IF finished THEN Plus(old.done, 1) ELSE old.done
           counted == IF finished
                      THEN [h EXCEPT !.section[s].done = Plus(@, 1),
                                     !.section[s].ongoing = Plus(@, -1)]
                      ELSE h
           sec == [old EXCEPT !.ongoing = ongoing, !.done = done]
           told == Told(old.lines, i + 1, Text(finished))
<1>1. /\ old \in Sections /\ old.lines \in Seq(Lines) /\ Len(old.lines) \in Nat
      /\ Len(old.lines) <= SectionLen /\ SectionLen \in Nat
  BY SectionTypes, HistoryAssumption
<1>2. ongoing \in Counts /\ done \in Counts /\ i \in Counts /\ i \in Nat
  <2>1. Plus(old.ongoing, -1) \in Counts /\ Plus(old.done, 1) \in Counts
    BY SectionTypes, Unsigned
  <2>2. -n \in Int /\ old.pushed \in Counts
    BY SectionTypes, HistoryAssumption DEF Counts
  <2>3. i \in Counts
    BY <2>2, Unsigned DEF LineIndex
  <2> QED
    BY <2>1, <2>3, SectionTypes, HistoryAssumption DEF Counts
<1>3. Text(finished) \in {"new", "working", "done"}
  BY DEF Text
<1>4. /\ told \in Seq(Lines) /\ Len(told) = Len(old.lines)
      /\ \A j \in 1 .. Len(old.lines) :
           told[j] = IF j = i + 1 THEN [who |-> old.lines[j].who, text |-> Text(finished)]
                     ELSE old.lines[j]
  <2>1. PICK k \in Int : k = i + 1
    BY <1>2
  <2>2. PICK lines \in Seq(Lines) : lines = old.lines
    BY <1>1
  <2>3. PICK t \in {"new", "working", "done"} : t = Text(finished)
    BY <1>3
  <2>4. /\ Told(lines, k, t) \in Seq(Lines)
        /\ Len(Told(lines, k, t)) = Len(lines)
        /\ \A j \in 1 .. Len(lines) :
             Told(lines, k, t)[j] = IF j = k THEN [who |-> lines[j].who, text |-> t] ELSE lines[j]
    BY Retold
  <2> QED
    BY <2>1, <2>2, <2>3, <2>4
<1>5. sec \in Sections /\ sec.lines = old.lines
  BY <1>1, <1>2 DEF Sections
<1>6. counted = [h EXCEPT !.section[s] = sec]
  BY <1>1 DEF Shown, Sections
<1> HIDE DEF ongoing, done, counted, told
<1>7. CASE i < SectionLen
  <2> DEFINE next == [sec EXCEPT !.lines = told]
  <2>1. /\ next \in Sections /\ next.lines = told /\ next.pending = old.pending
        /\ next.pushed = old.pushed /\ next.ongoing = ongoing /\ next.done = done
    BY <1>1, <1>2, <1>4 DEF Sections
  <2>2. UpdateLine(h, s, n, finished) =
          Display([counted EXCEPT !.section[s].lines[i + 1].text = Text(finished)])
    BY <1>7 DEF UpdateLine, counted
  <2>3. [counted EXCEPT !.section[s].lines[i + 1].text = Text(finished)] =
          [h EXCEPT !.section[s] = next]
    BY <1>1, <1>5, <1>6 DEF Shown, Sections, told, Told
  <2> HIDE DEF next
  <2>4. Len(next.lines) <= SectionLen
    BY <1>1, <1>4, <2>1
  <2> DEFINE g == Display([h EXCEPT !.section[s] = next])
  <2>5. /\ Shown(g)
        /\ g.section[s] = next
        /\ \A t \in SectionNames : t # s => g.section[t] = h.section[t]
    BY <2>1, <2>4, SectionRedrawn
  <2>6. UpdateLine(h, s, n, finished) = g
    BY <2>2, <2>3
  <2> HIDE DEF g
  <2> QED
    BY <1>4, <2>1, <2>5, <2>6 DEF ongoing, done
<1>8. CASE ~(i < SectionLen)
  <2>1. \A j \in 1 .. Len(old.lines) : j # i + 1
    BY <1>1, <1>2, <1>8
  <2>2. sec \in Sections /\ Len(sec.lines) <= SectionLen
    BY <1>1, <1>5
  <2>3. /\ sec.pending = old.pending /\ sec.pushed = old.pushed /\ sec.ongoing = ongoing
        /\ sec.done = done /\ sec.lines = old.lines
    BY <1>1 DEF Sections
  <2>4. CASE finished
    <3>1. UpdateLine(h, s, n, finished) = Display([h EXCEPT !.section[s] = sec])
      BY <1>6, <1>8, <2>4 DEF UpdateLine, counted
    <3> HIDE DEF sec
    <3>2. LET g == Display([h EXCEPT !.section[s] = sec])
          IN  /\ Shown(g)
              /\ g.section[s] = sec
              /\ \A t \in SectionNames : t # s => g.section[t] = h.section[t]
      BY <2>2, SectionRedrawn
    <3> QED
      BY <2>1, <2>3, <3>1, <3>2 DEF ongoing, done
  <2>5. CASE ~finished
    <3>1. UpdateLine(h, s, n, finished) = h
      BY <1>8, <2>5 DEF UpdateLine
    <3> QED
      BY <2>1, <2>5, <3>1
  <2> QED
    BY <2>4, <2>5
<1> QED
  BY <1>7, <1>8

\* An update of the text alone, and the last one of a line.
LEMMA LineWorking ==
  ASSUME NEW h, Shown(h), NEW s \in SectionNames, NEW n \in Counts
  PROVE  LET g == UpdateLine(h, s, n, FALSE)
         IN  /\ Shown(g)
             /\ g.section[s].pending = h.section[s].pending
             /\ g.section[s].ongoing = h.section[s].ongoing
             /\ g.section[s].done = h.section[s].done
             /\ g.section[s].pushed = h.section[s].pushed
             /\ \A t \in SectionNames : t # s => g.section[t] = h.section[t]
<1>1. \A finished \in BOOLEAN : ~finished =>
        LET g == UpdateLine(h, s, n, finished)
        IN  /\ Shown(g)
            /\ g.section[s].pending = h.section[s].pending
            /\ g.section[s].ongoing = h.section[s].ongoing
            /\ g.section[s].done = h.section[s].done
            /\ g.section[s].pushed = h.section[s].pushed
            /\ \A t \in SectionNames : t # s => g.section[t] = h.section[t]
  <2>1. SUFFICES ASSUME NEW finished \in BOOLEAN, ~finished
                 PROVE  LET g == UpdateLine(h, s, n, finished)
                        IN  /\ Shown(g)
                            /\ g.section[s].pending = h.section[s].pending
                            /\ g.section[s].ongoing = h.section[s].ongoing
                            /\ g.section[s].done = h.section[s].done
                            /\ g.section[s].pushed = h.section[s].pushed
                            /\ \A t \in SectionNames : t # s => g.section[t] = h.section[t]
    OBVIOUS
  <2> QED
    BY <2>1, LineUpdated
<1> QED
  BY <1>1, Zenon

LEMMA LineFinished ==
  ASSUME NEW h, Shown(h), NEW s \in SectionNames, NEW n \in Counts
  PROVE  LET g == UpdateLine(h, s, n, TRUE)
         IN  /\ Shown(g)
             /\ g.section[s].pending = h.section[s].pending
             /\ g.section[s].ongoing = Plus(h.section[s].ongoing, -1)
             /\ g.section[s].done = Plus(h.section[s].done, 1)
             /\ g.section[s].pushed = h.section[s].pushed
             /\ \A t \in SectionNames : t # s => g.section[t] = h.section[t]
<1>1. \A finished \in BOOLEAN : finished =>
        LET g == UpdateLine(h, s, n, finished)
        IN  /\ Shown(g)
            /\ g.section[s].pending = h.section[s].pending
            /\ g.section[s].ongoing = Plus(h.section[s].ongoing, -1)
            /\ g.section[s].done = Plus(h.section[s].done, 1)
            /\ g.section[s].pushed = h.section[s].pushed
            /\ \A t \in SectionNames : t # s => g.section[t] = h.section[t]
  <2>1. SUFFICES ASSUME NEW finished \in BOOLEAN, finished
                 PROVE  LET g == UpdateLine(h, s, n, finished)
                        IN  /\ Shown(g)
                            /\ g.section[s].pending = h.section[s].pending
                            /\ g.section[s].ongoing = Plus(h.section[s].ongoing, -1)
                            /\ g.section[s].done = Plus(h.section[s].done, 1)
                            /\ g.section[s].pushed = h.section[s].pushed
                            /\ \A t \in SectionNames : t # s => g.section[t] = h.section[t]
    OBVIOUS
  <2>2. LET g == UpdateLine(h, s, n, finished)
        IN  /\ Shown(g)
            /\ g.section[s].pending = h.section[s].pending
            /\ g.section[s].ongoing = IF finished THEN Plus(h.section[s].ongoing, -1)
                                      ELSE h.section[s].ongoing
            /\ g.section[s].done = IF finished THEN Plus(h.section[s].done, 1)
                                   ELSE h.section[s].done
            /\ g.section[s].pushed = h.section[s].pushed
            /\ \A t \in SectionNames : t # s => g.section[t] = h.section[t]
    BY LineUpdated
  <2> QED
    BY <2>1, <2>2
<1> QED
  BY <1>1, Zenon

-----------------------------------------------------------------------------
(* The display of a run.                                                   *)

LEMMA Names == "nvd" \in SectionNames /\ "github" \in SectionNames /\ "parsing" \in SectionNames
BY DEF SectionNames

LEMMA NewShown == Shown(NewHistory)
<1>1. NewSection \in Sections /\ Len(NewSection.lines) = 0
  BY HistoryAssumption, EmptySeq DEF NewSection, Sections, Counts
<1>2. [s \in SectionNames |-> NewSection] \in [SectionNames -> Sections]
  BY <1>1
<1>3. \A s \in SectionNames : Len([t \in SectionNames |-> NewSection][s].lines) <= SectionLen
  BY <1>1, HistoryAssumption
<1> HIDE DEF NewSection
<1> QED
  BY <1>2, <1>3 DEF Shown, NewHistory

LEMMA FreshScreen == Fresh => Screen
<1> SUFFICES ASSUME Fresh PROVE Screen
  OBVIOUS
<1>1. Shown(history)
  BY NewShown DEF Fresh
<1>2. line \in [Workers -> Counts]
  BY HistoryAssumption DEF Fresh, Counts
<1>3. history.section["nvd"] = NewSection
  BY Names DEF Fresh, NewHistory
<1>4. Sweep
  BY <1>3, PipelineAssumption DEF Fresh, Sweep, Sweeping, Finishing, NewSection
<1> QED
  BY <1>1, <1>2, <1>4 DEF Screen

\* Where the sweep is, in numbers.
LEMMA SweepFacts ==
  ASSUME Screen
  PROVE  /\ CweCount \in Nat /\ CweCount < UintMod /\ CweCount \in Counts
         /\ UintMod \in Nat \ {0, 1}
         /\ cwe \in 0 .. CweCount /\ mainLine \in 0 .. CweCount /\ mainLine \in Counts
         /\ cwe \in Counts
         /\ Shown(history) /\ line \in [Workers -> Counts] /\ Sweep
BY PipelineAssumption, HistoryAssumption DEF Screen, Sweep, Counts

\* A step that leaves the sweep where it is.
LEMMA ScreenOthers ==
  ASSUME Screen, UNCHANGED <<main, cwe, mainLine>>, Shown(history'),
         history'.section["nvd"] = history.section["nvd"], line' \in [Workers -> Counts]
  PROVE  Screen'
<1>1. Sweep'
  BY DEF Screen, Sweep, Sweeping
<1> QED
  BY <1>1 DEF Screen

\* What the counters of the sweep are, place by place, and back.
LEMMA SweepBefore ==
  ASSUME Screen
  PROVE  LET nvd == history.section["nvd"] IN
         /\ main = "start" =>
              cwe = 0 /\ nvd.ongoing = 0 /\ nvd.done = 0 /\ nvd.pushed = 0
         /\ main = "next cwe" =>
              /\ nvd.pending = CweCount - cwe /\ nvd.ongoing = 0 /\ nvd.done = cwe
              /\ nvd.pushed = cwe
         /\ main \in {"sweep", "counted"} =>
              /\ cwe < CweCount
              /\ nvd.pending = CweCount - cwe - 1 /\ nvd.ongoing = 1 /\ nvd.done = cwe
              /\ nvd.pushed = cwe + 1
<1>1. Sweep /\ cwe \in Int /\ CweCount \in Int
  BY PipelineAssumption, HistoryAssumption DEF Screen, Sweep
<1> DEFINE p == history.section["nvd"].pending
           o == history.section["nvd"].ongoing
           d == history.section["nvd"].done
           u == history.section["nvd"].pushed
<1>2. /\ main = "start" => cwe = 0
      /\ main \in {"sweep", "counted"} => cwe < CweCount
      /\ o = IF main \in {"sweep", "counted"} THEN 1 ELSE 0
      /\ d = cwe /\ u = d + o
      /\ main # "start" => p = CweCount - d - o
  BY <1>1 DEF Sweep, Sweeping
<1> HIDE DEF p, o, d, u
<1>3. /\ main = "start" => cwe = 0 /\ o = 0 /\ d = 0 /\ u = 0
      /\ main = "next cwe" => p = CweCount - cwe /\ o = 0 /\ d = cwe /\ u = cwe
      /\ main \in {"sweep", "counted"} =>
           cwe < CweCount /\ p = CweCount - cwe - 1 /\ o = 1 /\ d = cwe /\ u = cwe + 1
  <2>1. ASSUME main = "start" PROVE cwe = 0 /\ o = 0 /\ d = 0 /\ u = 0
    BY <1>1, <1>2, <2>1
  <2>2. ASSUME main = "next cwe"
        PROVE  p = CweCount - cwe /\ o = 0 /\ d = cwe /\ u = cwe
    <3>1. o = 0 /\ d = cwe /\ u = d + o /\ p = CweCount - d - o
      BY <1>2, <2>2
    <3> QED
      BY <1>1, <3>1
  <2>3. ASSUME main \in {"sweep", "counted"}
        PROVE  cwe < CweCount /\ p = CweCount - cwe - 1 /\ o = 1 /\ d = cwe /\ u = cwe + 1
    <3>1. cwe < CweCount /\ o = 1 /\ d = cwe /\ u = d + o /\ p = CweCount - d - o
      BY <1>2, <2>3
    <3> QED
      BY <1>1, <3>1
  <2> QED
    BY <2>1, <2>2, <2>3
<1> QED
  BY <1>3 DEF p, o, d, u

LEMMA SweepResumes ==
  ASSUME main' \in {"sweep", "counted"}, cwe' \in 0 .. CweCount, cwe' < CweCount,
         mainLine' \in 0 .. CweCount,
         history'.section["nvd"].ongoing = 1, history'.section["nvd"].done = cwe',
         history'.section["nvd"].pushed = cwe' + 1,
         history'.section["nvd"].pending = CweCount - cwe' - 1
  PROVE  Sweep'
BY DEF Sweep, Sweeping, Finishing

LEMMA SweepPauses ==
  ASSUME main' = "next cwe", cwe' \in 0 .. CweCount, mainLine' \in 0 .. CweCount,
         history'.section["nvd"].ongoing = 0, history'.section["nvd"].done = cwe',
         history'.section["nvd"].pushed = cwe' + 0,
         history'.section["nvd"].pending = CweCount - cwe' - 0
  PROVE  Sweep'
BY DEF Sweep, Sweeping, Finishing

\* The main thread.
LEMMA MainSetsPending ==
  ASSUME Screen, MainSetPending
  PROVE  Shown(history') /\ Sweep'
<1>1. /\ main = "start" /\ main' = "next cwe" /\ cwe' = cwe /\ mainLine' = mainLine
      /\ history' = SetPending(history, "nvd", CweCount)
  BY DEF MainSetPending, MainMoves
<1>2. Shown(history) /\ CweCount \in Counts /\ "nvd" \in SectionNames
  BY SweepFacts, Names
<1>3. /\ Shown(history')
      /\ history'.section["nvd"].pending = CweCount
      /\ history'.section["nvd"].ongoing = history.section["nvd"].ongoing
      /\ history'.section["nvd"].done = history.section["nvd"].done
      /\ history'.section["nvd"].pushed = history.section["nvd"].pushed
  <2>1. PICK n \in Counts : n = CweCount
    BY <1>2
  <2>2. LET g == SetPending(history, "nvd", n)
        IN  /\ Shown(g)
            /\ g.section["nvd"].pending = n
            /\ g.section["nvd"].ongoing = history.section["nvd"].ongoing
            /\ g.section["nvd"].done = history.section["nvd"].done
            /\ g.section["nvd"].pushed = history.section["nvd"].pushed
    BY <1>2, PendingSet
  <2> QED
    BY <1>1, <2>1, <2>2
<1>4. /\ cwe = 0 /\ history.section["nvd"].ongoing = 0 /\ history.section["nvd"].done = 0
      /\ history.section["nvd"].pushed = 0
  BY <1>1, SweepBefore
<1>5. mainLine \in 0 .. CweCount /\ CweCount \in Nat
  BY SweepFacts
<1>6. 0 \in 0 .. CweCount /\ CweCount = CweCount - 0 - 0 /\ 0 = 0 + 0
  BY <1>5
<1> QED
  BY <1>1, <1>3, <1>4, <1>5, <1>6, SweepPauses

LEMMA MainAddsLine ==
  ASSUME Screen, MainAddLine
  PROVE  Shown(history') /\ Sweep'
<1>1. /\ main = "next cwe" /\ main' = "sweep" /\ cwe' = cwe /\ cwe < CweCount
      /\ history' = AddLine(history, "nvd", cwe)
      /\ mainLine' = history'.section["nvd"].pushed
  BY DEF MainAddLine, MainMoves, LineNumber
<1>2. /\ Shown(history) /\ "nvd" \in SectionNames /\ cwe \in Entries \cup 0 .. CweCount
  BY SweepFacts, Names
<1>3. cwe \in Nat /\ CweCount \in Nat /\ CweCount < UintMod /\ UintMod \in Nat \ {0, 1}
  BY SweepFacts
<1>4. cwe < CweCount
  BY <1>1
<1> DEFINE p == history.section["nvd"].pending
           o == history.section["nvd"].ongoing
           d == history.section["nvd"].done
           u == history.section["nvd"].pushed
<1>5. /\ Shown(history')
      /\ history'.section["nvd"].pending = Plus(p, -1)
      /\ history'.section["nvd"].ongoing = Plus(o, 1)
      /\ history'.section["nvd"].done = d
      /\ history'.section["nvd"].pushed = Plus(u, 1)
  BY <1>1, <1>2, LineAdded
<1>6. p = CweCount - cwe /\ o = 0 /\ d = cwe /\ u = cwe
  BY <1>1, SweepBefore
<1>7. p \in Counts /\ o \in Counts /\ u \in Counts
  BY <1>2, SectionTypes
<1> HIDE DEF p, o, d, u
<1>8. Plus(p, -1) = CweCount - cwe - 1 /\ Plus(o, 1) = 1 /\ Plus(u, 1) = cwe + 1
  <2>1. p > 0 /\ o + 1 < UintMod /\ u + 1 < UintMod
    BY <1>3, <1>4, <1>6
  <2>2. Plus(p, -1) = p - 1
    BY <1>7, <2>1, Unsigned
  <2>3. Plus(o, 1) = o + 1
    BY <1>7, <2>1, Unsigned
  <2>4. Plus(u, 1) = u + 1
    BY <1>7, <2>1, Unsigned
  <2> QED
    BY <1>3, <1>6, <2>2, <2>3, <2>4
<1>9. cwe + 1 \in 0 .. CweCount
  BY <1>3, <1>4
<1>10. /\ cwe' \in 0 .. CweCount /\ cwe' < CweCount
      /\ mainLine' \in 0 .. CweCount /\ main' \in {"sweep", "counted"}
  <2>1. mainLine' = cwe + 1
    BY <1>1, <1>5, <1>8
  <2>2. cwe \in 0 .. CweCount
    BY SweepFacts
  <2> QED
    BY <1>1, <1>9, <2>1, <2>2
<1>11. /\ history'.section["nvd"].ongoing = 1 /\ history'.section["nvd"].done = cwe'
       /\ history'.section["nvd"].pushed = cwe' + 1
       /\ history'.section["nvd"].pending = CweCount - cwe' - 1
  BY <1>1, <1>5, <1>6, <1>8
<1> QED
  BY <1>5, <1>10, <1>11, SweepResumes

LEMMA MainProgresses ==
  ASSUME Screen, MainProgress
  PROVE  Shown(history') /\ Sweep'
<1>1. /\ main = "sweep" /\ main' = "sweep" /\ cwe' = cwe /\ mainLine' = mainLine
      /\ history' = UpdateLine(history, "nvd", mainLine, FALSE)
  BY DEF MainProgress, MainMoves
<1>2. /\ Shown(history) /\ "nvd" \in SectionNames /\ mainLine \in Counts
      /\ cwe \in 0 .. CweCount /\ mainLine \in 0 .. CweCount /\ CweCount \in Nat
  BY SweepFacts, Names
<1>3. /\ Shown(history')
      /\ history'.section["nvd"].pending = history.section["nvd"].pending
      /\ history'.section["nvd"].ongoing = history.section["nvd"].ongoing
      /\ history'.section["nvd"].done = history.section["nvd"].done
      /\ history'.section["nvd"].pushed = history.section["nvd"].pushed
  BY <1>1, <1>2, LineWorking
<1>4. /\ history.section["nvd"].pending = CweCount - cwe - 1
      /\ history.section["nvd"].ongoing = 1 /\ history.section["nvd"].done = cwe
      /\ history.section["nvd"].pushed = cwe + 1 /\ cwe < CweCount
  BY <1>1, SweepBefore
<1> QED
  BY <1>1, <1>2, <1>3, <1>4, SweepResumes

LEMMA MainDoesCwe ==
  ASSUME Screen, MainCweDone
  PROVE  Shown(history') /\ Sweep'
<1>1. /\ main = "sweep" /\ main' = "next cwe" /\ cwe' = cwe + 1 /\ mainLine' = mainLine
      /\ history' = UpdateLine(history, "nvd", mainLine, TRUE)
  BY DEF MainCweDone, MainMoves
<1>2. /\ Shown(history) /\ "nvd" \in SectionNames /\ mainLine \in Counts
      /\ cwe \in 0 .. CweCount /\ mainLine \in 0 .. CweCount
  BY SweepFacts, Names
<1>3. cwe \in Nat /\ CweCount \in Nat /\ CweCount < UintMod /\ UintMod \in Nat \ {0, 1}
  BY SweepFacts
<1> DEFINE p == history.section["nvd"].pending
           o == history.section["nvd"].ongoing
           d == history.section["nvd"].done
           u == history.section["nvd"].pushed
<1>4. /\ Shown(history')
      /\ history'.section["nvd"].pending = p
      /\ history'.section["nvd"].ongoing = Plus(o, -1)
      /\ history'.section["nvd"].done = Plus(d, 1)
      /\ history'.section["nvd"].pushed = u
  BY <1>1, <1>2, LineFinished
<1>5. p = CweCount - cwe - 1 /\ o = 1 /\ d = cwe /\ u = cwe + 1 /\ cwe < CweCount
  BY <1>1, SweepBefore
<1>6. o \in Counts /\ d \in Counts
  BY <1>2, SectionTypes
<1> HIDE DEF p, o, d, u
<1>7. Plus(o, -1) = 0 /\ Plus(d, 1) = cwe + 1
  <2>1. o > 0 /\ d + 1 < UintMod
    BY <1>3, <1>5
  <2>2. Plus(o, -1) = o - 1
    BY <1>6, <2>1, Unsigned
  <2>3. Plus(d, 1) = d + 1
    BY <1>6, <2>1, Unsigned
  <2> QED
    BY <1>5, <2>2, <2>3
<1>8. /\ cwe + 1 \in 0 .. CweCount
      /\ CweCount - cwe - 1 = CweCount - (cwe + 1) - 0
      /\ cwe + 1 = cwe + 1 + 0
  BY <1>3, <1>5
<1> QED
  BY <1>1, <1>2, <1>4, <1>5, <1>7, <1>8, SweepPauses

LEMMA MainFindsOne ==
  ASSUME Screen, NEW e \in Entries, MainFind(e)
  PROVE  Shown(history') /\ Sweep'
<1>1. /\ main = "sweep" /\ main' = "counted" /\ cwe' = cwe /\ mainLine' = mainLine
      /\ history' = IncrementPending(history, "github")
  BY DEF MainFind, CountFound, MainMoves
<1>2. /\ Shown(history) /\ "nvd" \in SectionNames /\ "github" \in SectionNames
      /\ cwe \in 0 .. CweCount /\ mainLine \in 0 .. CweCount
  BY SweepFacts, Names
<1>3. Shown(history') /\ history'.section["nvd"] = history.section["nvd"]
  BY <1>1, <1>2, PendingIncremented
<1>4. /\ history.section["nvd"].pending = CweCount - cwe - 1
      /\ history.section["nvd"].ongoing = 1 /\ history.section["nvd"].done = cwe
      /\ history.section["nvd"].pushed = cwe + 1 /\ cwe < CweCount
  BY <1>1, SweepBefore
<1> QED
  BY <1>1, <1>2, <1>3, <1>4, SweepResumes

LEMMA MainMovesOn ==
  ASSUME Screen, MainPush \/ MainCloseGithub \/ MainCloseParsing \/ MainReturn
  PROVE  Shown(history') /\ Sweep'
<1>1. /\ \/ main = "counted" /\ main' = "sweep"
         \/ main = "next cwe" /\ main' = "join github" /\ cwe = CweCount
         \/ main = "join github" /\ main' = "join parsing"
         \/ main = "join parsing" /\ main' = "returned"
      /\ cwe' = cwe /\ mainLine' = mainLine /\ history' = history
  BY DEF MainPush, MainCloseGithub, MainCloseParsing, MainReturn, MainMoves
<1>2. Sweep'
  <2>1. \/ main \in {"sweep", "counted"} /\ main' \in {"sweep", "counted"}
        \/ main \notin {"start", "sweep", "counted"} /\ main' \in Finishing /\ cwe = CweCount
    BY <1>1 DEF Screen, Sweep, Finishing
  <2>2. main' # "start" /\ (main' \in Finishing => cwe = CweCount)
    BY <1>1, <2>1 DEF Finishing
  <2>3. main' \in Finishing => main' \notin {"sweep", "counted"}
    BY DEF Finishing
  <2> QED
    BY <1>1, <2>1, <2>2, <2>3 DEF Screen, Sweep, Sweeping
<1> QED
  BY <1>1, <1>2 DEF Screen

LEMMA MainScreen ==
  ASSUME Screen, MainNext
  PROVE  Screen'
<1>1. line' = line
  BY DEF MainNext, MainSetPending, MainAddLine, MainProgress, MainFind, MainPush,
     MainCweDone, MainCloseGithub, MainCloseParsing, MainReturn, MainMoves, workers
<1>2. Shown(history') /\ Sweep'
  BY MainSetsPending, MainAddsLine, MainProgresses, MainDoesCwe, MainFindsOne, MainMovesOn
     DEF MainNext
<1> QED
  BY <1>1, <1>2 DEF Screen

\* The workers.
LEMMA WorkerScreen ==
  ASSUME Screen, UNCHANGED mainThread, NEW s \in SectionNames \ {"nvd"},
         Shown(history'), \A t \in SectionNames : t # s => history'.section[t] = history.section[t],
         line' = line \/ \E w \in Workers : line' = [line EXCEPT ![w] = LineNumber(history', s)]
  PROVE  Screen'
<1>1. UNCHANGED <<main, cwe, mainLine>>
  BY DEF mainThread
<1>2. history'.section["nvd"] = history.section["nvd"]
  BY Names
<1>3. LineNumber(history', s) \in Counts
  BY SectionTypes DEF LineNumber
<1>4. line' \in [Workers -> Counts]
  BY <1>3, SweepFacts
<1> QED
  BY <1>1, <1>2, <1>4, ScreenOthers

LEMMA GithubScreen ==
  ASSUME Flow, Screen, NEW w \in GithubWorkers, GithubNext(w)
  PROVE  Screen'
<1>1. UNCHANGED mainThread
  BY DEF GithubNext, GithubPop, GithubAddLine, GithubProgress, GithubReject,
     GithubAccept, GithubCount, GithubPush, GithubDone, GithubLeave, Moves
<1>2. /\ Shown(history) /\ line \in [Workers -> Counts] /\ w \in Workers
      /\ line[w] \in Counts
  BY SweepFacts DEF Workers
<1>3. /\ "github" \in SectionNames \ {"nvd"} /\ "parsing" \in SectionNames \ {"nvd"}
  BY Names
<1>4. CASE GithubAddLine(w)
  <2>1. /\ at[w] = "popped" /\ history' = AddLine(history, "github", gServing[w])
        /\ line' = [line EXCEPT ![w] = LineNumber(history', "github")]
    BY <1>4 DEF GithubAddLine, Moves
  <2>2. gServing[w] \in Entries \cup 0 .. CweCount
    BY <2>1, QueueFacts DEF Flow, Places, Idle
  <2>3. /\ Shown(history')
        /\ \A t \in SectionNames : t # "github" => history'.section[t] = history.section[t]
    BY <1>2, <1>3, <2>1, <2>2, LineAdded
  <2> QED
    BY <1>1, <1>2, <1>3, <2>1, <2>3, WorkerScreen
<1>5. CASE GithubProgress(w)
  <2>1. history' = UpdateLine(history, "github", line[w], FALSE) /\ line' = line
    BY <1>5 DEF GithubProgress
  <2>2. /\ Shown(history')
        /\ \A t \in SectionNames : t # "github" => history'.section[t] = history.section[t]
    BY <1>2, <1>3, <2>1, LineWorking
  <2> QED
    BY <1>1, <1>3, <2>1, <2>2, WorkerScreen
<1>6. CASE GithubReject(w) \/ GithubAccept(w)
  <2>1. history' = UpdateLine(history, "github", line[w], TRUE) /\ line' = line
    BY <1>6 DEF GithubReject, GithubAccept
  <2>2. /\ Shown(history')
        /\ \A t \in SectionNames : t # "github" => history'.section[t] = history.section[t]
    BY <1>2, <1>3, <2>1, LineFinished
  <2> QED
    BY <1>1, <1>3, <2>1, <2>2, WorkerScreen
<1>7. CASE GithubCount(w)
  <2>1. history' = IncrementPending(history, "parsing") /\ line' = line
    BY <1>7 DEF GithubCount, CountAccepted
  <2>2. /\ Shown(history')
        /\ \A t \in SectionNames : t # "parsing" => history'.section[t] = history.section[t]
    BY <1>2, <1>3, <2>1, PendingIncremented
  <2> QED
    BY <1>1, <1>3, <2>1, <2>2, WorkerScreen
<1>8. CASE GithubPop(w) \/ GithubPush(w) \/ GithubDone(w) \/ GithubLeave(w)
  <2>1. history' = history /\ line' = line
    BY <1>8 DEF GithubPop, GithubPush, GithubDone, GithubLeave
  <2> QED
    BY <1>1, <1>2, <1>3, <2>1, WorkerScreen
<1> QED
  BY <1>4, <1>5, <1>6, <1>7, <1>8 DEF GithubNext

LEMMA ParsingScreen ==
  ASSUME Flow, Screen, NEW w \in ParsingWorkers, ParsingNext(w)
  PROVE  Screen'
<1>1. UNCHANGED mainThread
  BY DEF ParsingNext, ParsingPop, ParsingAddLine, ParsingOpen, ParsingRefused,
     ParsingClose, ParsingFinish, ParsingDone, ParsingLeave, Moves
<1>2. /\ Shown(history) /\ line \in [Workers -> Counts] /\ w \in Workers
      /\ line[w] \in Counts
  BY SweepFacts DEF Workers
<1>3. "parsing" \in SectionNames \ {"nvd"}
  BY Names
<1>4. CASE ParsingAddLine(w)
  <2>1. /\ at[w] = "popped" /\ history' = AddLine(history, "parsing", pServing[w])
        /\ line' = [line EXCEPT ![w] = LineNumber(history', "parsing")]
    BY <1>4 DEF ParsingAddLine, Moves
  <2>2. pServing[w] \in Entries \cup 0 .. CweCount
    BY <2>1, QueueFacts DEF Flow, Places, Idle
  <2>3. /\ Shown(history')
        /\ \A t \in SectionNames : t # "parsing" => history'.section[t] = history.section[t]
    BY <1>2, <1>3, <2>1, <2>2, LineAdded
  <2> QED
    BY <1>1, <1>2, <1>3, <2>1, <2>3, WorkerScreen
<1>5. CASE ParsingFinish(w)
  <2>1. history' = UpdateLine(history, "parsing", line[w], TRUE) /\ line' = line
    BY <1>5 DEF ParsingFinish
  <2>2. /\ Shown(history')
        /\ \A t \in SectionNames : t # "parsing" => history'.section[t] = history.section[t]
    BY <1>2, <1>3, <2>1, LineFinished
  <2> QED
    BY <1>1, <1>3, <2>1, <2>2, WorkerScreen
<1>6. CASE \/ ParsingPop(w) \/ ParsingOpen(w) \/ ParsingRefused(w)
           \/ ParsingClose(w) \/ ParsingDone(w) \/ ParsingLeave(w)
  <2>1. history' = history /\ line' = line
    BY <1>6 DEF ParsingPop, ParsingOpen, ParsingRefused, ParsingClose, ParsingDone, ParsingLeave
  <2> QED
    BY <1>1, <1>2, <1>3, <2>1, WorkerScreen
<1> QED
  BY <1>4, <1>5, <1>6 DEF ParsingNext

LEMMA RunAgainScreen == RunAgain => Screen'
<1>1. RunAgain => Fresh'
  BY RunAgainFresh
<1>2. (Fresh => Screen)'
  BY FreshScreen, PTL
<1> QED
  BY <1>1, <1>2

LEMMA ScreenStep == Flow /\ Screen /\ [Next]_vars => Screen'
<1> SUFFICES ASSUME Flow, Screen, [Next]_vars PROVE Screen'
  OBVIOUS
<1>1. CASE Exit \/ Ended \/ UNCHANGED vars
  <2>1. UNCHANGED <<main, cwe, mainLine, history, line>>
    BY <1>1 DEF Exit, Ended, vars, mainThread, workers
  <2> QED
    BY <2>1, SweepFacts, ScreenOthers
<1> QED
  BY <1>1, MainScreen, GithubScreen, ParsingScreen, RunAgainScreen DEF Next

\* The display stays well formed, and its first section says how far the sweep is.
THEOREM ScreenInvariance == SafeSpec => []Screen
<1>1. Init => Screen
  BY FreshScreen DEF Init, Fresh
<1> QED
  BY <1>1, FlowInvariance, ScreenStep, PTL DEF SafeSpec

\* Every redraw, of whichever thread and section, starts on the row the first
\* one started on.
THEOREM InPlace == SafeSpec => []RedrawInPlace
<1>1. Screen => RedrawInPlace
  BY DEF Screen, Shown, RedrawInPlace
<1> QED
  BY <1>1, ScreenInvariance, PTL

\* Threads, entries, files and display have the values TypeOK names.
THEOREM PipelineTypes == SafeSpec => []TypeOK
<1>1. Flow /\ Files /\ Screen => TypeOK
  <2> SUFFICES ASSUME Flow, Files, Screen PROVE TypeOK
    OBVIOUS
  <2>1. /\ run \in 1 .. MaxRuns /\ running \in BOOLEAN
        /\ \A n \in FileNames :
             \/ disk[n] = Absent
             \/ disk[n].state \in {"partial", "complete"} /\ FileName[disk[n].by] = n
    BY DEF Files
  <2>2. /\ main \in {"start", "next cwe", "sweep", "counted", "join github",
                    "join parsing", "returned"}
        /\ found \in Entries \cup {NULL}
        /\ at \in [Workers -> {"idle", "popped", "probing", "accepted", "counted", "parsing",
                              "writing", "exported", "settled", "returned"}]
        /\ entry \in [Entries -> {"none", "live", "freed"}]
    BY DEF Flow, FlowTypes, Idle, GithubPlaces, ParsingPlaces, Finishing
  <2>3. /\ cwe \in 0 .. CweCount /\ mainLine \in 0 .. CweCount
        /\ line \in [Workers -> 0 .. UintMod - 1]
        /\ \A s \in SectionNames : Len(history.section[s].lines) <= SectionLen
    BY DEF Screen, Sweep, Shown, Counts
  <2> QED
    BY <2>1, <2>2, <2>3 DEF TypeOK
<1> QED
  BY <1>1, FlowInvariance, FilesInvariance, ScreenInvariance, PTL

-----------------------------------------------------------------------------
(* The counters of the other two sections.                                 *)

\* How many of the workers ws are at one of the places S.
Number(f, ws, S) == Cardinality({w \in ws : f[w] \in S})

In(x, S) == IF x \in S THEN 1 ELSE 0

LEMMA NumberMoved ==
  ASSUME NEW f, NEW g, NEW ws, NEW w \in ws, IsFiniteSet(ws), NEW S,
         \A v \in ws : v # w => g[v] = f[v]
  PROVE  /\ Number(f, ws, S) \in Nat /\ Number(g, ws, S) \in Nat
         /\ f[w] \in S => Number(f, ws, S) > 0
         /\ Number(g, ws, S) + In(f[w], S) =
              Number(f, ws, S) + In(g[w], S)
<1> DEFINE F == {v \in ws : f[v] \in S}
           G == {v \in ws : g[v] \in S}
           Others == {v \in ws : v # w /\ f[v] \in S}
<1>1. IsFiniteSet(Others) /\ Cardinality(Others) \in Nat /\ w \notin Others
  BY FS_Subset, FS_CardinalityType
<1>2. F = IF f[w] \in S THEN Others \cup {w} ELSE Others
  OBVIOUS
<1>3. G = IF g[w] \in S THEN Others \cup {w} ELSE Others
  OBVIOUS
<1>4. Number(f, ws, S) = Cardinality(F) /\ Number(g, ws, S) = Cardinality(G)
  BY DEF Number
<1> HIDE DEF F, G, Others
<1>5. Cardinality(Others \cup {w}) = Cardinality(Others) + 1
  BY <1>1, FS_AddElement
<1>6. Cardinality(F) = Cardinality(Others) + In(f[w], S)
  BY <1>1, <1>2, <1>5 DEF In
<1>7. Cardinality(G) = Cardinality(Others) + In(g[w], S)
  BY <1>1, <1>3, <1>5 DEF In
<1>8. In(f[w], S) \in {0, 1} /\ In(g[w], S) \in {0, 1} /\ (f[w] \in S => In(f[w], S) = 1)
  BY DEF In
<1> QED
  BY <1>1, <1>4, <1>6, <1>7, <1>8

LEMMA NumberKept ==
  ASSUME NEW f, NEW g, NEW ws, IsFiniteSet(ws), NEW S, \A v \in ws : g[v] = f[v]
  PROVE  /\ Number(f, ws, S) \in Nat
         /\ Number(g, ws, S) = Number(f, ws, S)
<1>1. {w \in ws : g[w] \in S} = {w \in ws : f[w] \in S}
  OBVIOUS
<1>2. Number(f, ws, S) \in Nat
  BY FS_Subset, FS_CardinalityType DEF Number
<1> QED
  BY <1>1, <1>2 DEF Number

\* The workers of the two queues by where they are, as the counters tell them.
Took == {"popped"}
Probes == {"probing"}
Accepts == {"accepted", "counted", "settled"}
Passes == {"counted"}
Exports == {"parsing", "writing", "exported"}
Settles == {"settled"}

GithubPending ==
  Len(gItems) + Number(at, GithubWorkers, Took) + (IF main = "counted" THEN 1 ELSE 0)
GithubOngoing == Number(at, GithubWorkers, Probes)
GithubFinished == Cardinality(gCompleted) + Number(at, GithubWorkers, Accepts)
ParsingPending ==
  Len(pItems) + Number(at, ParsingWorkers, Took) + Number(at, GithubWorkers, Passes)
ParsingOngoing == Number(at, ParsingWorkers, Exports)
ParsingFinished == Cardinality(pCompleted) + Number(at, ParsingWorkers, Settles)

\* The numbers are numbers.
LEMMA Numbers ==
  ASSUME Flow
  PROVE  /\ \A S : Number(at, GithubWorkers, S) \in Nat /\ Number(at, ParsingWorkers, S) \in Nat
         /\ Len(gItems) \in Nat /\ Len(pItems) \in Nat
         /\ IsFiniteSet(gCompleted) /\ Cardinality(gCompleted) \in Nat
         /\ IsFiniteSet(pCompleted) /\ Cardinality(pCompleted) \in Nat
<1>1. \A S : Number(at, GithubWorkers, S) \in Nat /\ Number(at, ParsingWorkers, S) \in Nat
  BY CountsFit, NumberKept
<1>2. gItems \in Seq(Entries) /\ pItems \in Seq(Entries)
  BY DEF Flow, GithubQueue!QueueInv, GithubQueue!TypeOK, ParsingQueue!QueueInv,
     ParsingQueue!TypeOK
<1>3. gCompleted \subseteq Entries /\ pCompleted \subseteq Entries
  BY QueueFacts
<1> QED
  BY <1>1, <1>2, <1>3, CountsFit, LenProperties, FS_Subset, FS_CardinalityType

\* A worker that moves changes the numbers of the two places.
LEMMA GithubNumbers ==
  ASSUME Flow, NEW w \in GithubWorkers, NEW to \in Idle \cup GithubPlaces,
         at' = [at EXCEPT ![w] = to]
  PROVE  /\ \A S : (at[w] \in S <=> to \in S) =>
                     Number(at', GithubWorkers, S) = Number(at, GithubWorkers, S)
         /\ \A S : at[w] \notin S /\ to \in S =>
                     Number(at', GithubWorkers, S) = Number(at, GithubWorkers, S) + 1
         /\ \A S : at[w] \in S /\ to \notin S =>
                     /\ Number(at', GithubWorkers, S) = Number(at, GithubWorkers, S) - 1
                     /\ Number(at, GithubWorkers, S) > 0
         /\ \A S : Number(at', ParsingWorkers, S) = Number(at, ParsingWorkers, S)
<1>1. /\ at'[w] = to
      /\ \A v \in GithubWorkers : v # w => at'[v] = at[v]
      /\ \A v \in ParsingWorkers : at'[v] = at[v]
  BY QueueFacts, Moved DEF Flow
<1>2. IsFiniteSet(GithubWorkers) /\ IsFiniteSet(ParsingWorkers)
  BY CountsFit
<1>3. PICK f, g : f = at /\ g = at'
  OBVIOUS
<1>4. \A S : Number(at', ParsingWorkers, S) = Number(at, ParsingWorkers, S)
  <2>1. \A v \in ParsingWorkers : g[v] = f[v]
    BY <1>1, <1>3
  <2>2. \A S : Number(g, ParsingWorkers, S) = Number(f, ParsingWorkers, S)
    BY <1>2, <2>1, NumberKept
  <2> QED
    BY <1>3, <2>2
<1>5. ASSUME NEW S
      PROVE  /\ (at[w] \in S <=> to \in S) =>
                  Number(at', GithubWorkers, S) = Number(at, GithubWorkers, S)
             /\ at[w] \notin S /\ to \in S =>
                  Number(at', GithubWorkers, S) = Number(at, GithubWorkers, S) + 1
             /\ at[w] \in S /\ to \notin S =>
                  /\ Number(at', GithubWorkers, S) = Number(at, GithubWorkers, S) - 1
                  /\ Number(at, GithubWorkers, S) > 0
  <2>1. g[w] = to /\ \A v \in GithubWorkers : v # w => g[v] = f[v]
    BY <1>1, <1>3
  <2>2. /\ Number(f, GithubWorkers, S) \in Nat /\ Number(g, GithubWorkers, S) \in Nat
        /\ f[w] \in S => Number(f, GithubWorkers, S) > 0
        /\ Number(g, GithubWorkers, S) + In(f[w], S) =
             Number(f, GithubWorkers, S) + In(g[w], S)
    <3> HIDE <1>3
    <3>1. PICK ws : ws = GithubWorkers /\ w \in ws
      OBVIOUS
    <3>2. IsFiniteSet(ws) /\ \A v \in ws : v # w => g[v] = f[v]
      BY <1>2, <2>1, <3>1
    <3>3. Number(f, ws, S) \in Nat
      BY <3>1, <3>2, NumberMoved
    <3>4. Number(g, ws, S) \in Nat
      BY <3>1, <3>2, NumberMoved
    <3>5. f[w] \in S => Number(f, ws, S) > 0
      BY <3>1, <3>2, NumberMoved
    <3>6. Number(g, ws, S) + In(f[w], S) = Number(f, ws, S) + In(g[w], S)
      BY <3>1, <3>2, NumberMoved
    <3> QED
      BY <3>1, <3>3, <3>4, <3>5, <3>6
  <2>3. /\ (f[w] \in S <=> to \in S) => Number(g, GithubWorkers, S) = Number(f, GithubWorkers, S)
        /\ f[w] \notin S /\ to \in S =>
             Number(g, GithubWorkers, S) = Number(f, GithubWorkers, S) + 1
        /\ f[w] \in S /\ to \notin S =>
             /\ Number(g, GithubWorkers, S) = Number(f, GithubWorkers, S) - 1
             /\ Number(f, GithubWorkers, S) > 0
    BY <2>1, <2>2 DEF In
  <2> QED
    BY <1>3, <2>3
<1> QED
  BY <1>4, <1>5

LEMMA ParsingNumbers ==
  ASSUME Flow, NEW w \in ParsingWorkers, NEW to \in Idle \cup ParsingPlaces,
         at' = [at EXCEPT ![w] = to]
  PROVE  /\ \A S : (at[w] \in S <=> to \in S) =>
                     Number(at', ParsingWorkers, S) = Number(at, ParsingWorkers, S)
         /\ \A S : at[w] \notin S /\ to \in S =>
                     Number(at', ParsingWorkers, S) = Number(at, ParsingWorkers, S) + 1
         /\ \A S : at[w] \in S /\ to \notin S =>
                     /\ Number(at', ParsingWorkers, S) = Number(at, ParsingWorkers, S) - 1
                     /\ Number(at, ParsingWorkers, S) > 0
         /\ \A S : Number(at', GithubWorkers, S) = Number(at, GithubWorkers, S)
<1>1. /\ at'[w] = to
      /\ \A v \in ParsingWorkers : v # w => at'[v] = at[v]
      /\ \A v \in GithubWorkers : at'[v] = at[v]
  BY QueueFacts, Moved DEF Flow
<1>2. IsFiniteSet(GithubWorkers) /\ IsFiniteSet(ParsingWorkers)
  BY CountsFit
<1>3. PICK f, g : f = at /\ g = at'
  OBVIOUS
<1>4. \A S : Number(at', GithubWorkers, S) = Number(at, GithubWorkers, S)
  <2>1. \A v \in GithubWorkers : g[v] = f[v]
    BY <1>1, <1>3
  <2>2. \A S : Number(g, GithubWorkers, S) = Number(f, GithubWorkers, S)
    BY <1>2, <2>1, NumberKept
  <2> QED
    BY <1>3, <2>2
<1>5. ASSUME NEW S
      PROVE  /\ (at[w] \in S <=> to \in S) =>
                  Number(at', ParsingWorkers, S) = Number(at, ParsingWorkers, S)
             /\ at[w] \notin S /\ to \in S =>
                  Number(at', ParsingWorkers, S) = Number(at, ParsingWorkers, S) + 1
             /\ at[w] \in S /\ to \notin S =>
                  /\ Number(at', ParsingWorkers, S) = Number(at, ParsingWorkers, S) - 1
                  /\ Number(at, ParsingWorkers, S) > 0
  <2>1. g[w] = to /\ \A v \in ParsingWorkers : v # w => g[v] = f[v]
    BY <1>1, <1>3
  <2>2. /\ Number(f, ParsingWorkers, S) \in Nat /\ Number(g, ParsingWorkers, S) \in Nat
        /\ f[w] \in S => Number(f, ParsingWorkers, S) > 0
        /\ Number(g, ParsingWorkers, S) + In(f[w], S) =
             Number(f, ParsingWorkers, S) + In(g[w], S)
    <3> HIDE <1>3
    <3>1. PICK ws : ws = ParsingWorkers /\ w \in ws
      OBVIOUS
    <3>2. IsFiniteSet(ws) /\ \A v \in ws : v # w => g[v] = f[v]
      BY <1>2, <2>1, <3>1
    <3>3. Number(f, ws, S) \in Nat
      BY <3>1, <3>2, NumberMoved
    <3>4. Number(g, ws, S) \in Nat
      BY <3>1, <3>2, NumberMoved
    <3>5. f[w] \in S => Number(f, ws, S) > 0
      BY <3>1, <3>2, NumberMoved
    <3>6. Number(g, ws, S) + In(f[w], S) = Number(f, ws, S) + In(g[w], S)
      BY <3>1, <3>2, NumberMoved
    <3> QED
      BY <3>1, <3>3, <3>4, <3>5, <3>6
  <2>3. /\ (f[w] \in S <=> to \in S) => Number(g, ParsingWorkers, S) = Number(f, ParsingWorkers, S)
        /\ f[w] \notin S /\ to \in S =>
             Number(g, ParsingWorkers, S) = Number(f, ParsingWorkers, S) + 1
        /\ f[w] \in S /\ to \notin S =>
             /\ Number(g, ParsingWorkers, S) = Number(f, ParsingWorkers, S) - 1
             /\ Number(f, ParsingWorkers, S) > 0
    BY <2>1, <2>2 DEF In
  <2> QED
    BY <1>3, <2>3
<1> QED
  BY <1>4, <1>5

\* What a step does to the counters of the section s.
Same(s) ==
  /\ history'.section[s].pending = history.section[s].pending
  /\ history'.section[s].ongoing = history.section[s].ongoing
  /\ history'.section[s].done = history.section[s].done

OneMore(s) ==
  /\ history'.section[s].pending = history.section[s].pending + 1
  /\ history'.section[s].ongoing = history.section[s].ongoing
  /\ history'.section[s].done = history.section[s].done

Taken(s) ==
  /\ history'.section[s].pending = history.section[s].pending - 1
  /\ history'.section[s].ongoing = history.section[s].ongoing + 1
  /\ history'.section[s].done = history.section[s].done

Settled(s) ==
  /\ history'.section[s].pending = history.section[s].pending
  /\ history'.section[s].ongoing = history.section[s].ongoing - 1
  /\ history'.section[s].done = history.section[s].done + 1

\* An operation of the display on the section s, as long as its counters fit.
LEMMA Incremented ==
  ASSUME Screen, NEW s \in SectionNames, history' = IncrementPending(history, s),
         history.section[s].pending + 1 < UintMod
  PROVE  OneMore(s) /\ \A t \in SectionNames : t # s => Same(t)
<1>1. Shown(history)
  BY SweepFacts
<1>2. /\ history'.section[s].pending = Plus(history.section[s].pending, 1)
      /\ history'.section[s].ongoing = history.section[s].ongoing
      /\ history'.section[s].done = history.section[s].done
      /\ \A t \in SectionNames : t # s => history'.section[t] = history.section[t]
  BY <1>1, PendingIncremented
<1>3. history.section[s].pending \in Counts
  BY <1>1, SectionTypes
<1>4. Plus(history.section[s].pending, 1) = history.section[s].pending + 1
  BY <1>3, Unsigned
<1> QED
  BY <1>2, <1>4 DEF OneMore, Same

LEMMA Added ==
  ASSUME Screen, NEW s \in SectionNames, NEW who \in Entries, history' = AddLine(history, s, who),
         history.section[s].pending > 0, history.section[s].ongoing + 1 < UintMod
  PROVE  Taken(s) /\ \A t \in SectionNames : t # s => Same(t)
<1>1. Shown(history)
  BY SweepFacts
<1>2. who \in Entries \cup 0 .. CweCount
  OBVIOUS
<1>3. /\ history'.section[s].pending = Plus(history.section[s].pending, -1)
      /\ history'.section[s].ongoing = Plus(history.section[s].ongoing, 1)
      /\ history'.section[s].done = history.section[s].done
      /\ \A t \in SectionNames : t # s => history'.section[t] = history.section[t]
  BY <1>1, <1>2, LineAdded
<1>4. history.section[s].pending \in Counts /\ history.section[s].ongoing \in Counts
  BY <1>1, SectionTypes
<1>5. /\ Plus(history.section[s].pending, -1) = history.section[s].pending - 1
      /\ Plus(history.section[s].ongoing, 1) = history.section[s].ongoing + 1
  BY <1>4, Unsigned
<1> QED
  BY <1>3, <1>5 DEF Taken, Same

LEMMA FinishedOne ==
  ASSUME Screen, NEW s \in SectionNames, NEW w \in Workers,
         history' = UpdateLine(history, s, line[w], TRUE),
         history.section[s].ongoing > 0, history.section[s].done + 1 < UintMod
  PROVE  Settled(s) /\ \A t \in SectionNames : t # s => Same(t)
<1>1. Shown(history) /\ line[w] \in Counts
  BY SweepFacts
<1>2. /\ history'.section[s].pending = history.section[s].pending
      /\ history'.section[s].ongoing = Plus(history.section[s].ongoing, -1)
      /\ history'.section[s].done = Plus(history.section[s].done, 1)
      /\ \A t \in SectionNames : t # s => history'.section[t] = history.section[t]
  BY <1>1, LineFinished
<1>3. history.section[s].ongoing \in Counts /\ history.section[s].done \in Counts
  BY <1>1, SectionTypes
<1>4. /\ Plus(history.section[s].ongoing, -1) = history.section[s].ongoing - 1
      /\ Plus(history.section[s].done, 1) = history.section[s].done + 1
  BY <1>3, Unsigned
<1> QED
  BY <1>2, <1>4 DEF Settled, Same

LEMMA WorkingOne ==
  ASSUME Screen, NEW s \in SectionNames, NEW w \in Workers,
         history' = UpdateLine(history, s, line[w], FALSE)
  PROVE  \A t \in SectionNames : Same(t)
<1>1. Shown(history) /\ line[w] \in Counts
  BY SweepFacts
<1>2. /\ history'.section[s].pending = history.section[s].pending
      /\ history'.section[s].ongoing = history.section[s].ongoing
      /\ history'.section[s].done = history.section[s].done
      /\ \A t \in SectionNames : t # s => history'.section[t] = history.section[t]
  BY <1>1, LineWorking
<1> QED
  BY <1>2 DEF Same

\* The books of the two sections balance.
Books ==
  /\ history.section["github"].pending = GithubPending
  /\ history.section["github"].ongoing = GithubOngoing
  /\ history.section["github"].done = GithubFinished
  /\ history.section["parsing"].pending = ParsingPending
  /\ history.section["parsing"].ongoing = ParsingOngoing
  /\ history.section["parsing"].done = ParsingFinished

\* The counters fit: they add up to as many entries as there are at most.
LEMMA Fits ==
  ASSUME Flow, Screen, Totals, NEW s \in {"github", "parsing"}
  PROVE  /\ history.section[s].pending \in Nat /\ history.section[s].ongoing \in Nat
         /\ history.section[s].done \in Nat
         /\ Total(s) < UintMod
         /\ IsFiniteSet(GithubCounted) /\ IsFiniteSet(ParsingCounted)
<1>1. GithubCounted \subseteq Entries
  BY QueueFacts DEF GithubCounted, Flow, FlowTypes, Places
<1>2. ParsingCounted \subseteq Entries
  <2>1. ASSUME NEW w \in At(GithubWorkers, {"counted"}) PROVE gServing[w] \in Entries
    BY QueueFacts DEF At, Flow, Places, Idle
  <2> QED
    BY <2>1, QueueFacts DEF ParsingCounted
<1>3. /\ Cardinality(GithubCounted) <= Cardinality(Entries)
      /\ Cardinality(ParsingCounted) <= Cardinality(Entries)
      /\ IsFiniteSet(GithubCounted) /\ IsFiniteSet(ParsingCounted)
      /\ Cardinality(Entries) \in Nat /\ Cardinality(Entries) < UintMod
      /\ Cardinality(GithubCounted) \in Nat /\ Cardinality(ParsingCounted) \in Nat
  BY <1>1, <1>2, CountsFit, FS_Subset, FS_CardinalityType
<1>4. s \in SectionNames
  BY DEF SectionNames
<1>5. /\ history.section[s].pending \in Counts /\ history.section[s].ongoing \in Counts
      /\ history.section[s].done \in Counts
  BY <1>4, SweepFacts, SectionTypes
<1>6. /\ history.section[s].pending \in Nat /\ history.section[s].ongoing \in Nat
      /\ history.section[s].done \in Nat
  BY <1>5, HistoryAssumption DEF Counts
<1>7. Total(s) = Cardinality(GithubCounted) \/ Total(s) = Cardinality(ParsingCounted)
  BY DEF Totals
<1>8. UintMod \in Nat
  BY HistoryAssumption
<1>9. Total(s) < UintMod
  BY <1>3, <1>7, <1>8
<1> QED
  BY <1>3, <1>6, <1>9

\* A step that changes neither what the counters say nor what they are about.
LEMMA BooksKept ==
  ASSUME Books, Same("github"), Same("parsing"),
         GithubPending' = GithubPending, GithubOngoing' = GithubOngoing,
         GithubFinished' = GithubFinished, ParsingPending' = ParsingPending,
         ParsingOngoing' = ParsingOngoing, ParsingFinished' = ParsingFinished
  PROVE  Books'
BY DEF Books, Same

LEMMA TotalsKept ==
  ASSUME Flow, Screen, Totals, GithubCounted' = GithubCounted, ParsingCounted' = ParsingCounted,
         Same("github") \/ Taken("github") \/ Settled("github"),
         Same("parsing") \/ Taken("parsing") \/ Settled("parsing")
  PROVE  Totals'
<1>1. ASSUME NEW s \in {"github", "parsing"}, Same(s) \/ Taken(s) \/ Settled(s)
      PROVE  Total(s)' = Total(s)
  <2> PICK p \in Nat, o \in Nat, d \in Nat :
             /\ history.section[s].pending = p /\ history.section[s].ongoing = o
             /\ history.section[s].done = d
    BY Fits
  <2> QED
    BY <1>1 DEF Total, Same, Taken, Settled
<1> QED
  BY <1>1 DEF Totals

\* A GitHub worker that does not touch what is on its way to the parsing queue.
LEMMA PassesKept ==
  ASSUME Flow, NEW w \in GithubWorkers, NEW to \in Idle \cup GithubPlaces,
         at' = [at EXCEPT ![w] = to], at[w] # "counted", to # "counted",
         pSubmitted' = pSubmitted, \A v \in GithubWorkers : v # w => gServing'[v] = gServing[v]
  PROVE  ParsingCounted' = ParsingCounted
<1>1. at'[w] = to /\ \A v \in GithubWorkers : v # w => at'[v] = at[v]
  BY QueueFacts, Moved DEF Flow
<1> QED
  BY <1>1 DEF ParsingCounted, At

\* A GitHub worker.
LEMMA GithubPopBooks ==
  ASSUME Flow, Screen, Books, Totals, NEW w \in GithubWorkers, GithubPop(w)
  PROVE  Books' /\ Totals'
<1>1. /\ at[w] = "idle" /\ at' = [at EXCEPT ![w] = "popped"]
      /\ "popped" \in Idle \cup GithubPlaces
      /\ gItems # <<>> /\ gItems' = Tail(gItems)
      /\ gServing' = [gServing EXCEPT ![w] = Head(gItems)]
      /\ UNCHANGED <<main, found, gSubmitted, gCompleted, pItems, pSubmitted, pCompleted, history>>
  BY DEF GithubPop, Moves, mainThread, Idle, GithubPlaces, parsing, GithubQueue!Serve
<1>2. Len(gItems') = Len(gItems) - 1
  BY <1>1, HeadTailProperties DEF Flow, GithubQueue!QueueInv, GithubQueue!TypeOK
<1>3. /\ Number(at', GithubWorkers, Took) = Number(at, GithubWorkers, Took) + 1
      /\ Number(at', GithubWorkers, Probes) = Number(at, GithubWorkers, Probes)
      /\ Number(at', GithubWorkers, Accepts) = Number(at, GithubWorkers, Accepts)
      /\ Number(at', GithubWorkers, Passes) = Number(at, GithubWorkers, Passes)
      /\ \A S : Number(at', ParsingWorkers, S) = Number(at, ParsingWorkers, S)
  <2>1. /\ at[w] \notin Took /\ "popped" \in Took
        /\ at[w] \notin Probes /\ "popped" \notin Probes
        /\ at[w] \notin Accepts /\ "popped" \notin Accepts
        /\ at[w] \notin Passes /\ "popped" \notin Passes
    BY <1>1 DEF Took, Probes, Accepts, Passes
  <2>2. Number(at', GithubWorkers, Took) = Number(at, GithubWorkers, Took) + 1
    BY <1>1, <2>1, GithubNumbers
  <2>3. Number(at', GithubWorkers, Probes) = Number(at, GithubWorkers, Probes)
    BY <1>1, <2>1, GithubNumbers
  <2>4. Number(at', GithubWorkers, Accepts) = Number(at, GithubWorkers, Accepts)
    BY <1>1, <2>1, GithubNumbers
  <2>5. Number(at', GithubWorkers, Passes) = Number(at, GithubWorkers, Passes)
    BY <1>1, <2>1, GithubNumbers
  <2> QED
    BY <1>1, <2>2, <2>3, <2>4, <2>5, GithubNumbers
<1>4. /\ GithubPending' = GithubPending
      /\ GithubOngoing' = GithubOngoing
      /\ GithubFinished' = GithubFinished
      /\ ParsingPending' = ParsingPending
      /\ ParsingOngoing' = ParsingOngoing
      /\ ParsingFinished' = ParsingFinished
  <2>1. GithubPending' = GithubPending
    BY <1>1, <1>2, <1>3, Numbers DEF GithubPending
  <2>2. /\ GithubOngoing' = GithubOngoing
        /\ GithubFinished' = GithubFinished
        /\ ParsingPending' = ParsingPending
        /\ ParsingOngoing' = ParsingOngoing
        /\ ParsingFinished' = ParsingFinished
    BY <1>1, <1>3 DEF GithubOngoing, GithubFinished, ParsingPending, ParsingOngoing, ParsingFinished
  <2> QED
    BY <2>1, <2>2
<1>5. Same("github") /\ Same("parsing")
  BY <1>1 DEF Same
<1>6. GithubCounted' = GithubCounted /\ ParsingCounted' = ParsingCounted
  <2>1. \A v \in GithubWorkers : v # w => gServing'[v] = gServing[v]
    BY <1>1, QueueFacts
  <2> QED
    BY <1>1, <2>1, PassesKept DEF GithubCounted
<1> QED
  BY <1>4, <1>5, <1>6, BooksKept, TotalsKept

LEMMA GithubAddLineBooks ==
  ASSUME Flow, Screen, Books, Totals, NEW w \in GithubWorkers, GithubAddLine(w)
  PROVE  Books' /\ Totals'
<1>1. /\ at[w] = "popped" /\ at' = [at EXCEPT ![w] = "probing"]
      /\ "probing" \in Idle \cup GithubPlaces
      /\ history' = AddLine(history, "github", gServing[w])
      /\ UNCHANGED <<main, found, gSubmitted, gCompleted, gItems, gServing, pItems, pSubmitted,
                     pCompleted>>
  BY DEF GithubAddLine, Moves, mainThread, Idle, GithubPlaces, github, parsing
<1>2. /\ Number(at', GithubWorkers, Took) = Number(at, GithubWorkers, Took) - 1
      /\ Number(at', GithubWorkers, Probes) = Number(at, GithubWorkers, Probes) + 1
      /\ Number(at', GithubWorkers, Accepts) = Number(at, GithubWorkers, Accepts)
      /\ Number(at', GithubWorkers, Passes) = Number(at, GithubWorkers, Passes)
      /\ \A S : Number(at', ParsingWorkers, S) = Number(at, ParsingWorkers, S)
      /\ Number(at, GithubWorkers, Took) > 0
  <2>1. /\ at[w] \in Took /\ "probing" \notin Took
        /\ at[w] \notin Probes /\ "probing" \in Probes
        /\ at[w] \notin Accepts /\ "probing" \notin Accepts
        /\ at[w] \notin Passes /\ "probing" \notin Passes
    BY <1>1 DEF Took, Probes, Accepts, Passes
  <2>2. /\ Number(at', GithubWorkers, Took) = Number(at, GithubWorkers, Took) - 1
        /\ Number(at, GithubWorkers, Took) > 0
    BY <1>1, <2>1, GithubNumbers
  <2>3. Number(at', GithubWorkers, Probes) = Number(at, GithubWorkers, Probes) + 1
    BY <1>1, <2>1, GithubNumbers
  <2>4. Number(at', GithubWorkers, Accepts) = Number(at, GithubWorkers, Accepts)
    BY <1>1, <2>1, GithubNumbers
  <2>5. Number(at', GithubWorkers, Passes) = Number(at, GithubWorkers, Passes)
    BY <1>1, <2>1, GithubNumbers
  <2> QED
    BY <1>1, <2>2, <2>3, <2>4, <2>5, GithubNumbers
<1>3. /\ GithubPending' = GithubPending - 1
      /\ GithubOngoing' = GithubOngoing + 1
      /\ GithubFinished' = GithubFinished
      /\ ParsingPending' = ParsingPending
      /\ ParsingOngoing' = ParsingOngoing
      /\ ParsingFinished' = ParsingFinished
  <2>1. GithubPending' = GithubPending - 1
    BY <1>1, <1>2, Numbers DEF GithubPending
  <2>2. GithubOngoing' = GithubOngoing + 1
    BY <1>1, <1>2, Numbers DEF GithubOngoing
  <2>3. /\ GithubFinished' = GithubFinished
        /\ ParsingPending' = ParsingPending
        /\ ParsingOngoing' = ParsingOngoing
        /\ ParsingFinished' = ParsingFinished
    BY <1>1, <1>2 DEF GithubFinished, ParsingPending, ParsingOngoing, ParsingFinished
  <2> QED
    BY <2>1, <2>2, <2>3
<1>4. Taken("github") /\ Same("parsing")
  <2>1. gServing[w] \in Entries
    BY <1>1, QueueFacts DEF Flow, Places, Idle
  <2>2. history.section["github"].pending > 0
    <3>1. GithubPending > 0
      BY <1>2, Numbers DEF GithubPending
    <3> QED
      BY <3>1 DEF Books
  <2>3. history.section["github"].ongoing + 1 < UintMod
    <3> PICK p \in Nat, o \in Nat, d \in Nat :
               /\ history.section["github"].pending = p /\ history.section["github"].ongoing = o
               /\ history.section["github"].done = d /\ p + o + d < UintMod
      BY Fits DEF Total
    <3>1. UintMod \in Nat
      BY HistoryAssumption
    <3>2. p > 0
      BY <2>2
    <3>3. o + 1 < UintMod
      BY <3>1, <3>2
    <3> QED
      BY <3>3
  <2> QED
    BY <1>1, <2>1, <2>2, <2>3, Added, Names
<1>5. GithubCounted' = GithubCounted /\ ParsingCounted' = ParsingCounted
  BY <1>1, PassesKept DEF GithubCounted
<1>6. Books'
  BY <1>3, <1>4, Fits DEF Books, Same, Taken, Settled
<1> QED
  BY <1>4, <1>5, <1>6, TotalsKept

LEMMA GithubProgressBooks ==
  ASSUME Flow, Screen, Books, Totals, NEW w \in GithubWorkers, GithubProgress(w)
  PROVE  Books' /\ Totals'
<1>1. /\ at[w] = "probing" /\ at' = [at EXCEPT ![w] = "probing"]
      /\ "probing" \in Idle \cup GithubPlaces
      /\ history' = UpdateLine(history, "github", line[w], FALSE)
      /\ UNCHANGED <<main, found, gSubmitted, gCompleted, gItems, gServing, pItems, pSubmitted,
                     pCompleted>>
  BY DEF GithubProgress, Moves, mainThread, Idle, GithubPlaces, github, parsing
<1>2. /\ Number(at', GithubWorkers, Took) = Number(at, GithubWorkers, Took)
      /\ Number(at', GithubWorkers, Probes) = Number(at, GithubWorkers, Probes)
      /\ Number(at', GithubWorkers, Accepts) = Number(at, GithubWorkers, Accepts)
      /\ Number(at', GithubWorkers, Passes) = Number(at, GithubWorkers, Passes)
      /\ \A S : Number(at', ParsingWorkers, S) = Number(at, ParsingWorkers, S)
  <2>1. /\ at[w] \notin Took /\ "probing" \notin Took
        /\ at[w] \in Probes /\ "probing" \in Probes
        /\ at[w] \notin Accepts /\ "probing" \notin Accepts
        /\ at[w] \notin Passes /\ "probing" \notin Passes
    BY <1>1 DEF Took, Probes, Accepts, Passes
  <2>2. Number(at', GithubWorkers, Took) = Number(at, GithubWorkers, Took)
    BY <1>1, <2>1, GithubNumbers
  <2>3. Number(at', GithubWorkers, Probes) = Number(at, GithubWorkers, Probes)
    BY <1>1, <2>1, GithubNumbers
  <2>4. Number(at', GithubWorkers, Accepts) = Number(at, GithubWorkers, Accepts)
    BY <1>1, <2>1, GithubNumbers
  <2>5. Number(at', GithubWorkers, Passes) = Number(at, GithubWorkers, Passes)
    BY <1>1, <2>1, GithubNumbers
  <2> QED
    BY <1>1, <2>2, <2>3, <2>4, <2>5, GithubNumbers
<1>3. /\ GithubPending' = GithubPending
      /\ GithubOngoing' = GithubOngoing
      /\ GithubFinished' = GithubFinished
      /\ ParsingPending' = ParsingPending
      /\ ParsingOngoing' = ParsingOngoing
      /\ ParsingFinished' = ParsingFinished
  <2>1. /\ GithubPending' = GithubPending
        /\ GithubOngoing' = GithubOngoing
        /\ GithubFinished' = GithubFinished
        /\ ParsingPending' = ParsingPending
        /\ ParsingOngoing' = ParsingOngoing
        /\ ParsingFinished' = ParsingFinished
    BY <1>1, <1>2 DEF GithubPending, GithubOngoing, GithubFinished, ParsingPending,
       ParsingOngoing, ParsingFinished
  <2> QED
    BY <2>1
<1>4. Same("github") /\ Same("parsing")
  <2>1. w \in Workers
    BY DEF Workers
  <2> QED
    BY <1>1, <2>1, WorkingOne, Names
<1>5. GithubCounted' = GithubCounted /\ ParsingCounted' = ParsingCounted
  BY <1>1, PassesKept DEF GithubCounted
<1> QED
  BY <1>3, <1>4, <1>5, BooksKept, TotalsKept

LEMMA GithubRejectBooks ==
  ASSUME Flow, Screen, Books, Totals, NEW w \in GithubWorkers, GithubReject(w)
  PROVE  Books' /\ Totals'
<1>1. /\ at[w] = "probing" /\ at' = [at EXCEPT ![w] = "settled"]
      /\ "settled" \in Idle \cup GithubPlaces
      /\ history' = UpdateLine(history, "github", line[w], TRUE)
      /\ UNCHANGED <<main, found, gSubmitted, gCompleted, gItems, gServing, pItems, pSubmitted,
                     pCompleted>>
  BY DEF GithubReject, Moves, mainThread, Idle, GithubPlaces, github, parsing
<1>2. /\ Number(at', GithubWorkers, Took) = Number(at, GithubWorkers, Took)
      /\ Number(at', GithubWorkers, Probes) = Number(at, GithubWorkers, Probes) - 1
      /\ Number(at', GithubWorkers, Accepts) = Number(at, GithubWorkers, Accepts) + 1
      /\ Number(at', GithubWorkers, Passes) = Number(at, GithubWorkers, Passes)
      /\ \A S : Number(at', ParsingWorkers, S) = Number(at, ParsingWorkers, S)
      /\ Number(at, GithubWorkers, Probes) > 0
  <2>1. /\ at[w] \notin Took /\ "settled" \notin Took
        /\ at[w] \in Probes /\ "settled" \notin Probes
        /\ at[w] \notin Accepts /\ "settled" \in Accepts
        /\ at[w] \notin Passes /\ "settled" \notin Passes
    BY <1>1 DEF Took, Probes, Accepts, Passes
  <2>2. Number(at', GithubWorkers, Took) = Number(at, GithubWorkers, Took)
    BY <1>1, <2>1, GithubNumbers
  <2>3. /\ Number(at', GithubWorkers, Probes) = Number(at, GithubWorkers, Probes) - 1
        /\ Number(at, GithubWorkers, Probes) > 0
    BY <1>1, <2>1, GithubNumbers
  <2>4. Number(at', GithubWorkers, Accepts) = Number(at, GithubWorkers, Accepts) + 1
    BY <1>1, <2>1, GithubNumbers
  <2>5. Number(at', GithubWorkers, Passes) = Number(at, GithubWorkers, Passes)
    BY <1>1, <2>1, GithubNumbers
  <2> QED
    BY <1>1, <2>2, <2>3, <2>4, <2>5, GithubNumbers
<1>3. /\ GithubPending' = GithubPending
      /\ GithubOngoing' = GithubOngoing - 1
      /\ GithubFinished' = GithubFinished + 1
      /\ ParsingPending' = ParsingPending
      /\ ParsingOngoing' = ParsingOngoing
      /\ ParsingFinished' = ParsingFinished
  <2>1. GithubOngoing' = GithubOngoing - 1
    BY <1>1, <1>2, Numbers DEF GithubOngoing
  <2>2. GithubFinished' = GithubFinished + 1
    BY <1>1, <1>2, Numbers DEF GithubFinished
  <2>3. /\ GithubPending' = GithubPending
        /\ ParsingPending' = ParsingPending
        /\ ParsingOngoing' = ParsingOngoing
        /\ ParsingFinished' = ParsingFinished
    BY <1>1, <1>2 DEF GithubPending, ParsingPending, ParsingOngoing, ParsingFinished
  <2> QED
    BY <2>1, <2>2, <2>3
<1>4. Settled("github") /\ Same("parsing")
  <2>1. history.section["github"].ongoing > 0
    <3>1. GithubOngoing > 0
      BY <1>2 DEF GithubOngoing
    <3> QED
      BY <3>1 DEF Books
  <2>2. history.section["github"].done + 1 < UintMod
    <3> PICK p \in Nat, o \in Nat, d \in Nat :
               /\ history.section["github"].pending = p /\ history.section["github"].ongoing = o
               /\ history.section["github"].done = d /\ p + o + d < UintMod
      BY Fits DEF Total
    <3>1. UintMod \in Nat
      BY HistoryAssumption
    <3>2. o > 0
      BY <2>1
    <3>3. d + 1 < UintMod
      BY <3>1, <3>2
    <3> QED
      BY <3>3
  <2>3. w \in Workers
    BY DEF Workers
  <2> QED
    BY <1>1, <2>1, <2>2, <2>3, FinishedOne, Names
<1>5. GithubCounted' = GithubCounted /\ ParsingCounted' = ParsingCounted
  BY <1>1, PassesKept DEF GithubCounted
<1>6. Books'
  BY <1>3, <1>4, Fits DEF Books, Same, Taken, Settled
<1> QED
  BY <1>4, <1>5, <1>6, TotalsKept

LEMMA GithubAcceptBooks ==
  ASSUME Flow, Screen, Books, Totals, NEW w \in GithubWorkers, GithubAccept(w)
  PROVE  Books' /\ Totals'
<1>1. /\ at[w] = "probing" /\ at' = [at EXCEPT ![w] = "accepted"]
      /\ "accepted" \in Idle \cup GithubPlaces
      /\ history' = UpdateLine(history, "github", line[w], TRUE)
      /\ UNCHANGED <<main, found, gSubmitted, gCompleted, gItems, gServing, pItems, pSubmitted,
                     pCompleted>>
  BY DEF GithubAccept, Moves, mainThread, Idle, GithubPlaces, github, parsing
<1>2. /\ Number(at', GithubWorkers, Took) = Number(at, GithubWorkers, Took)
      /\ Number(at', GithubWorkers, Probes) = Number(at, GithubWorkers, Probes) - 1
      /\ Number(at', GithubWorkers, Accepts) = Number(at, GithubWorkers, Accepts) + 1
      /\ Number(at', GithubWorkers, Passes) = Number(at, GithubWorkers, Passes)
      /\ \A S : Number(at', ParsingWorkers, S) = Number(at, ParsingWorkers, S)
      /\ Number(at, GithubWorkers, Probes) > 0
  <2>1. /\ at[w] \notin Took /\ "accepted" \notin Took
        /\ at[w] \in Probes /\ "accepted" \notin Probes
        /\ at[w] \notin Accepts /\ "accepted" \in Accepts
        /\ at[w] \notin Passes /\ "accepted" \notin Passes
    BY <1>1 DEF Took, Probes, Accepts, Passes
  <2>2. Number(at', GithubWorkers, Took) = Number(at, GithubWorkers, Took)
    BY <1>1, <2>1, GithubNumbers
  <2>3. /\ Number(at', GithubWorkers, Probes) = Number(at, GithubWorkers, Probes) - 1
        /\ Number(at, GithubWorkers, Probes) > 0
    BY <1>1, <2>1, GithubNumbers
  <2>4. Number(at', GithubWorkers, Accepts) = Number(at, GithubWorkers, Accepts) + 1
    BY <1>1, <2>1, GithubNumbers
  <2>5. Number(at', GithubWorkers, Passes) = Number(at, GithubWorkers, Passes)
    BY <1>1, <2>1, GithubNumbers
  <2> QED
    BY <1>1, <2>2, <2>3, <2>4, <2>5, GithubNumbers
<1>3. /\ GithubPending' = GithubPending
      /\ GithubOngoing' = GithubOngoing - 1
      /\ GithubFinished' = GithubFinished + 1
      /\ ParsingPending' = ParsingPending
      /\ ParsingOngoing' = ParsingOngoing
      /\ ParsingFinished' = ParsingFinished
  <2>1. GithubOngoing' = GithubOngoing - 1
    BY <1>1, <1>2, Numbers DEF GithubOngoing
  <2>2. GithubFinished' = GithubFinished + 1
    BY <1>1, <1>2, Numbers DEF GithubFinished
  <2>3. /\ GithubPending' = GithubPending
        /\ ParsingPending' = ParsingPending
        /\ ParsingOngoing' = ParsingOngoing
        /\ ParsingFinished' = ParsingFinished
    BY <1>1, <1>2 DEF GithubPending, ParsingPending, ParsingOngoing, ParsingFinished
  <2> QED
    BY <2>1, <2>2, <2>3
<1>4. Settled("github") /\ Same("parsing")
  <2>1. history.section["github"].ongoing > 0
    <3>1. GithubOngoing > 0
      BY <1>2 DEF GithubOngoing
    <3> QED
      BY <3>1 DEF Books
  <2>2. history.section["github"].done + 1 < UintMod
    <3> PICK p \in Nat, o \in Nat, d \in Nat :
               /\ history.section["github"].pending = p /\ history.section["github"].ongoing = o
               /\ history.section["github"].done = d /\ p + o + d < UintMod
      BY Fits DEF Total
    <3>1. UintMod \in Nat
      BY HistoryAssumption
    <3>2. o > 0
      BY <2>1
    <3>3. d + 1 < UintMod
      BY <3>1, <3>2
    <3> QED
      BY <3>3
  <2>3. w \in Workers
    BY DEF Workers
  <2> QED
    BY <1>1, <2>1, <2>2, <2>3, FinishedOne, Names
<1>5. GithubCounted' = GithubCounted /\ ParsingCounted' = ParsingCounted
  BY <1>1, PassesKept DEF GithubCounted
<1>6. Books'
  BY <1>3, <1>4, Fits DEF Books, Same, Taken, Settled
<1> QED
  BY <1>4, <1>5, <1>6, TotalsKept

LEMMA GithubPushBooks ==
  ASSUME Flow, Screen, Books, Totals, NEW w \in GithubWorkers, GithubPush(w)
  PROVE  Books' /\ Totals'
<1>1. /\ at[w] = "counted" /\ at' = [at EXCEPT ![w] = "settled"]
      /\ "settled" \in Idle \cup GithubPlaces
      /\ pItems' = Append(pItems, gServing[w])
      /\ pSubmitted' = pSubmitted \cup {gServing[w]}
      /\ UNCHANGED <<main, found, gSubmitted, gCompleted, gItems, gServing, pCompleted, history>>
  BY DEF GithubPush, Moves, mainThread, Idle, GithubPlaces, github, ParsingQueue!Submit
<1>2. Len(pItems') = Len(pItems) + 1
  <2>1. pItems \in Seq(Entries)
    BY DEF Flow, ParsingQueue!QueueInv, ParsingQueue!TypeOK
  <2>2. gServing[w] \in Entries
    BY <1>1, QueueFacts DEF Flow, Places, Idle
  <2> QED
    BY <1>1, <2>1, <2>2, AppendProperties
<1>3. /\ Number(at', GithubWorkers, Took) = Number(at, GithubWorkers, Took)
      /\ Number(at', GithubWorkers, Probes) = Number(at, GithubWorkers, Probes)
      /\ Number(at', GithubWorkers, Accepts) = Number(at, GithubWorkers, Accepts)
      /\ Number(at', GithubWorkers, Passes) = Number(at, GithubWorkers, Passes) - 1
      /\ \A S : Number(at', ParsingWorkers, S) = Number(at, ParsingWorkers, S)
      /\ Number(at, GithubWorkers, Passes) > 0
  <2>1. /\ at[w] \notin Took /\ "settled" \notin Took
        /\ at[w] \notin Probes /\ "settled" \notin Probes
        /\ at[w] \in Accepts /\ "settled" \in Accepts
        /\ at[w] \in Passes /\ "settled" \notin Passes
    BY <1>1 DEF Took, Probes, Accepts, Passes
  <2>2. Number(at', GithubWorkers, Took) = Number(at, GithubWorkers, Took)
    BY <1>1, <2>1, GithubNumbers
  <2>3. Number(at', GithubWorkers, Probes) = Number(at, GithubWorkers, Probes)
    BY <1>1, <2>1, GithubNumbers
  <2>4. Number(at', GithubWorkers, Accepts) = Number(at, GithubWorkers, Accepts)
    BY <1>1, <2>1, GithubNumbers
  <2>5. /\ Number(at', GithubWorkers, Passes) = Number(at, GithubWorkers, Passes) - 1
        /\ Number(at, GithubWorkers, Passes) > 0
    BY <1>1, <2>1, GithubNumbers
  <2> QED
    BY <1>1, <2>2, <2>3, <2>4, <2>5, GithubNumbers
<1>4. /\ GithubPending' = GithubPending
      /\ GithubOngoing' = GithubOngoing
      /\ GithubFinished' = GithubFinished
      /\ ParsingPending' = ParsingPending
      /\ ParsingOngoing' = ParsingOngoing
      /\ ParsingFinished' = ParsingFinished
  <2>1. ParsingPending' = ParsingPending
    <3>1. /\ Number(at, GithubWorkers, Passes) \in Nat /\ Number(at, ParsingWorkers, Took) \in Nat
          /\ Len(pItems) \in Nat
      BY Numbers
    <3>2. Number(at', ParsingWorkers, Took) = Number(at, ParsingWorkers, Took)
      BY <1>3
    <3> QED
      BY <1>2, <1>3, <3>1, <3>2 DEF ParsingPending
  <2>2. /\ GithubPending' = GithubPending
        /\ GithubOngoing' = GithubOngoing
        /\ GithubFinished' = GithubFinished
        /\ ParsingOngoing' = ParsingOngoing
        /\ ParsingFinished' = ParsingFinished
    BY <1>1, <1>3 DEF GithubPending, GithubOngoing, GithubFinished, ParsingOngoing, ParsingFinished
  <2> QED
    BY <2>1, <2>2
<1>5. Same("github") /\ Same("parsing")
  BY <1>1 DEF Same
<1>6. GithubCounted' = GithubCounted /\ ParsingCounted' = ParsingCounted
  <2>1. at'[w] = "settled" /\ \A v \in GithubWorkers : v # w => at'[v] = at[v]
    BY <1>1, QueueFacts, Moved DEF Flow
  <2>2. At(GithubWorkers, {"counted"}) = At(GithubWorkers, {"counted"})' \cup {w}
    BY <1>1, <2>1 DEF At
  <2>3. ParsingCounted' = ParsingCounted
    BY <1>1, <2>2 DEF ParsingCounted
  <2> QED
    BY <1>1, <2>3 DEF GithubCounted
<1> QED
  BY <1>4, <1>5, <1>6, BooksKept, TotalsKept

LEMMA GithubDoneBooks ==
  ASSUME Flow, Screen, Books, Totals, NEW w \in GithubWorkers, GithubDone(w)
  PROVE  Books' /\ Totals'
<1>1. /\ at[w] = "settled" /\ at' = [at EXCEPT ![w] = "idle"]
      /\ "idle" \in Idle \cup GithubPlaces
      /\ gCompleted' = gCompleted \cup {gServing[w]}
      /\ gServing' = [gServing EXCEPT ![w] = NULL]
      /\ gServing[w] # NULL
      /\ UNCHANGED <<main, found, gSubmitted, gItems, pItems, pSubmitted, pCompleted, history>>
  BY DEF GithubDone, Moves, mainThread, Idle, GithubPlaces, parsing, GithubQueue!Complete
<1>2. Cardinality(gCompleted') = Cardinality(gCompleted) + 1
  BY <1>1, GithubServed, Numbers, FS_AddElement
<1>3. /\ Number(at', GithubWorkers, Took) = Number(at, GithubWorkers, Took)
      /\ Number(at', GithubWorkers, Probes) = Number(at, GithubWorkers, Probes)
      /\ Number(at', GithubWorkers, Accepts) = Number(at, GithubWorkers, Accepts) - 1
      /\ Number(at', GithubWorkers, Passes) = Number(at, GithubWorkers, Passes)
      /\ \A S : Number(at', ParsingWorkers, S) = Number(at, ParsingWorkers, S)
      /\ Number(at, GithubWorkers, Accepts) > 0
  <2>1. /\ at[w] \notin Took /\ "idle" \notin Took
        /\ at[w] \notin Probes /\ "idle" \notin Probes
        /\ at[w] \in Accepts /\ "idle" \notin Accepts
        /\ at[w] \notin Passes /\ "idle" \notin Passes
    BY <1>1 DEF Took, Probes, Accepts, Passes
  <2>2. Number(at', GithubWorkers, Took) = Number(at, GithubWorkers, Took)
    BY <1>1, <2>1, GithubNumbers
  <2>3. Number(at', GithubWorkers, Probes) = Number(at, GithubWorkers, Probes)
    BY <1>1, <2>1, GithubNumbers
  <2>4. /\ Number(at', GithubWorkers, Accepts) = Number(at, GithubWorkers, Accepts) - 1
        /\ Number(at, GithubWorkers, Accepts) > 0
    BY <1>1, <2>1, GithubNumbers
  <2>5. Number(at', GithubWorkers, Passes) = Number(at, GithubWorkers, Passes)
    BY <1>1, <2>1, GithubNumbers
  <2> QED
    BY <1>1, <2>2, <2>3, <2>4, <2>5, GithubNumbers
<1>4. /\ GithubPending' = GithubPending
      /\ GithubOngoing' = GithubOngoing
      /\ GithubFinished' = GithubFinished
      /\ ParsingPending' = ParsingPending
      /\ ParsingOngoing' = ParsingOngoing
      /\ ParsingFinished' = ParsingFinished
  <2>1. GithubFinished' = GithubFinished
    BY <1>1, <1>2, <1>3, Numbers DEF GithubFinished
  <2>2. /\ GithubPending' = GithubPending
        /\ GithubOngoing' = GithubOngoing
        /\ ParsingPending' = ParsingPending
        /\ ParsingOngoing' = ParsingOngoing
        /\ ParsingFinished' = ParsingFinished
    BY <1>1, <1>3 DEF GithubPending, GithubOngoing, ParsingPending, ParsingOngoing, ParsingFinished
  <2> QED
    BY <2>1, <2>2
<1>5. Same("github") /\ Same("parsing")
  BY <1>1 DEF Same
<1>6. GithubCounted' = GithubCounted /\ ParsingCounted' = ParsingCounted
  <2>1. \A v \in GithubWorkers : v # w => gServing'[v] = gServing[v]
    BY <1>1, QueueFacts
  <2> QED
    BY <1>1, <2>1, PassesKept DEF GithubCounted
<1> QED
  BY <1>4, <1>5, <1>6, BooksKept, TotalsKept

LEMMA GithubLeaveBooks ==
  ASSUME Flow, Screen, Books, Totals, NEW w \in GithubWorkers, GithubLeave(w)
  PROVE  Books' /\ Totals'
<1>1. /\ at[w] = "idle" /\ at' = [at EXCEPT ![w] = "returned"]
      /\ "returned" \in Idle \cup GithubPlaces
      /\ UNCHANGED <<main, found, gSubmitted, gCompleted, gItems, gServing, pItems, pSubmitted,
                     pCompleted, history>>
  BY DEF GithubLeave, Moves, mainThread, Idle, GithubPlaces, parsing, GithubQueue!Leave
<1>2. /\ Number(at', GithubWorkers, Took) = Number(at, GithubWorkers, Took)
      /\ Number(at', GithubWorkers, Probes) = Number(at, GithubWorkers, Probes)
      /\ Number(at', GithubWorkers, Accepts) = Number(at, GithubWorkers, Accepts)
      /\ Number(at', GithubWorkers, Passes) = Number(at, GithubWorkers, Passes)
      /\ \A S : Number(at', ParsingWorkers, S) = Number(at, ParsingWorkers, S)
  <2>1. /\ at[w] \notin Took /\ "returned" \notin Took
        /\ at[w] \notin Probes /\ "returned" \notin Probes
        /\ at[w] \notin Accepts /\ "returned" \notin Accepts
        /\ at[w] \notin Passes /\ "returned" \notin Passes
    BY <1>1 DEF Took, Probes, Accepts, Passes
  <2>2. Number(at', GithubWorkers, Took) = Number(at, GithubWorkers, Took)
    BY <1>1, <2>1, GithubNumbers
  <2>3. Number(at', GithubWorkers, Probes) = Number(at, GithubWorkers, Probes)
    BY <1>1, <2>1, GithubNumbers
  <2>4. Number(at', GithubWorkers, Accepts) = Number(at, GithubWorkers, Accepts)
    BY <1>1, <2>1, GithubNumbers
  <2>5. Number(at', GithubWorkers, Passes) = Number(at, GithubWorkers, Passes)
    BY <1>1, <2>1, GithubNumbers
  <2> QED
    BY <1>1, <2>2, <2>3, <2>4, <2>5, GithubNumbers
<1>3. /\ GithubPending' = GithubPending
      /\ GithubOngoing' = GithubOngoing
      /\ GithubFinished' = GithubFinished
      /\ ParsingPending' = ParsingPending
      /\ ParsingOngoing' = ParsingOngoing
      /\ ParsingFinished' = ParsingFinished
  <2>1. /\ GithubPending' = GithubPending
        /\ GithubOngoing' = GithubOngoing
        /\ GithubFinished' = GithubFinished
        /\ ParsingPending' = ParsingPending
        /\ ParsingOngoing' = ParsingOngoing
        /\ ParsingFinished' = ParsingFinished
    BY <1>1, <1>2 DEF GithubPending, GithubOngoing, GithubFinished, ParsingPending,
       ParsingOngoing, ParsingFinished
  <2> QED
    BY <2>1
<1>4. Same("github") /\ Same("parsing")
  BY <1>1 DEF Same
<1>5. GithubCounted' = GithubCounted /\ ParsingCounted' = ParsingCounted
  BY <1>1, PassesKept DEF GithubCounted
<1> QED
  BY <1>3, <1>4, <1>5, BooksKept, TotalsKept

\* A parsing worker.
LEMMA PassesStay ==
  ASSUME Flow, NEW w \in ParsingWorkers, NEW to \in Idle \cup ParsingPlaces,
         at' = [at EXCEPT ![w] = to], UNCHANGED <<gServing, pSubmitted>>
  PROVE  ParsingCounted' = ParsingCounted
<1>1. \A v \in GithubWorkers : at'[v] = at[v]
  BY QueueFacts, Moved DEF Flow
<1>2. At(GithubWorkers, {"counted"})' = At(GithubWorkers, {"counted"})
  BY <1>1 DEF At
<1> QED
  BY <1>2 DEF ParsingCounted

LEMMA ParsingPopBooks ==
  ASSUME Flow, Screen, Books, Totals, NEW w \in ParsingWorkers, ParsingPop(w)
  PROVE  Books' /\ Totals'
<1>1. /\ at[w] = "idle" /\ at' = [at EXCEPT ![w] = "popped"]
      /\ "popped" \in Idle \cup ParsingPlaces
      /\ pItems # <<>> /\ pItems' = Tail(pItems)
      /\ UNCHANGED <<main, found, gSubmitted, gCompleted, gItems, gServing, pSubmitted, pCompleted,
                     history>>
  BY DEF ParsingPop, Moves, mainThread, Idle, ParsingPlaces, github, ParsingQueue!Serve
<1>2. Len(pItems') = Len(pItems) - 1
  BY <1>1, HeadTailProperties DEF Flow, ParsingQueue!QueueInv, ParsingQueue!TypeOK
<1>3. /\ Number(at', ParsingWorkers, Took) = Number(at, ParsingWorkers, Took) + 1
      /\ Number(at', ParsingWorkers, Exports) = Number(at, ParsingWorkers, Exports)
      /\ Number(at', ParsingWorkers, Settles) = Number(at, ParsingWorkers, Settles)
      /\ \A S : Number(at', GithubWorkers, S) = Number(at, GithubWorkers, S)
  <2>1. /\ at[w] \notin Took /\ "popped" \in Took
        /\ at[w] \notin Exports /\ "popped" \notin Exports
        /\ at[w] \notin Settles /\ "popped" \notin Settles
    BY <1>1 DEF Took, Exports, Settles
  <2>2. Number(at', ParsingWorkers, Took) = Number(at, ParsingWorkers, Took) + 1
    BY <1>1, <2>1, ParsingNumbers
  <2>3. Number(at', ParsingWorkers, Exports) = Number(at, ParsingWorkers, Exports)
    BY <1>1, <2>1, ParsingNumbers
  <2>4. Number(at', ParsingWorkers, Settles) = Number(at, ParsingWorkers, Settles)
    BY <1>1, <2>1, ParsingNumbers
  <2> QED
    BY <1>1, <2>2, <2>3, <2>4, ParsingNumbers
<1>4. /\ GithubPending' = GithubPending
      /\ GithubOngoing' = GithubOngoing
      /\ GithubFinished' = GithubFinished
      /\ ParsingPending' = ParsingPending
      /\ ParsingOngoing' = ParsingOngoing
      /\ ParsingFinished' = ParsingFinished
  <2>1. ParsingPending' = ParsingPending
    <3>1. /\ Number(at, GithubWorkers, Passes) \in Nat /\ Number(at, ParsingWorkers, Took) \in Nat
          /\ Len(pItems) \in Nat
      BY Numbers
    <3>2. Number(at', GithubWorkers, Passes) = Number(at, GithubWorkers, Passes)
      BY <1>3
    <3> QED
      BY <1>2, <1>3, <3>1, <3>2 DEF ParsingPending
  <2>2. /\ GithubPending' = GithubPending
        /\ GithubOngoing' = GithubOngoing
        /\ GithubFinished' = GithubFinished
        /\ ParsingOngoing' = ParsingOngoing
        /\ ParsingFinished' = ParsingFinished
    BY <1>1, <1>3 DEF GithubPending, GithubOngoing, GithubFinished, ParsingOngoing,
       ParsingFinished
  <2> QED
    BY <2>1, <2>2
<1>5. Same("github") /\ Same("parsing")
  BY <1>1 DEF Same
<1>6. GithubCounted' = GithubCounted /\ ParsingCounted' = ParsingCounted
  BY <1>1, PassesStay DEF GithubCounted
<1> QED
  BY <1>4, <1>5, <1>6, BooksKept, TotalsKept

LEMMA ParsingAddLineBooks ==
  ASSUME Flow, Screen, Books, Totals, NEW w \in ParsingWorkers, ParsingAddLine(w)
  PROVE  Books' /\ Totals'
<1>1. /\ at[w] = "popped" /\ at' = [at EXCEPT ![w] = "parsing"]
      /\ "parsing" \in Idle \cup ParsingPlaces
      /\ history' = AddLine(history, "parsing", pServing[w])
      /\ UNCHANGED <<main, found, gSubmitted, gCompleted, gItems, gServing, pItems, pSubmitted,
                     pCompleted>>
  BY DEF ParsingAddLine, Moves, mainThread, Idle, ParsingPlaces, github, parsing
<1>2. /\ Number(at', ParsingWorkers, Took) = Number(at, ParsingWorkers, Took) - 1
      /\ Number(at', ParsingWorkers, Exports) = Number(at, ParsingWorkers, Exports) + 1
      /\ Number(at', ParsingWorkers, Settles) = Number(at, ParsingWorkers, Settles)
      /\ \A S : Number(at', GithubWorkers, S) = Number(at, GithubWorkers, S)
      /\ Number(at, ParsingWorkers, Took) > 0
  <2>1. /\ at[w] \in Took /\ "parsing" \notin Took
        /\ at[w] \notin Exports /\ "parsing" \in Exports
        /\ at[w] \notin Settles /\ "parsing" \notin Settles
    BY <1>1 DEF Took, Exports, Settles
  <2>2. /\ Number(at', ParsingWorkers, Took) = Number(at, ParsingWorkers, Took) - 1
        /\ Number(at, ParsingWorkers, Took) > 0
    BY <1>1, <2>1, ParsingNumbers
  <2>3. Number(at', ParsingWorkers, Exports) = Number(at, ParsingWorkers, Exports) + 1
    BY <1>1, <2>1, ParsingNumbers
  <2>4. Number(at', ParsingWorkers, Settles) = Number(at, ParsingWorkers, Settles)
    BY <1>1, <2>1, ParsingNumbers
  <2> QED
    BY <1>1, <2>2, <2>3, <2>4, ParsingNumbers
<1>3. /\ GithubPending' = GithubPending
      /\ GithubOngoing' = GithubOngoing
      /\ GithubFinished' = GithubFinished
      /\ ParsingPending' = ParsingPending - 1
      /\ ParsingOngoing' = ParsingOngoing + 1
      /\ ParsingFinished' = ParsingFinished
  <2>1. ParsingPending' = ParsingPending - 1
    <3>1. /\ Number(at, GithubWorkers, Passes) \in Nat /\ Number(at, ParsingWorkers, Took) \in Nat
          /\ Len(pItems) \in Nat
      BY Numbers
    <3>2. Number(at', GithubWorkers, Passes) = Number(at, GithubWorkers, Passes) /\ pItems' = pItems
      BY <1>1, <1>2
    <3> QED
      BY <1>2, <3>1, <3>2 DEF ParsingPending
  <2>2. ParsingOngoing' = ParsingOngoing + 1
    BY <1>1, <1>2, Numbers DEF ParsingOngoing
  <2>3. /\ GithubPending' = GithubPending
        /\ GithubOngoing' = GithubOngoing
        /\ GithubFinished' = GithubFinished
        /\ ParsingFinished' = ParsingFinished
    BY <1>1, <1>2 DEF GithubPending, GithubOngoing, GithubFinished, ParsingFinished
  <2> QED
    BY <2>1, <2>2, <2>3
<1>4. Taken("parsing") /\ Same("github")
  <2>1. pServing[w] \in Entries
    BY <1>1, QueueFacts DEF Flow, Places, Idle
  <2>2. history.section["parsing"].pending > 0
    <3>1. ParsingPending > 0
      BY <1>2, Numbers DEF ParsingPending
    <3> QED
      BY <3>1 DEF Books
  <2>3. history.section["parsing"].ongoing + 1 < UintMod
    <3> PICK p \in Nat, o \in Nat, d \in Nat :
               /\ history.section["parsing"].pending = p /\ history.section["parsing"].ongoing = o
               /\ history.section["parsing"].done = d /\ p + o + d < UintMod
      BY Fits DEF Total
    <3>1. UintMod \in Nat
      BY HistoryAssumption
    <3>2. p > 0
      BY <2>2
    <3>3. o + 1 < UintMod
      BY <3>1, <3>2
    <3> QED
      BY <3>3
  <2> QED
    BY <1>1, <2>1, <2>2, <2>3, Added, Names
<1>5. GithubCounted' = GithubCounted /\ ParsingCounted' = ParsingCounted
  BY <1>1, PassesStay DEF GithubCounted
<1>6. Books'
  BY <1>3, <1>4, Fits DEF Books, Same, Taken, Settled
<1> QED
  BY <1>4, <1>5, <1>6, TotalsKept

LEMMA ParsingOpenBooks ==
  ASSUME Flow, Screen, Books, Totals, NEW w \in ParsingWorkers, ParsingOpen(w)
  PROVE  Books' /\ Totals'
<1>1. /\ at[w] = "parsing" /\ at' = [at EXCEPT ![w] = "writing"]
      /\ "writing" \in Idle \cup ParsingPlaces
      /\ UNCHANGED <<main, found, gSubmitted, gCompleted, gItems, gServing, pItems, pSubmitted,
                     pCompleted, history>>
  BY DEF ParsingOpen, Moves, mainThread, Idle, ParsingPlaces, github, parsing
<1>2. /\ Number(at', ParsingWorkers, Took) = Number(at, ParsingWorkers, Took)
      /\ Number(at', ParsingWorkers, Exports) = Number(at, ParsingWorkers, Exports)
      /\ Number(at', ParsingWorkers, Settles) = Number(at, ParsingWorkers, Settles)
      /\ \A S : Number(at', GithubWorkers, S) = Number(at, GithubWorkers, S)
  <2>1. /\ at[w] \notin Took /\ "writing" \notin Took
        /\ at[w] \in Exports /\ "writing" \in Exports
        /\ at[w] \notin Settles /\ "writing" \notin Settles
    BY <1>1 DEF Took, Exports, Settles
  <2>2. Number(at', ParsingWorkers, Took) = Number(at, ParsingWorkers, Took)
    BY <1>1, <2>1, ParsingNumbers
  <2>3. Number(at', ParsingWorkers, Exports) = Number(at, ParsingWorkers, Exports)
    BY <1>1, <2>1, ParsingNumbers
  <2>4. Number(at', ParsingWorkers, Settles) = Number(at, ParsingWorkers, Settles)
    BY <1>1, <2>1, ParsingNumbers
  <2> QED
    BY <1>1, <2>2, <2>3, <2>4, ParsingNumbers
<1>3. /\ GithubPending' = GithubPending
      /\ GithubOngoing' = GithubOngoing
      /\ GithubFinished' = GithubFinished
      /\ ParsingPending' = ParsingPending
      /\ ParsingOngoing' = ParsingOngoing
      /\ ParsingFinished' = ParsingFinished
  <2>1. /\ GithubPending' = GithubPending
        /\ GithubOngoing' = GithubOngoing
        /\ GithubFinished' = GithubFinished
        /\ ParsingPending' = ParsingPending
        /\ ParsingOngoing' = ParsingOngoing
        /\ ParsingFinished' = ParsingFinished
    BY <1>1, <1>2 DEF GithubPending, GithubOngoing, GithubFinished, ParsingPending,
       ParsingOngoing, ParsingFinished
  <2> QED
    BY <2>1
<1>4. Same("github") /\ Same("parsing")
  BY <1>1 DEF Same
<1>5. GithubCounted' = GithubCounted /\ ParsingCounted' = ParsingCounted
  BY <1>1, PassesStay DEF GithubCounted
<1> QED
  BY <1>3, <1>4, <1>5, BooksKept, TotalsKept

LEMMA ParsingRefusedBooks ==
  ASSUME Flow, Screen, Books, Totals, NEW w \in ParsingWorkers, ParsingRefused(w)
  PROVE  Books' /\ Totals'
<1>1. /\ at[w] = "parsing" /\ at' = [at EXCEPT ![w] = "exported"]
      /\ "exported" \in Idle \cup ParsingPlaces
      /\ UNCHANGED <<main, found, gSubmitted, gCompleted, gItems, gServing, pItems, pSubmitted,
                     pCompleted, history>>
  BY DEF ParsingRefused, Moves, mainThread, Idle, ParsingPlaces, github, parsing
<1>2. /\ Number(at', ParsingWorkers, Took) = Number(at, ParsingWorkers, Took)
      /\ Number(at', ParsingWorkers, Exports) = Number(at, ParsingWorkers, Exports)
      /\ Number(at', ParsingWorkers, Settles) = Number(at, ParsingWorkers, Settles)
      /\ \A S : Number(at', GithubWorkers, S) = Number(at, GithubWorkers, S)
  <2>1. /\ at[w] \notin Took /\ "exported" \notin Took
        /\ at[w] \in Exports /\ "exported" \in Exports
        /\ at[w] \notin Settles /\ "exported" \notin Settles
    BY <1>1 DEF Took, Exports, Settles
  <2>2. Number(at', ParsingWorkers, Took) = Number(at, ParsingWorkers, Took)
    BY <1>1, <2>1, ParsingNumbers
  <2>3. Number(at', ParsingWorkers, Exports) = Number(at, ParsingWorkers, Exports)
    BY <1>1, <2>1, ParsingNumbers
  <2>4. Number(at', ParsingWorkers, Settles) = Number(at, ParsingWorkers, Settles)
    BY <1>1, <2>1, ParsingNumbers
  <2> QED
    BY <1>1, <2>2, <2>3, <2>4, ParsingNumbers
<1>3. /\ GithubPending' = GithubPending
      /\ GithubOngoing' = GithubOngoing
      /\ GithubFinished' = GithubFinished
      /\ ParsingPending' = ParsingPending
      /\ ParsingOngoing' = ParsingOngoing
      /\ ParsingFinished' = ParsingFinished
  <2>1. /\ GithubPending' = GithubPending
        /\ GithubOngoing' = GithubOngoing
        /\ GithubFinished' = GithubFinished
        /\ ParsingPending' = ParsingPending
        /\ ParsingOngoing' = ParsingOngoing
        /\ ParsingFinished' = ParsingFinished
    BY <1>1, <1>2 DEF GithubPending, GithubOngoing, GithubFinished, ParsingPending,
       ParsingOngoing, ParsingFinished
  <2> QED
    BY <2>1
<1>4. Same("github") /\ Same("parsing")
  BY <1>1 DEF Same
<1>5. GithubCounted' = GithubCounted /\ ParsingCounted' = ParsingCounted
  BY <1>1, PassesStay DEF GithubCounted
<1> QED
  BY <1>3, <1>4, <1>5, BooksKept, TotalsKept

LEMMA ParsingCloseBooks ==
  ASSUME Flow, Screen, Books, Totals, NEW w \in ParsingWorkers, ParsingClose(w)
  PROVE  Books' /\ Totals'
<1>1. /\ at[w] = "writing" /\ at' = [at EXCEPT ![w] = "exported"]
      /\ "exported" \in Idle \cup ParsingPlaces
      /\ UNCHANGED <<main, found, gSubmitted, gCompleted, gItems, gServing, pItems, pSubmitted,
                     pCompleted, history>>
  BY DEF ParsingClose, Moves, mainThread, Idle, ParsingPlaces, github, parsing
<1>2. /\ Number(at', ParsingWorkers, Took) = Number(at, ParsingWorkers, Took)
      /\ Number(at', ParsingWorkers, Exports) = Number(at, ParsingWorkers, Exports)
      /\ Number(at', ParsingWorkers, Settles) = Number(at, ParsingWorkers, Settles)
      /\ \A S : Number(at', GithubWorkers, S) = Number(at, GithubWorkers, S)
  <2>1. /\ at[w] \notin Took /\ "exported" \notin Took
        /\ at[w] \in Exports /\ "exported" \in Exports
        /\ at[w] \notin Settles /\ "exported" \notin Settles
    BY <1>1 DEF Took, Exports, Settles
  <2>2. Number(at', ParsingWorkers, Took) = Number(at, ParsingWorkers, Took)
    BY <1>1, <2>1, ParsingNumbers
  <2>3. Number(at', ParsingWorkers, Exports) = Number(at, ParsingWorkers, Exports)
    BY <1>1, <2>1, ParsingNumbers
  <2>4. Number(at', ParsingWorkers, Settles) = Number(at, ParsingWorkers, Settles)
    BY <1>1, <2>1, ParsingNumbers
  <2> QED
    BY <1>1, <2>2, <2>3, <2>4, ParsingNumbers
<1>3. /\ GithubPending' = GithubPending
      /\ GithubOngoing' = GithubOngoing
      /\ GithubFinished' = GithubFinished
      /\ ParsingPending' = ParsingPending
      /\ ParsingOngoing' = ParsingOngoing
      /\ ParsingFinished' = ParsingFinished
  <2>1. /\ GithubPending' = GithubPending
        /\ GithubOngoing' = GithubOngoing
        /\ GithubFinished' = GithubFinished
        /\ ParsingPending' = ParsingPending
        /\ ParsingOngoing' = ParsingOngoing
        /\ ParsingFinished' = ParsingFinished
    BY <1>1, <1>2 DEF GithubPending, GithubOngoing, GithubFinished, ParsingPending,
       ParsingOngoing, ParsingFinished
  <2> QED
    BY <2>1
<1>4. Same("github") /\ Same("parsing")
  BY <1>1 DEF Same
<1>5. GithubCounted' = GithubCounted /\ ParsingCounted' = ParsingCounted
  BY <1>1, PassesStay DEF GithubCounted
<1> QED
  BY <1>3, <1>4, <1>5, BooksKept, TotalsKept

LEMMA ParsingFinishBooks ==
  ASSUME Flow, Screen, Books, Totals, NEW w \in ParsingWorkers, ParsingFinish(w)
  PROVE  Books' /\ Totals'
<1>1. /\ at[w] = "exported" /\ at' = [at EXCEPT ![w] = "settled"]
      /\ "settled" \in Idle \cup ParsingPlaces
      /\ history' = UpdateLine(history, "parsing", line[w], TRUE)
      /\ UNCHANGED <<main, found, gSubmitted, gCompleted, gItems, gServing, pItems, pSubmitted,
                     pCompleted>>
  BY DEF ParsingFinish, Moves, mainThread, Idle, ParsingPlaces, github, parsing
<1>2. /\ Number(at', ParsingWorkers, Took) = Number(at, ParsingWorkers, Took)
      /\ Number(at', ParsingWorkers, Exports) = Number(at, ParsingWorkers, Exports) - 1
      /\ Number(at', ParsingWorkers, Settles) = Number(at, ParsingWorkers, Settles) + 1
      /\ \A S : Number(at', GithubWorkers, S) = Number(at, GithubWorkers, S)
      /\ Number(at, ParsingWorkers, Exports) > 0
  <2>1. /\ at[w] \notin Took /\ "settled" \notin Took
        /\ at[w] \in Exports /\ "settled" \notin Exports
        /\ at[w] \notin Settles /\ "settled" \in Settles
    BY <1>1 DEF Took, Exports, Settles
  <2>2. Number(at', ParsingWorkers, Took) = Number(at, ParsingWorkers, Took)
    BY <1>1, <2>1, ParsingNumbers
  <2>3. /\ Number(at', ParsingWorkers, Exports) = Number(at, ParsingWorkers, Exports) - 1
        /\ Number(at, ParsingWorkers, Exports) > 0
    BY <1>1, <2>1, ParsingNumbers
  <2>4. Number(at', ParsingWorkers, Settles) = Number(at, ParsingWorkers, Settles) + 1
    BY <1>1, <2>1, ParsingNumbers
  <2> QED
    BY <1>1, <2>2, <2>3, <2>4, ParsingNumbers
<1>3. /\ GithubPending' = GithubPending
      /\ GithubOngoing' = GithubOngoing
      /\ GithubFinished' = GithubFinished
      /\ ParsingPending' = ParsingPending
      /\ ParsingOngoing' = ParsingOngoing - 1
      /\ ParsingFinished' = ParsingFinished + 1
  <2>1. ParsingOngoing' = ParsingOngoing - 1
    BY <1>1, <1>2, Numbers DEF ParsingOngoing
  <2>2. ParsingFinished' = ParsingFinished + 1
    BY <1>1, <1>2, Numbers DEF ParsingFinished
  <2>3. /\ GithubPending' = GithubPending
        /\ GithubOngoing' = GithubOngoing
        /\ GithubFinished' = GithubFinished
        /\ ParsingPending' = ParsingPending
    BY <1>1, <1>2 DEF GithubPending, GithubOngoing, GithubFinished, ParsingPending
  <2> QED
    BY <2>1, <2>2, <2>3
<1>4. Settled("parsing") /\ Same("github")
  <2>1. history.section["parsing"].ongoing > 0
    <3>1. ParsingOngoing > 0
      BY <1>2 DEF ParsingOngoing
    <3> QED
      BY <3>1 DEF Books
  <2>2. history.section["parsing"].done + 1 < UintMod
    <3> PICK p \in Nat, o \in Nat, d \in Nat :
               /\ history.section["parsing"].pending = p /\ history.section["parsing"].ongoing = o
               /\ history.section["parsing"].done = d /\ p + o + d < UintMod
      BY Fits DEF Total
    <3>1. UintMod \in Nat
      BY HistoryAssumption
    <3>2. o > 0
      BY <2>1
    <3>3. d + 1 < UintMod
      BY <3>1, <3>2
    <3> QED
      BY <3>3
  <2>3. w \in Workers
    BY DEF Workers
  <2> QED
    BY <1>1, <2>1, <2>2, <2>3, FinishedOne, Names
<1>5. GithubCounted' = GithubCounted /\ ParsingCounted' = ParsingCounted
  BY <1>1, PassesStay DEF GithubCounted
<1>6. Books'
  BY <1>3, <1>4, Fits DEF Books, Same, Taken, Settled
<1> QED
  BY <1>4, <1>5, <1>6, TotalsKept

LEMMA ParsingDoneBooks ==
  ASSUME Flow, Screen, Books, Totals, NEW w \in ParsingWorkers, ParsingDone(w)
  PROVE  Books' /\ Totals'
<1>1. /\ at[w] = "settled" /\ at' = [at EXCEPT ![w] = "idle"]
      /\ "idle" \in Idle \cup ParsingPlaces
      /\ pCompleted' = pCompleted \cup {pServing[w]}
      /\ pServing[w] # NULL
      /\ UNCHANGED <<main, found, gSubmitted, gCompleted, gItems, gServing, pItems, pSubmitted,
                     history>>
  BY DEF ParsingDone, Moves, mainThread, Idle, ParsingPlaces, github, ParsingQueue!Complete
<1>2. Cardinality(pCompleted') = Cardinality(pCompleted) + 1
  BY <1>1, ParsingServed, Numbers, FS_AddElement
<1>3. /\ Number(at', ParsingWorkers, Took) = Number(at, ParsingWorkers, Took)
      /\ Number(at', ParsingWorkers, Exports) = Number(at, ParsingWorkers, Exports)
      /\ Number(at', ParsingWorkers, Settles) = Number(at, ParsingWorkers, Settles) - 1
      /\ \A S : Number(at', GithubWorkers, S) = Number(at, GithubWorkers, S)
      /\ Number(at, ParsingWorkers, Settles) > 0
  <2>1. /\ at[w] \notin Took /\ "idle" \notin Took
        /\ at[w] \notin Exports /\ "idle" \notin Exports
        /\ at[w] \in Settles /\ "idle" \notin Settles
    BY <1>1 DEF Took, Exports, Settles
  <2>2. Number(at', ParsingWorkers, Took) = Number(at, ParsingWorkers, Took)
    BY <1>1, <2>1, ParsingNumbers
  <2>3. Number(at', ParsingWorkers, Exports) = Number(at, ParsingWorkers, Exports)
    BY <1>1, <2>1, ParsingNumbers
  <2>4. /\ Number(at', ParsingWorkers, Settles) = Number(at, ParsingWorkers, Settles) - 1
        /\ Number(at, ParsingWorkers, Settles) > 0
    BY <1>1, <2>1, ParsingNumbers
  <2> QED
    BY <1>1, <2>2, <2>3, <2>4, ParsingNumbers
<1>4. /\ GithubPending' = GithubPending
      /\ GithubOngoing' = GithubOngoing
      /\ GithubFinished' = GithubFinished
      /\ ParsingPending' = ParsingPending
      /\ ParsingOngoing' = ParsingOngoing
      /\ ParsingFinished' = ParsingFinished
  <2>1. ParsingFinished' = ParsingFinished
    BY <1>1, <1>2, <1>3, Numbers DEF ParsingFinished
  <2>2. /\ GithubPending' = GithubPending
        /\ GithubOngoing' = GithubOngoing
        /\ GithubFinished' = GithubFinished
        /\ ParsingPending' = ParsingPending
        /\ ParsingOngoing' = ParsingOngoing
    BY <1>1, <1>3 DEF GithubPending, GithubOngoing, GithubFinished, ParsingPending,
       ParsingOngoing
  <2> QED
    BY <2>1, <2>2
<1>5. Same("github") /\ Same("parsing")
  BY <1>1 DEF Same
<1>6. GithubCounted' = GithubCounted /\ ParsingCounted' = ParsingCounted
  BY <1>1, PassesStay DEF GithubCounted
<1> QED
  BY <1>4, <1>5, <1>6, BooksKept, TotalsKept

LEMMA ParsingLeaveBooks ==
  ASSUME Flow, Screen, Books, Totals, NEW w \in ParsingWorkers, ParsingLeave(w)
  PROVE  Books' /\ Totals'
<1>1. /\ at[w] = "idle" /\ at' = [at EXCEPT ![w] = "returned"]
      /\ "returned" \in Idle \cup ParsingPlaces
      /\ UNCHANGED <<main, found, gSubmitted, gCompleted, gItems, gServing, pItems, pSubmitted,
                     pCompleted, history>>
  BY DEF ParsingLeave, Moves, mainThread, Idle, ParsingPlaces, github, ParsingQueue!Leave
<1>2. /\ Number(at', ParsingWorkers, Took) = Number(at, ParsingWorkers, Took)
      /\ Number(at', ParsingWorkers, Exports) = Number(at, ParsingWorkers, Exports)
      /\ Number(at', ParsingWorkers, Settles) = Number(at, ParsingWorkers, Settles)
      /\ \A S : Number(at', GithubWorkers, S) = Number(at, GithubWorkers, S)
  <2>1. /\ at[w] \notin Took /\ "returned" \notin Took
        /\ at[w] \notin Exports /\ "returned" \notin Exports
        /\ at[w] \notin Settles /\ "returned" \notin Settles
    BY <1>1 DEF Took, Exports, Settles
  <2>2. Number(at', ParsingWorkers, Took) = Number(at, ParsingWorkers, Took)
    BY <1>1, <2>1, ParsingNumbers
  <2>3. Number(at', ParsingWorkers, Exports) = Number(at, ParsingWorkers, Exports)
    BY <1>1, <2>1, ParsingNumbers
  <2>4. Number(at', ParsingWorkers, Settles) = Number(at, ParsingWorkers, Settles)
    BY <1>1, <2>1, ParsingNumbers
  <2> QED
    BY <1>1, <2>2, <2>3, <2>4, ParsingNumbers
<1>3. /\ GithubPending' = GithubPending
      /\ GithubOngoing' = GithubOngoing
      /\ GithubFinished' = GithubFinished
      /\ ParsingPending' = ParsingPending
      /\ ParsingOngoing' = ParsingOngoing
      /\ ParsingFinished' = ParsingFinished
  <2>1. /\ GithubPending' = GithubPending
        /\ GithubOngoing' = GithubOngoing
        /\ GithubFinished' = GithubFinished
        /\ ParsingPending' = ParsingPending
        /\ ParsingOngoing' = ParsingOngoing
        /\ ParsingFinished' = ParsingFinished
    BY <1>1, <1>2 DEF GithubPending, GithubOngoing, GithubFinished, ParsingPending,
       ParsingOngoing, ParsingFinished
  <2> QED
    BY <2>1
<1>4. Same("github") /\ Same("parsing")
  BY <1>1 DEF Same
<1>5. GithubCounted' = GithubCounted /\ ParsingCounted' = ParsingCounted
  BY <1>1, PassesStay DEF GithubCounted
<1> QED
  BY <1>3, <1>4, <1>5, BooksKept, TotalsKept

LEMMA CountedEntries ==
  ASSUME Flow
  PROVE  GithubCounted \subseteq Entries /\ ParsingCounted \subseteq Entries
<1>1. GithubCounted \subseteq Entries
  BY QueueFacts DEF GithubCounted, Flow, FlowTypes, Places
<1>2. ASSUME NEW w \in At(GithubWorkers, {"counted"}) PROVE gServing[w] \in Entries
  BY QueueFacts DEF At, Flow, Places, Idle
<1> QED
  BY <1>1, <1>2, QueueFacts DEF ParsingCounted

\* A GitHub worker that counts its entry for the parsing section.
LEMMA GithubCountBooks ==
  ASSUME Flow, Screen, Books, Totals, NEW w \in GithubWorkers, GithubCount(w)
  PROVE  Books' /\ Totals'
<1>1. /\ at[w] = "accepted" /\ at' = [at EXCEPT ![w] = "counted"]
      /\ "counted" \in Idle \cup GithubPlaces
      /\ history' = IncrementPending(history, "parsing")
      /\ UNCHANGED <<main, found, gSubmitted, gCompleted, gItems, gServing, pItems, pSubmitted,
                     pCompleted>>
  BY DEF GithubCount, Moves, mainThread, Idle, GithubPlaces, CountAccepted, github, parsing
<1>2. /\ Number(at', GithubWorkers, Took) = Number(at, GithubWorkers, Took)
      /\ Number(at', GithubWorkers, Probes) = Number(at, GithubWorkers, Probes)
      /\ Number(at', GithubWorkers, Accepts) = Number(at, GithubWorkers, Accepts)
      /\ Number(at', GithubWorkers, Passes) = Number(at, GithubWorkers, Passes) + 1
      /\ \A S : Number(at', ParsingWorkers, S) = Number(at, ParsingWorkers, S)
  <2>1. /\ at[w] \notin Took /\ "counted" \notin Took
        /\ at[w] \notin Probes /\ "counted" \notin Probes
        /\ at[w] \in Accepts /\ "counted" \in Accepts
        /\ at[w] \notin Passes /\ "counted" \in Passes
    BY <1>1 DEF Took, Probes, Accepts, Passes
  <2>2. Number(at', GithubWorkers, Took) = Number(at, GithubWorkers, Took)
    BY <1>1, <2>1, GithubNumbers
  <2>3. Number(at', GithubWorkers, Probes) = Number(at, GithubWorkers, Probes)
    BY <1>1, <2>1, GithubNumbers
  <2>4. Number(at', GithubWorkers, Accepts) = Number(at, GithubWorkers, Accepts)
    BY <1>1, <2>1, GithubNumbers
  <2>5. Number(at', GithubWorkers, Passes) = Number(at, GithubWorkers, Passes) + 1
    BY <1>1, <2>1, GithubNumbers
  <2> QED
    BY <1>1, <2>2, <2>3, <2>4, <2>5, GithubNumbers
<1>3. /\ GithubPending' = GithubPending
      /\ GithubOngoing' = GithubOngoing
      /\ GithubFinished' = GithubFinished
      /\ ParsingPending' = ParsingPending + 1
      /\ ParsingOngoing' = ParsingOngoing
      /\ ParsingFinished' = ParsingFinished
  <2>1. ParsingPending' = ParsingPending + 1
    <3>1. /\ Number(at, GithubWorkers, Passes) \in Nat /\ Number(at, ParsingWorkers, Took) \in Nat
          /\ Len(pItems) \in Nat
      BY Numbers
    <3>2. Number(at', ParsingWorkers, Took) = Number(at, ParsingWorkers, Took) /\ pItems' = pItems
      BY <1>1, <1>2
    <3> QED
      BY <1>2, <3>1, <3>2 DEF ParsingPending
  <2>2. /\ GithubPending' = GithubPending
        /\ GithubOngoing' = GithubOngoing
        /\ GithubFinished' = GithubFinished
        /\ ParsingOngoing' = ParsingOngoing
        /\ ParsingFinished' = ParsingFinished
    BY <1>1, <1>2 DEF GithubPending, GithubOngoing, GithubFinished, ParsingOngoing,
       ParsingFinished
  <2> QED
    BY <2>1, <2>2
<1>4. ParsingCounted' = ParsingCounted \cup {gServing[w]} /\ GithubCounted' = GithubCounted
  <2>1. at'[w] = "counted" /\ \A v \in GithubWorkers : v # w => at'[v] = at[v]
    BY <1>1, QueueFacts, Moved DEF Flow
  <2>2. At(GithubWorkers, {"counted"})' = At(GithubWorkers, {"counted"}) \cup {w}
    BY <1>1, <2>1 DEF At
  <2>3. ParsingCounted' = ParsingCounted \cup {gServing[w]}
    BY <1>1, <2>2 DEF ParsingCounted
  <2> QED
    BY <1>1, <2>3 DEF GithubCounted
<1>5. gServing[w] \in Entries /\ gServing[w] \notin ParsingCounted
  <2>1. gServing[w] # NULL /\ gServing[w] \in Entries
    BY <1>1, QueueFacts DEF Flow, Places, Idle
  <2>2. /\ gServing[w] \notin gCompleted
        /\ \A v \in GithubWorkers : gServing[v] = gServing[w] => v = w
    BY <2>1, GithubServed
  <2>3. gServing[w] \notin pSubmitted
    BY <1>1, <2>1, <2>2 DEF Flow, Life, Handled
  <2>4. gServing[w] \notin {gServing[v] : v \in At(GithubWorkers, {"counted"})}
    BY <1>1, <2>2 DEF At
  <2> QED
    BY <2>1, <2>3, <2>4 DEF ParsingCounted
<1>6. /\ Cardinality(ParsingCounted') = Cardinality(ParsingCounted) + 1
      /\ Cardinality(ParsingCounted) + 1 < UintMod
  <2>1. IsFiniteSet(ParsingCounted)
    BY Fits
  <2>2. Cardinality(ParsingCounted') = Cardinality(ParsingCounted) + 1
    BY <1>4, <1>5, <2>1, FS_AddElement
  <2>3. ParsingCounted' \subseteq Entries
    BY <1>4, <1>5, CountedEntries
  <2>4. /\ Cardinality(ParsingCounted') <= Cardinality(Entries) /\ Cardinality(Entries) \in Nat
        /\ Cardinality(ParsingCounted') \in Nat
    BY <2>3, CountsFit, FS_Subset, FS_CardinalityType
  <2> QED
    BY <2>2, <2>4, CountsFit, HistoryAssumption
<1> PICK p \in Nat, o \in Nat, d \in Nat :
           /\ history.section["parsing"].pending = p /\ history.section["parsing"].ongoing = o
           /\ history.section["parsing"].done = d
  BY Fits
<1>7. p + o + d = Cardinality(ParsingCounted)
  BY DEF Totals, Total
<1>8. OneMore("parsing") /\ Same("github")
  <2>1. UintMod \in Nat
    BY HistoryAssumption
  <2>2. p + 1 < UintMod
    BY <1>6, <1>7, <2>1
  <2> QED
    BY <1>1, <2>2, Incremented, Names
<1>9. Books'
  BY <1>3, <1>8 DEF Books, Same, OneMore
<1>10. Totals'
  <2>1. Total("parsing")' = p + 1 + o + d
    BY <1>8 DEF Total, OneMore
  <2>2. Total("parsing")' = Cardinality(ParsingCounted')
    BY <1>6, <1>7, <2>1
  <2>3. Total("github")' = Total("github")
    BY <1>8 DEF Total, Same
  <2> QED
    BY <1>4, <2>2, <2>3 DEF Totals
<1> QED
  BY <1>9, <1>10

\* The main thread.
LEMMA MainBooks ==
  ASSUME Flow, Screen, Books, Totals, MainNext, ~\E e \in Entries : MainFind(e)
  PROVE  Books' /\ Totals'
<1>1. UNCHANGED <<at, gServing, gCompleted, pItems, pSubmitted, pCompleted>>
  BY DEF MainNext, MainSetPending, MainAddLine, MainProgress, MainPush, MainCweDone,
     MainCloseGithub, MainCloseParsing, MainReturn, MainMoves, workers, github, parsing,
     FinishGithub, GithubQueue!Submit, GithubQueue!Close, ParsingQueue!Close
<1>2. Same("github") /\ Same("parsing")
  <2>1. CASE MainSetPending
    <3>1. Shown(history) /\ CweCount \in Counts /\ history' = SetPending(history, "nvd", CweCount)
      BY <2>1, SweepFacts DEF MainSetPending
    <3>2. PICK n \in Counts : n = CweCount
      BY <3>1
    <3>3. LET g == SetPending(history, "nvd", n)
          IN  \A t \in SectionNames : t # "nvd" => g.section[t] = history.section[t]
      BY <3>1, PendingSet, Names
    <3> QED
      BY <3>1, <3>2, <3>3, Names DEF Same
  <2>2. CASE MainAddLine
    <3>1. /\ Shown(history) /\ cwe \in Entries \cup 0 .. CweCount
          /\ history' = AddLine(history, "nvd", cwe)
      BY <2>2, SweepFacts DEF MainAddLine
    <3>2. \A t \in SectionNames : t # "nvd" => history'.section[t] = history.section[t]
      BY <3>1, LineAdded, Names
    <3> QED
      BY <3>2, Names DEF Same
  <2>3. CASE MainProgress
    <3>1. /\ Shown(history) /\ mainLine \in Counts
          /\ history' = UpdateLine(history, "nvd", mainLine, FALSE)
      BY <2>3, SweepFacts DEF MainProgress
    <3>2. \A t \in SectionNames : t # "nvd" => history'.section[t] = history.section[t]
      BY <3>1, LineWorking, Names
    <3> QED
      BY <3>2, Names DEF Same
  <2>4. CASE MainCweDone
    <3>1. /\ Shown(history) /\ mainLine \in Counts
          /\ history' = UpdateLine(history, "nvd", mainLine, TRUE)
      BY <2>4, SweepFacts DEF MainCweDone
    <3>2. \A t \in SectionNames : t # "nvd" => history'.section[t] = history.section[t]
      BY <3>1, LineFinished, Names
    <3> QED
      BY <3>2, Names DEF Same
  <2>5. CASE MainPush \/ MainCloseGithub \/ MainCloseParsing \/ MainReturn
    <3>1. history' = history
      BY <2>5 DEF MainPush, MainCloseGithub, MainCloseParsing, MainReturn
    <3> QED
      BY <3>1 DEF Same
  <2> QED
    BY <2>1, <2>2, <2>3, <2>4, <2>5 DEF MainNext
<1>3. GithubPending' = GithubPending /\ GithubCounted' = GithubCounted
  <2>1. CASE MainPush
    <3>1. /\ main = "counted" /\ main' = "sweep" /\ gItems' = Append(gItems, found)
          /\ gSubmitted' = gSubmitted \cup {found}
      BY <2>1 DEF MainPush, MainMoves, GithubQueue!Submit
    <3>2. gItems \in Seq(Entries) /\ found \in Entries
      BY <3>1 DEF Flow, GithubQueue!QueueInv, GithubQueue!TypeOK, FlowTypes, Places
    <3>3. Len(gItems') = Len(gItems) + 1
      BY <3>1, <3>2, AppendProperties
    <3>4. Len(gItems) \in Nat /\ Number(at, GithubWorkers, Took) \in Nat
      BY Numbers
    <3>5. GithubPending' = GithubPending
      BY <1>1, <3>1, <3>3, <3>4 DEF GithubPending
    <3> QED
      BY <3>1, <3>5 DEF GithubCounted
  <2>2. CASE ~MainPush
    <3>1. /\ main # "counted" /\ main' # "counted" /\ gItems' = gItems /\ gSubmitted' = gSubmitted
      BY <2>2 DEF MainNext, MainSetPending, MainAddLine, MainProgress, MainCweDone,
         MainCloseGithub, MainCloseParsing, MainReturn, MainMoves, github,
         FinishGithub, GithubQueue!Close
    <3> QED
      BY <1>1, <3>1 DEF GithubPending, GithubCounted
  <2> QED
    BY <2>1, <2>2
<1>4. /\ GithubOngoing' = GithubOngoing /\ GithubFinished' = GithubFinished
      /\ ParsingPending' = ParsingPending /\ ParsingOngoing' = ParsingOngoing
      /\ ParsingFinished' = ParsingFinished /\ ParsingCounted' = ParsingCounted
  BY <1>1 DEF GithubOngoing, GithubFinished, ParsingPending, ParsingOngoing, ParsingFinished,
     ParsingCounted, At
<1> QED
  BY <1>2, <1>3, <1>4, BooksKept, TotalsKept

LEMMA MainFindBooks ==
  ASSUME Flow, Screen, Books, Totals, NEW e \in Entries, MainFind(e)
  PROVE  Books' /\ Totals'
<1>1. /\ main = "sweep" /\ main' = "counted" /\ found' = e /\ e \notin gSubmitted
      /\ history' = IncrementPending(history, "github")
      /\ UNCHANGED <<at, gItems, gServing, gSubmitted, gCompleted, pItems, pSubmitted,
                     pCompleted>>
  BY DEF MainFind, MainMoves, CountFound, workers, github, parsing
<1>2. /\ GithubPending' = GithubPending + 1
      /\ GithubOngoing' = GithubOngoing /\ GithubFinished' = GithubFinished
      /\ ParsingPending' = ParsingPending /\ ParsingOngoing' = ParsingOngoing
      /\ ParsingFinished' = ParsingFinished /\ ParsingCounted' = ParsingCounted
  <2>1. Len(gItems) \in Nat /\ Number(at, GithubWorkers, Took) \in Nat
    BY Numbers
  <2>2. GithubPending' = GithubPending + 1
    BY <1>1, <2>1 DEF GithubPending
  <2> QED
    BY <1>1, <2>2 DEF GithubOngoing, GithubFinished, ParsingPending, ParsingOngoing,
       ParsingFinished, ParsingCounted, At
<1>3. GithubCounted = gSubmitted /\ GithubCounted' = GithubCounted \cup {e}
  BY <1>1 DEF GithubCounted
<1>4. /\ Cardinality(GithubCounted') = Cardinality(GithubCounted) + 1
      /\ Cardinality(GithubCounted) + 1 < UintMod
  <2>1. IsFiniteSet(GithubCounted)
    BY Fits
  <2>2. Cardinality(GithubCounted') = Cardinality(GithubCounted) + 1
    BY <1>1, <1>3, <2>1, FS_AddElement
  <2>3. GithubCounted' \subseteq Entries
    BY <1>3, CountedEntries
  <2>4. /\ Cardinality(GithubCounted') <= Cardinality(Entries) /\ Cardinality(Entries) \in Nat
        /\ Cardinality(GithubCounted') \in Nat
    BY <2>3, CountsFit, FS_Subset, FS_CardinalityType
  <2> QED
    BY <2>2, <2>4, CountsFit, HistoryAssumption
<1> PICK p \in Nat, o \in Nat, d \in Nat :
           /\ history.section["github"].pending = p /\ history.section["github"].ongoing = o
           /\ history.section["github"].done = d
  BY Fits
<1>5. p + o + d = Cardinality(GithubCounted)
  BY DEF Totals, Total
<1>6. OneMore("github") /\ Same("parsing")
  <2>1. UintMod \in Nat
    BY HistoryAssumption
  <2>2. p + 1 < UintMod
    BY <1>4, <1>5, <2>1
  <2> QED
    BY <1>1, <2>2, Incremented, Names
<1>7. Books'
  BY <1>2, <1>6 DEF Books, Same, OneMore
<1>8. Totals'
  <2>1. Total("github")' = p + 1 + o + d
    BY <1>6 DEF Total, OneMore
  <2>2. Total("github")' = Cardinality(GithubCounted')
    BY <1>4, <1>5, <2>1
  <2>3. Total("parsing")' = Total("parsing")
    BY <1>6 DEF Total, Same
  <2> QED
    BY <1>2, <2>2, <2>3 DEF Totals
<1> QED
  BY <1>7, <1>8

\* A new display counts nothing, and nothing is there to count.
LEMMA NumberNone ==
  ASSUME NEW f, NEW ws, NEW S, \A w \in ws : f[w] \notin S
  PROVE  Number(f, ws, S) = 0
<1>1. {w \in ws : f[w] \in S} = {}
  OBVIOUS
<1> QED
  BY <1>1, FS_EmptySet DEF Number

LEMMA FreshBooks == Fresh => Books /\ Totals
<1> SUFFICES ASSUME Fresh PROVE Books /\ Totals
  OBVIOUS
<1>1. /\ main = "start" /\ at = [w \in Workers |-> "idle"] /\ gItems = <<>> /\ pItems = <<>>
      /\ gSubmitted = {} /\ pSubmitted = {} /\ gCompleted = {} /\ pCompleted = {}
  BY DEF Fresh, GithubQueue!Init, ParsingQueue!Init
<1>2. /\ \A w \in GithubWorkers : at[w] = "idle"
      /\ \A w \in ParsingWorkers : at[w] = "idle"
  BY <1>1 DEF Workers
<1>3. /\ "idle" \notin Took /\ "idle" \notin Probes /\ "idle" \notin Accepts
      /\ "idle" \notin Passes /\ "idle" \notin Exports /\ "idle" \notin Settles
  BY DEF Took, Probes, Accepts, Passes, Exports, Settles
<1>4. /\ Number(at, GithubWorkers, Took) = 0 /\ Number(at, GithubWorkers, Probes) = 0
      /\ Number(at, GithubWorkers, Accepts) = 0 /\ Number(at, GithubWorkers, Passes) = 0
      /\ Number(at, ParsingWorkers, Took) = 0 /\ Number(at, ParsingWorkers, Exports) = 0
      /\ Number(at, ParsingWorkers, Settles) = 0
  BY <1>2, <1>3, NumberNone
<1>5. Len(<<>>) = 0 /\ Cardinality({}) = 0
  BY EmptySeq, FS_EmptySet
<1>6. /\ GithubPending = 0 /\ GithubOngoing = 0 /\ GithubFinished = 0
      /\ ParsingPending = 0 /\ ParsingOngoing = 0 /\ ParsingFinished = 0
  BY <1>1, <1>4, <1>5 DEF GithubPending, GithubOngoing, GithubFinished, ParsingPending,
     ParsingOngoing, ParsingFinished
<1>7. history.section["github"] = NewSection /\ history.section["parsing"] = NewSection
  BY Names DEF Fresh, NewHistory
<1>8. GithubCounted = {} /\ ParsingCounted = {}
  BY <1>1, <1>2 DEF GithubCounted, ParsingCounted, At
<1>9. Books
  BY <1>6, <1>7 DEF Books, NewSection
<1>10. Totals
  BY <1>5, <1>7, <1>8 DEF Totals, Total, NewSection
<1> QED
  BY <1>9, <1>10

LEMMA RunAgainBooks == RunAgain => Books' /\ Totals'
<1>1. RunAgain => Fresh'
  BY RunAgainFresh
<1>2. (Fresh => Books /\ Totals)'
  BY FreshBooks, PTL
<1> QED
  BY <1>1, <1>2

LEMMA GithubBooks ==
  ASSUME Flow, Screen, Books, Totals, NEW w \in GithubWorkers, GithubNext(w)
  PROVE  Books' /\ Totals'
BY GithubPopBooks, GithubAddLineBooks, GithubProgressBooks, GithubRejectBooks,
   GithubAcceptBooks, GithubCountBooks, GithubPushBooks, GithubDoneBooks, GithubLeaveBooks
   DEF GithubNext

LEMMA ParsingBooks ==
  ASSUME Flow, Screen, Books, Totals, NEW w \in ParsingWorkers, ParsingNext(w)
  PROVE  Books' /\ Totals'
BY ParsingPopBooks, ParsingAddLineBooks, ParsingOpenBooks, ParsingRefusedBooks,
   ParsingCloseBooks, ParsingFinishBooks, ParsingDoneBooks, ParsingLeaveBooks
   DEF ParsingNext

LEMMA BooksStep == Flow /\ Screen /\ (Books /\ Totals) /\ [Next]_vars => (Books /\ Totals)'
<1> SUFFICES ASSUME Flow, Screen, Books, Totals, [Next]_vars PROVE Books' /\ Totals'
  OBVIOUS
<1>1. CASE Exit \/ Ended \/ UNCHANGED vars
  <2>1. UNCHANGED <<main, found, at, history, gItems, gServing, gSubmitted, gCompleted, pItems,
                    pSubmitted, pCompleted>>
    BY <1>1 DEF Exit, Ended, vars, mainThread, workers, github, parsing
  <2>2. /\ GithubPending' = GithubPending /\ GithubOngoing' = GithubOngoing
        /\ GithubFinished' = GithubFinished /\ ParsingPending' = ParsingPending
        /\ ParsingOngoing' = ParsingOngoing /\ ParsingFinished' = ParsingFinished
        /\ GithubCounted' = GithubCounted /\ ParsingCounted' = ParsingCounted
    BY <2>1 DEF GithubPending, GithubOngoing, GithubFinished, ParsingPending,
       ParsingOngoing, ParsingFinished, GithubCounted, ParsingCounted, At
  <2>3. Same("github") /\ Same("parsing")
    BY <2>1 DEF Same
  <2> QED
    BY <2>2, <2>3, BooksKept, TotalsKept
<1> QED
  BY <1>1, MainBooks, MainFindBooks, GithubBooks, ParsingBooks, RunAgainBooks DEF Next

\* The counters of the display say what the threads and the queues are at, and
\* add up to the entries that were counted, which is why none of them wraps.
THEOREM BooksInvariance == SafeSpec => [](Books /\ Totals)
<1>1. Init => Books /\ Totals
  BY FreshBooks DEF Init, Fresh
<1> QED
  BY <1>1, FlowInvariance, ScreenInvariance, BooksStep, PTL DEF SafeSpec

\* The counters of the three sections tell the truth at every redraw.
THEOREM Telling == SafeSpec => []CountersTell
<1>1. Screen /\ Books => CountersTell
  <2> SUFFICES ASSUME Screen, Books PROVE CountersTell
    OBVIOUS
  <2>1. /\ history.section["nvd"].ongoing = IF main \in {"sweep", "counted"} THEN 1 ELSE 0
        /\ history.section["nvd"].done = cwe
        /\ main # "start" => history.section["nvd"].pending =
             CweCount - history.section["nvd"].done - history.section["nvd"].ongoing
    BY DEF Screen, Sweep, Sweeping
  <2>2. \A ws, S : Cardinality(At(ws, S)) = Number(at, ws, S)
    BY DEF At, Number
  <2> QED
    BY <2>1, <2>2 DEF CountersTell, Books, GithubPending, GithubOngoing, GithubFinished,
       ParsingPending, ParsingOngoing, ParsingFinished, Took, Probes, Accepts, Passes,
       Exports, Settles
<1> QED
  BY <1>1, ScreenInvariance, BooksInvariance, PTL

-----------------------------------------------------------------------------
(* What a run leaves.                                                      *)

\* When main has returned, so has every worker, and no queue holds an entry.
LEMMA AllGone ==
  ASSUME Flow, main = "returned"
  PROVE  /\ \A w \in GithubWorkers : at[w] = "returned"
         /\ \A w \in ParsingWorkers : at[w] = "returned"
         /\ gItems = <<>> /\ pItems = <<>> /\ found = NULL
         /\ gCompleted = gSubmitted /\ pCompleted = pSubmitted
<1>1. gGone = GithubWorkers /\ pGone = ParsingWorkers
  BY DEF Flow, Closing
<1>2. /\ \A w \in GithubWorkers : at[w] = "returned" /\ gServing[w] = NULL
      /\ \A w \in ParsingWorkers : at[w] = "returned" /\ pServing[w] = NULL
      /\ found = NULL
  BY <1>1 DEF Flow, Places, Idle
<1>3. gItems = <<>> /\ pItems = <<>>
  BY <1>1, PipelineAssumption DEF Flow, GithubQueue!QueueInv, GithubQueue!LeavesLast,
     ParsingQueue!QueueInv, ParsingQueue!LeavesLast
<1>4. gSubmitted \subseteq gCompleted
  <2>1. \A e \in gSubmitted : GithubQueue!Waits(e) \/ GithubQueue!Served(e) \/ e \in gCompleted
    BY DEF Flow, GithubQueue!QueueInv, GithubQueue!EachJobOnce
  <2>2. \A e \in Entries : ~GithubQueue!Waits(e) /\ ~GithubQueue!Served(e)
    BY <1>2, <1>3, QueueFacts, EmptySeq DEF GithubQueue!Waits, GithubQueue!Served
  <2> QED
    BY <2>1, <2>2, QueueFacts
<1>5. pSubmitted \subseteq pCompleted
  <2>1. \A e \in pSubmitted : ParsingQueue!Waits(e) \/ ParsingQueue!Served(e) \/ e \in pCompleted
    BY DEF Flow, ParsingQueue!QueueInv, ParsingQueue!EachJobOnce
  <2>2. \A e \in Entries : ~ParsingQueue!Waits(e) /\ ~ParsingQueue!Served(e)
    BY <1>2, <1>3, QueueFacts, EmptySeq DEF ParsingQueue!Waits, ParsingQueue!Served
  <2> QED
    BY <2>1, <2>2, QueueFacts
<1> QED
  BY <1>2, <1>3, <1>4, <1>5, QueueFacts

\* A run that ends by itself has rejected or exported whatever it found, leaves
\* no file half written, and shows counters that say so.
THEOREM Leaving == SafeSpec => []NothingLeft
<1>1. Flow /\ Files /\ Screen /\ Books => NothingLeft
  <2> SUFFICES ASSUME Flow, Files, Screen, Books, main = "returned" PROVE NothingLeft
    BY DEF NothingLeft
  <2>1. /\ \A w \in GithubWorkers : at[w] = "returned"
        /\ \A w \in ParsingWorkers : at[w] = "returned"
        /\ gItems = <<>> /\ pItems = <<>> /\ found = NULL
        /\ gCompleted = gSubmitted /\ pCompleted = pSubmitted
    BY AllGone
  <2>2. \A e \in Entries : entry[e] = IF e \in gSubmitted THEN "freed" ELSE "none"
    <3>1. \A e \in Entries : (e \in gSubmitted => Handled(e)) /\ (e \in pSubmitted => Exported(e))
      BY <2>1 DEF Handled, Exported
    <3> QED
      BY <2>1, <3>1, QueueFacts DEF Flow, Life
  <2>3. \A e \in pSubmitted : disk[FileName[e]] # Absent
    BY <2>1 DEF Files
  <2>4. run = 1 => \A n \in FileNames : disk[n].state # "partial"
    BY <2>1 DEF Files
  <2>5. /\ "returned" \notin Took /\ "returned" \notin Probes /\ "returned" \notin Accepts
        /\ "returned" \notin Passes /\ "returned" \notin Exports /\ "returned" \notin Settles
    BY DEF Took, Probes, Accepts, Passes, Exports, Settles
  <2>6. /\ Number(at, GithubWorkers, Took) = 0 /\ Number(at, GithubWorkers, Probes) = 0
        /\ Number(at, GithubWorkers, Accepts) = 0 /\ Number(at, GithubWorkers, Passes) = 0
        /\ Number(at, ParsingWorkers, Took) = 0 /\ Number(at, ParsingWorkers, Exports) = 0
        /\ Number(at, ParsingWorkers, Settles) = 0
    BY <2>1, <2>5, NumberNone
  <2>7. /\ Len(gItems) = 0 /\ Len(pItems) = 0
        /\ Cardinality(gSubmitted) \in Nat /\ Cardinality(pSubmitted) \in Nat
    BY <2>1, EmptySeq, Numbers
  <2>8. /\ GithubPending = 0 /\ GithubOngoing = 0 /\ GithubFinished = Cardinality(gSubmitted)
        /\ ParsingPending = 0 /\ ParsingOngoing = 0 /\ ParsingFinished = Cardinality(pSubmitted)
    BY <2>1, <2>6, <2>7 DEF GithubPending, GithubOngoing, GithubFinished, ParsingPending,
       ParsingOngoing, ParsingFinished
  <2>9. history.section["nvd"].pending = 0 /\ history.section["nvd"].ongoing = 0
    <3>1. /\ history.section["nvd"].ongoing = 0 /\ history.section["nvd"].done = CweCount
          /\ history.section["nvd"].pending =
               CweCount - history.section["nvd"].done - history.section["nvd"].ongoing
      BY DEF Screen, Sweep, Sweeping, Finishing
    <3>2. CweCount - CweCount - 0 = 0
      BY SweepFacts
    <3> QED
      BY <3>1, <3>2
  <2>10. \A s \in SectionNames : history.section[s].pending = 0 /\ history.section[s].ongoing = 0
    BY <2>8, <2>9 DEF SectionNames, Books
  <2> QED
    BY <2>1, <2>2, <2>3, <2>4, <2>8, <2>10 DEF NothingLeft, Books
<1> QED
  BY <1>1, FlowInvariance, FilesInvariance, ScreenInvariance, BooksInvariance, PTL

-----------------------------------------------------------------------------
(* The line of a worker.                                                   *)

\* Lines that are left alone, while more entries may be begun.
LEMMA RowsStay ==
  ASSUME NEW sec, NEW sec2, NEW ln, NEW ln2, NEW busy, NEW sv, NEW sv2, NEW begun, NEW begun2,
         Rows(sec, ln, busy, sv, begun),
         sec2.pushed = sec.pushed, sec2.ongoing = sec.ongoing, sec2.done = sec.done,
         sec2.lines = sec.lines,
         \A w \in busy : ln2[w] = ln[w] /\ sv2[w] = sv[w], begun \subseteq begun2
  PROVE  Rows(sec2, ln2, busy, sv2, begun2)
BY DEF Rows

\* A busy worker that says how far it is.
LEMMA RowsWorking ==
  ASSUME NEW sec, NEW sec2, NEW ln, NEW busy, NEW sv, NEW begun, NEW w \in busy,
         Rows(sec, ln, busy, sv, begun), sec.pushed \in Nat,
         sec2.pushed = sec.pushed, sec2.ongoing = sec.ongoing, sec2.done = sec.done,
         Len(sec2.lines) = Len(sec.lines), Len(sec.lines) \in Nat,
         \A j \in 1 .. Len(sec.lines) :
           sec2.lines[j] = IF j = sec.pushed - ln[w] + 1
                           THEN [who |-> sec.lines[j].who, text |-> "working"]
                           ELSE sec.lines[j]
  PROVE  Rows(sec2, ln, busy, sv, begun)
<1>1. ASSUME NEW i \in 1 .. Len(sec.lines)
      PROVE  /\ sec2.lines[i].who = sec.lines[i].who
             /\ sec2.lines[i].text # "done" <=>
                  sec.lines[i].text # "done" \/ i = sec.pushed - ln[w] + 1
  <2>1. sec2.lines[i] = IF i = sec.pushed - ln[w] + 1
                        THEN [who |-> sec.lines[i].who, text |-> "working"]
                        ELSE sec.lines[i]
    OBVIOUS
  <2>2. CASE i = sec.pushed - ln[w] + 1
    <3>1. sec2.lines[i] = [who |-> sec.lines[i].who, text |-> "working"]
      BY <2>1, <2>2
    <3> QED
      BY <2>2, <3>1
  <2>3. CASE i # sec.pushed - ln[w] + 1
    <3>1. sec2.lines[i] = sec.lines[i]
      BY <2>1, <2>3
    <3> QED
      BY <2>3, <3>1
  <2> QED
    BY <2>2, <2>3
<1>2. ASSUME NEW i \in 1 .. Len(sec.lines), i = sec.pushed - ln[w] + 1
      PROVE  sec.lines[i].text # "done"
  <2>1. ln[w] \in Nat
    BY DEF Rows
  <2>2. ln[w] = sec.pushed - i + 1
    BY <1>2, <2>1
  <2> QED
    BY <2>2 DEF Rows
<1>3. ASSUME NEW i \in 1 .. Len(sec.lines)
      PROVE  sec2.lines[i].text # "done" <=> \E v \in busy : ln[v] = sec.pushed - i + 1
  <2>1. sec2.lines[i].text # "done" <=> sec.lines[i].text # "done"
    BY <1>1, <1>2
  <2> QED
    BY <2>1 DEF Rows
<1>4. ASSUME NEW i \in 1 .. Len(sec.lines)
      PROVE  /\ sec2.lines[i].who \in begun
             /\ \A v \in busy : sv[v] = sec2.lines[i].who <=> ln[v] = sec.pushed - i + 1
  <2>1. sec2.lines[i].who = sec.lines[i].who
    BY <1>1
  <2> QED
    BY <2>1 DEF Rows
<1>5. /\ sec2.pushed = sec2.ongoing + sec2.done
      /\ \A v \in busy : ln[v] \in 1 .. sec2.pushed
  BY DEF Rows
<1> QED
  BY <1>3, <1>4, <1>5 DEF Rows

\* A busy worker that is done with its entry.
LEMMA RowsFinished ==
  ASSUME NEW sec, NEW sec2, NEW ln, NEW busy, NEW sv, NEW begun, NEW w \in busy,
         Rows(sec, ln, busy, sv, begun), sec.pushed \in Nat,
         \A v \in busy : sv[v] = sv[w] => v = w,
         sec.ongoing \in Nat, sec.done \in Nat,
         sec2.pushed = sec.pushed, sec2.ongoing = sec.ongoing - 1, sec2.done = sec.done + 1,
         Len(sec2.lines) = Len(sec.lines), Len(sec.lines) \in Nat,
         \A j \in 1 .. Len(sec.lines) :
           sec2.lines[j] = IF j = sec.pushed - ln[w] + 1
                           THEN [who |-> sec.lines[j].who, text |-> "done"]
                           ELSE sec.lines[j]
  PROVE  Rows(sec2, ln, busy \ {w}, sv, begun)
<1>1. ASSUME NEW i \in 1 .. Len(sec.lines)
      PROVE  /\ sec2.lines[i].who = sec.lines[i].who
             /\ sec2.lines[i].text # "done" <=>
                  sec.lines[i].text # "done" /\ i # sec.pushed - ln[w] + 1
  <2>1. sec2.lines[i] = IF i = sec.pushed - ln[w] + 1
                        THEN [who |-> sec.lines[i].who, text |-> "done"]
                        ELSE sec.lines[i]
    OBVIOUS
  <2>2. CASE i = sec.pushed - ln[w] + 1
    <3>1. sec2.lines[i] = [who |-> sec.lines[i].who, text |-> "done"]
      BY <2>1, <2>2
    <3> QED
      BY <2>2, <3>1
  <2>3. CASE i # sec.pushed - ln[w] + 1
    <3>1. sec2.lines[i] = sec.lines[i]
      BY <2>1, <2>3
    <3> QED
      BY <2>3, <3>1
  <2> QED
    BY <2>2, <2>3
<1>2. sec2.pushed = sec2.ongoing + sec2.done
  BY DEF Rows
<1>3. ASSUME NEW i \in 1 .. Len(sec.lines)
      PROVE  sec2.lines[i].text # "done" <=>
               \E v \in busy \ {w} : ln[v] = sec.pushed - i + 1
  <2>1. i = sec.pushed - ln[w] + 1 <=> ln[w] = sec.pushed - i + 1
    <3>1. ln[w] \in 1 .. sec.pushed
      BY DEF Rows
    <3>2. PICK n \in Nat, p \in Nat : n = ln[w] /\ p = sec.pushed
      BY <3>1
    <3>3. i = p - n + 1 <=> n = p - i + 1
      OBVIOUS
    <3> QED
      BY <3>2, <3>3
  <2>2. CASE ln[w] = sec.pushed - i + 1
    <3>1. sv[w] = sec.lines[i].who
      BY <2>2 DEF Rows
    <3>2. ASSUME NEW v \in busy, ln[v] = sec.pushed - i + 1 PROVE v = w
      BY <3>1, <3>2 DEF Rows
    <3> QED
      BY <1>1, <2>1, <2>2, <3>2
  <2>3. CASE ln[w] # sec.pushed - i + 1
    <3>1. sec.lines[i].text # "done" <=> \E v \in busy : ln[v] = sec.pushed - i + 1
      BY DEF Rows
    <3> QED
      BY <1>1, <2>1, <2>3, <3>1
  <2> QED
    BY <2>2, <2>3
<1>4. ASSUME NEW i \in 1 .. Len(sec.lines)
      PROVE  /\ sec2.lines[i].who \in begun
             /\ \A v \in busy \ {w} :
                  sv[v] = sec2.lines[i].who <=> ln[v] = sec.pushed - i + 1
  <2>1. sec2.lines[i].who = sec.lines[i].who
    BY <1>1
  <2> QED
    BY <2>1 DEF Rows
<1>5. \A v \in busy \ {w} : ln[v] \in 1 .. sec2.pushed
  BY DEF Rows
<1> QED
  BY <1>2, <1>3, <1>4, <1>5 DEF Rows

\* The section sec2 has one line more than sec, which is about e.
Longer(sec, sec2, e) ==
  /\ sec.pushed \in Nat /\ sec.ongoing \in Nat /\ sec.done \in Nat
  /\ sec2.pushed = sec.pushed + 1 /\ sec2.ongoing = sec.ongoing + 1 /\ sec2.done = sec.done
  /\ Len(sec.lines) \in Nat /\ Len(sec2.lines) \in Nat /\ Len(sec2.lines) <= Len(sec.lines) + 1
  /\ sec2.lines[1] = [who |-> e, text |-> "new"]
  /\ \A i \in 2 .. Len(sec2.lines) : sec2.lines[i] = sec.lines[i - 1]

\* A worker that begins with an entry nobody has begun.
LEMMA RowsAdded ==
  ASSUME NEW sec, NEW sec2, NEW ln, NEW ln2, NEW busy, NEW sv, NEW begun, NEW w, w \notin busy,
         Rows(sec, ln, busy, sv, begun), Longer(sec, sec2, sv[w]),
         \A v \in busy : sv[v] # sv[w], sv[w] \notin begun,
         ln2[w] = sec2.pushed, \A v \in busy : ln2[v] = ln[v]
  PROVE  Rows(sec2, ln2, busy \cup {w}, sv, begun \cup {sv[w]})
<1>1. /\ sec.pushed \in Nat /\ sec.ongoing \in Nat /\ sec.done \in Nat
       /\ sec2.pushed = sec.pushed + 1 /\ sec2.ongoing = sec.ongoing + 1 /\ sec2.done = sec.done
       /\ Len(sec.lines) \in Nat /\ Len(sec2.lines) \in Nat
       /\ Len(sec2.lines) <= Len(sec.lines) + 1
       /\ sec2.lines[1] = [who |-> sv[w], text |-> "new"]
       /\ \A i \in 2 .. Len(sec2.lines) : sec2.lines[i] = sec.lines[i - 1]
  BY DEF Longer
<1>2. sec2.pushed = sec2.ongoing + sec2.done
  BY <1>1 DEF Rows
<1>3. PICK p \in Nat : p = sec.pushed
  BY <1>1
<1>4. sec2.pushed = p + 1 /\ ln2[w] = p + 1
  BY <1>1, <1>3
<1>5. PICK q \in Nat : q = p + 1
  OBVIOUS
<1>6. sec2.pushed = q
  BY <1>4, <1>5
<1>7. ASSUME NEW v \in busy
      PROVE  ln[v] \in 1 .. p
  BY <1>3 DEF Rows
<1>8. \A v \in busy \cup {w} : ln2[v] \in 1 .. p + 1
  BY <1>4, <1>7
<1>9. ASSUME NEW i \in 1 .. Len(sec2.lines)
      PROVE  /\ sec2.lines[i].who \in begun \cup {sv[w]}
             /\ \A v \in busy \cup {w} :
                  sv[v] = sec2.lines[i].who <=> ln2[v] = q - i + 1
             /\ sec2.lines[i].text # "done" <=>
                  \E v \in busy \cup {w} : ln2[v] = q - i + 1
  <2>1. CASE i = 1
    <3>1. sec2.lines[i].who = sv[w] /\ sec2.lines[i].text # "done"
      BY <1>1, <2>1
    <3>2. q - i + 1 = q
      BY <2>1
    <3>3. ln2[w] = q /\ \A v \in busy : ln2[v] # q
      BY <1>4, <1>5, <1>7
    <3> QED
      BY <3>1, <3>2, <3>3
  <2>2. CASE i # 1
    <3>1. i - 1 \in 1 .. Len(sec.lines) /\ i \in 2 .. Len(sec2.lines)
      BY <1>1, <2>2
    <3>2. sec2.lines[i] = sec.lines[i - 1]
      BY <1>1, <3>1
    <3>3. q - i + 1 = p - (i - 1) + 1 /\ q - i + 1 # q
      BY <1>1, <1>5, <2>2
    <3>4. /\ sec.lines[i - 1].who \in begun
          /\ \A v \in busy : sv[v] = sec.lines[i - 1].who <=> ln[v] = p - (i - 1) + 1
          /\ sec.lines[i - 1].text # "done" <=> \E v \in busy : ln[v] = p - (i - 1) + 1
      BY <1>3, <3>1 DEF Rows
    <3> QED
      BY <1>4, <1>5, <3>2, <3>3, <3>4
  <2> QED
    BY <2>1, <2>2
<1>10. \A i \in 1 .. Len(sec2.lines) :
        /\ sec2.lines[i].who \in begun \cup {sv[w]}
        /\ \A v \in busy \cup {w} :
             sv[v] = sec2.lines[i].who <=> ln2[v] = sec2.pushed - i + 1
        /\ sec2.lines[i].text # "done" <=>
             \E v \in busy \cup {w} : ln2[v] = sec2.pushed - i + 1
  BY <1>6, <1>9
<1>11. \A v \in busy \cup {w} : ln2[v] \in 1 .. sec2.pushed
  BY <1>4, <1>8, Zenon
<1> QED
  BY <1>2, <1>10, <1>11, Zenon DEF Rows

\* What the operations of the display do to these numbers.
LEMMA LineBegins ==
  ASSUME Screen, NEW s \in SectionNames, NEW w \in Workers, NEW busy, busy \subseteq Workers,
         NEW sv, NEW begun, w \notin busy,
         Rows(history.section[s], line, busy, sv, begun),
         sv[w] \in Entries, sv[w] \notin begun, \A v \in busy : sv[v] # sv[w],
         history.section[s].ongoing + history.section[s].done + 1 < UintMod,
         history' = AddLine(history, s, sv[w]),
         line' = [line EXCEPT ![w] = LineNumber(history', s)]
  PROVE  Rows(history'.section[s], line', busy \cup {w}, sv, begun \cup {sv[w]})
<1>1. Shown(history) /\ line \in [Workers -> Counts] /\ UintMod \in Nat
  BY SweepFacts
<1>2. PICK who \in Entries \cup 0 .. CweCount : who = sv[w]
  OBVIOUS
<1> DEFINE old == history.section[s]
           new == history'.section[s]
<1>3. /\ new.ongoing = Plus(old.ongoing, 1) /\ new.done = old.done
      /\ new.pushed = Plus(old.pushed, 1)
      /\ new.lines = Shift([who |-> who, text |-> "new"], old.lines)
  BY <1>1, <1>2, LineAdded
<1>4. /\ old.ongoing \in Counts /\ old.done \in Counts /\ old.pushed \in Counts
      /\ old.lines \in Seq(Lines) /\ Len(old.lines) \in Nat /\ Len(old.lines) <= SectionLen
  BY <1>1, SectionTypes
<1>5. old.ongoing \in Nat /\ old.done \in Nat /\ old.pushed \in Nat
  BY <1>1, <1>4 DEF Counts
<1>6. old.pushed = old.ongoing + old.done
  BY DEF Rows
<1>7. new.ongoing = old.ongoing + 1 /\ new.pushed = old.pushed + 1
  <2>1. PICK o \in Nat, d \in Nat : o = old.ongoing /\ d = old.done
    BY <1>5
  <2>2. o + d + 1 < UintMod
    BY <2>1
  <2>3. o + 1 < UintMod
    BY <1>1, <2>2
  <2>4. Plus(old.ongoing, 1) = old.ongoing + 1
    BY <1>4, <2>1, <2>3, Unsigned
  <2>5. Plus(old.pushed, 1) = old.pushed + 1
    BY <1>4, <1>6, <2>1, <2>2, Unsigned
  <2> QED
    BY <1>3, <2>4, <2>5
<1>8. /\ Len(new.lines) \in Nat /\ Len(new.lines) <= Len(old.lines) + 1
      /\ new.lines[1] = [who |-> sv[w], text |-> "new"]
      /\ \A i \in 2 .. Len(new.lines) : new.lines[i] = old.lines[i - 1]
  <2>1. SectionLen \in Nat \ {0}
    BY HistoryAssumption
  <2>2. PICK lines \in Seq(Lines) : lines = old.lines
    BY <1>4
  <2>3. PICK line1 \in Lines : line1 = [who |-> who, text |-> "new"]
    BY DEF Lines
  <2>4. LET n == IF Len(lines) < SectionLen THEN Len(lines) + 1 ELSE SectionLen
        IN  /\ Len(Shift(line1, lines)) = n
            /\ Shift(line1, lines)[1] = line1
            /\ \A i \in 2 .. n : Shift(line1, lines)[i] = lines[i - 1]
    BY <1>4, <2>2, Shifted
  <2>5. Len(new.lines) = IF Len(old.lines) < SectionLen THEN Len(old.lines) + 1 ELSE SectionLen
    BY <1>3, <2>2, <2>3, <2>4
  <2>6. Len(new.lines) \in Nat /\ Len(new.lines) <= Len(old.lines) + 1
    BY <1>4, <2>1, <2>5
  <2>7. new.lines[1] = [who |-> sv[w], text |-> "new"]
    BY <1>2, <1>3, <2>2, <2>3, <2>4
  <2>8. \A i \in 2 .. Len(new.lines) : new.lines[i] = old.lines[i - 1]
    BY <1>3, <2>2, <2>3, <2>4
  <2> QED
    BY <2>6, <2>7, <2>8
<1>9. line'[w] = new.pushed /\ \A v \in busy : line'[v] = line[v]
  BY <1>1 DEF LineNumber
<1>10. Longer(old, new, sv[w])
  BY <1>3, <1>4, <1>5, <1>7, <1>8 DEF Longer
<1>11. Rows(old, line, busy, sv, begun)
  OBVIOUS
<1> HIDE DEF old, new
<1>12. PICK m : m = line'
  OBVIOUS
<1>13. m[w] = new.pushed /\ \A v \in busy : m[v] = line[v]
  BY <1>9, <1>12
<1>14. Rows(new, m, busy \cup {w}, sv, begun \cup {sv[w]})
  BY <1>10, <1>11, <1>13, RowsAdded
<1> QED
  BY <1>12, <1>14 DEF new

LEMMA LineGoesOn ==
  ASSUME Screen, NEW s \in SectionNames, NEW busy, busy \subseteq Workers, NEW w \in busy,
         NEW sv, NEW begun, Rows(history.section[s], line, busy, sv, begun),
         history' = UpdateLine(history, s, line[w], FALSE)
  PROVE  Rows(history'.section[s], line, busy, sv, begun)
<1>1. Shown(history) /\ line[w] \in Counts
  BY SweepFacts
<1> DEFINE old == history.section[s]
           new == history'.section[s]
<1>2. /\ new.ongoing = old.ongoing /\ new.done = old.done /\ new.pushed = old.pushed
      /\ Len(new.lines) = Len(old.lines)
      /\ \A j \in 1 .. Len(old.lines) :
           new.lines[j] = IF j = LineIndex(history, s, line[w]) + 1
                          THEN [who |-> old.lines[j].who, text |-> "working"]
                          ELSE old.lines[j]
  <2>1. \A finished \in BOOLEAN : ~finished =>
          LET g == UpdateLine(history, s, line[w], finished)
          IN  /\ g.section[s].ongoing = old.ongoing
              /\ g.section[s].done = old.done
              /\ g.section[s].pushed = old.pushed
              /\ Len(g.section[s].lines) = Len(old.lines)
              /\ \A j \in 1 .. Len(old.lines) :
                   g.section[s].lines[j] =
                     IF j = LineIndex(history, s, line[w]) + 1
                     THEN [who |-> old.lines[j].who, text |-> "working"]
                     ELSE old.lines[j]
    <3>1. SUFFICES ASSUME NEW finished \in BOOLEAN, ~finished
                   PROVE  LET g == UpdateLine(history, s, line[w], finished)
                          IN  /\ g.section[s].ongoing = old.ongoing
                              /\ g.section[s].done = old.done
                              /\ g.section[s].pushed = old.pushed
                              /\ Len(g.section[s].lines) = Len(old.lines)
                              /\ \A j \in 1 .. Len(old.lines) :
                                   g.section[s].lines[j] =
                                     IF j = LineIndex(history, s, line[w]) + 1
                                     THEN [who |-> old.lines[j].who, text |-> "working"]
                                     ELSE old.lines[j]
      OBVIOUS
    <3>2. Text(finished) = "working"
      BY <3>1 DEF Text
    <3>3. LET g == UpdateLine(history, s, line[w], finished)
          IN  /\ g.section[s].ongoing = IF finished THEN Plus(old.ongoing, -1) ELSE old.ongoing
              /\ g.section[s].done = IF finished THEN Plus(old.done, 1) ELSE old.done
              /\ g.section[s].pushed = old.pushed
              /\ Len(g.section[s].lines) = Len(old.lines)
              /\ \A j \in 1 .. Len(old.lines) :
                   g.section[s].lines[j] =
                     IF j = LineIndex(history, s, line[w]) + 1
                     THEN [who |-> old.lines[j].who, text |-> Text(finished)]
                     ELSE old.lines[j]
      BY <1>1, LineUpdated
    <3> QED
      BY <3>1, <3>2, <3>3
  <2> QED
    BY <2>1, Zenon
<1>3. old.pushed \in Counts /\ Len(old.lines) \in Nat
  BY <1>1, SectionTypes
<1>4. LineIndex(history, s, line[w]) = old.pushed - line[w]
  <2>1. line[w] \in 0 .. old.pushed
    BY DEF Rows
  <2> QED
    BY <1>3, <2>1, Unsigned DEF LineIndex
<1>5. old.pushed \in Nat
  BY <1>3, HistoryAssumption DEF Counts
<1>6. Rows(old, line, busy, sv, begun)
  OBVIOUS
<1> HIDE DEF old, new
<1>7. Rows(new, line, busy, sv, begun)
  BY <1>2, <1>3, <1>4, <1>5, <1>6, RowsWorking
<1> QED
  BY <1>7 DEF new

LEMMA LineEnds ==
  ASSUME Screen, NEW s \in SectionNames, NEW busy, busy \subseteq Workers, NEW w \in busy,
         NEW sv, NEW begun, Rows(history.section[s], line, busy, sv, begun),
         \A v \in busy : sv[v] = sv[w] => v = w,
         history.section[s].ongoing > 0, history.section[s].done + 1 < UintMod,
         history' = UpdateLine(history, s, line[w], TRUE)
  PROVE  Rows(history'.section[s], line, busy \ {w}, sv, begun)
<1>1. Shown(history) /\ line[w] \in Counts
  BY SweepFacts
<1> DEFINE old == history.section[s]
           new == history'.section[s]
<1>2. /\ new.ongoing = Plus(old.ongoing, -1) /\ new.done = Plus(old.done, 1)
      /\ new.pushed = old.pushed
      /\ Len(new.lines) = Len(old.lines)
      /\ \A j \in 1 .. Len(old.lines) :
           new.lines[j] = IF j = LineIndex(history, s, line[w]) + 1
                          THEN [who |-> old.lines[j].who, text |-> "done"]
                          ELSE old.lines[j]
  <2>1. \A finished \in BOOLEAN : finished =>
          LET g == UpdateLine(history, s, line[w], finished)
          IN  /\ g.section[s].ongoing = Plus(old.ongoing, -1)
              /\ g.section[s].done = Plus(old.done, 1)
              /\ g.section[s].pushed = old.pushed
              /\ Len(g.section[s].lines) = Len(old.lines)
              /\ \A j \in 1 .. Len(old.lines) :
                   g.section[s].lines[j] =
                     IF j = LineIndex(history, s, line[w]) + 1
                     THEN [who |-> old.lines[j].who, text |-> "done"]
                     ELSE old.lines[j]
    <3>1. SUFFICES ASSUME NEW finished \in BOOLEAN, finished
                   PROVE  LET g == UpdateLine(history, s, line[w], finished)
                          IN  /\ g.section[s].ongoing = Plus(old.ongoing, -1)
                              /\ g.section[s].done = Plus(old.done, 1)
                              /\ g.section[s].pushed = old.pushed
                              /\ Len(g.section[s].lines) = Len(old.lines)
                              /\ \A j \in 1 .. Len(old.lines) :
                                   g.section[s].lines[j] =
                                     IF j = LineIndex(history, s, line[w]) + 1
                                     THEN [who |-> old.lines[j].who, text |-> "done"]
                                     ELSE old.lines[j]
      OBVIOUS
    <3>2. Text(finished) = "done"
      BY <3>1 DEF Text
    <3>3. LET g == UpdateLine(history, s, line[w], finished)
          IN  /\ g.section[s].ongoing = IF finished THEN Plus(old.ongoing, -1) ELSE old.ongoing
              /\ g.section[s].done = IF finished THEN Plus(old.done, 1) ELSE old.done
              /\ g.section[s].pushed = old.pushed
              /\ Len(g.section[s].lines) = Len(old.lines)
              /\ \A j \in 1 .. Len(old.lines) :
                   g.section[s].lines[j] =
                     IF j = LineIndex(history, s, line[w]) + 1
                     THEN [who |-> old.lines[j].who, text |-> Text(finished)]
                     ELSE old.lines[j]
      BY <1>1, LineUpdated
    <3> QED
      BY <3>1, <3>2, <3>3
  <2> QED
    BY <2>1, Zenon
<1>3. /\ old.pushed \in Counts /\ old.ongoing \in Counts /\ old.done \in Counts
      /\ Len(old.lines) \in Nat
  BY <1>1, SectionTypes
<1>4. LineIndex(history, s, line[w]) = old.pushed - line[w]
  <2>1. line[w] \in 0 .. old.pushed
    BY DEF Rows
  <2> QED
    BY <1>3, <2>1, Unsigned DEF LineIndex
<1>5. old.pushed \in Nat /\ old.ongoing \in Nat /\ old.done \in Nat
  BY <1>3, HistoryAssumption DEF Counts
<1>6. new.ongoing = old.ongoing - 1 /\ new.done = old.done + 1
  BY <1>2, <1>3, Unsigned
<1>7. Rows(old, line, busy, sv, begun)
  OBVIOUS
<1> HIDE DEF old, new
<1>8. Rows(new, line, busy \ {w}, sv, begun)
  BY <1>2, <1>3, <1>4, <1>5, <1>6, <1>7, RowsFinished
<1> QED
  BY <1>8 DEF new

\* An operation that leaves the lines of the section s alone.
LineSame(s) ==
  /\ history'.section[s].pushed = history.section[s].pushed
  /\ history'.section[s].ongoing = history.section[s].ongoing
  /\ history'.section[s].done = history.section[s].done
  /\ history'.section[s].lines = history.section[s].lines

LEMMA GithubRowsKept ==
  ASSUME GithubRows, LineSame("github"), GithubBusy' = GithubBusy, GithubBegun \subseteq GithubBegun',
         \A w \in GithubBusy : line'[w] = line[w] /\ gServing'[w] = gServing[w]
  PROVE  GithubRows'
<1>1. PICK ln, sv, sec : ln = line' /\ sv = gServing' /\ sec = history'.section["github"]
  OBVIOUS
<1>2. Rows(history.section["github"], line, GithubBusy, gServing, GithubBegun)
  BY DEF GithubRows
<1>3. /\ sec.pushed = history.section["github"].pushed
      /\ sec.ongoing = history.section["github"].ongoing
      /\ sec.done = history.section["github"].done
      /\ sec.lines = history.section["github"].lines
      /\ \A w \in GithubBusy : ln[w] = line[w] /\ sv[w] = gServing[w]
  BY <1>1 DEF LineSame
<1>4. Rows(sec, ln, GithubBusy, sv, GithubBegun')
  BY <1>2, <1>3, RowsStay
<1> QED
  BY <1>1, <1>4 DEF GithubRows

LEMMA ParsingRowsKept ==
  ASSUME ParsingRows, LineSame("parsing"), ParsingBusy' = ParsingBusy,
         ParsingBegun \subseteq ParsingBegun',
         \A w \in ParsingBusy : line'[w] = line[w] /\ pServing'[w] = pServing[w]
  PROVE  ParsingRows'
<1>1. PICK ln, sv, sec : ln = line' /\ sv = pServing' /\ sec = history'.section["parsing"]
  OBVIOUS
<1>2. Rows(history.section["parsing"], line, ParsingBusy, pServing, ParsingBegun)
  BY DEF ParsingRows
<1>3. /\ sec.pushed = history.section["parsing"].pushed
      /\ sec.ongoing = history.section["parsing"].ongoing
      /\ sec.done = history.section["parsing"].done
      /\ sec.lines = history.section["parsing"].lines
      /\ \A w \in ParsingBusy : ln[w] = line[w] /\ sv[w] = pServing[w]
  BY <1>1 DEF LineSame
<1>4. Rows(sec, ln, ParsingBusy, sv, ParsingBegun')
  BY <1>2, <1>3, RowsStay
<1> QED
  BY <1>1, <1>4 DEF ParsingRows

\* A step of a thread that is not a worker of the queue.
LEMMA GithubRowsOthers ==
  ASSUME Flow, GithubRows, LineSame("github"), UNCHANGED <<gServing, gCompleted>>,
         \A w \in GithubWorkers : at'[w] = at[w] /\ line'[w] = line[w]
  PROVE  GithubRows'
<1>1. GithubBusy' = GithubBusy /\ GithubBegun' = GithubBegun
  BY DEF GithubBusy, GithubBegun, At, Begun
<1>2. \A w \in GithubBusy : line'[w] = line[w] /\ gServing'[w] = gServing[w]
  BY DEF GithubBusy, At
<1> QED
  BY <1>1, <1>2, GithubRowsKept

LEMMA ParsingRowsOthers ==
  ASSUME Flow, ParsingRows, LineSame("parsing"), UNCHANGED <<pServing, pCompleted>>,
         \A w \in ParsingWorkers : at'[w] = at[w] /\ line'[w] = line[w]
  PROVE  ParsingRows'
<1>1. ParsingBusy' = ParsingBusy /\ ParsingBegun' = ParsingBegun
  BY DEF ParsingBusy, ParsingBegun, At, Begun
<1>2. \A w \in ParsingBusy : line'[w] = line[w] /\ pServing'[w] = pServing[w]
  BY DEF ParsingBusy, At
<1> QED
  BY <1>1, <1>2, ParsingRowsKept

\* The counters leave a worker room for what it does to them.
LEMMA NumberPositive ==
  ASSUME NEW ws, NEW w \in ws, IsFiniteSet(ws), NEW S, at[w] \in S
  PROVE  Number(at, ws, S) > 0
<1>1. PICK f : f = at
  OBVIOUS
<1>2. Number(f, ws, S) > 0
  BY <1>1, NumberMoved
<1> QED
  BY <1>1, <1>2

LEMMA Room ==
  ASSUME Flow, Screen, Books, Totals
  PROVE  /\ \A w \in GithubWorkers : at[w] = "popped" =>
              history.section["github"].ongoing + history.section["github"].done + 1 < UintMod
         /\ \A w \in GithubWorkers : at[w] = "probing" =>
              /\ history.section["github"].ongoing > 0
              /\ history.section["github"].done + 1 < UintMod
         /\ \A w \in ParsingWorkers : at[w] = "popped" =>
              history.section["parsing"].ongoing + history.section["parsing"].done + 1 < UintMod
         /\ \A w \in ParsingWorkers : at[w] \in {"parsing", "writing", "exported"} =>
              /\ history.section["parsing"].ongoing > 0
              /\ history.section["parsing"].done + 1 < UintMod
<1>1. IsFiniteSet(GithubWorkers) /\ IsFiniteSet(ParsingWorkers) /\ UintMod \in Nat
  BY CountsFit, HistoryAssumption
<1>2. ASSUME NEW s \in {"github", "parsing"}
      PROVE  /\ history.section[s].pending > 0 =>
                  history.section[s].ongoing + history.section[s].done + 1 < UintMod
             /\ history.section[s].ongoing > 0 => history.section[s].done + 1 < UintMod
  <2>1. PICK p \in Nat, o \in Nat, d \in Nat :
               /\ history.section[s].pending = p /\ history.section[s].ongoing = o
               /\ history.section[s].done = d /\ p + o + d < UintMod
    BY Fits DEF Total
  <2>2. p > 0 => o + d + 1 < UintMod
    BY <1>1, <2>1
  <2>3. o > 0 => d + 1 < UintMod
    BY <1>1, <2>1
  <2> QED
    BY <2>1, <2>2, <2>3
<1>3. ASSUME NEW w \in GithubWorkers, at[w] = "popped"
      PROVE  history.section["github"].pending > 0
  <2>1. Number(at, GithubWorkers, Took) > 0
    BY <1>1, <1>3, NumberPositive DEF Took
  <2>2. GithubPending > 0
    BY <2>1, Numbers DEF GithubPending
  <2> QED
    BY <2>2 DEF Books
<1>4. ASSUME NEW w \in GithubWorkers, at[w] = "probing"
      PROVE  history.section["github"].ongoing > 0
  <2>1. Number(at, GithubWorkers, Probes) > 0
    BY <1>1, <1>4, NumberPositive DEF Probes
  <2> QED
    BY <2>1 DEF Books, GithubOngoing
<1>5. ASSUME NEW w \in ParsingWorkers, at[w] = "popped"
      PROVE  history.section["parsing"].pending > 0
  <2>1. Number(at, ParsingWorkers, Took) > 0
    BY <1>1, <1>5, NumberPositive DEF Took
  <2>2. ParsingPending > 0
    BY <2>1, Numbers DEF ParsingPending
  <2> QED
    BY <2>2 DEF Books
<1>6. ASSUME NEW w \in ParsingWorkers, at[w] \in {"parsing", "writing", "exported"}
      PROVE  history.section["parsing"].ongoing > 0
  <2>1. Number(at, ParsingWorkers, Exports) > 0
    BY <1>1, <1>6, NumberPositive DEF Exports
  <2> QED
    BY <2>1 DEF Books, ParsingOngoing
<1> QED
  BY <1>2, <1>3, <1>4, <1>5, <1>6


\* An operation on a section leaves the lines of the others alone, and so does
\* one that has nothing to do with lines in its own.
LEMMA LinesAdded ==
  ASSUME Screen, NEW s \in SectionNames, NEW who \in Entries \cup 0 .. CweCount,
         history' = AddLine(history, s, who)
  PROVE  \A t \in SectionNames : t # s => LineSame(t)
<1>1. Shown(history)
  BY SweepFacts
<1>2. \A t \in SectionNames : t # s => history'.section[t] = history.section[t]
  BY <1>1, LineAdded
<1> QED
  BY <1>2 DEF LineSame

LEMMA LinesUpdated ==
  ASSUME Screen, NEW s \in SectionNames, NEW n \in Counts,
         \/ history' = UpdateLine(history, s, n, FALSE)
         \/ history' = UpdateLine(history, s, n, TRUE)
  PROVE  \A t \in SectionNames : t # s => LineSame(t)
<1>1. Shown(history)
  BY SweepFacts
<1>2. CASE history' = UpdateLine(history, s, n, FALSE)
  <2>1. \A t \in SectionNames : t # s => history'.section[t] = history.section[t]
    BY <1>1, <1>2, LineWorking
  <2> QED
    BY <2>1 DEF LineSame
<1>3. CASE history' = UpdateLine(history, s, n, TRUE)
  <2>1. \A t \in SectionNames : t # s => history'.section[t] = history.section[t]
    BY <1>1, <1>3, LineFinished
  <2> QED
    BY <2>1 DEF LineSame
<1> QED
  BY <1>2, <1>3

LEMMA LinesIncremented ==
  ASSUME Screen, NEW s \in SectionNames, history' = IncrementPending(history, s)
  PROVE  \A t \in SectionNames : LineSame(t)
<1>1. Shown(history)
  BY SweepFacts
<1>2. /\ history'.section[s].pushed = history.section[s].pushed
      /\ history'.section[s].ongoing = history.section[s].ongoing
      /\ history'.section[s].done = history.section[s].done
      /\ history'.section[s].lines = history.section[s].lines
      /\ \A t \in SectionNames : t # s => history'.section[t] = history.section[t]
  BY <1>1, PendingIncremented
<1> QED
  BY <1>2 DEF LineSame

\* The main thread.
LEMMA MainRows ==
  ASSUME Flow, Screen, OwnRows, MainNext
  PROVE  OwnRows'
<1>1. LineSame("github") /\ LineSame("parsing")
  <2>1. CASE MainSetPending
    <3>1. Shown(history) /\ CweCount \in Counts /\ history' = SetPending(history, "nvd", CweCount)
      BY <2>1, SweepFacts DEF MainSetPending
    <3>2. PICK n \in Counts : n = CweCount
      BY <3>1
    <3>3. LET g == SetPending(history, "nvd", n)
          IN  \A t \in SectionNames : t # "nvd" => g.section[t] = history.section[t]
      BY <3>1, PendingSet, Names
    <3> QED
      BY <3>1, <3>2, <3>3, Names DEF LineSame
  <2>2. CASE MainAddLine
    <3>1. cwe \in Entries \cup 0 .. CweCount /\ history' = AddLine(history, "nvd", cwe)
      BY <2>2, SweepFacts DEF MainAddLine
    <3> QED
      BY <3>1, LinesAdded, Names
  <2>3. CASE MainProgress \/ MainCweDone
    <3>1. /\ mainLine \in Counts
          /\ \/ history' = UpdateLine(history, "nvd", mainLine, FALSE)
             \/ history' = UpdateLine(history, "nvd", mainLine, TRUE)
      BY <2>3, SweepFacts DEF MainProgress, MainCweDone
    <3> QED
      BY <3>1, LinesUpdated, Names
  <2>4. CASE \E e \in Entries : MainFind(e)
    <3>1. history' = IncrementPending(history, "github")
      BY <2>4 DEF MainFind, CountFound
    <3> QED
      BY <3>1, LinesIncremented, Names
  <2>5. CASE MainPush \/ MainCloseGithub \/ MainCloseParsing \/ MainReturn
    <3>1. history' = history
      BY <2>5 DEF MainPush, MainCloseGithub, MainCloseParsing, MainReturn
    <3> QED
      BY <3>1 DEF LineSame
  <2> QED
    BY <2>1, <2>2, <2>3, <2>4, <2>5 DEF MainNext
<1>2. UNCHANGED <<at, line, gServing, gCompleted, pServing, pCompleted>>
  BY DEF MainNext, MainSetPending, MainAddLine, MainProgress, MainFind, MainPush, MainCweDone,
     MainCloseGithub, MainCloseParsing, MainReturn, MainMoves, workers, github, parsing,
     FinishGithub, GithubQueue!Submit, GithubQueue!Close, ParsingQueue!Close
<1> QED
  BY <1>1, <1>2, GithubRowsOthers, ParsingRowsOthers DEF OwnRows

\* A worker of the GitHub queue: who is busy, and with what, when it has moved.
LEMMA GithubMoves ==
  ASSUME Flow, NEW w \in GithubWorkers, NEW to \in Idle \cup GithubPlaces,
         at' = [at EXCEPT ![w] = to], \A v \in GithubWorkers : v # w => gServing'[v] = gServing[v]
  PROVE  /\ \A v \in GithubBusy : v \in GithubWorkers /\ v \in Workers /\ at[v] \in {"probing"}
         /\ at[w] \in {"probing"} => w \in GithubBusy
         /\ at[w] \notin {"probing"} => w \notin GithubBusy
         /\ GithubBusy' = IF to \in {"probing"} THEN GithubBusy \cup {w} ELSE GithubBusy \ {w}
         /\ /\ gCompleted \subseteq gCompleted'
            /\ at[w] \notin Idle \cup {"popped"} =>
                 \/ gServing[w] \in gCompleted'
                 \/ gServing'[w] = gServing[w] /\ to \notin Idle \cup {"popped"}
            => GithubBegun \subseteq GithubBegun'
         /\ to \notin Idle \cup {"popped"} => gServing'[w] \in GithubBegun'
         /\ at[w] \in Idle \cup {"popped"} =>
              \A e \in GithubBegun : e \in gCompleted \/ \E v \in GithubWorkers \ {w} : e = gServing[v]
<1>1. at'[w] = to /\ \A v \in GithubWorkers : v # w => at'[v] = at[v]
  BY QueueFacts, Moved DEF Flow
<1>2. /\ \A v \in GithubBusy : v \in GithubWorkers /\ v \in Workers /\ at[v] \in {"probing"}
      /\ at[w] \in {"probing"} => w \in GithubBusy
      /\ at[w] \notin {"probing"} => w \notin GithubBusy
  BY QueueFacts DEF GithubBusy, At
<1>3. GithubBusy' = IF to \in {"probing"} THEN GithubBusy \cup {w} ELSE GithubBusy \ {w}
  BY <1>1 DEF GithubBusy, At
<1>4. \A e : e \in GithubBegun' <=>
         \/ e \in gCompleted'
         \/ e = gServing'[w] /\ to \notin Idle \cup {"popped"}
         \/ \E v \in GithubWorkers \ {w} : e = gServing[v] /\ at[v] \notin Idle \cup {"popped"}
  BY <1>1 DEF GithubBegun, Begun
<1>5. \A e : e \in GithubBegun <=>
         \/ e \in gCompleted
         \/ e = gServing[w] /\ at[w] \notin Idle \cup {"popped"}
         \/ \E v \in GithubWorkers \ {w} : e = gServing[v] /\ at[v] \notin Idle \cup {"popped"}
  BY DEF GithubBegun, Begun
<1>6. /\ gCompleted \subseteq gCompleted'
      /\ at[w] \notin Idle \cup {"popped"} =>
           \/ gServing[w] \in gCompleted'
           \/ gServing'[w] = gServing[w] /\ to \notin Idle \cup {"popped"}
      => GithubBegun \subseteq GithubBegun'
  BY <1>4, <1>5
<1>7. to \notin Idle \cup {"popped"} => gServing'[w] \in GithubBegun'
  BY <1>4
<1>8. at[w] \in Idle \cup {"popped"} =>
        \A e \in GithubBegun : e \in gCompleted \/ \E v \in GithubWorkers \ {w} : e = gServing[v]
  BY <1>5
<1> QED
  BY <1>2, <1>3, <1>6, <1>7, <1>8

\* A worker of the parsing queue: who is busy, and with what, when it has moved.
LEMMA ParsingMoves ==
  ASSUME Flow, NEW w \in ParsingWorkers, NEW to \in Idle \cup ParsingPlaces,
         at' = [at EXCEPT ![w] = to], \A v \in ParsingWorkers : v # w => pServing'[v] = pServing[v]
  PROVE  /\ \A v \in ParsingBusy : v \in ParsingWorkers /\ v \in Workers /\ at[v] \in {"parsing", "writing", "exported"}
         /\ at[w] \in {"parsing", "writing", "exported"} => w \in ParsingBusy
         /\ at[w] \notin {"parsing", "writing", "exported"} => w \notin ParsingBusy
         /\ ParsingBusy' = IF to \in {"parsing", "writing", "exported"} THEN ParsingBusy \cup {w} ELSE ParsingBusy \ {w}
         /\ /\ pCompleted \subseteq pCompleted'
            /\ at[w] \notin Idle \cup {"popped"} =>
                 \/ pServing[w] \in pCompleted'
                 \/ pServing'[w] = pServing[w] /\ to \notin Idle \cup {"popped"}
            => ParsingBegun \subseteq ParsingBegun'
         /\ to \notin Idle \cup {"popped"} => pServing'[w] \in ParsingBegun'
         /\ at[w] \in Idle \cup {"popped"} =>
              \A e \in ParsingBegun : e \in pCompleted \/ \E v \in ParsingWorkers \ {w} : e = pServing[v]
<1>1. at'[w] = to /\ \A v \in ParsingWorkers : v # w => at'[v] = at[v]
  BY QueueFacts, Moved DEF Flow
<1>2. /\ \A v \in ParsingBusy : v \in ParsingWorkers /\ v \in Workers /\ at[v] \in {"parsing", "writing", "exported"}
      /\ at[w] \in {"parsing", "writing", "exported"} => w \in ParsingBusy
      /\ at[w] \notin {"parsing", "writing", "exported"} => w \notin ParsingBusy
  BY QueueFacts DEF ParsingBusy, At
<1>3. ParsingBusy' = IF to \in {"parsing", "writing", "exported"} THEN ParsingBusy \cup {w} ELSE ParsingBusy \ {w}
  BY <1>1 DEF ParsingBusy, At
<1>4. \A e : e \in ParsingBegun' <=>
         \/ e \in pCompleted'
         \/ e = pServing'[w] /\ to \notin Idle \cup {"popped"}
         \/ \E v \in ParsingWorkers \ {w} : e = pServing[v] /\ at[v] \notin Idle \cup {"popped"}
  BY <1>1 DEF ParsingBegun, Begun
<1>5. \A e : e \in ParsingBegun <=>
         \/ e \in pCompleted
         \/ e = pServing[w] /\ at[w] \notin Idle \cup {"popped"}
         \/ \E v \in ParsingWorkers \ {w} : e = pServing[v] /\ at[v] \notin Idle \cup {"popped"}
  BY DEF ParsingBegun, Begun
<1>6. /\ pCompleted \subseteq pCompleted'
      /\ at[w] \notin Idle \cup {"popped"} =>
           \/ pServing[w] \in pCompleted'
           \/ pServing'[w] = pServing[w] /\ to \notin Idle \cup {"popped"}
      => ParsingBegun \subseteq ParsingBegun'
  BY <1>4, <1>5
<1>7. to \notin Idle \cup {"popped"} => pServing'[w] \in ParsingBegun'
  BY <1>4
<1>8. at[w] \in Idle \cup {"popped"} =>
        \A e \in ParsingBegun : e \in pCompleted \/ \E v \in ParsingWorkers \ {w} : e = pServing[v]
  BY <1>5
<1> QED
  BY <1>2, <1>3, <1>6, <1>7, <1>8


\* It neither begins with an entry nor is done with one.
LEMMA GithubRowsStay ==
  ASSUME Flow, GithubRows, NEW w \in GithubWorkers, NEW to \in Idle \cup GithubPlaces,
         at' = [at EXCEPT ![w] = to], at[w] \in {"probing"} <=> to \in {"probing"},
         line' = line, LineSame("github"), gCompleted \subseteq gCompleted',
         \A v \in GithubWorkers : v # w => gServing'[v] = gServing[v],
         at[w] \in {"probing"} => gServing'[w] = gServing[w],
         at[w] \notin Idle \cup {"popped"} =>
           \/ gServing[w] \in gCompleted'
           \/ gServing'[w] = gServing[w] /\ to \notin Idle \cup {"popped"}
  PROVE  GithubRows'
<1>1. GithubBusy' = GithubBusy
  <2>1. /\ at[w] \in {"probing"} => w \in GithubBusy
        /\ at[w] \notin {"probing"} => w \notin GithubBusy
        /\ GithubBusy' = IF to \in {"probing"} THEN GithubBusy \cup {w} ELSE GithubBusy \ {w}
    BY GithubMoves
  <2> QED
    BY <2>1
<1>2. GithubBegun \subseteq GithubBegun'
  BY GithubMoves
<1>3. \A v \in GithubBusy : line'[v] = line[v] /\ gServing'[v] = gServing[v]
  BY GithubMoves
<1> QED
  BY <1>1, <1>2, <1>3, GithubRowsKept

LEMMA GithubAddLineRows ==
  ASSUME Flow, Screen, Books, Totals, GithubRows, NEW w \in GithubWorkers, GithubAddLine(w)
  PROVE  GithubRows'
<1>1. /\ at[w] = "popped" /\ at' = [at EXCEPT ![w] = "probing"]
      /\ "probing" \in Idle \cup GithubPlaces /\ "popped" \notin Idle
      /\ history' = AddLine(history, "github", gServing[w])
      /\ line' = [line EXCEPT ![w] = LineNumber(history', "github")]
      /\ UNCHANGED <<gServing, gCompleted>>
  BY DEF GithubAddLine, Moves, Idle, GithubPlaces, github
<1>2. /\ GithubBusy' = GithubBusy \cup {w} /\ w \notin GithubBusy
      /\ GithubBusy \subseteq GithubWorkers /\ GithubBusy \subseteq Workers
      /\ GithubBegun \cup {gServing[w]} \subseteq GithubBegun'
      /\ \A e \in GithubBegun : \/ e \in gCompleted
                               \/ \E v \in GithubWorkers \ {w} : e = gServing[v]
  <2>1. "probing" \notin Idle \cup {"popped"}
    BY DEF Idle
  <2>2. GithubBusy' = GithubBusy \cup {w} /\ w \notin GithubBusy
    BY <1>1, GithubMoves
  <2>3. GithubBusy \subseteq GithubWorkers /\ GithubBusy \subseteq Workers
    BY <1>1, GithubMoves
  <2>4. \A v \in GithubWorkers : v # w => gServing'[v] = gServing[v]
    BY <1>1
  <2>5. GithubBegun \cup {gServing[w]} \subseteq GithubBegun'
    <3>1. gServing'[w] \in GithubBegun'
      BY <1>1, <2>1, <2>4, GithubMoves
    <3>2. GithubBegun \subseteq GithubBegun'
      BY <1>1, <2>4, GithubMoves
    <3> QED
      BY <1>1, <3>1, <3>2
  <2>6. \A e \in GithubBegun : \/ e \in gCompleted
                              \/ \E v \in GithubWorkers \ {w} : e = gServing[v]
    <3>1. at[w] \in Idle \cup {"popped"}
      BY <1>1
    <3> QED
      BY <1>1, <2>4, <3>1, GithubMoves
  <2> QED
    BY <2>2, <2>3, <2>5, <2>6
<1>3. /\ gServing[w] \in Entries /\ gServing[w] \notin gCompleted
      /\ \A v \in GithubWorkers : v # w => gServing[v] # gServing[w]
  <2>1. gServing[w] # NULL
    BY <1>1 DEF Flow, Places
  <2> QED
    BY <2>1, QueueFacts, GithubServed
<1>4. history.section["github"].ongoing + history.section["github"].done + 1 < UintMod
  BY <1>1, Room
<1>5. Rows(history.section["github"], line, GithubBusy, gServing, GithubBegun)
  BY DEF GithubRows
<1>6. w \in Workers /\ "github" \in SectionNames
  BY Names DEF Workers
<1>7. gServing[w] \notin GithubBegun /\ \A v \in GithubBusy : gServing[v] # gServing[w]
  BY <1>2, <1>3
<1>8. Rows(history'.section["github"], line', GithubBusy \cup {w}, gServing,
           GithubBegun \cup {gServing[w]})
  BY <1>1, <1>2, <1>3, <1>4, <1>5, <1>6, <1>7, LineBegins
<1>9. PICK ln, sec : ln = line' /\ sec = history'.section["github"]
  OBVIOUS
<1>10. Rows(sec, ln, GithubBusy \cup {w}, gServing, GithubBegun')
  <2>1. Rows(sec, ln, GithubBusy \cup {w}, gServing, GithubBegun \cup {gServing[w]})
    BY <1>8, <1>9
  <2> QED
    BY <1>2, <2>1, RowsStay
<1> QED
  BY <1>1, <1>2, <1>9, <1>10 DEF GithubRows

LEMMA GithubProgressRows ==
  ASSUME Flow, Screen, GithubRows, NEW w \in GithubWorkers, GithubProgress(w)
  PROVE  GithubRows'
<1>1. /\ at[w] = "probing" /\ at' = [at EXCEPT ![w] = "probing"]
      /\ "probing" \in Idle \cup GithubPlaces
      /\ history' = UpdateLine(history, "github", line[w], FALSE)
      /\ UNCHANGED <<line, gServing, gCompleted>>
  BY DEF GithubProgress, Moves, Idle, GithubPlaces, github
<1>2. w \in GithubBusy /\ GithubBusy \subseteq Workers /\ at' = at
  <2>1. \A v \in GithubBusy : v \in Workers
    BY QueueFacts DEF GithubBusy, At
  <2> QED
    BY <1>1, <2>1 DEF GithubBusy, At, Flow, FlowTypes
<1>3. Rows(history.section["github"], line, GithubBusy, gServing, GithubBegun)
  BY DEF GithubRows
<1>4. Rows(history'.section["github"], line, GithubBusy, gServing, GithubBegun)
  BY <1>1, <1>2, <1>3, LineGoesOn, Names
<1>5. GithubBusy' = GithubBusy /\ GithubBegun' = GithubBegun
  BY <1>1, <1>2 DEF GithubBusy, GithubBegun, At, Begun
<1> QED
  BY <1>1, <1>4, <1>5 DEF GithubRows

LEMMA GithubFinishRows ==
  ASSUME Flow, Screen, Books, Totals, GithubRows, NEW w \in GithubWorkers, GithubReject(w) \/ GithubAccept(w)
  PROVE  GithubRows'
<1>1. PICK to : /\ to \in Idle \cup GithubPlaces /\ to \notin {"probing"}
                /\ to \notin Idle \cup {"popped"}
                /\ at[w] \in {"probing"} /\ at' = [at EXCEPT ![w] = to]
  BY DEF GithubReject, GithubAccept, Moves, Idle, GithubPlaces
<1>2. /\ history' = UpdateLine(history, "github", line[w], TRUE)
      /\ UNCHANGED <<line, gServing, gCompleted>>
  BY DEF GithubReject, GithubAccept, github
<1>3. w \in GithubBusy /\ GithubBusy \subseteq Workers /\ GithubBusy \subseteq GithubWorkers
  BY <1>1, <1>2, GithubMoves
<1>4. GithubBusy' = GithubBusy \ {w}
  BY <1>1, <1>2, GithubMoves
<1>5. GithubBegun \subseteq GithubBegun'
  <2>1. /\ gCompleted \subseteq gCompleted' /\ gServing'[w] = gServing[w]
        /\ \A v \in GithubWorkers : v # w => gServing'[v] = gServing[v]
    BY <1>2
  <2> QED
    BY <1>1, <2>1, GithubMoves
<1>6. \A v \in GithubBusy : gServing[v] = gServing[w] => v = w
  <2>1. gServing[w] # NULL
    BY <1>1 DEF Flow, Places, Idle
  <2> QED
    BY <1>3, <2>1, GithubServed
<1>7. history.section["github"].ongoing > 0 /\ history.section["github"].done + 1 < UintMod
  BY <1>1, Room
<1>8. Rows(history.section["github"], line, GithubBusy, gServing, GithubBegun)
  BY DEF GithubRows
<1>9. Rows(history'.section["github"], line, GithubBusy \ {w}, gServing, GithubBegun)
  BY <1>2, <1>3, <1>6, <1>7, <1>8, LineEnds, Names
<1>10. PICK sec : sec = history'.section["github"]
  OBVIOUS
<1>11. Rows(sec, line, GithubBusy \ {w}, gServing, GithubBegun')
  <2>1. Rows(sec, line, GithubBusy \ {w}, gServing, GithubBegun)
    BY <1>9, <1>10
  <2> QED
    BY <1>5, <2>1, RowsStay
<1> QED
  BY <1>2, <1>4, <1>10, <1>11 DEF GithubRows

\* It neither begins with an entry nor is done with one.
LEMMA ParsingRowsStay ==
  ASSUME Flow, ParsingRows, NEW w \in ParsingWorkers, NEW to \in Idle \cup ParsingPlaces,
         at' = [at EXCEPT ![w] = to], at[w] \in {"parsing", "writing", "exported"} <=> to \in {"parsing", "writing", "exported"},
         line' = line, LineSame("parsing"), pCompleted \subseteq pCompleted',
         \A v \in ParsingWorkers : v # w => pServing'[v] = pServing[v],
         at[w] \in {"parsing", "writing", "exported"} => pServing'[w] = pServing[w],
         at[w] \notin Idle \cup {"popped"} =>
           \/ pServing[w] \in pCompleted'
           \/ pServing'[w] = pServing[w] /\ to \notin Idle \cup {"popped"}
  PROVE  ParsingRows'
<1>1. ParsingBusy' = ParsingBusy
  <2>1. /\ at[w] \in {"parsing", "writing", "exported"} => w \in ParsingBusy
        /\ at[w] \notin {"parsing", "writing", "exported"} => w \notin ParsingBusy
        /\ ParsingBusy' = IF to \in {"parsing", "writing", "exported"} THEN ParsingBusy \cup {w} ELSE ParsingBusy \ {w}
    BY ParsingMoves
  <2> QED
    BY <2>1
<1>2. ParsingBegun \subseteq ParsingBegun'
  BY ParsingMoves
<1>3. \A v \in ParsingBusy : line'[v] = line[v] /\ pServing'[v] = pServing[v]
  BY ParsingMoves
<1> QED
  BY <1>1, <1>2, <1>3, ParsingRowsKept

LEMMA ParsingAddLineRows ==
  ASSUME Flow, Screen, Books, Totals, ParsingRows, NEW w \in ParsingWorkers, ParsingAddLine(w)
  PROVE  ParsingRows'
<1>1. /\ at[w] = "popped" /\ at' = [at EXCEPT ![w] = "parsing"]
      /\ "parsing" \in Idle \cup ParsingPlaces /\ "popped" \notin Idle
      /\ history' = AddLine(history, "parsing", pServing[w])
      /\ line' = [line EXCEPT ![w] = LineNumber(history', "parsing")]
      /\ UNCHANGED <<pServing, pCompleted>>
  BY DEF ParsingAddLine, Moves, Idle, ParsingPlaces, parsing
<1>2. /\ ParsingBusy' = ParsingBusy \cup {w} /\ w \notin ParsingBusy
      /\ ParsingBusy \subseteq ParsingWorkers /\ ParsingBusy \subseteq Workers
      /\ ParsingBegun \cup {pServing[w]} \subseteq ParsingBegun'
      /\ \A e \in ParsingBegun : \/ e \in pCompleted
                               \/ \E v \in ParsingWorkers \ {w} : e = pServing[v]
  <2>1. "parsing" \notin Idle \cup {"popped"}
    BY DEF Idle
  <2>2. ParsingBusy' = ParsingBusy \cup {w} /\ w \notin ParsingBusy
    BY <1>1, ParsingMoves
  <2>3. ParsingBusy \subseteq ParsingWorkers /\ ParsingBusy \subseteq Workers
    BY <1>1, ParsingMoves
  <2>4. \A v \in ParsingWorkers : v # w => pServing'[v] = pServing[v]
    BY <1>1
  <2>5. ParsingBegun \cup {pServing[w]} \subseteq ParsingBegun'
    <3>1. pServing'[w] \in ParsingBegun'
      BY <1>1, <2>1, <2>4, ParsingMoves
    <3>2. ParsingBegun \subseteq ParsingBegun'
      BY <1>1, <2>4, ParsingMoves
    <3> QED
      BY <1>1, <3>1, <3>2
  <2>6. \A e \in ParsingBegun : \/ e \in pCompleted
                              \/ \E v \in ParsingWorkers \ {w} : e = pServing[v]
    <3>1. at[w] \in Idle \cup {"popped"}
      BY <1>1
    <3> QED
      BY <1>1, <2>4, <3>1, ParsingMoves
  <2> QED
    BY <2>2, <2>3, <2>5, <2>6
<1>3. /\ pServing[w] \in Entries /\ pServing[w] \notin pCompleted
      /\ \A v \in ParsingWorkers : v # w => pServing[v] # pServing[w]
  <2>1. pServing[w] # NULL
    BY <1>1 DEF Flow, Places
  <2> QED
    BY <2>1, QueueFacts, ParsingServed
<1>4. history.section["parsing"].ongoing + history.section["parsing"].done + 1 < UintMod
  BY <1>1, Room
<1>5. Rows(history.section["parsing"], line, ParsingBusy, pServing, ParsingBegun)
  BY DEF ParsingRows
<1>6. w \in Workers /\ "parsing" \in SectionNames
  BY Names DEF Workers
<1>7. pServing[w] \notin ParsingBegun /\ \A v \in ParsingBusy : pServing[v] # pServing[w]
  BY <1>2, <1>3
<1>8. Rows(history'.section["parsing"], line', ParsingBusy \cup {w}, pServing,
           ParsingBegun \cup {pServing[w]})
  BY <1>1, <1>2, <1>3, <1>4, <1>5, <1>6, <1>7, LineBegins
<1>9. PICK ln, sec : ln = line' /\ sec = history'.section["parsing"]
  OBVIOUS
<1>10. Rows(sec, ln, ParsingBusy \cup {w}, pServing, ParsingBegun')
  <2>1. Rows(sec, ln, ParsingBusy \cup {w}, pServing, ParsingBegun \cup {pServing[w]})
    BY <1>8, <1>9
  <2> QED
    BY <1>2, <2>1, RowsStay
<1> QED
  BY <1>1, <1>2, <1>9, <1>10 DEF ParsingRows

LEMMA ParsingFinishRows ==
  ASSUME Flow, Screen, Books, Totals, ParsingRows, NEW w \in ParsingWorkers, ParsingFinish(w)
  PROVE  ParsingRows'
<1>1. PICK to : /\ to \in Idle \cup ParsingPlaces /\ to \notin {"parsing", "writing", "exported"}
                /\ to \notin Idle \cup {"popped"}
                /\ at[w] \in {"parsing", "writing", "exported"} /\ at' = [at EXCEPT ![w] = to]
  BY DEF ParsingFinish, Moves, Idle, ParsingPlaces
<1>2. /\ history' = UpdateLine(history, "parsing", line[w], TRUE)
      /\ UNCHANGED <<line, pServing, pCompleted>>
  BY DEF ParsingFinish, parsing
<1>3. w \in ParsingBusy /\ ParsingBusy \subseteq Workers /\ ParsingBusy \subseteq ParsingWorkers
  BY <1>1, <1>2, ParsingMoves
<1>4. ParsingBusy' = ParsingBusy \ {w}
  BY <1>1, <1>2, ParsingMoves
<1>5. ParsingBegun \subseteq ParsingBegun'
  <2>1. /\ pCompleted \subseteq pCompleted' /\ pServing'[w] = pServing[w]
        /\ \A v \in ParsingWorkers : v # w => pServing'[v] = pServing[v]
    BY <1>2
  <2> QED
    BY <1>1, <2>1, ParsingMoves
<1>6. \A v \in ParsingBusy : pServing[v] = pServing[w] => v = w
  <2>1. pServing[w] # NULL
    BY <1>1 DEF Flow, Places, Idle
  <2> QED
    BY <1>3, <2>1, ParsingServed
<1>7. history.section["parsing"].ongoing > 0 /\ history.section["parsing"].done + 1 < UintMod
  BY <1>1, Room
<1>8. Rows(history.section["parsing"], line, ParsingBusy, pServing, ParsingBegun)
  BY DEF ParsingRows
<1>9. Rows(history'.section["parsing"], line, ParsingBusy \ {w}, pServing, ParsingBegun)
  BY <1>2, <1>3, <1>6, <1>7, <1>8, LineEnds, Names
<1>10. PICK sec : sec = history'.section["parsing"]
  OBVIOUS
<1>11. Rows(sec, line, ParsingBusy \ {w}, pServing, ParsingBegun')
  <2>1. Rows(sec, line, ParsingBusy \ {w}, pServing, ParsingBegun)
    BY <1>9, <1>10
  <2> QED
    BY <1>5, <2>1, RowsStay
<1> QED
  BY <1>2, <1>4, <1>10, <1>11 DEF ParsingRows

\* A worker of one queue leaves the lines of the other alone.
LEMMA GithubLines ==
  ASSUME Flow, Screen, Books, Totals, OwnRows, NEW w \in GithubWorkers, GithubNext(w)
  PROVE  OwnRows'
<1>1. /\ w \in Workers /\ line[w] \in Counts /\ gServing[w] \in Entries \cup {NULL}
      /\ \A v \in ParsingWorkers : v \in Workers /\ v # w
      /\ line \in [Workers -> Counts]
  BY SweepFacts, QueueFacts DEF Workers
<1>2. ParsingRows'
  <2>1. LineSame("parsing")
    <3>1. CASE GithubAddLine(w)
      <4>1. history' = AddLine(history, "github", gServing[w]) /\ gServing[w] # NULL
        BY <3>1 DEF GithubAddLine, Moves, Flow, Places, Idle
      <4>2. gServing[w] \in Entries \cup 0 .. CweCount
        BY <1>1, <4>1
      <4> QED
        BY <4>1, <4>2, LinesAdded, Names
    <3>2. CASE GithubProgress(w) \/ GithubReject(w) \/ GithubAccept(w)
      <4>1. \/ history' = UpdateLine(history, "github", line[w], FALSE)
            \/ history' = UpdateLine(history, "github", line[w], TRUE)
        BY <3>2 DEF GithubProgress, GithubReject, GithubAccept
      <4> QED
        BY <1>1, <4>1, LinesUpdated, Names
    <3>3. CASE GithubCount(w)
      <4>1. history' = IncrementPending(history, "parsing")
        BY <3>3 DEF GithubCount, CountAccepted
      <4> QED
        BY <4>1, LinesIncremented, Names
    <3>4. CASE GithubPop(w) \/ GithubPush(w) \/ GithubDone(w) \/ GithubLeave(w)
      <4>1. history' = history
        BY <3>4 DEF GithubPop, GithubPush, GithubDone, GithubLeave
      <4> QED
        BY <4>1 DEF LineSame
    <3> QED
      BY <3>1, <3>2, <3>3, <3>4 DEF GithubNext
  <2>2. UNCHANGED <<pServing, pCompleted>>
    BY DEF GithubNext, GithubPop, GithubAddLine, GithubProgress, GithubReject, GithubAccept,
       GithubCount, GithubPush, GithubDone, GithubLeave, parsing, ParsingQueue!Submit
  <2>3. PICK to : at' = [at EXCEPT ![w] = to]
    BY DEF GithubNext, GithubPop, GithubAddLine, GithubProgress, GithubReject, GithubAccept,
       GithubCount, GithubPush, GithubDone, GithubLeave, Moves
  <2>4. \E n : line' = line \/ line' = [line EXCEPT ![w] = n]
    BY DEF GithubNext, GithubPop, GithubAddLine, GithubProgress, GithubReject, GithubAccept,
       GithubCount, GithubPush, GithubDone, GithubLeave
  <2>5. \A v \in ParsingWorkers : at'[v] = at[v] /\ line'[v] = line[v]
    BY <1>1, <2>3, <2>4 DEF Flow, FlowTypes
  <2> QED
    BY <2>1, <2>2, <2>5, ParsingRowsOthers DEF OwnRows
<1>3. GithubRows'
  <2>1. CASE GithubAddLine(w)
    BY <2>1, GithubAddLineRows DEF OwnRows
  <2>2. CASE GithubProgress(w)
    BY <2>2, GithubProgressRows DEF OwnRows
  <2>3. CASE GithubReject(w) \/ GithubAccept(w)
    BY <2>3, GithubFinishRows DEF OwnRows
  <2>4. CASE GithubPop(w)
    <3>1. /\ at[w] = "idle" /\ at' = [at EXCEPT ![w] = "popped"]
          /\ "popped" \in Idle \cup GithubPlaces /\ at[w] \in Idle
          /\ gServing' = [gServing EXCEPT ![w] = Head(gItems)]
          /\ UNCHANGED <<line, gCompleted, history>>
      BY <2>4 DEF GithubPop, Moves, Idle, GithubPlaces, GithubQueue!Serve
    <3>2. \A v \in GithubWorkers : v # w => gServing'[v] = gServing[v]
      BY <3>1, QueueFacts
    <3>3. LineSame("github")
      BY <3>1 DEF LineSame
    <3> QED
      BY <3>1, <3>2, <3>3, GithubRowsStay DEF OwnRows
  <2>5. CASE GithubCount(w) \/ GithubPush(w)
    <3>1. PICK to : /\ to \in {"counted", "settled"} /\ at[w] \in {"accepted", "counted"}
                    /\ at' = [at EXCEPT ![w] = to]
      BY <2>5 DEF GithubCount, GithubPush, Moves
    <3>2. UNCHANGED <<line, gServing, gCompleted>>
      BY <2>5 DEF GithubCount, GithubPush, github
    <3>3. LineSame("github")
      <4>1. history' = history \/ history' = IncrementPending(history, "parsing")
        BY <2>5 DEF GithubCount, GithubPush, CountAccepted
      <4>2. CASE history' = history
        BY <4>2 DEF LineSame
      <4>3. CASE history' = IncrementPending(history, "parsing")
        BY <4>3, LinesIncremented, Names
      <4> QED
        BY <4>1, <4>2, <4>3
    <3>4. to \in Idle \cup GithubPlaces /\ to \notin Idle \cup {"popped"}
      BY <3>1 DEF Idle, GithubPlaces
    <3> QED
      BY <3>1, <3>2, <3>3, <3>4, GithubRowsStay DEF OwnRows
  <2>6. CASE GithubDone(w)
    <3>1. /\ at[w] = "settled" /\ at' = [at EXCEPT ![w] = "idle"]
          /\ "idle" \in Idle \cup GithubPlaces
          /\ gServing' = [gServing EXCEPT ![w] = NULL]
          /\ gCompleted' = gCompleted \cup {gServing[w]}
          /\ UNCHANGED <<line, history>>
      BY <2>6 DEF GithubDone, Moves, Idle, GithubPlaces, GithubQueue!Complete
    <3>2. \A v \in GithubWorkers : v # w => gServing'[v] = gServing[v]
      BY <3>1, QueueFacts
    <3>3. LineSame("github")
      BY <3>1 DEF LineSame
    <3> QED
      BY <3>1, <3>2, <3>3, GithubRowsStay DEF OwnRows
  <2>7. CASE GithubLeave(w)
    <3>1. /\ at[w] = "idle" /\ at' = [at EXCEPT ![w] = "returned"]
          /\ "returned" \in Idle \cup GithubPlaces /\ at[w] \in Idle
          /\ UNCHANGED <<line, history, gServing, gCompleted>>
      BY <2>7 DEF GithubLeave, Moves, Idle, GithubPlaces, GithubQueue!Leave
    <3>2. LineSame("github")
      BY <3>1 DEF LineSame
    <3> QED
      BY <3>1, <3>2, GithubRowsStay DEF OwnRows
  <2> QED
    BY <2>1, <2>2, <2>3, <2>4, <2>5, <2>6, <2>7 DEF GithubNext
<1> QED
  BY <1>2, <1>3 DEF OwnRows

LEMMA ParsingLines ==
  ASSUME Flow, Screen, Books, Totals, OwnRows, NEW w \in ParsingWorkers, ParsingNext(w)
  PROVE  OwnRows'
<1>1. /\ w \in Workers /\ line[w] \in Counts /\ pServing[w] \in Entries \cup {NULL}
      /\ \A v \in GithubWorkers : v \in Workers /\ v # w
      /\ line \in [Workers -> Counts]
  BY SweepFacts, QueueFacts DEF Workers
<1>2. GithubRows'
  <2>1. LineSame("github")
    <3>1. CASE ParsingAddLine(w)
      <4>1. history' = AddLine(history, "parsing", pServing[w]) /\ pServing[w] # NULL
        BY <3>1 DEF ParsingAddLine, Moves, Flow, Places, Idle
      <4>2. pServing[w] \in Entries \cup 0 .. CweCount
        BY <1>1, <4>1
      <4> QED
        BY <4>1, <4>2, LinesAdded, Names
    <3>2. CASE ParsingFinish(w)
      <4>1. history' = UpdateLine(history, "parsing", line[w], TRUE)
        BY <3>2 DEF ParsingFinish
      <4> QED
        BY <1>1, <4>1, LinesUpdated, Names
    <3>3. CASE ~ParsingAddLine(w) /\ ~ParsingFinish(w)
      <4>1. history' = history
        BY <3>3 DEF ParsingNext, ParsingPop, ParsingOpen, ParsingRefused, ParsingClose,
           ParsingDone, ParsingLeave
      <4> QED
        BY <4>1 DEF LineSame
    <3> QED
      BY <3>1, <3>2, <3>3
  <2>2. UNCHANGED <<gServing, gCompleted>>
    BY DEF ParsingNext, ParsingPop, ParsingAddLine, ParsingOpen, ParsingRefused, ParsingClose,
       ParsingFinish, ParsingDone, ParsingLeave, github
  <2>3. PICK to : at' = [at EXCEPT ![w] = to]
    BY DEF ParsingNext, ParsingPop, ParsingAddLine, ParsingOpen, ParsingRefused, ParsingClose,
       ParsingFinish, ParsingDone, ParsingLeave, Moves
  <2>4. \E n : line' = line \/ line' = [line EXCEPT ![w] = n]
    BY DEF ParsingNext, ParsingPop, ParsingAddLine, ParsingOpen, ParsingRefused, ParsingClose,
       ParsingFinish, ParsingDone, ParsingLeave
  <2>5. \A v \in GithubWorkers : at'[v] = at[v] /\ line'[v] = line[v]
    BY <1>1, <2>3, <2>4 DEF Flow, FlowTypes
  <2> QED
    BY <2>1, <2>2, <2>5, GithubRowsOthers DEF OwnRows
<1>3. ParsingRows'
  <2>1. CASE ParsingAddLine(w)
    BY <2>1, ParsingAddLineRows DEF OwnRows
  <2>2. CASE ParsingFinish(w)
    BY <2>2, ParsingFinishRows DEF OwnRows
  <2>3. CASE ParsingPop(w)
    <3>1. /\ at[w] = "idle" /\ at' = [at EXCEPT ![w] = "popped"]
          /\ "popped" \in Idle \cup ParsingPlaces /\ at[w] \in Idle
          /\ pServing' = [pServing EXCEPT ![w] = Head(pItems)]
          /\ UNCHANGED <<line, pCompleted, history>>
      BY <2>3 DEF ParsingPop, Moves, Idle, ParsingPlaces, ParsingQueue!Serve
    <3>2. \A v \in ParsingWorkers : v # w => pServing'[v] = pServing[v]
      BY <3>1, QueueFacts
    <3>3. LineSame("parsing")
      BY <3>1 DEF LineSame
    <3> QED
      BY <3>1, <3>2, <3>3, ParsingRowsStay DEF OwnRows
  <2>4. CASE ParsingOpen(w) \/ ParsingRefused(w) \/ ParsingClose(w)
    <3>1. PICK to : /\ to \in {"parsing", "writing", "exported"}
                    /\ at[w] \in {"parsing", "writing", "exported"}
                    /\ at' = [at EXCEPT ![w] = to]
      BY <2>4 DEF ParsingOpen, ParsingRefused, ParsingClose, Moves
    <3>2. UNCHANGED <<line, pServing, pCompleted, history>>
      BY <2>4 DEF ParsingOpen, ParsingRefused, ParsingClose, parsing
    <3>3. LineSame("parsing")
      BY <3>2 DEF LineSame
    <3>4. to \in Idle \cup ParsingPlaces /\ to \notin Idle \cup {"popped"}
      BY <3>1 DEF Idle, ParsingPlaces
    <3> QED
      BY <3>1, <3>2, <3>3, <3>4, ParsingRowsStay DEF OwnRows
  <2>5. CASE ParsingDone(w)
    <3>1. /\ at[w] = "settled" /\ at' = [at EXCEPT ![w] = "idle"]
          /\ "idle" \in Idle \cup ParsingPlaces
          /\ pServing' = [pServing EXCEPT ![w] = NULL]
          /\ pCompleted' = pCompleted \cup {pServing[w]}
          /\ UNCHANGED <<line, history>>
      BY <2>5 DEF ParsingDone, Moves, Idle, ParsingPlaces, ParsingQueue!Complete
    <3>2. \A v \in ParsingWorkers : v # w => pServing'[v] = pServing[v]
      BY <3>1, QueueFacts
    <3>3. LineSame("parsing")
      BY <3>1 DEF LineSame
    <3> QED
      BY <3>1, <3>2, <3>3, ParsingRowsStay DEF OwnRows
  <2>6. CASE ParsingLeave(w)
    <3>1. /\ at[w] = "idle" /\ at' = [at EXCEPT ![w] = "returned"]
          /\ "returned" \in Idle \cup ParsingPlaces /\ at[w] \in Idle
          /\ UNCHANGED <<line, history, pServing, pCompleted>>
      BY <2>6 DEF ParsingLeave, Moves, Idle, ParsingPlaces, ParsingQueue!Leave
    <3>2. LineSame("parsing")
      BY <3>1 DEF LineSame
    <3> QED
      BY <3>1, <3>2, ParsingRowsStay DEF OwnRows
  <2> QED
    BY <2>1, <2>2, <2>3, <2>4, <2>5, <2>6 DEF ParsingNext
<1> QED
  BY <1>2, <1>3 DEF OwnRows

\* A new display has no lines.
LEMMA FreshRows == Fresh => OwnRows
<1> SUFFICES ASSUME Fresh PROVE OwnRows
  OBVIOUS
<1>1. /\ history.section["github"] = NewSection /\ history.section["parsing"] = NewSection
  BY Names DEF Fresh, NewHistory
<1>2. GithubBusy = {} /\ ParsingBusy = {}
  BY DEF Fresh, GithubBusy, ParsingBusy, At, Workers
<1>3. NewSection.pushed = 0 /\ NewSection.ongoing = 0 /\ NewSection.done = 0
      /\ Len(NewSection.lines) = 0
  BY EmptySeq DEF NewSection
<1>4. \A ln, sv, begun : Rows(NewSection, ln, {}, sv, begun)
  BY <1>3 DEF Rows
<1> QED
  BY <1>1, <1>2, <1>4 DEF OwnRows, GithubRows, ParsingRows

LEMMA RunAgainRows == RunAgain => OwnRows'
<1>1. RunAgain => Fresh'
  BY RunAgainFresh
<1>2. (Fresh => OwnRows)'
  BY FreshRows, PTL
<1> QED
  BY <1>1, <1>2

LEMMA RowsStep == Flow /\ Screen /\ (Books /\ Totals) /\ OwnRows /\ [Next]_vars => OwnRows'
<1> SUFFICES ASSUME Flow, Screen, Books, Totals, OwnRows, [Next]_vars PROVE OwnRows'
  OBVIOUS
<1>1. CASE Exit \/ Ended \/ UNCHANGED vars
  <2>1. UNCHANGED <<at, line, history, gServing, gCompleted, pServing, pCompleted>>
    BY <1>1 DEF Exit, Ended, vars, workers, github, parsing
  <2>2. LineSame("github") /\ LineSame("parsing")
    BY <2>1 DEF LineSame
  <2> QED
    BY <2>1, <2>2, GithubRowsOthers, ParsingRowsOthers DEF OwnRows
<1> QED
  BY <1>1, MainRows, GithubLines, ParsingLines, RunAgainRows DEF Next

\* Every line of the display is about an entry that a worker has begun, and the
\* number a busy worker keeps is the one of the line about its entry.
THEOREM RowsInvariance == SafeSpec => []OwnRows
<1>1. Init => OwnRows
  BY FreshRows DEF Init, Fresh
<1> QED
  BY <1>1, FlowInvariance, ScreenInvariance, BooksInvariance, RowsStep, PTL DEF SafeSpec

\* A busy worker finds its own line where history_update_line looks for it, a
\* line says "done" exactly when its entry is, and no worker rewrites the line
\* of another.
THEOREM OwnLines == SafeSpec => []OwnLine
<1>1. Screen /\ OwnRows => OwnLine
  <2> SUFFICES ASSUME Screen, OwnRows PROVE OwnLine
    OBVIOUS
  <2>1. ASSUME NEW s \in SectionNames, NEW busy, busy \subseteq Workers, NEW sv, NEW begun,
               Rows(history.section[s], line, busy, sv, begun)
        PROVE  LineTells(s, busy, sv)
    <3>1. PICK p \in Nat : p = history.section[s].pushed /\ p \in Counts
      BY SweepFacts, SectionTypes, HistoryAssumption DEF Counts
    <3>2. \A w \in busy : line[w] \in 1 .. p /\ line[w] \in Nat
      BY <2>1, <3>1 DEF Rows
    <3>3. \A w \in busy : LineIndex(history, s, line[w]) = p - line[w]
      <4>1. \A n \in 0 .. p : Plus(p, -n) = p - n
        BY <3>1, Unsigned
      <4> QED
        BY <3>1, <3>2, <4>1 DEF LineIndex
    <3>4. Len(history.section[s].lines) \in Nat
      BY SweepFacts, SectionTypes
    <3>5. ASSUME NEW i \in 1 .. Len(history.section[s].lines), NEW w \in busy
          PROVE  line[w] = p - i + 1 <=> i = LineIndex(history, s, line[w]) + 1
      BY <3>2, <3>3, <3>4
    <3>6. ASSUME NEW i \in 1 .. Len(history.section[s].lines)
          PROVE  /\ history.section[s].lines[i].text # "done" <=>
                      \E w \in busy : line[w] = p - i + 1
                 /\ \A w \in busy : sv[w] = history.section[s].lines[i].who <=>
                                      line[w] = p - i + 1
      BY <2>1, <3>1 DEF Rows
    <3> QED
      BY <3>5, <3>6 DEF LineTells
  <2>2. GithubBusy \subseteq Workers /\ ParsingBusy \subseteq Workers
    BY DEF GithubBusy, ParsingBusy, At, Workers
  <2>3. LineTells("github", GithubBusy, gServing) /\ LineTells("parsing", ParsingBusy, pServing)
    BY <2>1, <2>2, Names DEF OwnRows, GithubRows, ParsingRows
  <2> QED
    BY <2>3 DEF OwnLine, GithubBusy, ParsingBusy
<1> QED
  BY <1>1, ScreenInvariance, RowsInvariance, PTL
=============================================================================
