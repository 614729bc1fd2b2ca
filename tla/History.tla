------------------------------ MODULE History ------------------------------
(***************************************************************************)
(* The progress display of src/src/history.c as operations on one record:  *)
(* three sections of counters and recent lines, and the cursor of the      *)
(* terminal.  Every operation runs under history->lock from its first      *)
(* access to its redraw, so each is one step of the thread that calls it.  *)
(*                                                                         *)
(* A line keeps who it is about (its prefix names the CWE or the commit)   *)
(* and a text for its suffix: "new" when added, "working" and finally      *)
(* "done".  The wording is left out, and so are the width and the height   *)
(* of the terminal.                                                        *)
(***************************************************************************)
EXTENDS Integers, Sequences

CONSTANTS SectionLen, \* SECTION_LEN: the recent lines a section shows
          UintMod     \* 2^32: the counters are of type unsigned

ASSUME HistoryAssumption ==
  /\ SectionLen \in Nat \ {0}
  /\ UintMod \in Nat \ {0, 1}

SectionNames == {"nvd", "github", "parsing"}  \* HISTORY_SECTIONS of them

NewSection == [pending |-> 0, ongoing |-> 0, done |-> 0, pushed |-> 0,
               lines |-> <<>>]

\* top is the row of the terminal the last redraw started at and cursor the
\* row it left the cursor on, counted from the row of the first redraw.
NewHistory ==
  [section |-> [s \in SectionNames |-> NewSection],
   previous |-> -1, top |-> 0, cursor |-> 0]

Plus(x, n) == (x + n) % UintMod

Drawn(section) ==
  Len(section["nvd"].lines) + Len(section["github"].lines)
    + Len(section["parsing"].lines)

\* A mistake the properties must catch: the count of lines is never reset.
DisplayNoReset(h) ==
  LET blank == IF h.previous < 0 THEN 0 ELSE h.previous + 6
      start == h.cursor - blank
      drawn == Drawn(h.section)
  IN  [h EXCEPT !.previous = @ + drawn, !.top = start, !.cursor = start + drawn + 6]

\* display_history: the cursor goes up over the titles, the blank lines and the
\* lines of the last redraw (on the first call, over six lines it has just
\* printed), and comes down over what is drawn now.
Display(h) ==
  LET blank == IF h.previous < 0 THEN 0 ELSE h.previous + 6
      start == h.cursor - blank
      drawn == Drawn(h.section)
  IN  [h EXCEPT !.previous = drawn, !.top = start, !.cursor = start + drawn + 6]

SetPending(h, s, n) == Display([h EXCEPT !.section[s].pending = n])

IncrementPending(h, s) ==
  Display([h EXCEPT !.section[s].pending = Plus(@, 1)])

\* A mistake the properties must catch: the oldest line does not fall off.
ShiftKeepsAll(new, lines) == <<new>> \o lines

\* The new line comes first and the oldest one falls off a full section.
Shift(new, lines) ==
  LET kept == IF Len(lines) < SectionLen THEN Len(lines) ELSE SectionLen - 1
  IN  <<new>> \o SubSeq(lines, 1, kept)

\* The caller keeps the number of its line, which is pushed_lines_count now.
AddLine(h, s, who) ==
  LET sec == h.section[s]
  IN  Display([h EXCEPT !.section[s] =
        [pending |-> Plus(sec.pending, -1),
         ongoing |-> Plus(sec.ongoing, 1),
         done    |-> sec.done,
         pushed  |-> Plus(sec.pushed, 1),
         lines   |-> Shift([who |-> who, text |-> "new"], sec.lines)]])

LineNumber(h, s) == h.section[s].pushed

\* The place of line number n among the lines that are kept, newest first.
LineIndex(h, s, n) == Plus(h.section[s].pushed, -n)

Text(finished) == IF finished THEN "done" ELSE "working"

\* A mistake the properties must catch: the newest line is always rewritten.
UpdateNewestLine(h, s, n, finished) ==
  LET counted == IF finished
                 THEN [h EXCEPT !.section[s].done = Plus(@, 1),
                                !.section[s].ongoing = Plus(@, -1)]
                 ELSE h
  IN  Display([counted EXCEPT !.section[s].lines[1].text = Text(finished)])

\* The line is rewritten where it is now, unless it has fallen off.
UpdateLine(h, s, n, finished) ==
  LET counted == IF finished
                 THEN [h EXCEPT !.section[s].done = Plus(@, 1),
                                !.section[s].ongoing = Plus(@, -1)]
                 ELSE h
      index == LineIndex(h, s, n)
  IN  IF index < SectionLen
      THEN Display([counted EXCEPT !.section[s].lines[index + 1].text = Text(finished)])
      ELSE IF finished THEN Display(counted) ELSE counted
=============================================================================
