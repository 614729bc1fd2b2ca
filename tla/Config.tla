------------------------------- MODULE Config -------------------------------
(***************************************************************************)
(* How src/src/config.c reads the configuration: the file line by line in  *)
(* a buffer, then the list of CWEs and the range of publication dates that *)
(* the sweep of NvdSweep goes through.  One process, no other actor: what  *)
(* can go wrong is in the buffer, the conversions and the dates.           *)
(*                                                                         *)
(* A text is a sequence of symbols: a key stands for the key and its "=",  *)
(* a digit, a comma and "\n" for themselves, any other symbol for a word,  *)
(* and each fills one place of the buffer.  libc is not under src/.        *)
(***************************************************************************)
EXTENDS Integers, Sequences, SequencesExt, FiniteSetsExt, TLC

CONSTANTS Files,    \* the files: their text, and what their author means by it
          Fields,   \* Fields[w]: the day, month and year strptime finds in the
                    \* word w, up to the first one that is not there
          Now,      \* time(NULL), in seconds since 1970
          LineSize, \* sizeof(line)
          UintMod,  \* 2^32
          NULL

Day == 24 * 60 * 60

Strings == {"cwe-ids", "cve-published-before", "cve-published-after",
            "nvd-api-key", "github-api-key"}
Flags   == {"include-c-files", "include-cpp-files"}
Numbers == {"context-depth", "max-files-commit", "max-files-context", "max-files-total"}
Keys    == Strings \cup Flags \cup Numbers

ASSUME ConfigAssumption ==
  /\ \A f \in Files : /\ f.text \in Seq(STRING)
                      /\ f.folder \in BOOLEAN /\ f.opens \in BOOLEAN
                      /\ f.cwe_ids \in Seq(0 .. UintMod - 1)
                      /\ f.number \in Int
  /\ \A w \in DOMAIN Fields : Len(Fields[w]) <= 3
  /\ Now \in Nat
  /\ LineSize \in Nat \ {0, 1}
  /\ UintMod \in Nat \ {0}

VARIABLES
  file,     \* the file given, and its author's meaning; it does not change
  text,     \* what is left to read of it
  settings, \* the members of config_t that parse_config_file sets, by key
  cwe_ids,  \* config->cwe_ids; its length is cwe_ids_count
  tm,       \* the struct tm of parse_dates
  before,   \* config->cve_published_before
  after,    \* config->cve_published_after
  at        \* where config_new is

vars == <<file, text, settings, cwe_ids, tm, before, after, at>>

-----------------------------------------------------------------------------
(* libc.                                                                   *)

Digit == [d \in {"0", "1", "2", "3", "4", "5", "6", "7", "8", "9"} |->
            CHOOSE n \in 0 .. 9 : ToString(n) = d]

\* atoi: a sign, and the digits up to the first symbol that is none.
Atoi(s) ==
  LET negative == s # <<>> /\ s[1] = "-"
      t == IF negative THEN Tail(s) ELSE s
      digits == SubSeq(t, 1, Min({i - 1 : i \in {k \in DOMAIN t : t[k] \notin DOMAIN Digit}}
                                   \cup {Len(t)}))
      n == FoldLeft(LAMBDA sum, d : 10 * sum + Digit[d], 0, digits)
  IN  IF negative THEN -n ELSE n

MonthLength(m, y) ==
  CASE m = 2 /\ y % 4 = 0 /\ (y % 100 # 0 \/ y % 400 = 0) -> 29
    [] m = 2                                              -> 28
    [] m \in {4, 6, 9, 11}                                -> 30
    [] OTHER                                              -> 31

Leaps(y) == y \div 4 - y \div 100 + y \div 400

\* The number of the first day of a month, counted from 1 January 1970.
FirstOfMonth(m, y) ==
  365 * (y - 1970) + Leaps(y - 1) - Leaps(1969)
    + MapThenSumSet(LAMBDA k : MonthLength(k, y), 1 .. m - 1)

\* timegm takes a day that its month does not have for one of the next month.
TimeGm(t) == (FirstOfMonth(t.date[2], t.date[3]) + t.date[1] - 1) * Day + t.clock

GmTime(time) ==
  LET n == time \div Day
      years == {n \div 365, n \div 366}
      y == CHOOSE x \in 1969 + Min(years) .. 1971 + Max(years) :
             FirstOfMonth(1, x) <= n /\ n < FirstOfMonth(1, x + 1)
      m == Max({k \in 1 .. 12 : FirstOfMonth(k, y) <= n})
  IN  [date |-> <<n - FirstOfMonth(m, y) + 1, m, y>>, clock |-> time % Day]

\* strptime(s, "%d/%m/%Y", t) reads the date and leaves the clock alone; it may
\* fail with a part of the date read, and does not mind what follows the date.
Read(s) == IF s = NULL \/ s[1] \notin DOMAIN Fields THEN <<>> ELSE Fields[s[1]]
Strptime(s, t) ==
  [t EXCEPT !.date = [i \in 1 .. 3 |-> IF i <= Len(Read(s)) THEN Read(s)[i] ELSE @[i]]]
IsDate(s) == Len(Read(s)) = 3

ZeroTm == [date |-> <<0, 1, 1900>>, clock |-> 0]

-----------------------------------------------------------------------------
(* parse_config_file.                                                      *)

\* A mistake the properties must catch: a negative number is kept.
Signed(n) == n

\* A number becomes an unsigned one.
Unsigned(n) == n % UintMod

\* set_string: an empty value is no value.
SetString(value) == IF value = <<>> THEN NULL ELSE value

Setting(key, value) ==
  CASE key \in Strings -> SetString(value)
    [] key \in Flags   -> value = <<"yes">>
    [] key \in Numbers -> Unsigned(Atoi(value))

\* The size of what fgets reads: a line with its "\n", or what the buffer holds.
Fgets == Min({i \in DOMAIN text : text[i] = "\n"} \cup {LineSize - 1, Len(text)})

Init ==
  /\ file \in Files
  /\ text = file.text
  /\ settings = [k \in Keys |-> CASE k \in Strings -> NULL [] k \in Flags -> FALSE
                                  [] k \in Numbers -> 0]
  /\ cwe_ids = <<>>
  /\ tm = ZeroTm
  /\ before = 0 /\ after = 0
  /\ at = "arguments"

\* config_new needs a folder to export to.
CheckFolder ==
  /\ at = "arguments"
  /\ at' = IF file.folder THEN "opening" ELSE "exited"
  /\ UNCHANGED <<file, text, settings, cwe_ids, tm, before, after>>

\* fopen: the file may be missing or not readable.
OpenFile ==
  /\ at = "opening"
  /\ at' = IF file.opens THEN "reading" ELSE "exited"
  /\ UNCHANGED <<file, text, settings, cwe_ids, tm, before, after>>

\* Comments, empty lines and unknown keys are skipped; a later line prevails.
ReadLine ==
  /\ at = "reading"
  /\ text # <<>>
  /\ LET line == SelectSeq(SubSeq(text, 1, Fgets), LAMBDA s : s # "\n")
     IN  settings' = IF line # <<>> /\ line[1] \in Keys
                       THEN [settings EXCEPT ![line[1]] = Setting(line[1], Tail(line))]
                       ELSE settings
  /\ text' = SubSeq(text, Fgets + 1, Len(text))
  /\ UNCHANGED <<file, cwe_ids, tm, before, after, at>>

EndOfFile ==
  /\ at = "reading"
  /\ text = <<>>
  /\ at' = IF settings["github-api-key"] = NULL THEN "exited" ELSE "cwes"
  /\ UNCHANGED <<file, text, settings, cwe_ids, tm, before, after>>

-----------------------------------------------------------------------------
(* parse_cwe_ids and parse_dates.                                          *)

\* A mistake the properties must catch: a number is looked for at its comma.
NumberAtComma(raw, i) == Unsigned(Atoi(SubSeq(raw, Max({1, i}), Len(raw))))

\* The number after the comma at i; the first one is after no comma.
NumberAfter(raw, i) == Unsigned(Atoi(SubSeq(raw, i + 1, Len(raw))))

\* One number for each comma, and one more.
CweIds(raw) ==
  LET commas == SetToSortSeq({i \in DOMAIN raw : raw[i] = ","}, <)
  IN  [j \in 1 .. Len(commas) + 1 |-> NumberAfter(raw, IF j = 1 THEN 0 ELSE commas[j - 1])]

ParseCweIds ==
  /\ at = "cwes"
  /\ cwe_ids' = IF settings["cwe-ids"] = NULL THEN <<>> ELSE CweIds(settings["cwe-ids"])
  /\ at' = "before"
  /\ UNCHANGED <<file, text, settings, tm, before, after>>

\* A mistake the properties must catch: every time before 1970 is an error.
Negative(time) == time < 0

\* What timegm returns for an error is also the last second of 1969.
Failed(time) == time = -1

\* The last second of the day.
ParseBefore ==
  /\ at = "before"
  /\ LET s == settings["cve-published-before"]
         time == IF IsDate(s) THEN TimeGm(Strptime(s, tm)) ELSE Now
     IN  /\ tm' = [GmTime(time) EXCEPT !.clock = Day - 1]
         /\ before' = IF Failed(time) THEN time ELSE TimeGm(tm')
         /\ at' = IF Failed(time) \/ Failed(before') THEN "exited" ELSE "after"
  /\ UNCHANGED <<file, text, settings, cwe_ids, after>>

\* A mistake the properties must catch: the tm of the other date is kept.
KeepTm == tm

\* tm = (struct tm){0}
ResetTm == ZeroTm

\* The first second of the day; 01/01/1999 when there is no date.
ParseAfter ==
  /\ at = "after"
  /\ LET s == settings["cve-published-after"] IN
       tm' = IF IsDate(s) THEN Strptime(s, ResetTm)
                          ELSE [ResetTm EXCEPT !.date = <<1, 1, 1999>>]
  /\ after' = TimeGm(tm')
  /\ at' = IF Failed(after') THEN "exited" ELSE "configured"
  /\ UNCHANGED <<file, text, settings, cwe_ids, before>>

\* date_to_display: the date the program shows, and keeps as the text.
Displayed(time) == GmTime(time).date

Ended == at \in {"configured", "exited"} /\ UNCHANGED vars

Next ==
  \/ CheckFolder \/ OpenFile \/ ReadLine \/ EndOfFile
  \/ ParseCweIds \/ ParseBefore \/ ParseAfter
  \/ Ended

Spec == Init /\ [][Next]_vars

-----------------------------------------------------------------------------
(* Properties.                                                             *)

\* What config_t holds, and where config_new is.
TypeOK ==
  /\ file \in Files
  /\ text \in Seq(STRING)
  /\ \A k \in Strings : settings[k] = NULL \/ settings[k] \in Seq(STRING) \ {<<>>}
  /\ \A k \in Flags : settings[k] \in BOOLEAN
  /\ \A k \in Numbers : settings[k] \in 0 .. UintMod - 1
  /\ cwe_ids \in Seq(0 .. UintMod - 1)
  /\ tm.clock \in 0 .. Day - 1
  /\ before \in Int /\ after \in Int
  /\ at \in {"arguments", "opening", "reading", "cwes", "before", "after",
             "configured", "exited"}

\* Every line of the file fits into the buffer of parse_config_file.
LinesFit ==
  \A i \in DOMAIN file.text :
    i >= LineSize => \E k \in i - LineSize + 1 .. i : file.text[k] = "\n"

\* The configuration is what the author of the file means, whatever comments,
\* repeated keys and lists there are, with two reservations.  A line that does
\* not fit into the buffer is cut: of a list that is cut, the numbers are as
\* written but for the last one.  And a negative limit is a very large one.
SettingsAsWritten ==
  at = "configured" =>
    /\ \A j \in 1 .. Len(cwe_ids) - 1 : cwe_ids[j] = file.cwe_ids[j]
    /\ LinesFit =>
         /\ cwe_ids = file.cwe_ids
         /\ settings["include-c-files"] = file.flag
         /\ settings["max-files-total"] =
              IF file.number < 0 THEN UintMod + file.number ELSE file.number

\* src/README.md: the author's date, or the default if it is not specified or invalid.
DateMeant(date, default) == IF date.meant = NULL THEN default ELSE date.meant

\* What is no date, and strptime reads as one.
TakenForADate(date) == date.meant = NULL /\ IsDate(date.value)

\* The range of dates is the one the author means and the program shows, which is
\* not said of what is taken for a date.  Whatever the dates are, the range starts
\* with the first second of a day and ends with the last of one, which the windows
\* of NvdSweep rely on (SweepInv).
DatesAsMeant ==
  at = "configured" /\ LinesFit =>
    /\ TakenForADate(file.before)
         \/ Displayed(before) = DateMeant(file.before, Displayed(Now))
    /\ TakenForADate(file.after) \/ Displayed(after) = DateMeant(file.after, <<1, 1, 1999>>)
    /\ after % Day = 0 /\ (before + 1) % Day = 0

\* The process ends for want of a folder, of a file that can be read or of a GitHub
\* key, or because the last day of 1969 ends with the second that stands for an
\* error, and it does not go on without them.  It is not said of what is taken for a
\* date, nor of calls of libc that fail for another reason.
ExitsForAReason ==
  LET reason == \/ ~file.folder
                \/ ~file.opens
                \/ file.key = NULL
                \/ DateMeant(file.before, Displayed(Now)) = <<31, 12, 1969>>
  IN  LinesFit /\ ~TakenForADate(file.before) =>
        /\ at = "exited" => reason
        /\ at = "configured" => ~reason

\* README.md: cwe-ids is a comma-separated list of the CWEs to retrieve.
EveryCweRead == at = "configured" => ToSet(file.cwe_ids) \subseteq ToSet(cwe_ids)
=============================================================================
