------------------------------ MODULE ResultFile ------------------------------
(***************************************************************************)
(* How a Result file becomes the rows of the Result view (resultCsv.ts,    *)
(* and the copy of its table: tableExport.ts).                             *)
(*                                                                         *)
(* A character is "q" (quote), "d" (delimiter), "r" (CR), "n" (LF), " " or *)
(* a letter; a cell is a sequence of characters, a row one of cells.  A    *)
(* time cell is a record [kind, ms]: kind "absolute", "tod" (only the time *)
(* of the day), "number" (elapsed) or "none" (cannot be read).             *)
(***************************************************************************)
EXTENDS Integers, FiniteSets, SequencesExt

CONSTANTS Day,      \* a day (86_400_000 ms)
          Back,     \* how far times of the day may go back within a day (3_600_000 ms)
          Fixed,    \* rows before the data of an ATS file where no time is found (6)
          Columns,  \* columns that the line of names of an ATS file has at least (more than 24)
          Near      \* rows before and after that belong to one image comparison (3)

ASSUME FileBounds == Day \in Nat /\ Back \in 0..Day - 1 /\ {Fixed, Columns, Near} \subseteq Nat

Unread == <<>>

(***************************************************************************)
(* parseCsv and copyTable.                                                 *)
(***************************************************************************)

Blank(cell) == \A i \in DOMAIN cell : cell[i] = " "

EndCell(acc) == [acc EXCEPT !.row = Append(@, acc.cell), !.cell = <<>>]
EndRow(acc) == [acc EXCEPT !.rows = Append(@, Append(acc.row, acc.cell)), !.row = <<>>, !.cell = <<>>]

\* One character; next is the one after it, and the one of "" and CRLF is skipped.
ReadQuoted(acc, ch, next) ==
  IF ch # "q" THEN [acc EXCEPT !.cell = Append(@, ch)]
  ELSE IF next = "q" THEN [acc EXCEPT !.cell = Append(@, "q"), !.skip = TRUE]
  ELSE [acc EXCEPT !.quoted = FALSE]

\* A quote opens a quoted cell only at its beginning.
ReadPlain(acc, ch, next) ==
  IF ch = "q" /\ Blank(acc.cell) THEN [acc EXCEPT !.quoted = TRUE, !.cell = <<>>]
  ELSE IF ch = "d" THEN EndCell(acc)
  ELSE IF ch \in {"r", "n"} THEN [EndRow(acc) EXCEPT !.skip = (ch = "r" /\ next = "n")]
  ELSE [acc EXCEPT !.cell = Append(@, ch)]

ParseCsv(text) ==
  LET read(acc, i) ==
        LET next == IF i < Len(text) THEN text[i+1] ELSE "end"
        IN IF acc.skip THEN [acc EXCEPT !.skip = FALSE]
           ELSE IF acc.quoted THEN ReadQuoted(acc, text[i], next)
           ELSE ReadPlain(acc, text[i], next)
      last == FoldLeft(read, [rows |-> <<>>, row |-> <<>>, cell |-> <<>>, quoted |-> FALSE, skip |-> FALSE],
                       [i \in DOMAIN text |-> i])
  IN IF last.cell # <<>> \/ last.row # <<>> THEN EndRow(last).rows ELSE last.rows

\* The text of copyTable: a cell with a delimiter, a quote or a line end is quoted.
CopiedCell(cell) ==
  IF \E i \in DOMAIN cell : cell[i] \in {"q", "d", "r", "n"}
  THEN <<"q">> \o FlattenSeq([i \in DOMAIN cell |-> IF cell[i] = "q" THEN <<"q", "q">> ELSE <<cell[i]>>]) \o <<"q">>
  ELSE cell

Joined(parts, by) == FlattenSeq([i \in DOMAIN parts |-> IF i = 1 THEN parts[i] ELSE by \o parts[i]])
CopiedTable(rows) == Joined([i \in DOMAIN rows |-> Joined([j \in DOMAIN rows[i] |-> CopiedCell(rows[i][j])], <<"d">>)], <<"r", "n">>)

(***************************************************************************)
(* parseResult: the times of the rows.  A time of the day is on the day of *)
(* the start in the preamble, and a day later each time it goes back.      *)
(***************************************************************************)

KindsOf(times, kinds) == Cardinality({i \in DOMAIN times : times[i].kind \in kinds})

TimeKind(times) ==
  IF KindsOf(times, {"absolute"}) > 0 /\ KindsOf(times, {"absolute"}) >= KindsOf(times, {"tod", "number"}) THEN "absolute"
  ELSE IF KindsOf(times, {"tod", "number"}) > 0 THEN "elapsed" ELSE "unknown"

\* lastTod and dayAdd after the rows so far.
NextDay(acc, v) ==
  IF v.kind # "tod" THEN acc
  ELSE [last |-> v.ms, days |-> IF acc.last >= 0 /\ v.ms < acc.last - Back THEN acc.days + 1 ELSE acc.days]

Days(times) == FoldLeft(NextDay, [last |-> -1, days |-> 0], times)

RowTime(times, start, mode, i) ==
  LET v == times[i]
      tod == v.ms + Day * Days(SubSeq(times, 1, i)).days
  IN CASE v.kind = "none" -> Unread
       [] v.kind = "absolute" -> IF mode = "elapsed" /\ start # Unread THEN <<v.ms - start[1]>> ELSE <<v.ms>>
       [] v.kind = "tod" -> IF mode = "absolute" /\ start # Unread THEN <<start[1] - (start[1] % Day) + tod>> ELSE <<tod>>
       [] OTHER -> <<v.ms>>

RowTimes(times, start, timeMode) ==
  LET mode == IF timeMode = "auto" THEN TimeKind(times) ELSE timeMode
  IN [i \in DOMAIN times |-> RowTime(times, start, mode, i)]

(***************************************************************************)
(* guessMapping: the columns of the roles, one after the other; a column   *)
(* is [roles, score, statuses]: the roles its name fits, what its values   *)
(* score for them, and how many of them are PASS, FAIL and the like.       *)
(***************************************************************************)

\* The first of the columns with the highest score, if that is not 0.
Best(S, score) ==
  {c \in S : score[c] > 0 /\ \A d \in S : score[d] < score[c] \/ (score[d] = score[c] /\ c <= d)}

Picked(columns, used, role) ==
  Best({c \in DOMAIN columns \ used : role \in columns[c].roles}, [c \in DOMAIN columns |-> columns[c].score[role]])

\* By its name if it has such values, otherwise by its values alone.
PickedStatus(columns, used) ==
  LET byName == Best({c \in DOMAIN columns \ used : "status" \in columns[c].roles}, [c \in DOMAIN columns |-> columns[c].statuses])
  IN IF byName # {} THEN byName
     ELSE Best(DOMAIN columns \ used, [c \in DOMAIN columns |-> columns[c].statuses])

GuessMapping(columns) ==
  LET pick(acc, role) ==
        LET used == UNION {acc[r] : r \in DOMAIN acc}
        IN [acc EXCEPT ![role] = IF role = "status" THEN PickedStatus(columns, used) ELSE Picked(columns, used, role)]
      roles == <<"time", "cycle", "status", "name", "duration", "message">>
  IN FoldLeft(pick, [r \in ToSet(roles) |-> {}], roles)

(***************************************************************************)
(* pickCycleColumn: of the two columns that may count the cycles, the one  *)
(* that rises by one.  A column is its values, Unread where it is no number. *)
(***************************************************************************)

Numbers(column) == SelectSeq(column, LAMBDA v : v # Unread)
Changes(column) == {i \in 2..Len(Numbers(column)) : Numbers(column)[i] # Numbers(column)[i-1]}
PlusOne(column) == \A i \in Changes(column) : Numbers(column)[i][1] = Numbers(column)[i-1][1] + 1

Rank(column) == IF Changes(column) = {} THEN 0 ELSE IF PlusOne(column) THEN 2 ELSE 1

Better(a, b) == Rank(a) > Rank(b) \/ (Rank(a) = Rank(b) /\ Cardinality(Changes(a)) > Cardinality(Changes(b)))
PickCycleColumn(columns) ==
  FoldLeft(LAMBDA best, c : IF Better(columns[c], columns[best]) THEN c ELSE best, 1, [c \in DOMAIN columns |-> c])

(***************************************************************************)
(* parseAts: which lines are the data.  A line is [time, width]: time is   *)
(* "read", "unread" (in brackets, but no time) or "no".                    *)
(***************************************************************************)

AtsData(line) == line.time \in {"read", "unread"}
FirstOf(S, default) == IF S = {} THEN default ELSE CHOOSE i \in S : \A j \in S : i <= j

\* A bug: always after Fixed lines.
FirstFixed(lines) == (IF Len(lines) < Fixed THEN Len(lines) ELSE Fixed) + 1

\* The first line of data, found by its time; without one, after Fixed lines.
FirstData(lines) ==
  FirstOf({i \in DOMAIN lines : lines[i].time = "read"}, (IF Len(lines) < Fixed THEN Len(lines) ELSE Fixed) + 1)

\* The line above with content, if it is wide enough for a line of names.
NamesAt(lines) ==
  LET above == {i \in 1..FirstData(lines)-1 : lines[i].width > 0}
  IN {i \in above : (\A j \in above : j <= i) /\ lines[i].width > Columns}

DataLines(lines) ==
  LET first == FirstData(lines)
      stop == FirstOf({i \in first..Len(lines) : ~AtsData(lines[i])}, Len(lines) + 1)
  IN first..stop-1

(***************************************************************************)
(* attachRfwImages: the images of a comparison are in rows near each       *)
(* other.  A row is [cycle, images]; an image is [name, of]: of is "ref",  *)
(* "result" or "diff", shot tells the shots apart.                         *)
(***************************************************************************)

OfName(row, names) == SelectSeq(row.images, LAMBDA p : p.name \in names)

NearImages(rows, i) ==
  LET names == {rows[i].images[k].name : k \in DOMAIN rows[i].images}
      near == SelectSeq([k \in DOMAIN rows |-> k], LAMBDA k : i - Near <= k /\ k <= i + Near /\ rows[k].cycle = rows[i].cycle)
  IN FlattenSeq([n \in DOMAIN near |-> OfName(rows[near[n]], names)])

FirstImage(images, of) ==
  LET fit == SelectSeq(images, LAMBDA p : p.of = of) IN IF fit = <<>> THEN Unread ELSE <<Head(fit)>>

AttachedImages(rows, i) ==
  LET images == NearImages(rows, i)
      result == FirstImage(images, "result")
      diff == FirstImage(images, "diff")
  IN [ref |-> FirstImage(images, "ref"), diff |-> diff, result |-> IF result # Unread THEN result ELSE diff]

(***************************************************************************)
(* What is promised.                                                       *)
(***************************************************************************)

\* What copyTable writes reads back as the same cells, quotes and line ends in cells included;
\* a single empty cell in the last row is not seen.
CopyReadsBack(rows) == Last(rows) # << <<>> >> => ParseCsv(CopiedTable(rows)) = rows

\* Times of the day are put on the right day, however many midnights a test runs over, although some
\* cannot be read and some are a little out of order, as long as two of them that follow each other are
\* less than a day (less the slack for times that go back) apart, none goes back over a midnight, and the
\* start of the preamble is on the day of the first row.  lost: the rows whose time cannot be read.
Follow(a, b) == b - a < Day - Back /\ (b < a => a - b <= Back /\ a \div Day = b \div Day)
DaysAreCounted(real, lost) ==
  LET read == DOMAIN real \ lost
      follows(i, j) == i < j /\ \A k \in i+1..j-1 : k \in lost
      times == [i \in DOMAIN real |-> IF i \in lost THEN [kind |-> "none", ms |-> 0]
                                                    ELSE [kind |-> "tod", ms |-> real[i] % Day]]
  IN read # {} /\ (\A i, j \in read : follows(i, j) => Follow(real[i], real[j])) =>
       LET first == real[FirstOf(read, 1)]
       IN RowTimes(times, <<first - (first % Day)>>, "absolute")
            = [i \in DOMAIN real |-> IF i \in lost THEN Unread ELSE <<real[i]>>]

\* No column has two roles, though the column of the status may be chosen twice.
OneRoleEach(columns) ==
  LET m == GuessMapping(columns)
  IN \A r, s \in DOMAIN m : r # s => m[r] \cap m[s] = {}

\* Where the outer of two loops counts up by one, no cycle of the chosen column comes back
\* after another one, whichever of the columns is the outer loop.
NoCycleComesBack(columns) ==
  LET c == columns[PickCycleColumn(columns)]
  IN (\E o \in DOMAIN columns : PlusOne(columns[o]) /\ Changes(columns[o]) # {})
     => \A i, j \in DOMAIN c : i < j /\ c[i] = c[j] => \A k \in i..j : c[k] = c[i]

\* Every line with a time is data, up to the first that is none after it, however many lines
\* the preamble has; the line of names is never one of them.
DataIsFound(lines) ==
  LET read == {i \in DOMAIN lines : lines[i].time = "read"}
  IN /\ read # {} => FirstOf(read, 0) \in DataLines(lines)
     /\ \A i \in DataLines(lines) : AtsData(lines[i]) /\ i \notin NamesAt(lines)
     /\ \A i \in read : i \notin DataLines(lines) =>
          \E j \in DOMAIN lines : j < i /\ ~AtsData(lines[j]) /\ \E k \in read : k < j

\* The comment of parseResult (resultCsv.ts:450): the day of the start, and one more after each
\* midnight, the one between the start and the first row too.
DayOfStart(start, real) ==
  LET times == [i \in DOMAIN real |-> [kind |-> "tod", ms |-> real[i] % Day]]
  IN RowTimes(times, <<start>>, "absolute") = [i \in DOMAIN real |-> <<real[i]>>]

\* The comment of AtsImages.result (resultCsv.ts:46): the picture cut from the screen at that time; a row that
\* names its own shot shows it.
OwnShotIsShown(rows) ==
  \A i \in DOMAIN rows : \A k \in DOMAIN rows[i].images :
    rows[i].images[k].of = "result" /\ Len(rows[i].images) = 1 => AttachedImages(rows, i).result = <<rows[i].images[k]>>
=============================================================================
