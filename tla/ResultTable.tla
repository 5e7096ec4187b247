----------------------------- MODULE ResultTable -----------------------------
(***************************************************************************)
(* The table of the steps of a Result.                                     *)
(*                                                                         *)
(* Its filters and its order (ColumnFilter.tsx and the lists of            *)
(* ResultViewer.tsx: baseRows, visible, menuValues).  A value is shown by  *)
(* a text, which several values may share.                                 *)
(*                                                                         *)
(* The cells that are selected to be copied, and the scrolling after the   *)
(* step that plays (ResultViewer.tsx: RowTable).  Which rows there are,    *)
(* and in which order, changes under both.                                 *)
(***************************************************************************)
EXTENDS Integers, Sequences, SequencesExt, FiniteSetsExt, Functions

CONSTANTS Steps,    \* the rows: [1.. -> [cells, cycle, bad]], each cell a value
          Text,     \* [value -> the text it is shown by]
          Terms     \* what is searched in the menu: sets of the values that hold it

Cols == DOMAIN Steps[1].cells
Values == DOMAIN Text
All == {-1}      \* no filter
Closed == 0

VARIABLES base,    \* [onlyBad, cycle: 0 for all, firstOnly: an exclusion is picked for every cycle]
          filters, \* [column -> All or the values that stay]
          order,   \* [col: 0 for the order of the run, asc]
          menu     \* the menu of a header: [col, checked, term: the values searched]

tableVars == <<base, filters, order, menu>>

TableInit ==
  /\ base = [onlyBad |-> FALSE, cycle |-> 0, firstOnly |-> FALSE]
  /\ filters = [c \in Cols |-> All] /\ order = [col |-> 0, asc |-> TRUE]
  /\ menu = [col |-> Closed, checked |-> {}, term |-> Values]

ShownCycle(b) == IF b.firstOnly THEN 1 ELSE b.cycle
BaseRows(b) == {r \in DOMAIN Steps : (b.onlyBad => Steps[r].bad) /\ (ShownCycle(b) = 0 \/ Steps[r].cycle = ShownCycle(b))}
Passes(r, c, fs) == fs[c] = All \/ Steps[r].cells[c] \in fs[c]
Shown(b, fs) == {r \in BaseRows(b) : \A c \in Cols : Passes(r, c, fs)}
Key(r, o) == IF o.col = 0 THEN 0 ELSE IF o.asc THEN Steps[r].cells[o.col] ELSE -Steps[r].cells[o.col]
Before(o, q, r) == Key(q, o) < Key(r, o) \/ (Key(q, o) = Key(r, o) /\ q < r)
Visible == SetToSortSeq(Shown(base, filters), LAMBDA q, r : Before(order, q, r))

(***************************************************************************)
(* The menu of a header.                                                   *)
(***************************************************************************)

\* The values of the rows that the other filters leave, and those the filter of the column keeps.
MenuValues(c, fs) == {Steps[r].cells[c] : r \in {q \in BaseRows(base) : \A d \in Cols \ {c} : Passes(q, d, fs)}}
Offered(c, fs) == MenuValues(c, fs) \cup IF fs[c] = All THEN {} ELSE fs[c]
GroupOf(v, offered) == {w \in offered : Text[w] = Text[v]}
\* A search finds a group by any of its values.
Listed(m, fs) == {v \in Offered(m.col, fs) : GroupOf(v, Offered(m.col, fs)) \cap m.term # {}}

OpenMenu == \E c \in Cols :
  /\ menu' = IF menu.col = c THEN [menu EXCEPT !.col = Closed]
             ELSE [col |-> c, checked |-> IF filters[c] = All THEN Offered(c, filters) ELSE filters[c], term |-> Values]
  /\ UNCHANGED <<base, filters, order>>
CloseMenu == menu.col # Closed /\ menu' = [menu EXCEPT !.col = Closed] /\ UNCHANGED <<base, filters, order>>
Search == menu.col # Closed /\ (\E t \in Terms \cup {Values} : menu' = [menu EXCEPT !.term = t]) /\ UNCHANGED <<base, filters, order>>
Toggled(group) == IF group \subseteq menu.checked THEN menu.checked \ group ELSE menu.checked \cup group
Toggle == \E v \in Values :
  /\ menu.col # Closed /\ v \in Listed(menu, filters)
  /\ menu' = [menu EXCEPT !.checked = Toggled(GroupOf(v, Offered(menu.col, filters)))]
  /\ UNCHANGED <<base, filters, order>>
ToggleAll ==
  /\ menu.col # Closed /\ menu' = [menu EXCEPT !.checked = Toggled(Listed(menu, filters))]
  /\ UNCHANGED <<base, filters, order>>

Searching(m) == m.term # Values
Picked(m, fs) == (IF Searching(m) THEN Listed(m, fs) ELSE Offered(m.col, fs)) \cap m.checked
\* A bug: everything that was found by a search is no filter at all.
AppliedFound(m, fs) == IF Picked(m, fs) = Listed(m, fs) THEN All ELSE Picked(m, fs)
\* Everything that is offered is no filter at all.
Applied(m, fs) == IF ~Searching(m) /\ Picked(m, fs) = Offered(m.col, fs) THEN All ELSE Picked(m, fs)
\* The button, which asks for one value at least, and Enter, which does not.
Apply == \E by \in {"button", "enter"} :
  /\ menu.col # Closed /\ (by = "button" => Picked(menu, filters) # {})
  /\ filters' = [filters EXCEPT ![menu.col] = Applied(menu, filters)]
  /\ menu' = [menu EXCEPT !.col = Closed] /\ UNCHANGED <<base, order>>
ClearFilter ==
  /\ menu.col # Closed /\ filters[menu.col] # All
  /\ filters' = [filters EXCEPT ![menu.col] = All] /\ menu' = [menu EXCEPT !.col = Closed] /\ UNCHANGED <<base, order>>
SortBy == \E asc \in BOOLEAN :
  /\ menu.col # Closed
  /\ order' = [col |-> menu.col, asc |-> asc] /\ menu' = [menu EXCEPT !.col = Closed] /\ UNCHANGED <<base, filters>>
\* Above the table: the filters and the order of the headers are dropped together.
ClearAll ==
  /\ menu.col = Closed /\ ((\E c \in Cols : filters[c] # All) \/ order.col # 0)
  /\ filters' = [c \in Cols |-> All] /\ order' = [col |-> 0, asc |-> TRUE] /\ UNCHANGED <<base, menu>>
\* A Result without a fixed table is filtered by cycle and by failure; the picking of an exclusion in every
\* cycle leaves the first cycle.
Narrow == \E bad \in BOOLEAN, c \in 0..2, first \in BOOLEAN :
  /\ menu.col = Closed /\ (base.firstOnly => c = base.cycle)
  /\ base' = [onlyBad |-> bad, cycle |-> c, firstOnly |-> first] /\ UNCHANGED <<filters, order, menu>>

TableNext ==
  \/ OpenMenu \/ CloseMenu \/ Search \/ Toggle \/ ToggleAll \/ Apply \/ ClearFilter \/ SortBy \/ ClearAll \/ Narrow
TableSpec == TableInit /\ [][TableNext]_tableVars

(***************************************************************************)
(* The cells and the scrolling.                                            *)
(***************************************************************************)
CONSTANTS Lists,    \* the lists of rows a filter or an order may leave
          Columns,  \* the columns; -1 is the one of the row numbers
          Height    \* of the table, in rows

Number == -1

VARIABLES list,    \* the rows that are shown, in order
          sel,     \* the selected cells: [on, anchor, focus]
          grip,    \* the mouse that selects: [held, col, fromCell]
          view     \* [playing, top, touched: the user has scrolled just now]

stepVars == <<list, sel, grip, view>>
At(row, col) == [row |-> row, col |-> col]

StepInit ==
  /\ list \in Lists /\ sel = [on |-> FALSE, anchor |-> At(1, 1), focus |-> At(1, 1)]
  /\ grip = [held |-> FALSE, col |-> 1]
  /\ view = [playing |-> 0, top |-> 1, touched |-> FALSE]

PosOf(r) == {p \in DOMAIN list : list[p] = r}
Has(r) == PosOf(r) # {}

Refiltered == \E l \in Lists \ {list} : list' = l /\ UNCHANGED <<sel, grip, view>>

\* Pressing starts a selection, with Shift it moves the end of the one there is, if its start is still shown.
CellDown == \E r \in Range(list), c \in Columns \cup {Number}, shift \in BOOLEAN :
  LET extend == shift /\ sel.on /\ Has(sel.anchor.row)
  IN /\ ~grip.held
     /\ sel' = [on |-> TRUE, anchor |-> IF extend THEN sel.anchor ELSE At(r, c), focus |-> At(r, c)]
     /\ grip' = [held |-> TRUE, col |-> IF extend /\ sel.anchor.col = Number THEN Number ELSE c]
     /\ UNCHANGED <<list, view>>

\* The cell under the mouse, or the edge it is nearest to; a drag of cells stays with cells over the numbers.
Over(c) == IF c # Number \/ grip.col = Number THEN c ELSE grip.col
DragTo == \E r \in Range(list), c \in Columns \cup {Number} :
  /\ grip.held /\ sel' = IF sel.on THEN [sel EXCEPT !.focus = At(r, Over(c))] ELSE sel
  /\ grip' = [grip EXCEPT !.col = Over(c)] /\ view' = [view EXCEPT !.touched = TRUE]
  /\ UNCHANGED <<list>>
Release == grip.held /\ grip' = [grip EXCEPT !.held = FALSE] /\ UNCHANGED <<list, sel, view>>

SelectAll ==
  /\ list # <<>> /\ sel' = [on |-> TRUE, anchor |-> At(list[1], Number), focus |-> At(list[Len(list)], Number)]
  /\ UNCHANGED <<list, grip, view>>
\* Escape drops the selection before it closes anything.
Deselect == sel.on /\ sel' = [sel EXCEPT !.on = FALSE] /\ UNCHANGED <<list, grip, view>>

\* range: the rows between the two ends as they are shown now, none if one of them is filtered out.
Whole == sel.anchor.col = Number \/ sel.focus.col = Number
\* A bug: between the numbers of two rows, whatever is shown.
BetweenNumbers(a, b) == Min({list[a], list[b]})..Max({list[a], list[b]})
Between(a, b) == {list[p] : p \in Min({a, b})..Max({a, b})}
Shows == sel.on /\ Has(sel.anchor.row) /\ Has(sel.focus.row)
SelectedRows == IF Shows THEN Between(Min(PosOf(sel.anchor.row)), Min(PosOf(sel.focus.row))) ELSE {}
SelectedCols == IF Whole THEN Columns ELSE Min({sel.anchor.col, sel.focus.col})..Max({sel.anchor.col, sel.focus.col})
\* What Ctrl+C takes: a value for every cell of the rectangle.
Copied == SelectedRows \X SelectedCols

\* The step that plays is kept in sight, unless the user has just scrolled.
Wheel == \E top \in DOMAIN list : view' = [view EXCEPT !.top = top, !.touched = TRUE] /\ UNCHANGED <<list, sel, grip>>
Untouched == view.touched /\ ~grip.held /\ view' = [view EXCEPT !.touched = FALSE] /\ UNCHANGED <<list, sel, grip>>
TopFor(p) == IF p < view.top \/ p > view.top + Height - 2 THEN Max({1, p - Height \div 3}) ELSE view.top
Playing == \E r \in UNION {Range(l) : l \in Lists} :
  /\ view' = [view EXCEPT !.playing = r, !.top = IF view.touched \/ ~Has(r) THEN @ ELSE TopFor(Min(PosOf(r)))]
  /\ UNCHANGED <<list, sel, grip>>

StepNext ==
  \/ Refiltered \/ CellDown \/ DragTo \/ Release \/ SelectAll \/ Deselect \/ Wheel \/ Untouched \/ Playing
StepSpec == StepInit /\ [][StepNext]_stepVars

(***************************************************************************)
(* Properties                                                              *)
(***************************************************************************)

\* What a menu applies is what it shows: the rows that stay are those the other filters leave whose value is
\* checked, among the values found if it searches. "No filter" may stand for a list only if the list
\* has every value, also those the other filters hide.
AppliesWhatIsChecked ==
  Apply => Shown(base, filters') = {r \in BaseRows(base) : /\ \A d \in Cols \ {menu.col} : Passes(r, d, filters)
                                                           /\ Steps[r].cells[menu.col] \in Picked(menu, filters)}

\* The menu of a header can always undo what it hid: a row that only this column hides has its value in the
\* list, under a text that is not checked as a whole.
HiddenIsUnchecked == menu.col # Closed /\ menu.checked = filters[menu.col] =>
  \A r \in BaseRows(base) \ Range(Visible) :
     (\A d \in Cols \ {menu.col} : Passes(r, d, filters))
     => LET group == GroupOf(Steps[r].cells[menu.col], Offered(menu.col, filters))
        IN group # {} /\ ~(group \subseteq menu.checked)

\* Does not hold:
\* A filter leaves something to see: its button asks for a value that is checked, Enter does not.
SomeValueStays == \A c \in Cols : filters[c] # {}

\* A selection of cells that is dragged never turns into whole rows, although the mouse may pass over the row
\* numbers, where a press would select the row.
DragKeepsKind == DragTo /\ sel.on /\ ~Whole => ~Whole'

\* What is copied has the cell that was pressed and the cell the mouse was left at, and rows that follow each
\* other as they are shown: a filter or another order since cannot slip in a row that is out of sight.
CopiesWhatIsShown ==
  Shows /\ ~Whole => /\ {<<sel.anchor.row, sel.anchor.col>>, <<sel.focus.row, sel.focus.col>>} \subseteq Copied
                     /\ \E p, q \in DOMAIN list : SelectedRows = {list[k] : k \in p..q}

\* The table moves to show the step that plays whenever it is filtered in, but never under the user's wheel.
PlayingIsInSight ==
  Playing => IF view.touched THEN view'.top = view.top
             ELSE \A p \in PosOf(view'.playing) : p \in view'.top..(view'.top + Height - 1)
==============================================================================
