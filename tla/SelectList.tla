------------------------------ MODULE SelectList ------------------------------
(***************************************************************************)
(* SelectList (tui/components/select_list.py): the rows of a popup, the    *)
(* highlighted one and the window of rows that is drawn.  Rows are counted *)
(* from 0, as in the code.                                                 *)
(***************************************************************************)
EXTENDS Integers, Sequences

\* A list that shows at most max rows, at its first row
ListOf(items, max) == [items |-> items, at |-> 0, top |-> 0, max |-> max]

SetItems(l, items) == ListOf(items, l.max)

IsEmpty(l) == l.items = <<>>

GetSelected(l) == l.items[l.at + 1]

\* The window follows the highlighted row and never leaves the rows
ScrollToSelection(l) ==
  LET seen == CASE l.at < l.top -> l.at
                [] l.at >= l.top + l.max -> l.at - l.max + 1
                [] OTHER -> l.top
      last == IF Len(l.items) > l.max THEN Len(l.items) - l.max ELSE 0
  IN  [l EXCEPT !.top = IF seen > last THEN last ELSE seen]

Highlight(l, i) == ScrollToSelection([l EXCEPT !.at = i])

\* Up and down wrap around
MoveUp(l) == IF IsEmpty(l) THEN l ELSE Highlight(l, (l.at - 1) % Len(l.items))
MoveDown(l) == IF IsEmpty(l) THEN l ELSE Highlight(l, (l.at + 1) % Len(l.items))

\* The rows that render draws
Shown(l) == {i \in 0 .. Len(l.items) - 1 : l.top <= i /\ i < l.top + l.max}
===============================================================================
