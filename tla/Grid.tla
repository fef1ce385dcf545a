-------------------------------- MODULE Grid --------------------------------
(***************************************************************************)
(* The grid of a retained result (src/app/grid.rs, src/app/update.rs): the *)
(* column and the row that are selected, the local sort, the filter, the   *)
(* columns that are hidden, frozen or resized, and the window of columns   *)
(* that fits the screen.                                                   *)
(*                                                                         *)
(* A row and a column are their numbers in the result, from 1.  A cell is  *)
(* NULL, or a text; of a text its rank among the texts counts and, when it *)
(* spells a decimal number, the spelling: sign, digits, how many of them   *)
(* follow the point, and exponent.  The filter is the set of rows that it  *)
(* admits.                                                                 *)
(***************************************************************************)
EXTENDS Integers, FiniteSets, Sequences, SequencesExt

CONSTANTS
    Tables,     \* the results: sequences of rows, each a sequence of cells
    Automatic,  \* the automatic width of each column
    MaxWidth,   \* MAX_COLUMN_WIDTH
    MaxResized, \* bound: how many columns have a width of their own at once
    Bits        \* the width of an i64

VARIABLES
    rows,       \* the visible result, << >> when there is none
    grid,       \* ResultGridState
    retained,   \* whether its data is still there
    admitted,   \* filtered_rows() as a set
    selected    \* selected_row, from 1, and selected_column

vars == <<rows, retained, grid, admitted, selected>>

Null == [text |-> 0]
NoSort == [column |-> 0, direction |-> "none"]
MinWidth == 4               \* MIN_COLUMN_WIDTH
Step == 2                   \* COLUMN_WIDTH_STEP

Count == IF rows = << >> THEN 0 ELSE Len(rows[1])
Columns == 1 .. Count

NewGrid(freeze) == [sort |-> NoSort, hidden |-> {}, widths |-> << >>, freeze |-> freeze, start |-> 0]

Init ==
    /\ rows = << >> /\ retained = FALSE /\ grid = NewGrid(FALSE) /\ admitted = {}
    /\ selected = [row |-> 1, column |-> 1]

-----------------------------------------------------------------------------
(* The order of two cells: negative, zero or positive.                     *)

Sign(n) == IF n > 0 THEN 1 ELSE IF n < 0 THEN -1 ELSE 0

Wrap(n) == ((n + 2 ^ (Bits - 1)) % (2 ^ Bits)) - 2 ^ (Bits - 1)

Numeric(cell) == "digits" \in DOMAIN cell

(* DecimalKey::parse(): zero has no sign, other numbers no leading zeros.  *)
DecimalKey(cell) ==
    LET first == SelectInSeq(cell.digits, LAMBDA d : d # 0)
    IN IF first = 0 THEN [negative |-> FALSE, digits |-> <<0>>, scale |-> 0]
       ELSE [negative |-> cell.negative,
             digits |-> SubSeq(cell.digits, first, Len(cell.digits)),
             scale |-> cell.fraction - cell.exponent]

Places(key) == Wrap(Len(key.digits) - key.scale)

Digit(key, i) == IF i =< Len(key.digits) THEN key.digits[i] ELSE 0

magnitude_cmp(a, b) ==
    LET differ == {i \in 1 .. Len(a.digits) + Len(b.digits) : Digit(a, i) # Digit(b, i)}
    IN CASE Places(a) # Places(b) -> Sign(Places(a) - Places(b))
         [] Places(a) = Places(b) /\ differ = {} -> 0
         [] OTHER -> Sign(Digit(a, Min(differ)) - Digit(b, Min(differ)))

DecimalOrder(a, b) ==
    CASE a.negative /\ ~b.negative -> -1
      [] ~a.negative /\ b.negative -> 1
      [] ~a.negative /\ ~b.negative -> magnitude_cmp(a, b)
      [] OTHER -> -magnitude_cmp(a, b)

(* Two numbers compare as numbers, any other two texts as texts.           *)
compare_cells(a, b) ==
    CASE a = Null \/ b = Null -> (IF a = Null THEN 1 ELSE 0) - (IF b = Null THEN 1 ELSE 0)
      [] a # Null /\ b # Null /\ Numeric(a) /\ Numeric(b) ->
            DecimalOrder(DecimalKey(a), DecimalKey(b))
      [] OTHER -> Sign(a.text - b.text)

(* NULL is last in both directions, and rows that are equal keep the order *)
(* of the server.                                                          *)
compare_rows(i, j, sort) ==
    LET a == rows[i][sort.column]
        b == rows[j][sort.column]
        value == compare_cells(a, b)
        directed == IF (a = Null) = (b = Null) /\ sort.direction = "descending"
                    THEN -value ELSE value
    IN IF directed # 0 THEN directed ELSE Sign(i - j)

(* displayed_rows(): what the filter admits, in the order of the sort.     *)
Displayed(g, kept) ==
    IF g.sort = NoSort THEN SetToSortSeq(kept, LAMBDA i, j : i < j)
    ELSE [n \in 1 .. Cardinality(kept) |->
            CHOOSE i \in kept :
                Cardinality({j \in kept : compare_rows(j, i, g.sort) =< 0}) = n]

Shown == Displayed(grid, admitted)

(* selected_source_row(), 0 when there is none.                            *)
Source(shown, row) == IF row \in DOMAIN shown THEN shown[row] ELSE 0

-----------------------------------------------------------------------------
(* The columns.                                                            *)

Index(seq, x) == SelectInSeq(seq, LAMBDA y : y = x)

Visible(hidden) ==
    LET shown[n \in 0 .. Count] ==
            IF n = 0 THEN << >> ELSE IF n \in hidden THEN shown[n - 1] ELSE Append(shown[n - 1], n)
    IN IF shown[Count] = << >> /\ Count > 0 THEN <<1>> ELSE shown[Count]

width_for(g, c) == IF c \in DOMAIN g.widths THEN g.widths[c] ELSE Automatic[c]

column_cost(c, first) == width_for(grid, c) + (IF first THEN 1 ELSE 3)

(* What the first n of some columns take, side by side.                    *)
Costs(columns, first_in_grid) ==
    LET cost[n \in 0 .. Len(columns)] ==
            IF n = 0 THEN 0
            ELSE cost[n - 1] + column_cost(columns[n], first_in_grid /\ n = 1)
    IN cost

(* fit_window(): the columns from a start on that fit, the first of them   *)
(* whether it does or not.                                                 *)
fit_window(columns, start, available, first_in_grid) ==
    LET from == SubSeq(columns, start + 1, Len(columns))
        cost == Costs(from, first_in_grid)
        fits == {n \in 1 .. Len(from) : \A m \in 2 .. n : cost[m] =< available}
    IN SubSeq(from, 1, Max({0} \cup fits))

SlideFrom(columns, start, column, available, first_in_grid) ==   \* fault: the start alone counts
    fit_window(columns, start, available, first_in_grid)

(* From where the window starts, or from the selected column when it is    *)
(* not in that window, back to the first start that still shows it.        *)
Slide(columns, start, column, available, first_in_grid) ==
    LET window(s) == fit_window(columns, s, available, first_in_grid)
        has(s) == Index(window(s), column) # 0
        from == IF has(start) THEN start ELSE Max({0, Index(columns, column) - 1})
        back == {s \in 0 .. from : \A t \in s .. from - 1 : has(t)}
    IN window(Min(back))

column_window(available) ==
    LET columns == Visible(grid.hidden)
        column == selected.column
        movable == Tail(columns)
        start == Min({Max({grid.start - 1, 0}), Max({Len(movable) - 1, 0})})
        budget == Max({available - column_cost(columns[1], TRUE), 0})
    IN CASE columns = << >> -> << >>
         [] columns # << >> /\ ~grid.freeze ->
                Slide(columns, Min({grid.start, Len(columns) - 1}), column, available, TRUE)
         [] OTHER -> IF Index(columns, column) =< 1 THEN <<columns[1]>>
                     ELSE <<columns[1]>> \o Slide(movable, start, column, budget, FALSE)

-----------------------------------------------------------------------------
(* The operations.                                                         *)

Only(g) == grid' = g /\ UNCHANGED <<rows, retained, admitted, selected>>
Select(row, column, start) ==
    /\ selected' = [row |-> row, column |-> column]
    /\ grid' = [grid EXCEPT !.start = start]
    /\ UNCHANGED <<rows, retained, admitted>>

KeepingPlace(g) ==      \* fault: the place on the screen is kept, not the row
    /\ grid' = g
    /\ UNCHANGED <<rows, retained, admitted, selected>>

(* restore_selected_source_row()                                           *)
KeepingRow(g) ==
    LET source == Source(Shown, selected.row)
        shown == Displayed(g, admitted)
        row == IF Index(shown, source) # 0 THEN Index(shown, source)
               ELSE Max({1, Min({selected.row, Len(shown)})})
    IN /\ grid' = g
       /\ selected' = [selected EXCEPT !.row = row]
       /\ UNCHANGED <<rows, retained, admitted>>

(* A result arrives: reset_for_result().                                   *)
NewResult ==
    /\ rows' \in Tables /\ retained' = TRUE
    /\ grid' = NewGrid(grid.freeze)
    /\ admitted' = DOMAIN rows'
    /\ selected' = [row |-> 1, column |-> 1]

(* The data is given up, the columns stay.                                 *)
RowsGone ==
    /\ retained /\ retained' = FALSE /\ admitted' = {}
    /\ UNCHANGED <<rows, grid, selected>>

(* The text of the filter changes.                                         *)
Filter ==
    /\ retained
    /\ admitted' \in SUBSET DOMAIN rows
    /\ selected' = [selected EXCEPT !.row = 1]
    /\ UNCHANGED <<rows, retained, grid>>

toggle_sort(column) ==
    [grid EXCEPT !.sort =
        CASE @ = [column |-> column, direction |-> "ascending"]
                -> [column |-> column, direction |-> "descending"]
          [] @ = [column |-> column, direction |-> "descending"] -> NoSort
          [] OTHER -> [column |-> column, direction |-> "ascending"]]

(* selected_grid_column()                                                  *)
SelectedColumn ==
    LET shown == Visible(grid.hidden)
    IN IF Index(shown, selected.column) # 0 THEN selected.column ELSE shown[1]

SortSelected == Count > 0 /\ KeepingRow(toggle_sort(SelectedColumn))

PressHeader == \E c \in ToSet(Visible(grid.hidden)) : KeepingRow(toggle_sort(c))

ResetView ==
    /\ Count > 0
    /\ KeepingRow([grid EXCEPT !.sort = NoSort, !.hidden = {}, !.widths = << >>, !.start = 0])

Width(c, w) ==
  /\ Cardinality(DOMAIN grid.widths \cup {c}) =< MaxResized
  /\ Only([grid EXCEPT !.widths =
    [d \in DOMAIN @ \cup {c} |-> IF d = c THEN Max({MinWidth, Min({w, MaxWidth})}) ELSE @[d]]])

adjust_width ==
    /\ Count > 0
    /\ \E delta \in {Step, -Step} : Width(SelectedColumn, width_for(grid, SelectedColumn) + delta)

ToggleFreezeFirst == Count > 0 /\ Only([grid EXCEPT !.freeze = ~@])

(* toggle_result_column(): the column that is shown again is selected, and *)
(* one that is hidden hands the selection to its neighbour.                *)
toggle_result_column(c) ==
    LET before == Visible(grid.hidden)
        g == [grid EXCEPT !.hidden = IF c \in @ THEN @ \ {c} ELSE @ \cup {c}]
        after == Visible(g.hidden)
        place == IF c \in grid.hidden THEN Index(after, c)
                 ELSE Min({Max({1, Index(before, selected.column)}), Len(after)})
    IN /\ c \in grid.hidden \/ Len(before) > 1
       /\ IF c \in grid.hidden \/ Index(after, selected.column) = 0
          THEN /\ grid' = [g EXCEPT !.start = place - 1]
               /\ selected' = [selected EXCEPT !.column = after[place]]
          ELSE grid' = g /\ UNCHANGED selected
       /\ UNCHANGED <<rows, retained, admitted>>

(* move_result_column(), which also turns the wheel of a mouse and moves   *)
(* the inspector.                                                          *)
move_result_column(delta) ==
    LET shown == Visible(grid.hidden)
        current == Max({1, Index(shown, selected.column)})
        next == Max({1, Min({current + delta, Len(shown)})})
    IN IF shown = << >> THEN Select(selected.row, 1, 0)
       ELSE Select(selected.row, shown[next], next - 1)

MoveRow ==
    \E row \in {selected.row - 1, selected.row + 1, 1, Len(Shown)} :
        Select(Max({1, Min({row, Max({1, Len(Shown)})})}), selected.column, grid.start)

PressCell ==
    \E n \in DOMAIN Shown, i \in DOMAIN Visible(grid.hidden) :
        Select(n, Visible(grid.hidden)[i], i - 1)

Next ==
    \/ NewResult \/ RowsGone \/ Filter \/ SortSelected \/ PressHeader \/ ResetView
    \/ adjust_width \/ ToggleFreezeFirst \/ MoveRow \/ PressCell
    \/ \E c \in Columns : toggle_result_column(c)
    \/ \E delta \in {-1, 1} : move_result_column(delta)

Spec == Init /\ [][Next]_vars

-----------------------------------------------------------------------------

(* "The selected column is always included, even when the terminal is too  *)
(* narrow" (grid.rs:334), each column is drawn once and in its order, and  *)
(* all but the one that must be drawn fit.                                 *)
SelectedIsInWindow ==
    Count > 0 =>
        \A available \in {0, 11, 20} :
            LET window == column_window(available)
            IN /\ Index(window, selected.column) # 0
               /\ \A i, j \in DOMAIN window : i < j => window[i] < window[j]
               /\ ToSet(window) \cap grid.hidden = {}
               /\ Len(window) > (IF grid.freeze THEN 2 ELSE 1) =>
                    Costs(window, TRUE)[Len(window)] =< available

(* Sorting and resetting the view keep the row that is selected, by its    *)
(* place in the result and not on the screen (selected_source_row(),       *)
(* model.rs:1614).                                                         *)
SortKeepsTheRow ==
    [][(SortSelected \/ PressHeader \/ ResetView) /\ Source(Shown, selected.row) # 0
        => Source(Shown', selected'.row) = Source(Shown, selected.row)]_vars

(* What a column of decimal numbers is worth, exactly.                     *)
Value(cell) ==
    LET n == FoldLeft(LAMBDA sum, d : 10 * sum + d, 0, cell.digits)
    IN (IF cell.negative THEN -n ELSE n) * 10 ^ (3 + cell.exponent - cell.fraction)

(* Two cells are ordered by "decimal-aware comparison when both values are *)
(* valid numeric spellings" (specs/014-workable-result-grid/data-model.md: *)
(* 51): the rows of a numeric column are in the order of what their cells  *)
(* are worth, equal ones in that of the result, NULL last.                 *)
SortedByValue ==
    LET column(i) == rows[i][grid.sort.column]
        worth(i) == IF grid.sort.direction = "ascending" THEN Value(column(i))
                    ELSE -Value(column(i))
    IN grid.sort # NoSort =>
        \A m, n \in DOMAIN Shown :
            LET i == Shown[m]
                j == Shown[n]
            IN m < n => \/ column(j) = Null /\ (column(i) = Null => i < j)
                        \/ /\ column(i) # Null /\ column(j) # Null
                           /\ Numeric(column(i)) /\ Numeric(column(j))
                                => worth(i) < worth(j) \/ (worth(i) = worth(j) /\ i < j)
=============================================================================
