------------------------------- MODULE Panes -------------------------------
(***************************************************************************)
(* The panes of the screen: which are drawn and where, and how keys, drags *)
(* of a border and changes of the terminal's size reshape them             *)
(* (src/ui/layout.rs, src/app/update.rs).                                  *)
(*                                                                         *)
(* A rectangle is [x, y, w, h] in cells.  The header and the footer take   *)
(* one row each.  What is drawn inside a pane is left out; "trouble" is    *)
(* the error or the failed transaction that must stay on screen.           *)
(***************************************************************************)
EXTENDS Integers, FiniteSets

CONSTANTS
    Size,       \* the sizes of the terminal, <<columns, rows>>
    Pointer,    \* the coordinates that a drag ends at
    MaxShapes   \* bound: how many times a split is moved

(* MIN_COLUMNS, MIN_ROWS, USABLE_COLUMNS, USABLE_ROWS *)
MinColumns == 80
MinRows == 24
UsableColumns == 40
UsableRows == 8

VARIABLES
    size,       \* the terminal
    focus,      \* the pane with the focus
    sidebar,    \* sidebar_visible
    splits,     \* SplitState: the preferred sidebar and editor, -1 for none, and the zoom
    trouble,    \* "none", "error" or "failed", what needs_safety_details() looks at
    drag,       \* the active drag
    covered,    \* overlay_blocks_panes()
    shapes      \* how many times a split was moved

vars == <<size, focus, sidebar, splits, trouble, drag, covered, shapes>>

Focus  == {"editor", "results", "objects"}
NoDrag == [border |-> "none"]
None   == -1

Init ==
    /\ size \in Size /\ focus = "editor" /\ sidebar = TRUE
    /\ splits = [cells |-> None, rows |-> None, zoomed |-> FALSE]
    /\ trouble = "none" /\ drag = NoDrag /\ covered = FALSE /\ shapes = 0

-----------------------------------------------------------------------------
(* The geometry.                                                           *)

Least(a, b) == IF a < b THEN a ELSE b
Most(a, b)  == IF a > b THEN a ELSE b

(* Rust's clamp() panics unless low =< high.                               *)
Clamp(n, low, high) == Most(low, Least(n, high))
Without(a, b) == Most(a - b, 0)         \* saturating_sub

layout_mode ==
    IF size[1] < UsableColumns \/ size[2] < UsableRows THEN "too small"
    ELSE IF size[1] < MinColumns \/ size[2] < MinRows THEN "compact" ELSE "full"

Rect(x, y, w, h) == [x |-> x, y |-> y, w |-> w, h |-> h]

body_area == Rect(0, 1, size[1], Without(size[2], 2))

sidebar_width(available) == Clamp((available * 2) \div 5, 24, 34)

MaxSidebar == Least(60, Without(body_area.w, 30))

effective_preference ==      \* fault: the preference is drawn as it was set
    IF splits.cells = None THEN sidebar_width(body_area.w) ELSE splits.cells
effective_sidebar ==
    LET preferred == IF splits.cells = None THEN sidebar_width(body_area.w) ELSE splits.cells
    IN Clamp(preferred, Least(20, MaxSidebar), MaxSidebar)

(* The library gives the editor 40 percent, rounded, and leaves 3 rows.    *)
main_panes ==
    LET x == IF sidebar THEN effective_sidebar ELSE 0
        h == body_area.h
        minimum == Least(3, h \div 2)
        initial == Least((h * 4 + 5) \div 10, Without(h, 3))
        rows == Clamp(IF splits.rows = None THEN initial ELSE splits.rows,
                      minimum, Without(h, minimum))
    IN [editor |-> Rect(x, 1, Without(size[1], x), rows),
        results |-> Rect(x, 1 + rows, Without(size[1], x), Without(h, rows))]

(* pane_geometry(): the panes that are drawn, and their rectangles.        *)
pane_geometry ==
    LET body == body_area
        error == Clamp(Without(body.h, 4), 3, 8)
    IN CASE layout_mode = "too small" -> << >>
         [] layout_mode = "compact" /\ trouble = "failed" -> [p \in {"results"} |-> body]
         [] layout_mode = "compact" /\ trouble = "error" ->
                [p \in {"results", "editor"} |->
                    IF p = "results" THEN Rect(0, 1, body.w, error)
                    ELSE Rect(0, 1 + error, body.w, body.h - error)]
         [] layout_mode = "compact" /\ trouble = "none" -> [p \in {focus} |-> body]
         [] layout_mode = "full" /\ splits.zoomed -> [p \in {focus} |-> body]
         [] OTHER ->
                [p \in {"editor", "results"} \cup (IF sidebar THEN {"objects"} ELSE {}) |->
                    IF p = "objects" THEN Rect(0, 1, effective_sidebar, body.h)
                    ELSE main_panes[p]]

Drawn == DOMAIN pane_geometry
Split == layout_mode = "full" /\ ~splits.zoomed

-----------------------------------------------------------------------------
(* Every message ends in the same way: a drag ends under an overlay, and   *)
(* the zoom of another pane gives way to an error or a failed transaction. *)

SettleZoomed(f, z, d, t, c) ==   \* fault: a zoomed pane stays over the trouble
    /\ focus' = f
    /\ trouble' = t
    /\ covered' = c
    /\ drag' = IF c THEN NoDrag ELSE d
    /\ splits' = z
Settle(f, z, d, t, c) ==
    /\ focus' = f
    /\ trouble' = t
    /\ covered' = c
    /\ drag' = IF c THEN NoDrag ELSE d
    /\ splits' = IF f # "results" /\ t # "none" THEN [z EXCEPT !.zoomed = FALSE] ELSE z

Shape == shapes < MaxShapes /\ shapes' = shapes + 1

(* Focus::next(): the tree is in the cycle only when it is shown.          *)
NextFocus ==
    CASE focus = "editor" -> "results"
      [] focus = "results" -> IF sidebar THEN "objects" ELSE "editor"
      [] focus = "objects" -> "editor"

FocusNext ==
    /\ ~covered
    /\ Settle(NextFocus, splits, NoDrag, trouble, covered)
    /\ UNCHANGED <<size, sidebar, shapes>>

ToggleSidebar ==
    /\ ~covered
    /\ sidebar' = ~sidebar
    /\ Settle(IF sidebar /\ focus = "objects" THEN "editor" ELSE focus,
              splits, NoDrag, trouble, covered)
    /\ UNCHANGED <<size, shapes>>

StartFilter ==
    /\ ~covered /\ focus # "results"
    /\ sidebar' = TRUE
    /\ Settle("objects", splits, NoDrag, trouble, covered)
    /\ UNCHANGED <<size, shapes>>

(* adjust_panes() *)
ZoomPane ==
    /\ ~covered /\ layout_mode = "full"
    /\ focus # "results" => trouble = "none"
    /\ Settle(focus, [splits EXCEPT !.zoomed = ~@], NoDrag, trouble, covered)
    /\ UNCHANGED <<size, sidebar, shapes>>

(* The unzoomed pane that has the focus grows or shrinks from the size     *)
(* that it is drawn in.                                                    *)
Restored == [splits EXCEPT !.zoomed = FALSE]

ResizePane(step) ==
    /\ ~covered /\ layout_mode = "full" /\ Shape
    /\ LET z == IF focus = "objects"
                THEN IF sidebar
                     THEN [Restored EXCEPT !.cells =
                            Clamp(effective_sidebar + 2 * step, 20, MaxSidebar)]
                     ELSE Restored
                ELSE [Restored EXCEPT !.rows =
                        Clamp(main_panes["editor"].h + step, 3, Without(body_area.h, 3))]
       IN Settle(focus, z, NoDrag, trouble, covered)
    /\ UNCHANGED <<size, sidebar>>

-----------------------------------------------------------------------------
(* The terminal and the mouse.                                             *)

(* clamp_splits(): the preferences of a drag that the resize ends.         *)
clamp_splits ==
    LET body == body_area'
        max_sidebar == Most(Least(60, Without(body.w, 30)), 20)
        max_editor == Most(Without(body.h, 3), 3)
    IN IF layout_mode' # "full" THEN splits
       ELSE [splits EXCEPT !.cells = IF @ = None THEN @ ELSE Clamp(@, 20, max_sidebar),
                           !.rows = IF @ = None THEN @ ELSE Clamp(@, 3, max_editor)]

Resized ==
    /\ size' \in Size
    /\ Settle(focus, IF drag = NoDrag THEN splits ELSE clamp_splits, NoDrag, trouble, covered)
    /\ UNCHANGED <<sidebar, shapes>>

(* A press inside a pane that no overlay hides gives it the focus.         *)
PressPane ==
    /\ ~covered
    /\ \E p \in Drawn : Settle(p, splits, NoDrag, trouble, covered)
    /\ UNCHANGED <<size, sidebar, shapes>>

(* A press on one of the two columns, or rows, of a border.                *)
PressBorder ==
    /\ ~covered /\ Split
    /\ \E on \in {0, 1} :
        LET width == pane_geometry["objects"].w
            editor == pane_geometry["editor"]
        IN \/ /\ sidebar
              /\ Settle(focus, splits,
                        [border |-> "vertical", from |-> width - 1 + on, was |-> width],
                        trouble, covered)
           \/ Settle(focus, splits,
                     [border |-> "horizontal", from |-> editor.y + editor.h - 1 + on,
                      was |-> editor.h], trouble, covered)
    /\ UNCHANGED <<size, sidebar, shapes>>

Drag ==
    /\ drag # NoDrag /\ layout_mode = "full" /\ Shape
    /\ \E to \in Pointer :
        LET desired == Most(drag.was + (to - drag.from), 0)
            z == IF drag.border = "vertical"
                 THEN [Restored EXCEPT !.cells = Clamp(desired, 20, MaxSidebar)]
                 ELSE [Restored EXCEPT !.rows = Clamp(desired, 3, Without(body_area.h, 3))]
        IN Settle(focus, z, drag, trouble, covered)
    /\ UNCHANGED <<size, sidebar>>

(* Any other press, any release, or a key ends a drag.                     *)
Release ==
    /\ drag # NoDrag
    /\ Settle(focus, splits, NoDrag, trouble, covered)
    /\ UNCHANGED <<size, sidebar, shapes>>

(* What other messages change: an error, a failed transaction, the focus   *)
(* that an answer gives to the editor or to the results, an overlay.       *)
Answered ==
    /\ \E t \in {"none", "error", "failed"}, f \in {focus, "editor", "results"} :
        Settle(f, splits, drag, t, covered)
    /\ UNCHANGED <<size, sidebar, shapes>>

Overlay ==
    /\ Settle(focus, splits, drag, trouble, ~covered)
    /\ UNCHANGED <<size, sidebar, shapes>>

Next ==
    \/ FocusNext \/ ToggleSidebar \/ StartFilter \/ ZoomPane
    \/ \E step \in {-1, 1} : ResizePane(step)
    \/ Resized \/ PressPane \/ PressBorder \/ Drag \/ Release \/ Answered \/ Overlay

Spec == Init /\ [][Next]_vars

-----------------------------------------------------------------------------

Area(r) == r.w * r.h

Apart(a, b) ==
    \/ a.x + a.w =< b.x \/ b.x + b.w =< a.x
    \/ a.y + a.h =< b.y \/ b.y + b.h =< a.y

(* "Preferences survive small windows; only the effective rectangles clamp *)
(* to the available space" (layout.rs:182): whatever was preferred at      *)
(* another size, the panes fill the body without meeting, none is smaller  *)
(* than its minimum, and no clamp is asked for an empty range.             *)
PanesFit ==
    layout_mode # "too small" =>
        LET g == pane_geometry
        IN /\ \A p, q \in DOMAIN g : p # q => Apart(g[p], g[q])
           /\ \A p \in DOMAIN g : g[p].w > 0 /\ g[p].h > 0
           /\ (IF "objects" \in DOMAIN g THEN Area(g["objects"]) ELSE 0) +
              (IF "editor" \in DOMAIN g THEN Area(g["editor"]) ELSE 0) +
              (IF "results" \in DOMAIN g THEN Area(g["results"]) ELSE 0) = Area(body_area)
           /\ Split => /\ g["editor"].h >= 3 /\ g["results"].h >= 3 /\ g["editor"].w >= 30
                       /\ sidebar => g["objects"].w >= 20
                       /\ MaxSidebar >= 20 /\ Without(body_area.h, 3) >= 3

(* "All diagnostic origins share this safety boundary" (update.rs:686): an *)
(* error or a failed transaction is drawn, whatever pane is zoomed or has  *)
(* the focus; and when there is none, the pane with the focus is drawn     *)
(* ("Tab never moves focus somewhere invisible", model.rs:37).             *)
TroubleIsDrawn ==
    layout_mode # "too small" =>
        IF trouble # "none" THEN "results" \in Drawn ELSE focus \in Drawn
=============================================================================
