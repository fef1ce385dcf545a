------------------------- MODULE WorkspaceTheorems -------------------------
(***************************************************************************)
(* Proofs about the panes of the workspace (Panes): they fill the body at  *)
(* every size of the terminal, and an error is drawn whatever is zoomed.   *)
(* The inductive invariant says that the preferred sizes are numbers (they *)
(* may be far outside the screen), that the tree has the focus only when   *)
(* it is shown, and that nothing but the results is zoomed over trouble.   *)
(*                                                                         *)
(* Proofs about the input surfaces of the workspace (Surfaces), for any    *)
(* number of them open at once: the surface that is drawn on top is the    *)
(* one that the next key reaches, no edit happens under another, the menu  *)
(* and the marker of a server error are of the text that is there.         *)
(*                                                                         *)
(* The invariant says which surfaces can meet.  A password prompt may come *)
(* over anything, an answer's palette too; a chord is begun and a command  *)
(* chosen over help and the panes' own input only; of the others, at most  *)
(* the inspector is open under help, the notices or a result's details.    *)
(* That is kept because a surface opens where its handler was reached, and *)
(* all that is peeled before a handler has closed by then.                 *)
(*                                                                         *)
(* Proofs about the buffer (Editor): one undo takes back one word.  The    *)
(* invariant says of a run of insertions that there is a snapshot to       *)
(* return to, that the text is its two halves with one word between them,  *)
(* the cursor behind that word, and that the space flag tells whether the  *)
(* word has ended: the next character may only then start another.         *)
(*                                                                         *)
(* Proofs about the columns of a result (Grid): the selected column is in  *)
(* the window that is drawn.  The invariant says that the selected column  *)
(* is one that is shown; a window is a stretch of the columns that are     *)
(* shown, and it slides back until the selected one is in it, or starts    *)
(* there.  Which columns are shown and what they cost are recursions, for  *)
(* which it is first shown that there are such values.                     *)
(***************************************************************************)
EXTENDS Workspace, SequenceTheorems, WellFoundedInduction, TLAPS

-----------------------------------------------------------------------------
(* The panes.                                                              *)

\* The shapes of the panes: the preferences are numbers, of any size.

Splits == [cells : Int, rows : Int, zoomed : BOOLEAN]
Dragging(d) == d = P!NoDrag \/ (d.from \in Int /\ d.was \in Int)

Shaped ==
    /\ size \in Size
    /\ pane \in P!Focus /\ sidebar \in BOOLEAN
    /\ splits \in Splits
    /\ trouble \in {"none", "error", "failed"}
    /\ Dragging(drag)

\* What is seen: the focus is on a pane that is shown, and trouble is not covered.
Seen ==
    /\ pane = "objects" => sidebar
    /\ splits.zoomed /\ pane # "results" => trouble = "none"

PanesInv == Shaped /\ Seen

\* The areas of a split, of an error above the editor, and their type.
LEMMA Areas ==
    /\ \A w, h, x, r \in Int : x * h + (w - x) * r + (w - x) * (h - r) = w * h
    /\ \A w, h, e \in Int : 0 + w * (h - e) + w * e = w * h
    /\ \A w, h \in Int : w * h \in Int
  OBVIOUS

\* What the arithmetic of the geometry returns.
LEMMA Clamps ==
    /\ \A n, low, high \in Int :
         /\ P!Clamp(n, low, high) \in Int
         /\ low =< high => low =< P!Clamp(n, low, high) /\ P!Clamp(n, low, high) =< high
    /\ \A a, b \in Int : /\ P!Without(a, b) \in Int
                         /\ P!Without(a, b) >= 0
                         /\ b =< a => P!Without(a, b) = a - b
    /\ \A a, b \in Int : P!Least(a, b) \in {a, b} /\ P!Least(a, b) =< a /\ P!Least(a, b) =< b
    /\ \A a, b \in Int : P!Most(a, b) \in {a, b} /\ P!Most(a, b) >= a /\ P!Most(a, b) >= b
  BY DEF P!Clamp, P!Without, P!Least, P!Most

\* A size of the terminal is two positive numbers.
LEMMA SizesAreNumbers ==
    ASSUME size \in Size
    PROVE  size[1] \in Nat \ {0} /\ size[2] \in Nat \ {0}
  BY WorkspaceAssumption

\* The body is the screen without the header and the footer.
LEMMA Bodies ==
    ASSUME size \in Size
    PROVE  /\ P!body_area.x = 0 /\ P!body_area.y = 1
           /\ P!body_area.w = size[1] /\ P!body_area.w \in Nat
           /\ P!body_area.h \in Nat
           /\ size[2] >= 2 => P!body_area.h = size[2] - 2
  BY SizesAreNumbers DEF P!body_area, P!Rect, P!Without, P!Most

\* On a wide screen the tree is between 20 columns and what leaves 30.
LEMMA Sidebars ==
    ASSUME Shaped
    PROVE  /\ P!MaxSidebar \in Int /\ P!effective_sidebar \in Int
           /\ size[1] >= 50 => /\ 20 =< P!MaxSidebar /\ P!MaxSidebar =< size[1] - 30
                               /\ 20 =< P!effective_sidebar
                               /\ P!effective_sidebar =< P!MaxSidebar
  <1>1. size[1] \in Nat /\ P!body_area.w = size[1]
    BY SizesAreNumbers, Bodies DEF Shaped
  <1>2. P!MaxSidebar \in Int
        /\ (size[1] >= 50 => 20 =< P!MaxSidebar /\ P!MaxSidebar =< size[1] - 30)
    BY <1>1 DEF P!MaxSidebar, P!Least, P!Without, P!Most
  <1>3. splits.cells \in Int
    BY DEF Shaped, Splits
  <1>4. (size[1] * 2) \div 5 \in Int
    BY <1>1
  <1>5. P!sidebar_width(P!body_area.w) \in Int
    BY <1>1, <1>4, Clamps DEF P!sidebar_width
  <1>6. P!Least(20, P!MaxSidebar) \in Int
        /\ (size[1] >= 50 => P!Least(20, P!MaxSidebar) = 20)
    BY <1>1, <1>2 DEF P!Least
  <1> DEFINE n == IF splits.cells = P!None THEN P!sidebar_width(P!body_area.w) ELSE splits.cells
  <1>7. n \in Int
    BY <1>3, <1>5
  <1>8. P!effective_sidebar = P!Clamp(n, P!Least(20, P!MaxSidebar), P!MaxSidebar)
    BY DEF P!effective_sidebar
  <1> HIDE DEF n
  <1> QED
    BY <1>2, <1>6, <1>7, <1>8, Clamps

\* The editor's rows of a split.
LEMMA Splitting ==
    ASSUME Shaped
    PROVE  /\ P!main_panes["editor"].h \in Int /\ P!main_panes["editor"].y = 1
           /\ P!body_area.h >= 6 =>
                /\ 3 =< P!main_panes["editor"].h /\ P!main_panes["editor"].h =< P!body_area.h - 3
                /\ P!main_panes["results"].h = P!body_area.h - P!main_panes["editor"].h
                /\ P!main_panes["results"].y = 1 + P!main_panes["editor"].h
           /\ \A p \in {"editor", "results"} :
                LET x == IF sidebar THEN P!effective_sidebar ELSE 0
                IN /\ P!main_panes[p].x = x
                   /\ P!main_panes[p].w = P!Without(size[1], x)
  <1> DEFINE h == P!body_area.h
             x == IF sidebar THEN P!effective_sidebar ELSE 0
             minimum == P!Least(3, h \div 2)
             initial == P!Least((h * 4 + 5) \div 10, P!Without(h, 3))
             n == IF splits.rows = P!None THEN initial ELSE splits.rows
             rs == P!Clamp(n, minimum, P!Without(h, minimum))
  <1>1. P!main_panes = [editor |-> P!Rect(x, 1, P!Without(size[1], x), rs),
                        results |-> P!Rect(x, 1 + rs, P!Without(size[1], x), P!Without(h, rs))]
    BY DEF P!main_panes
  <1>2. h \in Nat /\ splits.rows \in Int
    BY Bodies DEF Shaped, Splits
  <1>3. minimum \in Int /\ (h >= 6 => minimum = 3)
    BY <1>2 DEF P!Least
  <1>4. n \in Int
    <2> HIDE DEF h
    <2>1. (h * 4 + 5) \div 10 \in Int /\ P!Without(h, 3) \in Int
      BY <1>2, Clamps
    <2>2. initial \in Int
      BY <2>1, Clamps
    <2> QED
      BY <1>2, <2>2
  <1>5. rs \in Int /\ (h >= 6 => 3 =< rs /\ rs =< h - 3)
    <2> HIDE DEF n, minimum, h
    <2>1. P!Without(h, minimum) \in Int /\ (h >= 6 => P!Without(h, minimum) = h - 3)
      BY <1>2, <1>3, Clamps
    <2>2. rs = P!Clamp(n, minimum, P!Without(h, minimum))
      OBVIOUS
    <2> DEFINE room == P!Without(h, minimum)
    <2> HIDE DEF rs, room
    <2>3. room \in Int /\ (h >= 6 => room = h - 3) /\ rs = P!Clamp(n, minimum, room)
      BY <2>1, <2>2 DEF room
    <2>4. CASE h >= 6
      <3>1. minimum = 3 /\ room = h - 3 /\ rs = P!Clamp(n, 3, h - 3) /\ h - 3 \in Int
        BY <1>2, <1>3, <2>3, <2>4
      <3>2. 3 =< P!Clamp(n, 3, h - 3) /\ P!Clamp(n, 3, h - 3) =< h - 3
        BY <1>2, <1>4, <2>4, <3>1, Clamps
      <3> QED
        BY <1>2, <1>4, <3>1, <3>2, Clamps
    <2>5. rs \in Int
      BY <1>3, <1>4, <2>3, Clamps
    <2> QED
      BY <2>4, <2>5
  <1>6. h >= 6 => P!Without(h, rs) = h - rs
    <2> HIDE DEF rs, h
    <2> QED
      BY <1>2, <1>5, Clamps
  <1> HIDE DEF rs, x, h
  <1>7. /\ P!main_panes["editor"] = P!Rect(x, 1, P!Without(size[1], x), rs)
        /\ P!main_panes["results"] = P!Rect(x, 1 + rs, P!Without(size[1], x), P!Without(h, rs))
    BY <1>1
  <1>8. /\ P!main_panes["editor"].h = rs /\ P!main_panes["editor"].y = 1
        /\ P!main_panes["results"].h = P!Without(h, rs) /\ P!main_panes["results"].y = 1 + rs
        /\ \A p \in {"editor", "results"} :
             P!main_panes[p].x = x /\ P!main_panes[p].w = P!Without(size[1], x)
    BY <1>7 DEF P!Rect
  <1> QED
    BY <1>5, <1>6, <1>8 DEF h, x

\* Only the tree can be drawn besides the two panes, and only when it is shown
\* or has the focus.
LEMMA DrawnPanes ==
    ASSUME PanesInv
    PROVE  \A p \in P!Drawn : p \in P!Focus /\ (p = "objects" => sidebar)
  BY DEF PanesInv, Shaped, Seen, P!Drawn, P!pane_geometry, P!Focus, P!layout_mode

\* The preferences that clamp_splits() leaves are numbers.
LEMMA NewShape ==
    ASSUME splits \in Splits, size' \in Size
    PROVE  P!clamp_splits \in Splits
  <1>1. size'[1] \in Nat /\ size'[2] \in Nat
    BY WorkspaceAssumption
  <1> DEFINE body == P!body_area'
             wide == P!Most(P!Least(60, P!Without(body.w, 30)), 20)
             tall == P!Most(P!Without(body.h, 3), 3)
  <1>2. body.w \in Int /\ body.h \in Int
    BY <1>1 DEF P!body_area, P!Rect, P!Without, P!Most
  <1>3. \A w, h \in Int : /\ P!Most(P!Least(60, P!Without(w, 30)), 20) \in Int
                          /\ P!Most(P!Without(h, 3), 3) \in Int
    BY DEF P!Most, P!Least, P!Without
  <1>4. wide \in Int /\ tall \in Int
    <2> HIDE DEF body
    <2> QED
      BY <1>2, <1>3
  <1> HIDE DEF wide, tall
  <1>6. \A n \in Int : P!Clamp(n, 20, wide) \in Int /\ P!Clamp(n, 3, tall) \in Int
    BY <1>4 DEF P!Clamp, P!Most, P!Least
  <1>7. P!clamp_splits =
          IF P!layout_mode' # "full" THEN splits
          ELSE [splits EXCEPT !.cells = IF @ = P!None THEN @ ELSE P!Clamp(@, 20, wide),
                              !.rows = IF @ = P!None THEN @ ELSE P!Clamp(@, 3, tall)]
    BY DEF P!clamp_splits, body, wide, tall
  <1> QED
    BY <1>6, <1>7 DEF Splits

\* A press on a border starts a drag from a number, of a size that is one.
LEMMA Grabs ==
    ASSUME PanesInv, P!PressBorder
    PROVE  \E d : P!Settle(pane, splits, d, trouble, covered) /\ Dragging(d)
  <1>1. P!layout_mode = "full" /\ ~splits.zoomed
    BY DEF P!PressBorder, P!Split
  <1>2. P!pane_geometry["editor"] = P!main_panes["editor"]
        /\ (sidebar => P!pane_geometry["objects"].w = P!effective_sidebar)
    BY <1>1 DEF P!pane_geometry, P!Rect
  <1>3. P!effective_sidebar \in Int /\ P!main_panes["editor"].h \in Int
        /\ P!main_panes["editor"].y = 1
    BY Sidebars, Splitting DEF PanesInv
  <1> DEFINE width == P!pane_geometry["objects"].w
             editor == P!pane_geometry["editor"]
  <1>4. PICK at \in {0, 1} :
          \/ /\ sidebar
             /\ P!Settle(pane, splits,
                         [border |-> "vertical", from |-> width - 1 + at, was |-> width],
                         trouble, covered)
          \/ P!Settle(pane, splits,
                      [border |-> "horizontal", from |-> editor.y + editor.h - 1 + at,
                       was |-> editor.h], trouble, covered)
    BY DEF P!PressBorder
  <1>5. sidebar => Dragging([border |-> "vertical", from |-> width - 1 + at, was |-> width])
    BY <1>2, <1>3 DEF Dragging
  <1>6. Dragging([border |-> "horizontal", from |-> editor.y + editor.h - 1 + at,
                  was |-> editor.h])
    BY <1>2, <1>3 DEF Dragging
  <1> QED
    BY <1>4, <1>5, <1>6

\* What every message ends with keeps the invariant.
LEMMA Settles ==
    ASSUME NEW f, NEW z, NEW d, NEW t, NEW c,
           P!Settle(f, z, d, t, c),
           f \in P!Focus, z \in Splits, Dragging(d), t \in {"none", "error", "failed"},
           size' \in Size, sidebar' \in BOOLEAN, f = "objects" => sidebar'
    PROVE  PanesInv'
  <1>1. pane' = f /\ trouble' = t /\ drag' = (IF c THEN P!NoDrag ELSE d)
        /\ splits' = (IF f # "results" /\ t # "none" THEN [z EXCEPT !.zoomed = FALSE] ELSE z)
    BY DEF P!Settle
  <1>2. splits' \in Splits
        /\ (f # "results" /\ t # "none" => ~splits'.zoomed)
    BY <1>1 DEF Splits
  <1>3. Dragging(drag)'
    BY <1>1 DEF Dragging
  <1>4. Shaped'
    BY <1>1, <1>2, <1>3 DEF Shaped
  <1>5. Seen'
    BY <1>1, <1>2 DEF Seen
  <1> QED
    BY <1>4, <1>5 DEF PanesInv

\* The panes as they are first drawn.
LEMMA PanesStart ==
    WorkspaceInit => PanesInv
  BY DEF WorkspaceInit, P!Init, PanesInv, Shaped, Seen, Splits, Dragging, P!Focus, P!None,
         P!NoDrag

\* Every step of the workspace keeps the invariant of the panes.
LEMMA PanesStep ==
    PanesInv /\ [WorkspaceNext]_workspace => PanesInv'
  <1> SUFFICES ASSUME PanesInv, [WorkspaceNext]_workspace
               PROVE  PanesInv'
    OBVIOUS
  <1> USE DEF PanesInv
  <1>1. size \in Size /\ pane \in P!Focus /\ sidebar \in BOOLEAN /\ splits \in Splits
        /\ trouble \in {"none", "error", "failed"} /\ Dragging(drag)
        /\ (pane = "objects" => sidebar)
    BY DEF Shaped, Seen
  <1>2. Dragging(P!NoDrag)
    BY DEF Dragging
  <1>3. P!Restored \in Splits
    BY <1>1 DEF P!Restored, Splits
  <1>4. CASE UNCHANGED paneVars
    BY <1>4 DEF paneVars, Shaped, Seen, Dragging
  <1>5. CASE P!FocusNext
    <2>1. P!NextFocus \in P!Focus /\ (P!NextFocus = "objects" => sidebar)
      BY <1>1 DEF P!NextFocus, P!Focus
    <2> QED
      BY <1>1, <1>2, <1>5, <2>1, Settles DEF P!FocusNext
  <1>6. CASE P!ToggleSidebar
    <2> DEFINE f == IF sidebar /\ pane = "objects" THEN "editor" ELSE pane
    <2>1. f \in P!Focus /\ sidebar' \in BOOLEAN /\ (f = "objects" => sidebar')
      BY <1>1, <1>6 DEF P!ToggleSidebar, P!Focus
    <2>2. P!Settle(f, splits, P!NoDrag, trouble, covered) /\ size' = size
      BY <1>6 DEF P!ToggleSidebar
    <2> HIDE DEF f
    <2> QED
      BY <1>1, <1>2, <2>1, <2>2, Settles
  <1>7. CASE P!StartFilter
    BY <1>1, <1>2, <1>7, Settles DEF P!StartFilter, P!Focus
  <1>8. CASE P!ZoomPane
    <2>1. [splits EXCEPT !.zoomed = ~@] \in Splits
      BY <1>1 DEF Splits
    <2> QED
      BY <1>1, <1>2, <1>8, <2>1, Settles DEF P!ZoomPane
  <1>9. ASSUME NEW step \in {-1, 1}, P!ResizePane(step)
        PROVE  PanesInv'
    <2> DEFINE cells == P!Clamp(P!effective_sidebar + 2 * step, 20, P!MaxSidebar)
               height == P!Clamp(P!main_panes["editor"].h + step, 3, P!Without(P!body_area.h, 3))
               z == IF pane = "objects"
                    THEN IF sidebar THEN [P!Restored EXCEPT !.cells = cells] ELSE P!Restored
                    ELSE [P!Restored EXCEPT !.rows = height]
    <2>1. P!Settle(pane, z, P!NoDrag, trouble, covered) /\ size' = size /\ sidebar' = sidebar
      BY <1>9 DEF P!ResizePane
    <2>2. P!effective_sidebar \in Int /\ P!MaxSidebar \in Int
      BY Sidebars
    <2>3. P!main_panes["editor"].h \in Int /\ P!body_area.h \in Int
      BY <1>1, Splitting, Bodies
    <2>4. cells \in Int /\ height \in Int
      <3>1. P!Without(P!body_area.h, 3) \in Int /\ P!main_panes["editor"].h + step \in Int
            /\ P!effective_sidebar + 2 * step \in Int
        BY <2>2, <2>3 DEF P!Without, P!Most
      <3> QED
        BY <2>2, <3>1 DEF P!Clamp, P!Most, P!Least
    <2> HIDE DEF cells, height
    <2>5. z \in Splits
      BY <1>3, <2>4 DEF Splits
    <2> HIDE DEF z
    <2> QED
      BY <1>1, <1>2, <2>1, <2>5, Settles
  <1>10. CASE P!Resized
    <2> DEFINE low == P!Most(P!Least(60, P!Without(P!body_area.w, 30)), 20)'
               tall == P!Most(P!Without(P!body_area.h, 3), 3)'
               z == IF drag = P!NoDrag THEN splits ELSE P!clamp_splits
    <2>1. P!Settle(pane, z, P!NoDrag, trouble, covered) /\ size' \in Size /\ sidebar' = sidebar
      BY <1>10 DEF P!Resized
    <2>2. z \in Splits
      BY <1>1, <2>1, NewShape
    <2> HIDE DEF z
    <2> QED
      BY <1>1, <1>2, <2>1, <2>2, Settles
  <1>11. CASE P!PressPane
    <2>1. PICK p \in P!Drawn : P!Settle(p, splits, P!NoDrag, trouble, covered)
      BY <1>11 DEF P!PressPane
    <2>2. p \in P!Focus /\ (p = "objects" => sidebar)
      BY <1>1, DrawnPanes
    <2> QED
      BY <1>1, <1>2, <1>11, <2>1, <2>2, Settles DEF P!PressPane
  <1>12. CASE P!PressBorder
    <2>1. PICK d : P!Settle(pane, splits, d, trouble, covered) /\ Dragging(d)
      BY <1>1, <1>12, Grabs
    <2> QED
      BY <1>1, <1>12, <2>1, Settles DEF P!PressBorder
  <1>13. CASE P!Drag
    <2>1. PICK to \in Pointer :
            LET desired == P!Most(drag.was + (to - drag.from), 0)
                z == IF drag.border = "vertical"
                     THEN [P!Restored EXCEPT !.cells = P!Clamp(desired, 20, P!MaxSidebar)]
                     ELSE [P!Restored EXCEPT
                            !.rows = P!Clamp(desired, 3, P!Without(P!body_area.h, 3))]
            IN P!Settle(pane, z, drag, trouble, covered)
      BY <1>13 DEF P!Drag
    <2> DEFINE desired == P!Most(drag.was + (to - drag.from), 0)
               cells == P!Clamp(desired, 20, P!MaxSidebar)
               height == P!Clamp(desired, 3, P!Without(P!body_area.h, 3))
               z == IF drag.border = "vertical" THEN [P!Restored EXCEPT !.cells = cells]
                    ELSE [P!Restored EXCEPT !.rows = height]
    <2>2. P!Settle(pane, z, drag, trouble, covered)
      BY <2>1
    <2>3. desired \in Int
      <3>1. drag.was \in Int /\ drag.from \in Int /\ to \in Int
        BY <1>1, <1>13, WorkspaceAssumption DEF P!Drag, Dragging
      <3> QED
        BY <3>1 DEF P!Most
    <2>4. P!MaxSidebar \in Int /\ P!body_area.h \in Int
      BY <1>1, Sidebars, Bodies
    <2> HIDE DEF desired
    <2>5. cells \in Int /\ height \in Int
      <3>1. P!Without(P!body_area.h, 3) \in Int
        BY <2>4 DEF P!Without, P!Most
      <3> QED
        BY <2>3, <2>4, <3>1 DEF P!Clamp, P!Most, P!Least
    <2> HIDE DEF cells, height
    <2>6. z \in Splits
      BY <1>3, <2>5 DEF Splits
    <2> HIDE DEF z
    <2> QED
      BY <1>1, <1>13, <2>2, <2>6, Settles DEF P!Drag
  <1>14. CASE P!Release
    BY <1>1, <1>2, <1>14, Settles DEF P!Release
  <1>15. CASE P!Answered
    <2>1. PICK t \in {"none", "error", "failed"}, f \in {pane, "editor", "results"} :
            P!Settle(f, splits, drag, t, covered)
      BY <1>15 DEF P!Answered
    <2>2. f \in P!Focus /\ (f = "objects" => sidebar)
      BY <1>1 DEF P!Focus
    <2> QED
      BY <1>1, <1>15, <2>1, <2>2, Settles DEF P!Answered
  <1>16. CASE P!Overlay
    BY <1>1, <1>16, Settles DEF P!Overlay
  <1>17. UNCHANGED paneVars \/ P!Next
    BY DEF WorkspaceNext, workspace, paneVars
  <1> QED
    BY <1>4, <1>5, <1>6, <1>7, <1>8, <1>9, <1>10, <1>11, <1>12, <1>13, <1>14, <1>15, <1>16,
       <1>17 DEF P!Next

\* The invariant of the panes holds whatever part of the workspace moves.
LEMMA PanesHold == WorkspaceSpec => []PanesInv
  <1>1. WorkspaceInit => PanesInv
    BY PanesStart
  <1>2. PanesInv /\ [WorkspaceNext]_workspace => PanesInv'
    BY PanesStep
  <1> QED
    BY <1>1, <1>2, PTL DEF WorkspaceSpec

\* An error or a failed transaction is drawn whatever pane is zoomed or has the
\* focus, and otherwise the pane with the focus is (update.rs:686, model.rs:37),
\* at every size of the terminal.
THEOREM TroubleDrawn == WorkspaceSpec => []TroubleIsDrawn
  <1>1. PanesInv => TroubleIsDrawn
    BY DEF PanesInv, Shaped, Seen, TroubleIsDrawn, P!TroubleIsDrawn, P!Drawn,
           P!pane_geometry, P!layout_mode, P!Focus
  <1> QED
    BY <1>1, PanesHold, PTL

\* The body of a screen that is not too small.
LEMMA LargeBodies ==
    ASSUME size \in Size, size[1] >= 40, size[2] >= 8
    PROVE  /\ P!body_area.w \in Nat /\ P!body_area.h \in Nat
           /\ P!body_area.w > 0 /\ P!body_area.h > 0
           /\ P!Area(P!body_area) \in Int
  <1>1. size[1] \in Nat /\ size[2] \in Nat
    BY SizesAreNumbers
  <1>2. P!body_area.w = size[1] /\ P!body_area.h = size[2] - 2
    BY <1>1, Bodies
  <1>3. size[1] * (size[2] - 2) \in Int
    BY <1>1, Areas
  <1> QED
    BY <1>1, <1>2, <1>3 DEF P!Area

\* The same, of the layout that is chosen from the size.
LEMMA BodyOfScreen ==
    ASSUME PanesInv, P!layout_mode # "too small"
    PROVE  /\ P!body_area.w \in Nat /\ P!body_area.h \in Nat
           /\ P!body_area.w > 0 /\ P!body_area.h > 0
           /\ P!Area(P!body_area) \in Int
  <1>1. size \in Size /\ size[1] >= 40 /\ size[2] >= 8
    BY SizesAreNumbers DEF P!layout_mode, PanesInv, Shaped, P!UsableColumns, P!UsableRows
  <1> QED
    BY <1>1, LargeBodies

\* A single pane fills the body.
LEMMA OnePaneFits ==
    ASSUME P!Area(P!body_area) \in Int, P!body_area.w > 0, P!body_area.h > 0, ~P!Split,
           NEW p \in P!Focus, DOMAIN P!pane_geometry = {p}, P!pane_geometry[p] = P!body_area
    PROVE  P!PanesFit
  <1> DEFINE b == P!body_area
             g == P!pane_geometry
             a == P!Area(b)
  <1>1. a \in Int /\ b.w > 0 /\ b.h > 0
    OBVIOUS
  <1>2. DOMAIN g = {p} /\ g[p] = b
    OBVIOUS
  <1> HIDE DEF b, g, a
  <1>3. /\ \A i, j \in DOMAIN g : i # j => P!Apart(g[i], g[j])
        /\ \A i \in DOMAIN g : g[i].w > 0 /\ g[i].h > 0
    BY <1>1, <1>2
  <1>4. P!Area(g[p]) = a
    BY <1>2 DEF a
  <1> DEFINE D == DOMAIN g
             o == P!Area(g["objects"])
             e == P!Area(g["editor"])
             r == P!Area(g["results"])
  <1>5. \/ D = {"objects"} /\ o = a
        \/ D = {"editor"} /\ e = a
        \/ D = {"results"} /\ r = a
    BY <1>2, <1>4 DEF P!Focus
  <1>6. (IF "objects" \in D THEN o ELSE 0) + (IF "editor" \in D THEN e ELSE 0) +
        (IF "results" \in D THEN r ELSE 0) = a
    <2> HIDE DEF D, o, e, r
    <2>1. CASE D = {"objects"} /\ o = a
      <3>1. "objects" \in D /\ "editor" \notin D /\ "results" \notin D
        BY <2>1
      <3> QED
        BY <1>1, <2>1, <3>1
    <2>2. CASE D = {"editor"} /\ e = a
      <3>1. "objects" \notin D /\ "editor" \in D /\ "results" \notin D
        BY <2>2
      <3> QED
        BY <1>1, <2>2, <3>1
    <2>3. CASE D = {"results"} /\ r = a
      <3>1. "objects" \notin D /\ "editor" \notin D /\ "results" \in D
        BY <2>3
      <3> QED
        BY <1>1, <2>3, <3>1
    <2> QED
      BY <1>5, <2>1, <2>2, <2>3
  <1> QED
    BY <1>3, <1>6 DEF P!PanesFit, g, a, b

\* An error above the editor: the two share the rows of the body.
LEMMA ErrorFits ==
    ASSUME PanesInv, P!layout_mode = "compact", trouble = "error"
    PROVE  P!PanesFit
  <1> DEFINE h == P!body_area.h
             w == P!body_area.w
             e == P!Clamp(P!Without(h, 4), 3, 8)
  <1>1. size[1] >= 40 /\ size[2] >= 8 /\ size[1] \in Nat /\ size[2] \in Nat
    BY SizesAreNumbers DEF P!layout_mode, PanesInv, Shaped, P!UsableColumns, P!UsableRows
  <1>2. w \in Nat /\ h \in Nat /\ w >= 40 /\ h >= 6
    BY <1>1, Bodies DEF PanesInv, Shaped
  <1>3. P!pane_geometry = [q \in {"results", "editor"} |->
            IF q = "results" THEN P!Rect(0, 1, w, e) ELSE P!Rect(0, 1 + e, w, h - e)]
    BY DEF P!pane_geometry
  <1>4. ~P!Split
    BY DEF P!Split
  <1> HIDE DEF h, w
  <1>5. e \in Int /\ e >= 3 /\ h - e >= 1
    BY <1>2 DEF P!Clamp, P!Without, P!Most, P!Least
  <1> HIDE DEF e
  <1> DEFINE g == P!pane_geometry
  <1>6. /\ DOMAIN g = {"results", "editor"}
        /\ g["results"].x = 0 /\ g["results"].y = 1 /\ g["results"].w = w /\ g["results"].h = e
        /\ g["editor"].x = 0 /\ g["editor"].y = 1 + e /\ g["editor"].w = w
        /\ g["editor"].h = h - e
    BY <1>3 DEF P!Rect
  <1> HIDE DEF g
  <1>7. \A p, q \in DOMAIN g : p # q => P!Apart(g[p], g[q])
    BY <1>2, <1>5, <1>6 DEF P!Apart
  <1>8. \A p \in DOMAIN g : g[p].w > 0 /\ g[p].h > 0
    BY <1>2, <1>5, <1>6
  <1>9. 0 + w * (h - e) + w * e = w * h
    BY <1>2, <1>5, Areas
  <1>10. 0 + P!Area(g["editor"]) + P!Area(g["results"]) = P!Area(P!body_area)
    BY <1>6, <1>9 DEF P!Area, w, h
  <1> QED
    BY <1>4, <1>6, <1>7, <1>8, <1>10 DEF P!PanesFit, g

\* The editor over the results, and the tree beside them when it is shown.
LEMMA SplitFits ==
    ASSUME PanesInv, P!Split
    PROVE  P!PanesFit
  <1> DEFINE h == P!body_area.h
             w == P!body_area.w
             x == IF sidebar THEN P!effective_sidebar ELSE 0
             r == P!main_panes["editor"].h
             g == P!pane_geometry
  <1>1. P!layout_mode = "full" /\ ~splits.zoomed
    BY DEF P!Split
  <1>2. size[1] >= 80 /\ size[2] >= 24 /\ size[1] \in Nat /\ size[2] \in Nat
    BY <1>1, SizesAreNumbers DEF P!layout_mode, PanesInv, Shaped, P!MinColumns, P!MinRows
  <1>3. w \in Nat /\ h \in Nat /\ w >= 80 /\ h >= 22 /\ w = size[1]
        /\ P!body_area.x = 0 /\ P!body_area.y = 1
    BY <1>2, Bodies DEF PanesInv, Shaped
  <1>4. /\ P!MaxSidebar \in Int /\ 20 =< P!MaxSidebar /\ P!MaxSidebar =< w - 30
        /\ P!effective_sidebar \in Int /\ 20 =< P!effective_sidebar
        /\ P!effective_sidebar =< P!MaxSidebar
    BY <1>2, <1>3, Sidebars DEF PanesInv
  <1>5. x \in Int /\ 0 =< x /\ x =< w - 30 /\ (sidebar => x >= 20 /\ x = P!effective_sidebar)
        /\ (~sidebar => x = 0)
    <2>1. sidebar \in BOOLEAN
      BY DEF PanesInv, Shaped
    <2>2. CASE sidebar
      <3>1. x = P!effective_sidebar
        BY <2>2
      <3> HIDE DEF x, w
      <3> QED
        BY <1>3, <1>4, <2>2, <3>1
    <2>3. CASE ~sidebar
      <3>1. x = 0
        BY <2>3
      <3> HIDE DEF x, w
      <3> QED
        BY <1>3, <2>3, <3>1
    <2> QED
      BY <2>1, <2>2, <2>3
  <1>6. /\ r \in Int /\ 3 =< r /\ r =< h - 3
        /\ P!main_panes["editor"].x = x /\ P!main_panes["editor"].y = 1
        /\ P!main_panes["editor"].w = P!Without(size[1], x)
        /\ P!main_panes["results"].x = x /\ P!main_panes["results"].y = 1 + r
        /\ P!main_panes["results"].w = P!Without(size[1], x)
        /\ P!main_panes["results"].h = h - r
    <2> HIDE DEF r
    <2> QED
      BY <1>3, Splitting DEF PanesInv, r
  <1> HIDE DEF x, r, h, w
  <1>7. P!Without(size[1], x) = w - x
    BY <1>3, <1>5 DEF P!Without, P!Most
  <1>8. g = [p \in {"editor", "results"} \cup (IF sidebar THEN {"objects"} ELSE {}) |->
                IF p = "objects" THEN P!Rect(0, 1, P!effective_sidebar, P!body_area.h)
                ELSE P!main_panes[p]]
    BY <1>1 DEF P!pane_geometry
  <1> HIDE DEF g
  <1>9. /\ DOMAIN g = {"editor", "results"} \cup (IF sidebar THEN {"objects"} ELSE {})
        /\ g["editor"] = P!main_panes["editor"] /\ g["results"] = P!main_panes["results"]
        /\ sidebar => g["objects"] = P!Rect(0, 1, x, h)
    BY <1>5, <1>8 DEF h
  <1>10. /\ g["editor"].x = x /\ g["editor"].y = 1 /\ g["editor"].w = w - x
         /\ g["editor"].h = r
         /\ g["results"].x = x /\ g["results"].y = 1 + r /\ g["results"].w = w - x
         /\ g["results"].h = h - r
    BY <1>6, <1>7, <1>9 DEF r
  <1>11. sidebar => /\ g["objects"].x = 0 /\ g["objects"].y = 1
                    /\ g["objects"].w = x /\ g["objects"].h = h
    BY <1>9 DEF P!Rect
  <1>12. \A p \in DOMAIN g : p = "editor" \/ p = "results" \/ (p = "objects" /\ sidebar)
    BY <1>9
  <1>13. \A p, q \in DOMAIN g : p # q => P!Apart(g[p], g[q])
    <2>1. P!Apart(g["editor"], g["results"]) /\ P!Apart(g["results"], g["editor"])
      BY <1>3, <1>5, <1>6, <1>10 DEF P!Apart
    <2>2. sidebar => /\ P!Apart(g["objects"], g["editor"])
                     /\ P!Apart(g["editor"], g["objects"])
                     /\ P!Apart(g["objects"], g["results"])
                     /\ P!Apart(g["results"], g["objects"])
      BY <1>3, <1>5, <1>6, <1>10, <1>11 DEF P!Apart
    <2> QED
      BY <1>12, <2>1, <2>2
  <1>14. \A p \in DOMAIN g : g[p].w > 0 /\ g[p].h > 0
    <2>1. /\ g["editor"].w > 0 /\ g["editor"].h > 0
          /\ g["results"].w > 0 /\ g["results"].h > 0
          /\ sidebar => g["objects"].w > 0 /\ g["objects"].h > 0
      BY <1>3, <1>5, <1>6, <1>10, <1>11
    <2> QED
      BY <1>12, <2>1
  <1>15. (IF "objects" \in DOMAIN g THEN P!Area(g["objects"]) ELSE 0) +
         (IF "editor" \in DOMAIN g THEN P!Area(g["editor"]) ELSE 0) +
         (IF "results" \in DOMAIN g THEN P!Area(g["results"]) ELSE 0) = P!Area(P!body_area)
    <2>1. x * h + (w - x) * r + (w - x) * (h - r) = w * h
      BY <1>3, <1>5, <1>6, Areas
    <2>2. (IF "objects" \in DOMAIN g THEN P!Area(g["objects"]) ELSE 0) = x * h
      <3>1. CASE sidebar
        BY <1>9, <1>11, <3>1 DEF P!Area
      <3>2. CASE ~sidebar
        <4>1. x = 0 /\ "objects" \notin DOMAIN g
          BY <1>5, <1>9, <3>2
        <4>2. 0 * h = 0
          BY <1>3
        <4> QED
          BY <4>1, <4>2
      <3> QED
        BY <3>1, <3>2
    <2>3. /\ "editor" \in DOMAIN g /\ P!Area(g["editor"]) = (w - x) * r
          /\ "results" \in DOMAIN g /\ P!Area(g["results"]) = (w - x) * (h - r)
      BY <1>9, <1>10 DEF P!Area
    <2>4. P!Area(P!body_area) = w * h
      BY DEF P!Area, w, h
    <2> QED
      BY <2>1, <2>2, <2>3, <2>4
  <1>16. P!Without(P!body_area.h, 3) >= 3
    BY <1>3 DEF h, P!Without, P!Most
  <1>17. /\ g["editor"].h >= 3 /\ g["results"].h >= 3 /\ g["editor"].w >= 30
         /\ sidebar => g["objects"].w >= 20
         /\ P!MaxSidebar >= 20 /\ P!Without(P!body_area.h, 3) >= 3
    BY <1>3, <1>4, <1>5, <1>6, <1>10, <1>11, <1>16
  <1> QED
    BY <1>13, <1>14, <1>15, <1>17 DEF P!PanesFit, g

\* The panes fill the body without meeting, each at least as large as its minimum,
\* and no clamp is asked for an empty range, at every size of the terminal and
\* whatever was preferred at another (layout.rs:182).
THEOREM PanesAlwaysFit == WorkspaceSpec => []PanesFit
  <1>1. ASSUME PanesInv, P!layout_mode # "too small"
        PROVE  P!PanesFit
    <2> USE <1>1
    <2>1. /\ P!layout_mode \in {"compact", "full"}
          /\ trouble \in {"none", "error", "failed"} /\ pane \in P!Focus
          /\ splits.zoomed \in BOOLEAN
      BY DEF P!layout_mode, PanesInv, Shaped, Splits
    <2>2. CASE P!Split
      BY <2>2, SplitFits
    <2>3. CASE P!layout_mode = "compact" /\ trouble = "error"
      BY <2>3, ErrorFits
    <2>4. CASE P!layout_mode = "compact" /\ trouble = "failed"
      <3>1. /\ DOMAIN P!pane_geometry = {"results"}
            /\ P!pane_geometry["results"] = P!body_area
            /\ ~P!Split /\ "results" \in P!Focus
        BY <2>4 DEF P!pane_geometry, P!Split, P!Focus
      <3> QED
        BY <3>1, BodyOfScreen, OnePaneFits
    <2>5. CASE \/ P!layout_mode = "compact" /\ trouble = "none"
               \/ P!layout_mode = "full" /\ splits.zoomed
      <3>1. /\ DOMAIN P!pane_geometry = {pane} /\ P!pane_geometry[pane] = P!body_area
            /\ ~P!Split
        BY <2>5 DEF P!pane_geometry, P!Split
      <3> QED
        BY <2>1, <3>1, BodyOfScreen, OnePaneFits
    <2> QED
      BY <2>1, <2>2, <2>3, <2>4, <2>5 DEF P!Split
  <1>2. PanesInv => PanesFit
    BY <1>1 DEF PanesFit, P!PanesFit
  <1> QED
    BY <1>2, PanesHold, PTL

-----------------------------------------------------------------------------
(* The inductive invariant.                                                *)

\* What may be open over the inspector, and what may be open over other surfaces.
Over   == {"details", "help", "notices"}
Atop   == {"password", "palette", "prefix"}
Under(o) == DOMAIN o \ Atop

\* Which surfaces can be open at once, and what a palette was opened for.
Fits(o) ==
    /\ DOMAIN o \subseteq Surface
    /\ \A s, t \in Under(o) :
        s = t \/ (s = "inspector" /\ t \in Over) \/ (t = "inspector" /\ s \in Over)
    /\ Is(o, "prefix") => Under(o) \subseteq PaneInput \cup {"help"}
    /\ Is(o, "palette") =>
        /\ o["palette"] = "commands" => Under(o) \subseteq {"help", "notices", "inspector"}
        /\ o["palette"] \in {"grid", "connections", "formats"} => Under(o) = {}

\* The buffer's revisions are numbers.
BufOK == buf \in [at : Int, modified : BOOLEAN, disk : Int]

SurfacesInv == Fits(open) /\ BufOK /\ MarkIsOfThisText

-----------------------------------------------------------------------------
(* What the operators of the model return.                                 *)

\* The library's theorem about the order of the numbers, as a fact about any two.
LEMMA Below == \A m, n \in Nat : m < n => <<m, n>> \in OpToRel(<, Nat)
  BY DEF OpToRel

\* A set of natural numbers that is not empty has a least one.
LEMMA Least ==
    ASSUME NEW S \in SUBSET Nat, S # {}
    PROVE  Min(S) \in S /\ \A n \in S : Min(S) =< n
  <1>1. \E m \in S : \A n \in S : ~(<<n, m>> \in OpToRel(<, Nat))
    BY NatLessThanWellFounded, WFMin
  <1>2. PICK m \in S : \A n \in S : ~(<<n, m>> \in OpToRel(<, Nat))
    BY <1>1
  <1>3. ASSUME NEW n \in S PROVE m =< n
    <2>1. ~(n < m)
      BY <1>2, Below
    <2> QED
      BY <2>1
  <1> QED
    BY <1>3 DEF Min

\* The surfaces, one by one; the filters of the panes are not drawn over anything.
LEMMA Surfaces18 ==
    /\ Surface = {"password", "parameter", "name", "details", "prefix", "run", "plan", "copy",
                  "value", "update", "palette", "notices", "help", "completion",
                  "tree_filter", "result_filter", "inspector", "definition"}
    /\ Overlay = Surface \ {"tree_filter", "result_filter"}
  BY DEF Surface, Overlay, Peel, Drawn, ToSet

\* The place of each in the order of the keys.
LEMMA Ranks ==
    /\ Rank["password"] = 1 /\ Rank["parameter"] = 2 /\ Rank["name"] = 3
    /\ Rank["details"] = 4 /\ Rank["prefix"] = 5 /\ Rank["run"] = 6 /\ Rank["plan"] = 7
    /\ Rank["copy"] = 8 /\ Rank["value"] = 9 /\ Rank["update"] = 10 /\ Rank["palette"] = 11
    /\ Rank["notices"] = 12 /\ Rank["help"] = 13 /\ Rank["completion"] = 14
    /\ Rank["tree_filter"] = 15 /\ Rank["result_filter"] = 16 /\ Rank["inspector"] = 17
    /\ Rank["definition"] = 18
  <1>1. \A s \in Surface : Rank[s] = CHOOSE i \in DOMAIN Peel : Peel[i] = s
    BY DEF Rank
  <1>2. \A s \in Surface : \E i \in DOMAIN Peel : Peel[i] = s
    BY DEF Surface, ToSet
  <1>3. \A s \in Surface : Rank[s] \in DOMAIN Peel /\ Peel[Rank[s]] = s
    BY <1>1, <1>2
  <1> QED
    BY <1>3, Surfaces18 DEF Peel

\* The place of each in the order it is drawn in.
LEMMA Heights ==
    /\ Height["completion"] = 1 /\ Height["inspector"] = 2 /\ Height["definition"] = 3
    /\ Height["help"] = 4 /\ Height["notices"] = 5 /\ Height["palette"] = 6
    /\ Height["details"] = 7 /\ Height["prefix"] = 8 /\ Height["run"] = 9
    /\ Height["plan"] = 10 /\ Height["copy"] = 11 /\ Height["update"] = 12
    /\ Height["value"] = 13 /\ Height["parameter"] = 14 /\ Height["name"] = 15
    /\ Height["password"] = 16
  <1>1. \A s \in Overlay : Height[s] = CHOOSE i \in DOMAIN Drawn : Drawn[i] = s
    BY DEF Height
  <1>2. \A s \in Overlay : \E i \in DOMAIN Drawn : Drawn[i] = s
    BY DEF Overlay, ToSet
  <1>3. \A s \in Overlay : Height[s] \in DOMAIN Drawn /\ Drawn[Height[s]] = s
    BY <1>1, <1>2
  <1> QED
    BY <1>3, Surfaces18 DEF Drawn

\* The owner of the keyboard is open, and nothing that is open is peeled before it.
LEMMA Owners ==
    ASSUME NEW S, S \subseteq Surface, S # {}
    PROVE  Owner(S) \in S /\ \A s \in S : Rank[Owner(S)] =< Rank[s]
  <1> DEFINE N == {Rank[s] : s \in S}
  <1>1. N \subseteq Nat /\ N # {}
    BY Ranks, Surfaces18
  <1>2. Min(N) \in N /\ \A n \in N : Min(N) =< n
    BY <1>1, Least
  <1>3. PICK s \in S : Min(N) = Rank[s]
    BY <1>2
  <1>4. \A t \in S : Peel[Rank[t]] = t
    BY Ranks, Surfaces18 DEF Peel
  <1>5. Owner(S) = Peel[Min(N)]
    BY DEF Owner
  <1> QED
    BY <1>2, <1>3, <1>4, <1>5

\* A key goes to the surface it was peeled down to, or past all of them.
LEMMA Handled ==
    ASSUME NEW o, NEW key, Fits(o)
    PROVE  /\ Handler(o, key) = "base" => DOMAIN Left(o, key) = {}
           /\ Handler(o, key) # "base" =>
                /\ Handler(o, key) \in DOMAIN Left(o, key)
                /\ \A s \in DOMAIN Left(o, key) : Rank[Handler(o, key)] =< Rank[s]
  <1> DEFINE S == {s \in DOMAIN o : ~GivesWay(s, key)}
             h == Handler(o, key)
             l == Left(o, key)
  <1>1. h = Owner(S) /\ S \subseteq Surface /\ DOMAIN o \subseteq Surface
    BY DEF Handler, Fits
  <1>2. S = {} => h = "base"
    BY <1>1 DEF Owner
  <1>3. S # {} => h \in S
    BY <1>1, Owners
  <1>4. DOMAIN l = DOMAIN o \ {s \in DOMAIN o : h = "base" \/ Rank[s] < Rank[h]}
    BY DEF Left, Close
  <1>5. \A s \in Surface : Rank[s] \in Nat
    BY Ranks, Surfaces18
  <1>6. "base" \notin Surface
    BY Surfaces18
  <1>7. h # "base" => h \in DOMAIN o /\ h \in Surface
    BY <1>1, <1>2, <1>3
  <1> HIDE DEF S, h, l
  <1>8. h = "base" => DOMAIN l = {}
    BY <1>4
  <1>9. h # "base" => h \in DOMAIN l /\ \A s \in DOMAIN l : Rank[h] =< Rank[s]
    BY <1>1, <1>4, <1>5, <1>7
  <1> QED
    BY <1>8, <1>9 DEF h, l

\* To close surfaces never breaks what may be open together.
LEMMA Closing ==
    ASSUME NEW o, NEW S, Fits(o)
    PROVE  Fits(Close(o, S))
  <1>1. DOMAIN Close(o, S) \subseteq DOMAIN o /\ Under(Close(o, S)) \subseteq Under(o)
    BY DEF Close, Under
  <1>2. Is(Close(o, S), "palette") => Is(o, "palette") /\ Close(o, S)["palette"] = o["palette"]
    BY DEF Close, Is
  <1>3. Is(Close(o, S), "prefix") => Is(o, "prefix")
    BY DEF Close, Is
  <1>4. \A s, t \in Under(o) :
          s = t \/ (s = "inspector" /\ t \in Over) \/ (t = "inspector" /\ s \in Over)
    BY DEF Fits
  <1>5. Is(Close(o, S), "palette") =>
          /\ Close(o, S)["palette"] = "commands" =>
                 Under(Close(o, S)) \subseteq {"help", "notices", "inspector"}
          /\ Close(o, S)["palette"] \in {"grid", "connections", "formats"} =>
                 Under(Close(o, S)) = {}
    BY <1>1, <1>2 DEF Fits
  <1>6. Is(Close(o, S), "prefix") => Under(Close(o, S)) \subseteq PaneInput \cup {"help"}
    BY <1>1, <1>3 DEF Fits
  <1>7. DOMAIN Close(o, S) \subseteq Surface
    BY <1>1 DEF Fits
  <1> QED
    BY <1>1, <1>4, <1>5, <1>6, <1>7 DEF Fits

\* One surface over nothing.
LEMMA Alone ==
    ASSUME NEW o, NEW s \in Surface, NEW v, DOMAIN o = {}
    PROVE  Fits(o) /\ Fits(Add(o, s, v))
  <1>1. DOMAIN Add(o, s, v) = {s} /\ Under(Add(o, s, v)) \subseteq {s}
    BY DEF Add, Under
  <1>2. s \in Atop => Under(Add(o, s, v)) = {}
    BY <1>1 DEF Under
  <1>3. Fits(Add(o, s, v))
    BY <1>1, <1>2 DEF Fits, Is, Atop
  <1>4. Fits(o)
    BY DEF Fits, Is, Under
  <1> QED
    BY <1>3, <1>4

\* The password prompt and a palette that an answer opens may come over anything.
LEMMA OverAnything ==
    ASSUME NEW o, NEW s, NEW v, Fits(o),
           s = "password" \/ (s = "palette" /\ v \in {"saved", "names"})
    PROVE  Fits(Add(o, s, v))
  <1>1. /\ DOMAIN Add(o, s, v) = DOMAIN o \cup {s}
        /\ Under(Add(o, s, v)) = Under(o)
        /\ s \in Surface
    BY Surfaces18 DEF Add, Under, Atop
  <1>2. Is(Add(o, s, v), "prefix") => Is(o, "prefix")
    BY <1>1 DEF Is
  <1>3. s = "palette" => Add(o, s, v)["palette"] \in {"saved", "names"}
    BY DEF Add
  <1>4. s = "password" /\ Is(Add(o, s, v), "palette") =>
            Is(o, "palette") /\ Add(o, s, v)["palette"] = o["palette"]
    BY <1>1 DEF Add, Is
  <1> QED
    BY <1>1, <1>2, <1>3, <1>4 DEF Fits

\* A surface of its own kind replaces itself, or comes where it fits.
LEMMA Adding ==
    ASSUME NEW o, NEW s \in Surface \ Atop, NEW v, Fits(o), Under(o) \subseteq {s},
           Is(o, "prefix") => s \in PaneInput \cup {"help"},
           Is(o, "palette") => o["palette"] \notin {"commands", "grid", "connections", "formats"}
    PROVE  Fits(Add(o, s, v))
  <1>1. /\ DOMAIN Add(o, s, v) = DOMAIN o \cup {s}
        /\ Under(Add(o, s, v)) = {s}
    BY DEF Add, Under
  <1>2. Is(Add(o, s, v), "prefix") => Is(o, "prefix")
    BY <1>1 DEF Is, Atop
  <1>3. Is(Add(o, s, v), "palette") => Is(o, "palette") /\ Add(o, s, v)["palette"] = o["palette"]
    BY <1>1 DEF Add, Is, Atop
  <1> QED
    BY <1>1, <1>2, <1>3 DEF Fits

\* The prefix and the palette of commands, over the panes' own input.
LEMMA Chording ==
    ASSUME NEW o, NEW v, Fits(o)
    PROVE  /\ Under(o) \subseteq PaneInput \cup {"help"} => Fits(Add(o, "prefix", v))
           /\ Under(o) \subseteq {"help", "notices", "inspector"} =>
                  Fits(Add(o, "palette", "commands"))
  <1>1. /\ DOMAIN Add(o, "prefix", v) = DOMAIN o \cup {"prefix"}
        /\ Under(Add(o, "prefix", v)) = Under(o)
        /\ DOMAIN Add(o, "palette", "commands") = DOMAIN o \cup {"palette"}
        /\ Under(Add(o, "palette", "commands")) = Under(o)
        /\ {"prefix", "palette"} \subseteq Surface
    BY Surfaces18 DEF Add, Under, Atop
  <1>2. /\ Is(Add(o, "palette", "commands"), "prefix") => Is(o, "prefix")
        /\ Add(o, "palette", "commands")["palette"] = "commands"
        /\ Is(Add(o, "prefix", v), "palette") =>
               Is(o, "palette") /\ Add(o, "prefix", v)["palette"] = o["palette"]
    BY DEF Is, Add
  <1> QED
    BY <1>1, <1>2 DEF Fits

-----------------------------------------------------------------------------
(* What a step keeps, and the two kinds of steps.                          *)

\* A step keeps the invariant; when it changes the text, nothing but the menu of the new
\* text is drawn over it.
Kept ==
    /\ SurfacesInv'
    /\ buf'.at # buf.at =>
        /\ DOMAIN open' \cap Overlay \subseteq {"completion"}
        /\ Is(open', "completion") => open'["completion"] = buf'.at

\* A step that leaves the text alone.
LEMMA Quiet ==
    ASSUME SurfacesInv, Fits(open'), BufOK', buf'.at = buf.at,
           mark' \in {mark, NoMark} \/ mark'.at = buf.at
    PROVE  Kept
  <1>1. MarkIsOfThisText'
    BY DEF SurfacesInv, MarkIsOfThisText
  <1> QED
    BY <1>1 DEF Kept, SurfacesInv

\* The steps that several handlers take, but for those that edit.
LEMMA Calm ==
    ASSUME SurfacesInv, NEW o, Fits(o), NEW f, NEW a, NEW sql,
           \/ Only(o) \/ Looks(o, f) \/ Unmark(o) \/ Ask(o, a)
           \/ Begin(o, a, sql) \/ StartPlan(o, sql) \/ BeginConnection(o)
    PROVE  Kept
  <1>1. /\ buf' = buf
        /\ mark' \in {mark, NoMark}
    BY DEF Only, Looks, Unmark, Ask, Begin, StartPlan, BeginConnection
  <1>2. \E S : open' = o \/ open' = Close(o, S)
    BY DEF Only, Looks, Unmark, Ask, Begin, StartPlan, BeginConnection
  <1>3. Fits(open')
    BY <1>2, Closing
  <1>4. BufOK' /\ buf'.at = buf.at
    BY <1>1 DEF BufOK, SurfacesInv
  <1> QED
    BY <1>1, <1>3, <1>4, Quiet

\* A step that changes the text.
LEMMA Edited ==
    ASSUME SurfacesInv, NEW f, Edit(f), Fits(open'),
           DOMAIN open' \cap Overlay \subseteq {"completion"},
           Is(open', "completion") => open'["completion"] = buf'.at
    PROVE  Kept
  <1>1. /\ buf' = [buf EXCEPT !.at = @ + 1, !.modified = TRUE]
        /\ mark' = NoMark
    BY DEF Edit
  <1>2. BufOK'
    <2>1. buf \in [at : Int, modified : BOOLEAN, disk : Int]
      BY DEF BufOK, SurfacesInv
    <2>2. buf' = [at |-> buf.at + 1, modified |-> TRUE, disk |-> buf.disk]
      BY <1>1, <2>1
    <2> QED
      BY <2>1, <2>2 DEF BufOK
  <1>3. MarkIsOfThisText'
    BY <1>1 DEF MarkIsOfThisText
  <1> QED
    BY <1>2, <1>3 DEF Kept, SurfacesInv

\* An edit under nothing but the menu, which is made again or closed.
LEMMA EditedWithMenu ==
    ASSUME SurfacesInv, NEW o, DOMAIN o \subseteq {"completion"}, NEW f, Edit(f),
           Menu(o) \/ open' = Close(o, {"completion"}) \/ (DOMAIN o = {} /\ open' = o)
    PROVE  Kept
  <1>1. \/ open' = Add(o, "completion", buf'.at)
        \/ DOMAIN open' = {}
    BY DEF Menu, Close
  <1>2. CASE open' = Add(o, "completion", buf'.at)
    <2>1. DOMAIN open' = {"completion"} /\ open'["completion"] = buf'.at
      BY <1>2 DEF Add
    <2>2. Under(open') = {"completion"} /\ "completion" \in Surface
      BY <2>1, Surfaces18 DEF Under, Atop
    <2>3. Fits(open')
      BY <2>1, <2>2 DEF Fits, Is
    <2> QED
      BY <2>1, <2>3, Edited
  <1>3. CASE DOMAIN open' = {}
    <2>1. Fits(open')
      BY <1>3 DEF Fits, Is, Under
    <2> QED
      BY <1>3, <2>1, Edited DEF Is
  <1> QED
    BY <1>1, <1>2, <1>3

-----------------------------------------------------------------------------
(* The base: a key that no surface answers finds none of them open.        *)

\* The base keeps the invariant: what it opens is open alone.
LEMMA BaseKeeps ==
    ASSUME SurfacesInv, NEW o, DOMAIN o = {}, NEW key, Base(key, o)
    PROVE  Kept
  <1>1. Fits(o)
    BY Alone, Surfaces18
  <1>2. \A s \in Surface : \A v : Fits(Add(o, s, v))
    BY Alone
  <1>3. ASSUME NEW f, Write(o, f)
        PROVE  Kept
    BY <1>3, EditedWithMenu DEF Write
  <1>4. ASSUME Type(o)
        PROVE  Kept
    BY <1>4, EditedWithMenu DEF Type
  <1>5. ASSUME NEW sql, Start(o, sql)
        PROVE  Kept
    BY <1>1, <1>2, <1>5, Calm, Surfaces18 DEF Start
  <1>6. CASE ObjectsKey(key, o)
    BY <1>2, <1>3, <1>6, Calm, Surfaces18 DEF ObjectsKey
  <1>7. CASE EditorKey(key, o)
    BY <1>2, <1>3, <1>4, <1>7, Calm, Surfaces18 DEF EditorKey
  <1>8. ASSUME Inspect(o)
        PROVE  Kept
    BY <1>1, <1>2, <1>8, Calm, Closing, Surfaces18 DEF Inspect
  <1>9. CASE ResultsKey(key, o)
    BY <1>1, <1>2, <1>5, <1>8, <1>9, Calm, Surfaces18 DEF ResultsKey
  <1>10. ASSUME Dismiss(o)
         PROVE  Kept
    <2>1. buf' = buf /\ open' \in {o, Close(o, {"tree_filter"})} /\ mark' \in {mark, NoMark}
      BY <1>10 DEF Dismiss, Only, Unmark
    <2> QED
      BY <1>1, <2>1, Closing, Quiet DEF BufOK, SurfacesInv
  <1>11. ASSUME Run(o)
         PROVE  Kept
    BY <1>2, <1>5, <1>11, Calm, Surfaces18 DEF Run
  <1>12. CASE AnyPaneKey(key, o)
    BY <1>1, <1>2, <1>3, <1>8, <1>10, <1>11, <1>12, Calm, Surfaces18 DEF AnyPaneKey
  <1>13. CASE Refused(key, o)
    BY <1>1, <1>13, Calm DEF Refused
  <1> QED
    BY <1>6, <1>7, <1>9, <1>12, <1>13 DEF Base

-----------------------------------------------------------------------------
(* The surfaces: what is open when one of them answers is it, and what it  *)
(* was opened over.                                                        *)

Reached(s, o) ==
    /\ Fits(o) /\ s \in DOMAIN o
    /\ \A t \in DOMAIN o : Rank[s] =< Rank[t]

\* Under a prompt or a review there is nothing but a palette that an answer opened.
LEMMA Reviewed ==
    ASSUME NEW s \in {"parameter", "name", "run", "plan", "copy", "value", "update"},
           NEW o, Reached(s, o)
    PROVE  /\ Under(o) = {s} /\ ~Is(o, "prefix")
           /\ Is(o, "palette") =>
                o["palette"] \notin {"commands", "grid", "connections", "formats"}
  <1>1. s \in Under(o)
    BY DEF Reached, Under, Atop
  <1>2. Under(o) = {s}
    BY <1>1 DEF Reached, Fits, Over
  <1>3. s \notin PaneInput \cup {"help"}
    BY DEF PaneInput
  <1> QED
    BY <1>1, <1>2, <1>3 DEF Reached, Fits

\* What a surface of a pane, help or the notices is reached over.
LEMMA Shallow ==
    ASSUME NEW s, NEW o, Reached(s, o)
    PROVE  /\ s \in {"notices", "help"} => Under(o) \subseteq {s, "inspector"}
           /\ s = "details" => Under(o) \subseteq {s, "inspector"}
           /\ s \in {"completion", "tree_filter", "result_filter", "inspector", "definition"}
                => DOMAIN o = {s}
  <1>1. \A t \in DOMAIN o : t \in Surface /\ Rank[s] =< Rank[t]
    BY DEF Reached, Fits
  <1>2. s \notin Atop => s \in Under(o)
    BY DEF Reached, Under
  <1>3. s \in {"notices", "help", "details"} => Under(o) \subseteq {s, "inspector"}
    BY <1>2 DEF Reached, Fits, Atop, Over
  <1>4. ASSUME s \in {"completion", "tree_filter", "result_filter", "inspector", "definition"}
        PROVE  DOMAIN o = {s}
    <2>1. Rank[s] \in 14 .. 18
      BY <1>4, Ranks
    <2>2. "password" \notin DOMAIN o /\ "palette" \notin DOMAIN o /\ "prefix" \notin DOMAIN o
      BY <1>1, <2>1, Ranks
    <2>3. "details" \notin DOMAIN o /\ "help" \notin DOMAIN o /\ "notices" \notin DOMAIN o
      BY <1>1, <2>1, Ranks
    <2>4. Under(o) = DOMAIN o
      BY <2>2 DEF Under, Atop
    <2>5. \A t \in Under(o) : t = s
      BY <1>2, <1>4, <2>3, <2>4 DEF Reached, Fits, Atop, Over
    <2> QED
      BY <2>4, <2>5 DEF Reached
  <1> QED
    BY <1>3, <1>4

\* To close the surface that answers.
LEMMA Shuts ==
    ASSUME SurfacesInv, NEW o, Fits(o), NEW s, Shut(o, s)
    PROVE  Kept
  BY Closing, Calm DEF Shut

\* A review that is accepted sends what it held, or asks for its parameters.
LEMMA ReviewsKeep ==
    ASSUME SurfacesInv, NEW s, NEW o, Reached(s, o), NEW key,
           \/ s = "parameter" /\ Parameter(key, o)
           \/ s = "run" /\ ReviewRun(key, o)
           \/ s = "plan" /\ ReviewPlan(key, o)
           \/ s = "copy" /\ ReviewCopy(key, o)
           \/ s = "value" /\ ReviewValue(key, o)
           \/ s = "update" /\ ReviewUpdate(key, o)
    PROVE  Kept
  <1>1. Fits(o) /\ \A S : Fits(Close(o, S))
    BY Closing DEF Reached
  <1>2. ASSUME NEW t, Shut(o, t)
        PROVE  Kept
    BY <1>1, <1>2, Shuts
  <1>3. ASSUME NEW t \in {"parameter", "update"}, NEW v
        PROVE  Fits(Add(Close(o, {s}), t, v))
    <2>1. /\ Under(Close(o, {s})) = {}
          /\ ~Is(Close(o, {s}), "prefix")
          /\ Is(Close(o, {s}), "palette") =>
               Close(o, {s})["palette"] \notin {"commands", "grid", "connections", "formats"}
      BY Reviewed DEF Close, Under, Is
    <2>2. t \in Surface \ Atop
      BY Surfaces18 DEF Atop
    <2> QED
      BY <1>1, <2>1, <2>2, Adding
  <1>4. CASE s = "parameter" /\ Parameter(key, o)
    BY <1>1, <1>2, <1>4, Calm DEF Parameter
  <1>5. CASE s = "run" /\ ReviewRun(key, o)
    BY <1>1, <1>2, <1>3, <1>5, Calm DEF ReviewRun, Start
  <1>6. CASE s = "plan" /\ ReviewPlan(key, o)
    BY <1>1, <1>2, <1>6, Calm DEF ReviewPlan
  <1>7. CASE s = "copy" /\ ReviewCopy(key, o)
    BY <1>2, <1>7 DEF ReviewCopy
  <1>8. CASE s = "value" /\ ReviewValue(key, o)
    BY <1>2, <1>3, <1>8, Calm DEF ReviewValue
  <1>9. CASE s = "update" /\ ReviewUpdate(key, o)
    BY <1>1, <1>2, <1>9, Calm DEF ReviewUpdate
  <1> QED
    BY <1>4, <1>5, <1>6, <1>7, <1>8, <1>9

\* The prompts that never send text, and the palette when it is dismissed.
LEMMA PromptsKeep ==
    ASSUME SurfacesInv, NEW s, NEW o, Reached(s, o), NEW key,
           \/ s = "password" /\ Password(key, o)
           \/ s = "name" /\ Name(key, o)
           \/ s = "palette" /\ Palette(key, o)
    PROVE  Kept
  <1>1. Fits(o) /\ \A S : Fits(Close(o, S))
    BY Closing DEF Reached
  <1>2. ASSUME NEW t, Shut(o, t)
        PROVE  Kept
    BY <1>1, <1>2, Shuts
  <1>3. CASE s = "password" /\ Password(key, o)
    BY <1>1, <1>2, <1>3, Quiet DEF Password, SurfacesInv, BufOK
  <1>4. CASE s = "palette" /\ Palette(key, o)
    BY <1>1, <1>4, Quiet DEF Palette, SurfacesInv, BufOK
  <1>5. CASE s = "name" /\ Name(key, o)
    <2>1. ASSUME open' = Close(o, {"name"}), buf' = [buf EXCEPT !.disk = buf.at],
                 mark' = mark
          PROVE  Kept
      <3>1. buf' = [at |-> buf.at, modified |-> buf.modified, disk |-> buf.at]
        BY <2>1 DEF SurfacesInv, BufOK
      <3>2. BufOK' /\ buf'.at = buf.at
        BY <3>1 DEF SurfacesInv, BufOK
      <3> QED
        BY <1>1, <2>1, <3>2, Quiet
    <2> QED
      BY <1>2, <1>5, <2>1 DEF Name
  <1> QED
    BY <1>3, <1>4, <1>5

\* Help, the notices and a result's details, over the inspector at most.
LEMMA PanelsKeep ==
    ASSUME SurfacesInv, NEW s, NEW o, Reached(s, o), NEW key,
           \/ s = "details" /\ Details(key, o)
           \/ s = "notices" /\ Notices(key, o)
           \/ s = "help" /\ Help(key, o)
    PROVE  Kept
  <1>1. Fits(o) /\ \A S : Fits(Close(o, S))
    BY Closing DEF Reached
  <1>2. ASSUME NEW t, Shut(o, t)
        PROVE  Kept
    BY <1>1, <1>2, Shuts
  <1>3. Under(o) \subseteq {s, "inspector"}
    BY Shallow
  <1>4. CASE s = "details" /\ Details(key, o)
    <2>1. Under(Close(o, {"details"})) \subseteq {"inspector"}
      BY <1>3, <1>4 DEF Close, Under
    <2>2. Fits(Add(Close(o, {"details"}), "palette", "commands"))
      BY <1>1, <2>1, Chording
    <2> QED
      BY <1>2, <1>4, <2>2, Calm DEF Details
  <1>5. ASSUME s \in {"help", "notices"}
        PROVE  Fits(Add(o, "palette", "commands")) /\ Fits(Add(o, "prefix", ""))
    BY <1>1, <1>3, <1>5, Chording DEF PaneInput
  <1>6. CASE s = "notices" /\ Notices(key, o)
    BY <1>2, <1>5, <1>6, Calm DEF Notices
  <1>7. CASE s = "help" /\ Help(key, o)
    BY <1>2, <1>5, <1>7, Calm DEF Help
  <1> QED
    BY <1>4, <1>6, <1>7

\* The panes' own input, which is reached only when it is all there is.
LEMMA PaneInputKeeps ==
    ASSUME SurfacesInv, NEW s, NEW o, Reached(s, o), NEW key,
           \/ s = "completion" /\ Completion(key, o)
           \/ s \in {"tree_filter", "result_filter"} /\ PaneFilter(s, key, o)
           \/ s = "inspector" /\ Inspector(key, o)
           \/ s = "definition" /\ Definition(key, o)
    PROVE  Kept
  <1>1. DOMAIN o = {s} /\ Fits(o)
    BY Shallow DEF Reached
  <1>2. ASSUME NEW t, Shut(o, t)
        PROVE  Kept
    BY <1>1, <1>2, Shuts
  <1>3. s \in PaneInput /\ Under(o) = {s}
    BY <1>1 DEF PaneInput, Under, Atop
  <1>4. Fits(Add(o, "prefix", ""))
    BY <1>1, <1>3, Chording
  <1>5. CASE s = "completion" /\ Completion(key, o)
    <2>1. ~Is(o, "prefix") /\ ~Is(o, "palette") /\ "completion" \in Surface \ Atop
      BY <1>1, <1>5, Surfaces18 DEF Is, Atop
    <2>2. Fits(Add(o, "completion", buf.at))
      BY <1>1, <1>3, <1>5, <2>1, Adding
    <2>3. ASSUME Edit(focus), Menu(o)
          PROVE  Kept
      BY <1>1, <1>5, <2>3, EditedWithMenu
    <2>4. ASSUME Write(Close(o, {"completion"}), focus)
          PROVE  Kept
      BY <1>1, <1>5, <2>4, EditedWithMenu DEF Write
    <2> QED
      BY <1>2, <1>4, <1>5, <2>2, <2>3, <2>4, Calm DEF Completion
  <1>6. CASE s \in {"tree_filter", "result_filter"} /\ PaneFilter(s, key, o)
    BY <1>2, <1>4, <1>6, Calm DEF PaneFilter
  <1>7. CASE s = "inspector" /\ Inspector(key, o)
    <2>1. /\ DOMAIN Add(o, "help", "") = {"inspector", "help"}
          /\ Under(Add(o, "help", "")) = {"inspector", "help"}
      BY <1>1, <1>7 DEF Add, Under, Atop
    <2>2. Fits(Add(o, "help", ""))
      BY <2>1, Surfaces18 DEF Fits, Is, Over
    <2> QED
      BY <1>2, <1>4, <1>7, <2>2, Calm DEF Inspector
  <1>8. CASE s = "definition" /\ Definition(key, o)
    BY <1>2, <1>4, <1>8, Calm DEF Definition
  <1> QED
    BY <1>5, <1>6, <1>7, <1>8

\* A key, from the layers it starts at.
LEMMA DispatchKeeps ==
    ASSUME SurfacesInv, NEW o, Fits(o), NEW key, Dispatch(key, o)
    PROVE  Kept
  <1> DEFINE h == Handler(o, key)
             l == Left(o, key)
  <1>1. Answer(h, key, l)
    BY DEF Dispatch
  <1>2. h = "base" => DOMAIN l = {}
    BY Handled
  <1>3. Fits(l)
    BY Closing DEF Left
  <1>4. h # "base" => Reached(h, l)
    BY <1>3, Handled DEF Reached
  <1> HIDE DEF h, l
  <1>5. CASE h = "base"
    BY <1>1, <1>2, <1>5, BaseKeeps DEF Answer
  <1>6. CASE h # "base"
    BY <1>1, <1>4, <1>6, ReviewsKeep, PromptsKeep, PanelsKeep, PaneInputKeeps DEF Answer
  <1> QED
    BY <1>5, <1>6

\* The palette is peeled before all that it may hide, and what it runs closes it.
LEMMA ChooseKeeps ==
    ASSUME SurfacesInv, Owner(DOMAIN open) = "palette", Choose
    PROVE  Kept
  <1> DEFINE o == Close(open, {"palette", "help", "notices"})
             p == open["palette"]
  <1>1. /\ "palette" \in DOMAIN open /\ DOMAIN open \subseteq Surface
        /\ \A t \in DOMAIN open : 11 =< Rank[t]
    <2>1. DOMAIN open \subseteq Surface
      BY DEF SurfacesInv, Fits
    <2>2. DOMAIN open # {}
      BY Surfaces18 DEF Owner
    <2> QED
      BY <2>1, <2>2, Owners, Ranks
  <1>2. /\ "password" \notin DOMAIN open /\ "prefix" \notin DOMAIN open
        /\ \A t \in {"parameter", "name", "details", "run", "plan", "copy", "value", "update"} :
             t \notin DOMAIN open
    BY <1>1, Ranks
  <1>3. Fits(open) /\ Fits(o) /\ \A S : Fits(Close(open, S))
    BY Closing DEF SurfacesInv
  <1>4. DOMAIN o = Under(open) \ {"help", "notices"}
    BY <1>1, <1>2 DEF Close, Under, Atop
  <1>5. DOMAIN Revealed(open) = {}
    BY <1>1, <1>2, Surfaces18 DEF Revealed, Close, PaneInput
  <1>6. /\ p = "commands" => DOMAIN o \subseteq {"inspector"}
        /\ p \in {"grid", "connections", "formats"} => DOMAIN o = {}
    BY <1>1, <1>3, <1>4 DEF Fits, Is
  <1>7. /\ \A c \in Command : Dispatch(c, o) => Kept
        /\ \A a : Only(o) \/ Ask(o, a) \/ BeginConnection(o) => Kept
    BY <1>3, DispatchKeeps, Calm
  <1>8. ASSUME p = "commands", NEW t \in {"notices", "details"}, Only(Add(o, t, ""))
        PROVE  Kept
    <2>1. /\ DOMAIN Add(o, t, "") \subseteq {"inspector", t}
          /\ Under(Add(o, t, "")) \subseteq {"inspector", t}
      BY <1>6, <1>8 DEF Add, Under
    <2>2. Fits(Add(o, t, ""))
      BY <2>1, Surfaces18 DEF Fits, Is, Over
    <2> QED
      BY <1>8, <2>2, Calm
  <1>9. ASSUME p \in {"grid", "formats"}, NEW t \in {"palette", "name"}, NEW v,
               Only(Add(o, t, v))
        PROVE  Kept
    BY <1>6, <1>9, Alone, Calm, Surfaces18
  <1>10. ASSUME Write(Revealed(open), "editor")
         PROVE  Kept
    BY <1>5, <1>10, EditedWithMenu DEF Write
  <1>11. ASSUME open' = Revealed(open), UNCHANGED <<buf, mark>>
         PROVE  Kept
    <2>1. Fits(open')
      BY <1>3, <1>11 DEF Revealed
    <2> QED
      BY <1>11, <2>1, Quiet DEF SurfacesInv, BufOK
  <1>12. Shut(open, "palette") => Kept
    BY <1>3, Shuts
  <1> HIDE DEF o, p
  <1>13. \/ Shut(open, "palette")
         \/ p = "commands" /\ \/ \E c \in Command : Dispatch(c, o)
                              \/ Only(o)
                              \/ Only(Add(o, "notices", ""))
                              \/ Only(Add(o, "details", ""))
         \/ Write(Revealed(open), "editor")
         \/ Ask(o, "load")
         \/ open' = Revealed(open) /\ UNCHANGED <<buf, mark>>
         \/ p = "grid" /\ (Only(o) \/ Only(Add(o, "palette", "grid")))
         \/ BeginConnection(o)
         \/ p = "formats" /\ Only(Add(o, "name", "export"))
    BY DEF Choose, o, p
  <1> QED
    BY <1>7, <1>8, <1>9, <1>10, <1>11, <1>12, <1>13

\* A key goes on through the layers, ends a chord or chooses from the palette.
LEMMA KeyPressedKeeps ==
    ASSUME SurfacesInv, NEW key, KeyPressed(key)
    PROVE  Kept
  <1>1. Fits(open)
    BY DEF SurfacesInv
  <1>2. ASSUME Prefix(key)
        PROVE  Kept
    <2>1. Fits(Close(open, {"prefix"}))
      BY <1>1, Closing
    <2> QED
      BY <1>2, <2>1, DispatchKeeps, Calm DEF Prefix
  <1>3. ASSUME Owner(DOMAIN open) = "palette", Choose
        PROVE  Kept
    BY <1>3, ChooseKeeps
  <1>4. ASSUME Dispatch(key, open)
        PROVE  Kept
    BY <1>1, <1>4, DispatchKeeps
  <1>5. \/ Prefix(key)
        \/ Owner(DOMAIN open) = "palette" /\ Choose
        \/ Dispatch(key, open)
    BY DEF KeyPressed
  <1> QED
    BY <1>2, <1>3, <1>4, <1>5

\* A paste and the presses of the mouse.
LEMMA PressesKeep ==
    ASSUME SurfacesInv,
           Pasted \/ PanePressed \/ RowPressedTwice \/ CellPressedTwice \/ ItemPressedTwice
    PROVE  Kept
  <1>1. Fits(open) /\ \A S : Fits(Close(open, S))
    BY Closing DEF SurfacesInv
  <1>2. CASE Pasted
    <2>1. CASE Is(open, "completion")
      BY <1>2, <2>1, EditedWithMenu DEF Pasted
    <2>2. CASE ~Is(open, "completion")
      <3>1. DOMAIN open = {} /\ open' = open /\ Edit(focus)
        BY <1>2, <2>2 DEF Pasted, Is
      <3> QED
        BY <3>1, EditedWithMenu
    <2> QED
      BY <2>1, <2>2
  <1>3. CASE PanePressed
    BY <1>1, <1>3, Calm DEF PanePressed
  <1>4. CASE RowPressedTwice
    <2>1. DOMAIN << >> = {}
      OBVIOUS
    <2> QED
      BY <1>4, <2>1, EditedWithMenu DEF RowPressedTwice, Write
  <1>5. CASE CellPressedTwice
    <2> DEFINE o == [s \in {"inspector"} |-> ""]
    <2>1. DOMAIN o = {"inspector"} /\ Under(o) = {"inspector"}
      BY DEF Under, Atop
    <2>2. Fits(o)
      BY <2>1, Surfaces18 DEF Fits, Is
    <2> QED
      BY <1>5, <2>2, Calm DEF CellPressedTwice
  <1>6. CASE ItemPressedTwice
    BY <1>6, ChooseKeeps DEF ItemPressedTwice
  <1> QED
    BY <1>2, <1>3, <1>4, <1>5, <1>6

\* The answers but for a loaded query: none changes the text, and none opens what a newer
\* owner of the keyboard would hide.
LEMMA AnswersKeep ==
    ASSUME SurfacesInv,
           \/ Connected \/ ConnectionFailed \/ ConnectionLost
           \/ ExecutionFinished \/ PlanFinished \/ RowsGone
           \/ QueriesListed \/ QuerySaved
           \/ DependenciesLoaded \/ UpdateTargetLoaded \/ CompletionLoaded
    PROVE  Kept
  <1>1. Fits(open) /\ \A S : Fits(Close(open, S))
    BY Closing DEF SurfacesInv
  <1>2. ASSUME UNCHANGED buf, mark' \in {mark, NoMark} \/ mark'.at = buf.at, Fits(open')
        PROVE  Kept
    BY <1>2, Quiet DEF SurfacesInv, BufOK
  <1>3. CASE Connected
    BY <1>1, <1>2, <1>3 DEF Connected
  <1>4. CASE ConnectionFailed
    <2>1. Fits(Close(open, {"value", "update"}))
      BY <1>1
    <2>2. Fits(Add(Close(open, {"value", "update"}), "password", ""))
      BY <2>1, OverAnything
    <2> QED
      BY <1>2, <1>4, <2>1, <2>2 DEF ConnectionFailed
  <1>5. CASE ConnectionLost
    BY <1>1, <1>2, <1>5 DEF ConnectionLost
  <1>6. CASE ExecutionFinished
    <2>1. mark' = NoMark \/ mark'.at = buf.at
      BY <1>6 DEF ExecutionFinished, Located
    <2>2. Fits(open') /\ UNCHANGED buf
      BY <1>1, <1>6 DEF ExecutionFinished
    <2> QED
      BY <1>2, <2>1, <2>2
  <1>7. CASE PlanFinished
    BY <1>1, <1>2, <1>7 DEF PlanFinished
  <1>8. CASE RowsGone
    BY <1>1, <1>2, <1>8 DEF RowsGone
  <1>9. CASE QueriesListed
    <2>1. Fits(Add(open, "palette", "saved"))
      BY <1>1, OverAnything
    <2> QED
      BY <1>2, <1>9, <2>1 DEF QueriesListed
  <1>10. CASE QuerySaved
    <2>1. CASE buf' = [buf EXCEPT !.modified = FALSE]
      <3>1. buf' = [at |-> buf.at, modified |-> FALSE, disk |-> buf.disk]
        BY <2>1 DEF SurfacesInv, BufOK
      <3>2. BufOK' /\ buf'.at = buf.at
        BY <3>1 DEF SurfacesInv, BufOK
      <3> QED
        BY <1>1, <1>10, <3>2, Quiet DEF QuerySaved
    <2>2. CASE UNCHANGED buf
      BY <1>1, <1>2, <1>10, <2>2 DEF QuerySaved
    <2> QED
      BY <1>10, <2>1, <2>2 DEF QuerySaved
  <1>11. CASE DependenciesLoaded
    <2>1. Fits(Add(open, "palette", "names"))
      BY <1>1, OverAnything
    <2> QED
      BY <1>1, <1>2, <1>11, <2>1 DEF DependenciesLoaded
  <1>12. CASE UpdateTargetLoaded
    <2>1. open = << >> => DOMAIN open = {}
      OBVIOUS
    <2>2. open = << >> => Fits(Add(open, "value", ""))
      BY <2>1, Alone, Surfaces18
    <2> QED
      BY <1>1, <1>2, <1>12, <2>2 DEF UpdateTargetLoaded
  <1>13. CASE CompletionLoaded
    <2>1. ASSUME Is(open, "completion"), open' = Add(open, "completion", buf.at)
          PROVE  Fits(open')
      <3>1. DOMAIN open' = DOMAIN open /\ Under(open') = Under(open)
        BY <2>1 DEF Add, Is, Under
      <3>2. Is(open, "palette") => open'["palette"] = open["palette"]
        BY <2>1 DEF Add, Is
      <3> QED
        BY <1>1, <3>1, <3>2 DEF Fits, Is
    <2> QED
      BY <1>1, <1>2, <1>13, <2>1 DEF CompletionLoaded
  <1> QED
    BY <1>3, <1>4, <1>5, <1>6, <1>7, <1>8, <1>9, <1>10, <1>11, <1>12, <1>13

\* A loaded query is the one answer that changes the text; it takes the marker with it.
LEMMA QueryLoadedKeeps ==
    ASSUME SurfacesInv, QueryLoaded
    PROVE  SurfacesInv' /\ "load" \in asked \ asked'
  <1>1. open' = open /\ "load" \in asked \ asked'
    BY DEF QueryLoaded, Answered
  <1>2. CASE /\ buf' = [at |-> buf.at + 1, modified |-> FALSE, disk |-> buf.at + 1]
             /\ mark' = NoMark
    BY <1>1, <1>2 DEF SurfacesInv, BufOK, MarkIsOfThisText, Fits, Under, Is
  <1>3. CASE UNCHANGED <<buf, mark>>
    BY <1>1, <1>3 DEF SurfacesInv, BufOK, MarkIsOfThisText, Fits, Under, Is
  <1> QED
    BY <1>1, <1>2, <1>3 DEF QueryLoaded

\* Every step.
LEMMA SurfacesStep ==
    ASSUME SurfacesInv, Next
    PROVE  /\ SurfacesInv'
           /\ Kept \/ "load" \in asked \ asked'
  <1>1. Step
    BY DEF Next
  <1>2. CASE QueryLoaded
    BY <1>2, QueryLoadedKeeps
  <1>3. CASE ~QueryLoaded
    <2>1. Kept
      BY <1>1, <1>3, KeyPressedKeeps, PressesKeep, AnswersKeep DEF Step
    <2> QED
      BY <2>1 DEF Kept
  <1> QED
    BY <1>2, <1>3

\* What may be open together is drawn in the order it is peeled.
LEMMA TopmostFits ==
    ASSUME Fits(open)
    PROVE  TopmostOwnsKeyboard
  <1> DEFINE seen == DOMAIN open \cap Overlay
             owner == Owner(DOMAIN open)
  <1> SUFFICES ASSUME seen # {}
               PROVE  owner \in seen /\ \A s \in seen : Height[s] =< Height[owner]
    BY DEF TopmostOwnsKeyboard
  <1>1. /\ owner \in DOMAIN open /\ DOMAIN open \subseteq Surface
        /\ \A s \in DOMAIN open : Rank[owner] =< Rank[s]
    BY Owners DEF Fits
  <1> HIDE DEF owner
  <1>2. \A s, t \in Under(open) :
          s = t \/ (s = "inspector" /\ t \in Over) \/ (t = "inspector" /\ s \in Over)
    BY DEF Fits
  <1>3. owner \in Overlay
    <2>1. SUFFICES ASSUME owner \in {"tree_filter", "result_filter"}
                   PROVE  FALSE
      BY <1>1, Surfaces18
    <2>2. PICK s \in seen : TRUE
      OBVIOUS
    <2>3. Rank[owner] \in 15 .. 16 /\ Rank[owner] =< Rank[s] /\ s \in Overlay
      BY <1>1, <2>1, Ranks
    <2>4. owner \in Under(open)
      BY <1>1, <2>1 DEF Under, Atop
    <2>5. s \in {"inspector", "definition"}
      BY <2>3, Ranks, Surfaces18
    <2>6. s \in Under(open)
      BY <2>2, <2>5 DEF Under, Atop
    <2> QED
      BY <1>2, <2>1, <2>4, <2>5, <2>6 DEF Over
  <1>4. ASSUME NEW s \in seen
        PROVE  Height[s] =< Height[owner]
    <2>1. s \in DOMAIN open /\ s \in Overlay /\ Rank[owner] =< Rank[s]
      BY <1>1, <1>4
    <2>2. CASE s = owner
      BY <1>3, <2>2, Heights, Surfaces18
    <2>3. CASE s # owner /\ s \in Under(open) /\ owner \in Under(open)
      BY <1>2, <2>1, <2>3, Ranks, Heights DEF Over
    <2>4. CASE owner \in Atop
      <3>1. CASE owner = "password"
        BY <2>1, <3>1, Heights, Surfaces18
      <3>2. CASE owner = "palette"
        BY <2>1, <3>2, Ranks, Heights, Surfaces18
      <3>3. CASE owner = "prefix"
        <4>1. Under(open) \subseteq PaneInput \cup {"help"}
          BY <1>1, <3>3 DEF Fits, Is
        <4>2. s \in PaneInput \cup {"help", "palette", "prefix"}
          BY <2>1, <3>3, <4>1, Ranks DEF Under, Atop
        <4> QED
          BY <2>1, <3>3, <4>2, Heights, Surfaces18 DEF PaneInput
      <3> QED
        BY <2>4, <3>1, <3>2, <3>3 DEF Atop
    <2>5. CASE s \in Atop /\ owner \notin Atop
      <3>1. owner \in Under(open)
        BY <1>1, <2>5 DEF Under
      <3>2. s # "password"
        BY <1>1, <2>1, <2>5, Ranks, Surfaces18 DEF Atop
      <3>3. CASE s = "prefix"
        <4>1. owner \in PaneInput \cup {"help"}
          BY <2>1, <3>1, <3>3 DEF Fits, Is
        <4> QED
          BY <2>1, <3>3, <4>1, Ranks DEF PaneInput
      <3>4. CASE s = "palette"
        BY <1>1, <1>3, <2>1, <2>5, <3>4, Ranks, Heights, Surfaces18 DEF Atop
      <3> QED
        BY <2>5, <3>2, <3>3, <3>4 DEF Atop
    <2> QED
      BY <1>1, <2>1, <2>2, <2>3, <2>4, <2>5 DEF Under
  <1> QED
    BY <1>1, <1>3, <1>4 DEF owner

-----------------------------------------------------------------------------
(* The theorems.                                                           *)

\* What may be open together is, at every moment of the workspace.
LEMMA SurfacesHold == WorkspaceSpec => []SurfacesInv
  <1>1. WorkspaceInit => SurfacesInv
    <2> SUFFICES ASSUME Init
                 PROVE  SurfacesInv
      BY DEF WorkspaceInit
    <2>1. DOMAIN open = {}
      BY DEF Init
    <2>2. Fits(open)
      BY <2>1, Alone, Surfaces18
    <2> QED
      BY <2>2 DEF Init, SurfacesInv, BufOK, MarkIsOfThisText
  <1>2. SurfacesInv /\ [WorkspaceNext]_workspace => SurfacesInv'
    <2> SUFFICES ASSUME SurfacesInv, [WorkspaceNext]_workspace
                 PROVE  SurfacesInv'
      OBVIOUS
    <2>1. Next \/ UNCHANGED vars
      BY DEF WorkspaceNext, workspace
    <2>2. CASE UNCHANGED vars
      BY <2>2 DEF vars, SurfacesInv, BufOK, MarkIsOfThisText, Fits, Under, Is
    <2> QED
      BY <2>1, <2>2, SurfacesStep
  <1> QED
    BY <1>1, <1>2, PTL DEF WorkspaceSpec

\* The surface drawn on top is the one that a key press acts on (layout.rs:100), however
\* many are open and in whatever order keys, presses and answers opened them.
THEOREM TopmostSurfaceOwnsKeyboard == WorkspaceSpec => []TopmostOwnsKeyboard
  <1>1. SurfacesInv => TopmostOwnsKeyboard
    BY TopmostFits DEF SurfacesInv
  <1> QED
    BY <1>1, SurfacesHold, PTL

\* The marker of a server error is about the text that is on screen: every edit clears it
\* and an answer about an older text sets none (update.rs, map_error_location()).
THEOREM MarkersAreOfTheText == WorkspaceSpec => []MarkIsOfThisText
  <1>1. SurfacesInv => MarkIsOfThisText
    BY DEF SurfacesInv
  <1> QED
    BY <1>1, SurfacesHold, PTL

\* No key, paste or press changes text under an overlay other than the menu
\* (update.rs:2215).
THEOREM EditsAreAlwaysSeen == WorkspaceSpec => EditsAreSeen
  <1>1. SurfacesInv /\ [WorkspaceNext]_workspace =>
          [buf'.at # buf.at => \/ "load" \in asked \ asked'
                               \/ DOMAIN open' \cap Overlay \subseteq {"completion"}]_vars
    BY SurfacesStep DEF WorkspaceNext, workspace, Kept
  <1> QED
    BY <1>1, SurfacesHold, PTL DEF WorkspaceSpec, EditsAreSeen

\* The completion menu is of the text that Enter puts its candidate into.
THEOREM MenusFollowTheText == WorkspaceSpec => MenuFollowsTheText
  <1>1. SurfacesInv /\ [WorkspaceNext]_workspace =>
          [Is(open', "completion") /\ buf'.at # buf.at =>
              open'["completion"] = buf'.at \/ "load" \in asked \ asked']_vars
    BY SurfacesStep DEF WorkspaceNext, workspace, Kept
  <1> QED
    BY <1>1, SurfacesHold, PTL DEF WorkspaceSpec, MenuFollowsTheText

-----------------------------------------------------------------------------
(* The buffer: where lines and words are.                                  *)

\* Least, of the instance's own Min and Max.
LEMMA Smallest ==
    ASSUME NEW S \in SUBSET Nat, S # {}
    PROVE  E!Min(S) \in S /\ \A n \in S : E!Min(S) <= n
  BY Least DEF Min, E!Min

\* The greatest of some numbers up to a bound.
LEMMA Greatest ==
    ASSUME NEW N \in Nat, NEW S \in SUBSET (0 .. N), S # {}
    PROVE  E!Max(S) \in S /\ \A n \in S : n <= E!Max(S)
  <1> DEFINE D == {d \in Nat : \E n \in S : d = N - n}
  <1>1. D # {} /\ D \in SUBSET Nat
    <2>1. PICK n \in S : TRUE
      OBVIOUS
    <2>2. N - n \in D
      BY <2>1
    <2> QED
      BY <2>2
  <1>2. PICK d \in D : \A x \in D : d <= x
    BY <1>1, Least
  <1>3. PICK m \in S : d = N - m
    BY <1>2
  <1>4. \A n \in S : n <= m
    <2> TAKE n \in S
    <2>1. N - n \in D
      OBVIOUS
    <2>2. N - m <= N - n /\ n \in Int /\ m \in Int
      BY <1>2, <1>3, <2>1
    <2> QED
      BY <2>2
  <1>5. \E x \in S : \A y \in S : x >= y
    <2>1. \A y \in S : m >= y
      BY <1>4
    <2> QED
      BY <2>1
  <1>6. /\ E!Max(S) \in S /\ \A y \in S : E!Max(S) >= y
    BY <1>5 DEF E!Max
  <1> QED
    BY <1>6

\* The smaller and the larger of two.
LEMMA OfTwo ==
    ASSUME NEW m \in Nat, NEW n \in Nat
    PROVE  /\ E!Min({m, n}) \in {m, n} /\ E!Min({m, n}) <= m /\ E!Min({m, n}) <= n
           /\ E!Max({m, n}) \in {m, n} /\ E!Max({m, n}) >= m /\ E!Max({m, n}) >= n
  <1>1. {m, n} \in SUBSET Nat /\ {m, n} # {}
    OBVIOUS
  <1>2. E!Min({m, n}) \in {m, n} /\ \A k \in {m, n} : E!Min({m, n}) <= k
    BY <1>1, Smallest
  <1>3. {m, n} \in SUBSET (0 .. m + n) /\ m + n \in Nat
    OBVIOUS
  <1>4. E!Max({m, n}) \in {m, n} /\ \A k \in {m, n} : k <= E!Max({m, n})
    BY <1>1, <1>3, Greatest
  <1> QED
    BY <1>2, <1>4

\* The line that the cursor is in.
LEMMA LinesAreAround ==
    ASSUME NEW e, e.cursor \in Nat
    PROVE  E!line_start(e) \in 0 .. e.cursor /\ E!column(e) \in Nat
  <1> DEFINE S == {0} \cup E!Before(e, {"break"})
  <1>1. S \in SUBSET (0 .. e.cursor) /\ S # {}
    BY DEF E!Before
  <1>2. E!Max(S) \in S
    BY <1>1, Greatest
  <1>3. E!line_start(e) \in 0 .. e.cursor
    BY <1>1, <1>2 DEF E!line_start
  <1> QED
    BY <1>3 DEF E!column

\* A line ends behind its start and inside of the text,
LEMMA LinesEnd ==
    ASSUME NEW t, Len(t) \in Nat, NEW start \in 0 .. Len(t)
    PROVE  E!EndOfLine(t, start) \in start .. Len(t)
  <1> DEFINE S == {Len(t)} \cup {i - 1 : i \in {j \in start + 1 .. Len(t) : t[j] = "break"}}
  <1>1. S \in SUBSET (start .. Len(t)) /\ S \in SUBSET Nat /\ S # {}
    OBVIOUS
  <1>2. E!Min(S) \in S
    BY <1>1, Smallest
  <1> QED
    BY <1>1, <1>2 DEF E!EndOfLine

\* and a column of it is an offset there.
LEMMA OffsetsAreInLine ==
    ASSUME NEW t, Len(t) \in Nat, NEW start \in 0 .. Len(t), NEW col \in Nat
    PROVE  E!offset_in_line(t, start, col) \in start .. Len(t)
  <1> DEFINE m == start + col
             n == E!EndOfLine(t, start)
  <1>1. m \in Nat /\ n \in start .. Len(t) /\ n \in Nat /\ m >= start
    BY LinesEnd
  <1> HIDE DEF m, n
  <1>2. E!Min({m, n}) \in {m, n} /\ E!Min({m, n}) <= n
    BY <1>1, OfTwo
  <1>3. E!Min({m, n}) \in start .. Len(t)
    BY <1>1, <1>2
  <1> QED
    BY <1>3 DEF E!offset_in_line, m, n

\* The run of characters of one class that ends, and that begins, at a place.
LEMMA RunsStart ==
    ASSUME NEW t, NEW j \in Nat
    PROVE  E!RunStart(t, j) \in 0 .. j
  <1> DEFINE Whole(i) == \A k \in i + 1 .. j : E!Class(t[k]) = E!Class(t[j])
             S == {i \in 0 .. j : Whole(i)}
  <1>1. j \in S /\ S \in SUBSET Nat
    OBVIOUS
  <1>2. PICK i \in S : \A n \in S : i <= n
    BY <1>1, Least
  <1>3. i > 0 => E!Class(t[i]) # E!Class(t[j])
    <2> SUFFICES ASSUME i > 0, E!Class(t[i]) = E!Class(t[j]) PROVE FALSE
      OBVIOUS
    <2>1. i - 1 \in 0 .. j /\ \A k \in (i - 1) + 1 .. j : k = i \/ k \in i + 1 .. j
      BY <1>2
    <2>2. Whole(i - 1)
      BY <1>2, <2>1
    <2>3. i - 1 \in S
      BY <2>1, <2>2
    <2> QED
      BY <1>2, <2>3
  <1>4. \E x \in 0 .. j : Whole(x) /\ (x > 0 => E!Class(t[x]) # E!Class(t[j]))
    BY <1>2, <1>3
  <1> HIDE DEF Whole
  <1>5. (CHOOSE x \in 0 .. j : Whole(x) /\ (x > 0 => E!Class(t[x]) # E!Class(t[j]))) \in 0 .. j
    BY <1>4
  <1> QED
    BY <1>5 DEF E!RunStart, Whole

\* A run of characters ends behind its start and inside of the text,
LEMMA RunsEnd ==
    ASSUME NEW t, Len(t) \in Nat, NEW i \in 0 .. Len(t)
    PROVE  E!RunEnd(t, i) \in i .. Len(t)
  <1> DEFINE Whole(j) == \A k \in i + 1 .. j : E!Class(t[k]) = E!Class(t[i + 1])
             S == {j \in i .. Len(t) : Whole(j)}
  <1>1. i \in S /\ S \in SUBSET (0 .. Len(t)) /\ S # {}
    OBVIOUS
  <1> DEFINE m == E!Max(S)
  <1>2. m \in S /\ \A n \in S : n <= m
    BY <1>1, Greatest
  <1> HIDE DEF m
  <1>3. m < Len(t) => E!Class(t[m + 1]) # E!Class(t[i + 1])
    <2> SUFFICES ASSUME m < Len(t), E!Class(t[m + 1]) = E!Class(t[i + 1]) PROVE FALSE
      OBVIOUS
    <2>1. m + 1 \in i .. Len(t) /\ \A k \in i + 1 .. m + 1 : k = m + 1 \/ k \in i + 1 .. m
      BY <1>2
    <2>2. Whole(m + 1)
      BY <1>2, <2>1
    <2>3. m + 1 \in S
      BY <2>1, <2>2
    <2> QED
      BY <1>2, <2>1, <2>3
  <1>4. \E x \in i .. Len(t) : Whole(x) /\ (x < Len(t) => E!Class(t[x + 1]) # E!Class(t[i + 1]))
    BY <1>2, <1>3
  <1> HIDE DEF Whole
  <1>5. (CHOOSE x \in i .. Len(t) :
            Whole(x) /\ (x < Len(t) => E!Class(t[x + 1]) # E!Class(t[i + 1]))) \in i .. Len(t)
    BY <1>4
  <1> QED
    BY <1>5 DEF E!RunEnd, Whole

\* and the words around an offset are to its left and its right.
LEMMA WordsAreAround ==
    ASSUME NEW t, Len(t) \in Nat, NEW c \in 0 .. Len(t)
    PROVE  /\ E!word_left_from(t, c) \in 0 .. c
           /\ E!word_right_from(t, c) \in c .. Len(t)
  <1>1. E!word_left_from(t, c) \in 0 .. c
    <2> DEFINE i == IF c > 0 /\ t[c] \in E!Blank THEN E!RunStart(t, c) ELSE c
    <2>1. i \in 0 .. c
      BY RunsStart
    <2> HIDE DEF i
    <2>2. i # 0 => E!RunStart(t, i) \in 0 .. c
      BY <2>1, RunsStart
    <2>3. (IF i = 0 THEN 0 ELSE E!RunStart(t, i)) \in 0 .. c
      BY <2>2
    <2> QED
      BY <2>3 DEF E!word_left_from, i
  <1>2. E!word_right_from(t, c) \in c .. Len(t)
    <2> DEFINE i == IF c < Len(t) /\ t[c + 1] \in E!Blank THEN E!RunEnd(t, c) ELSE c
    <2>1. i \in c .. Len(t)
      BY RunsEnd
    <2> HIDE DEF i
    <2>2. i # Len(t) => E!RunEnd(t, i) \in c .. Len(t)
      BY <2>1, RunsEnd
    <2>3. (IF i = Len(t) THEN i ELSE E!RunEnd(t, i)) \in c .. Len(t)
      BY <2>1, <2>2
    <2> QED
      BY <2>3 DEF E!word_right_from, i
  <1> QED
    BY <1>1, <1>2

-----------------------------------------------------------------------------
(* The buffer: texts that are cut and joined.                              *)

\* What is between two places, character by character.
LEMMA Between ==
    ASSUME NEW S, NEW t \in Seq(S), NEW m \in Nat \ {0}, NEW n \in Nat, n <= Len(t), m <= n + 1
    PROVE  /\ SubSeq(t, m, n) \in Seq(S) /\ Len(SubSeq(t, m, n)) = (n + 1) - m
           /\ \A i \in 1 .. (n + 1) - m : SubSeq(t, m, n)[i] = t[(m + i) - 1]
  <1>1. m \in Int /\ n \in Int /\ \A i \in m .. n : t[i] \in S
    <2>1. \A i \in m .. n : i \in 1 .. Len(t)
      OBVIOUS
    <2> QED
      BY <2>1, ElementOfSeq
  <1> DEFINE b == SubSeq(t, m, n)
  <1>2. b \in Seq(S)
    BY <1>1, SubSeqProperties
  <1>3. Len(b) = IF m <= n THEN n - m + 1 ELSE 0
    BY <1>1, SubSeqProperties
  <1>4. \A i \in 1 .. n - m + 1 : b[i] = t[m + i - 1]
    BY <1>1, SubSeqProperties
  <1> HIDE DEF b
  <1>5. n - m + 1 = (n + 1) - m
    OBVIOUS
  <1>6. b \in Seq(S) /\ Len(b) = (n + 1) - m
    BY <1>2, <1>3
  <1>7. \A i \in 1 .. (n + 1) - m : b[i] = t[(m + i) - 1]
    BY <1>4, <1>5
  <1> QED
    BY <1>6, <1>7 DEF b

\* What has the characters of a stretch of a text is that stretch.
LEMMA IsBetween ==
    ASSUME NEW S, NEW t \in Seq(S), NEW m \in Nat \ {0}, NEW n \in Nat, n <= Len(t), m <= n + 1,
           NEW b \in Seq(S), Len(b) = (n + 1) - m,
           \A i \in 1 .. Len(b) : b[i] = t[(m + i) - 1]
    PROVE  SubSeq(t, m, n) = b
  <1> DEFINE a == SubSeq(t, m, n)
  <1>1. a \in Seq(S) /\ Len(a) = Len(b) /\ \A i \in 1 .. Len(a) : a[i] = b[i]
    BY Between
  <1> HIDE DEF a
  <1>2. a = b
    BY <1>1, SeqEqual
  <1> QED
    BY <1>2 DEF a

\* A text before a place, and behind it.
LEMMA Halves ==
    ASSUME NEW S, NEW t \in Seq(S), NEW i \in 0 .. Len(t)
    PROVE  /\ SubSeq(t, 1, i) \in Seq(S) /\ Len(SubSeq(t, 1, i)) = i
           /\ SubSeq(t, i + 1, Len(t)) \in Seq(S) /\ Len(SubSeq(t, i + 1, Len(t))) = Len(t) - i
  <1>1. Len(t) \in Nat /\ i \in Nat /\ i <= Len(t) /\ 1 <= i + 1 /\ i + 1 <= Len(t) + 1
    OBVIOUS
  <1>2. SubSeq(t, 1, i) \in Seq(S) /\ Len(SubSeq(t, 1, i)) = (i + 1) - 1
    BY <1>1, Between
  <1>3. /\ SubSeq(t, i + 1, Len(t)) \in Seq(S)
        /\ Len(SubSeq(t, i + 1, Len(t))) = (Len(t) + 1) - (i + 1)
    BY <1>1, Between
  <1>4. (i + 1) - 1 = i /\ (Len(t) + 1) - (i + 1) = Len(t) - i
    BY <1>1
  <1> QED
    BY <1>2, <1>3, <1>4

\* A sequence behind which something is put.
LEMMA Longer ==
    ASSUME NEW S, NEW seq \in Seq(S), NEW e \in S
    PROVE  /\ Append(seq, e) \in Seq(S) /\ Append(seq, e) # <<>>
           /\ Len(Append(seq, e)) = Len(seq) + 1
           /\ E!Last(Append(seq, e)) = e /\ E!Front(Append(seq, e)) = seq
  <1> DEFINE l == Append(seq, e)
  <1>1. l \in Seq(S) /\ l # <<>> /\ Len(l) = Len(seq) + 1 /\ l[Len(seq) + 1] = e
    BY AppendProperties
  <1>2. \A i \in 1 .. Len(seq) : l[i] = seq[i]
    BY AppendProperties
  <1>3. Len(seq) \in Nat
    OBVIOUS
  <1> HIDE DEF l
  <1>4. (Len(seq) + 1) - 1 = Len(seq) /\ \A i \in 1 .. Len(seq) : (1 + i) - 1 = i
    BY <1>3
  <1>5. SubSeq(l, 1, Len(seq)) = seq
    <2>1. Len(seq) <= Len(l) /\ 1 <= Len(seq) + 1 /\ Len(seq) = (Len(seq) + 1) - 1
      BY <1>1, <1>3
    <2>2. \A i \in 1 .. Len(seq) : seq[i] = l[(1 + i) - 1]
      BY <1>2, <1>4
    <2> QED
      BY <1>1, <1>3, <2>1, <2>2, IsBetween
  <1> QED
    BY <1>1, <1>4, <1>5 DEF l, E!Last, E!Front

-----------------------------------------------------------------------------
(* The buffer: what an undo takes back.                                    *)

\* What the texts are made of, and what undo and redo return to.
Character == Typed \cup {"word", "dot", "space", "break"}
Snap == {s \in [text : Seq(Character), cursor : Nat] : s.cursor <= Len(s.text)}

\* A text of three pieces.
Pieces(t, a, b, d) ==
    /\ t \in Seq(Character) /\ Len(t) = Len(a) + Len(b) + Len(d)
    /\ SubSeq(t, 1, Len(a) + Len(b)) = a \o b
    /\ SubSeq(t, Len(a) + 1, Len(a) + Len(b)) = b
    /\ SubSeq(t, Len(a) + Len(b) + 1, Len(t)) = d

\* A text made of three is its three pieces.
LEMMA ThreePieces ==
    ASSUME NEW a \in Seq(Character), NEW b \in Seq(Character), NEW d \in Seq(Character),
           NEW t, t = a \o b \o d
    PROVE  Pieces(t, a, b, d)
  <1> DEFINE la == Len(a)
             lb == Len(b)
             ld == Len(d)
             u == a \o b
  <1>1. la \in Nat /\ lb \in Nat /\ ld \in Nat
    OBVIOUS
  <1>2. /\ u \in Seq(Character) /\ Len(u) = la + lb
        /\ \A i \in 1 .. la + lb : u[i] = IF i <= la THEN a[i] ELSE b[i - la]
    BY ConcatProperties
  <1>3. t = u \o d
    OBVIOUS
  <1> HIDE DEF u
  <1>4. /\ t \in Seq(Character) /\ Len(t) = Len(u) + ld
        /\ \A i \in 1 .. Len(u) + ld : t[i] = IF i <= Len(u) THEN u[i] ELSE d[i - Len(u)]
    <2>1. u \in Seq(Character) /\ d \in Seq(Character)
      BY <1>2
    <2>2. u \o d \in Seq(Character)
      BY <2>1, ConcatProperties
    <2>3. Len(u \o d) = Len(u) + ld
      BY <2>1, ConcatProperties
    <2>4. \A i \in 1 .. Len(u) + ld :
            (u \o d)[i] = IF i <= Len(u) THEN u[i] ELSE d[i - Len(u)]
      BY <2>1, ConcatProperties
    <2> QED
      BY <1>3, <2>2, <2>3, <2>4
  <1>5. Len(t) = la + lb + ld
    BY <1>1, <1>2, <1>4
  <1>6. SubSeq(t, 1, la + lb) = u
    <2>1. \A i \in 1 .. Len(u) : u[i] = t[(1 + i) - 1]
      BY <1>1, <1>2, <1>4
    <2>2. Len(u) = ((la + lb) + 1) - 1 /\ la + lb \in Nat /\ la + lb <= Len(t) /\ 1 <= (la + lb) + 1
      BY <1>1, <1>2, <1>5
    <2> QED
      BY <1>2, <1>4, <2>1, <2>2, IsBetween
  <1>7. SubSeq(t, la + 1, la + lb) = b
    <2> HIDE DEF la, lb, ld
    <2>1. \A i \in 1 .. lb : b[i] = t[((la + 1) + i) - 1]
      <3> TAKE i \in 1 .. lb
      <3>1. /\ ((la + 1) + i) - 1 = la + i /\ la + i \in 1 .. la + lb /\ (la + i) - la = i
            /\ ~(la + i <= la) /\ la + i \in 1 .. Len(u) + ld /\ la + i <= Len(u)
        BY <1>1, <1>2
      <3>2. t[la + i] = u[la + i]
        BY <1>4, <3>1
      <3>3. u[la + i] = b[i]
        BY <1>2, <3>1
      <3> QED
        BY <3>1, <3>2, <3>3
    <2>2. /\ lb = ((la + lb) + 1) - (la + 1) /\ la + lb \in Nat /\ la + lb <= Len(t)
          /\ la + 1 <= (la + lb) + 1 /\ la + 1 \in Nat \ {0} /\ Len(b) = lb
      BY <1>1, <1>2, <1>5 DEF lb
    <2> QED
      BY <1>4, <2>1, <2>2, IsBetween
  <1>8. SubSeq(t, la + lb + 1, Len(t)) = d
    <2> DEFINE m == la + lb
    <2>1. m \in Nat /\ m = Len(u) /\ Len(t) = m + ld /\ Len(t) \in Nat
      BY <1>1, <1>2, <1>4
    <2> HIDE DEF m, la, lb
    <2>2. \A i \in 1 .. ld : d[i] = t[((m + 1) + i) - 1]
      <3> HIDE DEF ld
      <3> TAKE i \in 1 .. ld
      <3>1. /\ ((m + 1) + i) - 1 = m + i /\ m + i \in 1 .. m + ld /\ (m + i) - m = i
            /\ ~(m + i <= m)
        BY <1>1, <2>1
      <3> QED
        BY <1>4, <2>1, <3>1
    <2>3. Len(d) = (Len(t) + 1) - (m + 1) /\ m + 1 \in Nat \ {0} /\ m + 1 <= Len(t) + 1
      BY <1>1, <2>1
    <2>4. SubSeq(t, m + 1, Len(t)) = d
      BY <1>4, <2>1, <2>2, <2>3, IsBetween
    <2> QED
      BY <2>4 DEF m
  <1> QED
    BY <1>4, <1>5, <1>6, <1>7, <1>8 DEF u, Pieces

\* One word, with the blanks that follow it.
IsWord(w) == \A i \in 1 .. Len(w) - 1 : w[i] \in E!Blank => w[i + 1] \in E!Blank

\* The word that was put between the halves of a snapshot; the next character starts
\* another one when this has ended in a blank, which the flag tells.
Inserted(s, t, c, space, w) ==
    /\ w \in Seq(Character) /\ c = s.cursor + Len(w)
    /\ t = SubSeq(s.text, 1, s.cursor) \o w \o SubSeq(s.text, s.cursor + 1, Len(s.text))
    /\ IsWord(w)
    /\ ~space /\ w # <<>> => w[Len(w)] \notin E!Blank

Edits == [text : Seq(Character), cursor : Nat, revision : Int, modified : BOOLEAN, goal : Int,
          past : Seq(Snap), future : Seq(Snap),
          last : {"none", "insert", "delete", "replace"}, space : BOOLEAN]

\* An editor as its operations leave it: the cursor is in the text, the goal is a column or
\* none, and a run of insertions has the snapshot that one undo returns to.
Good(e) ==
    /\ e \in Edits /\ e.cursor <= Len(e.text) /\ e.goal >= -1
    /\ e.last = "insert" =>
         /\ e.past # <<>>
         /\ \E w : Inserted(E!Last(e.past), e.text, e.cursor, e.space, w)

\* Any editor whose run of insertions has ended.
LEMMA EndsTheRun ==
    ASSUME NEW e \in Edits, e.cursor <= Len(e.text), e.goal >= -1, e.last # "insert"
    PROVE  Good(e)
  BY DEF Good

\* A move keeps the text and ends the run of insertions.
LEMMA Moves ==
    ASSUME NEW e, Good(e), NEW i \in 0 .. Len(e.text), NEW g \in Int, g >= -1
    PROVE  Good([e EXCEPT !.cursor = i, !.last = "none", !.goal = g])
  <1> DEFINE r == [e EXCEPT !.cursor = i, !.last = "none", !.goal = g]
  <1>1. e \in Edits /\ i \in Nat
    BY DEF Good
  <1>2. r \in Edits /\ r.cursor = i /\ r.text = e.text /\ r.goal = g /\ r.last = "none"
    BY <1>1 DEF Edits
  <1>3. i <= Len(e.text)
    OBVIOUS
  <1> HIDE DEF r
  <1>4. Good(r)
    BY <1>2, <1>3, EndsTheRun
  <1> QED
    BY <1>4 DEF r

\* So do moves to an offset,
LEMMA ToMoves ==
    ASSUME NEW e, Good(e), NEW i \in 0 .. Len(e.text)
    PROVE  Good(E!To(e, i))
  <1>1. -1 \in Int /\ -1 >= -1
    OBVIOUS
  <1>2. Good([e EXCEPT !.cursor = i, !.last = "none", !.goal = -1])
    BY <1>1, Moves
  <1> QED
    BY <1>2 DEF E!To

\* to an offset that is clamped,
LEMMA SetCursorMoves ==
    ASSUME NEW e, Good(e), NEW i \in Nat
    PROVE  Good(E!set_cursor(e, i))
  <1>1. Len(e.text) \in Nat
    BY DEF Good, Edits
  <1>2. E!Min({i, Len(e.text)}) \in {i, Len(e.text)} /\ E!Min({i, Len(e.text)}) <= Len(e.text)
    BY <1>1, OfTwo
  <1>3. E!Min({i, Len(e.text)}) \in 0 .. Len(e.text)
    BY <1>1, <1>2
  <1> QED
    BY <1>3, ToMoves DEF E!set_cursor

\* and to a line and a column of it.
LEMMA SetPositionMoves ==
    ASSUME NEW e, Good(e), NEW line \in Nat, NEW col \in Nat
    PROVE  Good(E!set_position(e, line, col))
  <1> DEFINE breaks == E!SelectInSeq(e.text, LAMBDA c : c = "break")
             start == IF line =< 1 THEN 0 ELSE IF breaks = 0 THEN Len(e.text) ELSE breaks
             m == E!Max({col - 1, 0})
             o == E!offset_in_line(e.text, start, m)
  <1>1. Len(e.text) \in Nat
    BY DEF Good, Edits
  <1>2. breaks \in 0 .. Len(e.text)
    <2> DEFINE S == {i \in 1 .. Len(e.text) : e.text[i] = "break"}
    <2>1. breaks = IF S # {} THEN E!Min(S) ELSE 0
      BY DEF E!SelectInSeq
    <2>2. S \in SUBSET Nat /\ S \in SUBSET (0 .. Len(e.text))
      OBVIOUS
    <2>3. S # {} => E!Min(S) \in S
      BY <2>2, Smallest
    <2>4. S # {} => E!Min(S) \in 0 .. Len(e.text)
      BY <2>3
    <2>5. 0 \in 0 .. Len(e.text)
      BY <1>1
    <2> HIDE DEF S, breaks
    <2> QED
      BY <2>1, <2>4, <2>5
  <1> HIDE DEF breaks
  <1>3. start \in 0 .. Len(e.text)
    BY <1>1, <1>2
  <1>4. m \in Nat
    <2>1. CASE col = 0
      <3>1. E!Max({-1, 0}) = 0
        <4>1. \E x \in {-1, 0} : \A y \in {-1, 0} : x >= y
          OBVIOUS
        <4>2. \A x \in {-1, 0} : (\A y \in {-1, 0} : x >= y) => x = 0
          OBVIOUS
        <4> QED
          BY <4>1, <4>2 DEF E!Max
      <3>2. col - 1 = -1
        BY <2>1
      <3> QED
        BY <3>1, <3>2
    <2>2. CASE col # 0
      <3>1. col - 1 \in Nat /\ 0 \in Nat
        BY <2>2
      <3> QED
        BY <3>1, OfTwo
    <2> QED
      BY <2>1, <2>2
  <1> HIDE DEF start, m
  <1>5. o \in start .. Len(e.text)
    BY <1>1, <1>3, <1>4, OffsetsAreInLine
  <1>6. o \in Nat
    BY <1>3, <1>5
  <1>7. Good(E!set_cursor(e, o))
    BY <1>6, SetCursorMoves
  <1> QED
    BY <1>7 DEF E!set_position, breaks, start, m

\* The column that moves up and down aim at is one,
LEMMA GoalIsAColumn ==
    ASSUME NEW e, Good(e)
    PROVE  E!Goal(e) \in Nat
  <1>1. e.goal \in Int /\ e.goal >= -1 /\ e.cursor \in Nat
    BY DEF Good, Edits
  <1>2. E!column(e) \in Nat
    BY <1>1, LinesAreAround
  <1> QED
    BY <1>1, <1>2 DEF E!Goal

\* so that a move up ends in the text,
LEMMA MoveUpMoves ==
    ASSUME NEW e, Good(e)
    PROVE  Good(E!move_up(e))
  <1> DEFINE start == E!line_start(e)
             before == [e EXCEPT !.cursor = start - 1]
             above == E!line_start(before)
             o == E!offset_in_line(e.text, above, E!Goal(e))
  <1>1. e \in Edits /\ e.cursor \in Nat /\ Len(e.text) \in Nat /\ e.cursor <= Len(e.text)
        /\ e.goal \in Int /\ e.goal >= -1
    BY DEF Good, Edits
  <1>2. start \in 0 .. e.cursor
    BY <1>1, LinesAreAround
  <1>3. E!Goal(e) \in Nat
    BY GoalIsAColumn
  <1> HIDE DEF start
  <1>4. CASE start = 0
    <2> DEFINE g == e.goal
    <2>4. g \in Int /\ g >= -1 /\ 0 \in 0 .. Len(e.text)
      BY <1>1
    <2> HIDE DEF g
    <2>5. Good([e EXCEPT !.cursor = 0, !.last = "none", !.goal = g])
      BY <2>4, Moves
    <2>1. Good([e EXCEPT !.cursor = 0, !.last = "none", !.goal = e.goal])
      BY <2>5 DEF g
    <2>2. [e EXCEPT !.cursor = 0, !.last = "none", !.goal = e.goal]
            = [e EXCEPT !.cursor = 0, !.last = "none"]
      BY <1>1 DEF Edits
    <2>3. E!move_up(e) = [e EXCEPT !.cursor = 0, !.last = "none"]
      BY <1>4 DEF E!move_up, start
    <2> QED
      BY <2>1, <2>2, <2>3
  <1>5. CASE start # 0
    <2>1. before.cursor = start - 1 /\ start - 1 \in Nat
      BY <1>1, <1>2, <1>5 DEF Edits
    <2> HIDE DEF before
    <2>2. above \in 0 .. before.cursor
      BY <2>1, LinesAreAround
    <2>3. above \in 0 .. Len(e.text)
      BY <1>1, <1>2, <2>1, <2>2
    <2> HIDE DEF above
    <2>4. o \in above .. Len(e.text)
      BY <1>1, <1>3, <2>3, OffsetsAreInLine
    <2>5. o \in 0 .. Len(e.text)
      BY <1>1, <2>3, <2>4
    <2> HIDE DEF o
    <2> DEFINE g == E!Goal(e)
    <2>6. g \in Int /\ g >= -1
      BY <1>3
    <2> HIDE DEF g
    <2>7. Good([e EXCEPT !.cursor = o, !.last = "none", !.goal = g])
      BY <2>5, <2>6, Moves
    <2> QED
      BY <1>5, <2>7 DEF E!move_up, start, before, above, o, g
  <1> QED
    BY <1>4, <1>5

\* and a move down.
LEMMA MoveDownMoves ==
    ASSUME NEW e, Good(e)
    PROVE  Good(E!move_down(e))
  <1> DEFINE end == E!line_end(e)
             o == E!offset_in_line(e.text, end + 1, E!Goal(e))
  <1>1. e \in Edits /\ e.cursor \in Nat /\ Len(e.text) \in Nat /\ e.cursor <= Len(e.text)
        /\ e.goal \in Int /\ e.goal >= -1
    BY DEF Good, Edits
  <1>2. end \in e.cursor .. Len(e.text)
    BY <1>1, LinesEnd DEF E!line_end
  <1>3. E!Goal(e) \in Nat
    BY GoalIsAColumn
  <1> HIDE DEF end
  <1>4. CASE end = Len(e.text)
    <2> DEFINE g == e.goal
    <2>4. g \in Int /\ g >= -1 /\ end \in 0 .. Len(e.text)
      BY <1>1, <1>4
    <2> HIDE DEF g
    <2>5. Good([e EXCEPT !.cursor = end, !.last = "none", !.goal = g])
      BY <2>4, Moves
    <2>1. Good([e EXCEPT !.cursor = end, !.last = "none", !.goal = e.goal])
      BY <2>5 DEF g
    <2>2. [e EXCEPT !.cursor = end, !.last = "none", !.goal = e.goal]
            = [e EXCEPT !.cursor = end, !.last = "none"]
      BY <1>1 DEF Edits
    <2>3. E!move_down(e) = [e EXCEPT !.cursor = end, !.last = "none"]
      BY <1>4 DEF E!move_down, end
    <2> QED
      BY <2>1, <2>2, <2>3
  <1>5. CASE end # Len(e.text)
    <2>1. end + 1 \in 0 .. Len(e.text)
      BY <1>1, <1>2, <1>5
    <2>2. o \in end + 1 .. Len(e.text)
      BY <1>1, <1>3, <2>1, OffsetsAreInLine
    <2>3. o \in 0 .. Len(e.text)
      BY <1>1, <2>1, <2>2
    <2> HIDE DEF o
    <2> DEFINE g == E!Goal(e)
    <2>4. g \in Int /\ g >= -1
      BY <1>3
    <2> HIDE DEF g
    <2>5. Good([e EXCEPT !.cursor = o, !.last = "none", !.goal = g])
      BY <2>3, <2>4, Moves
    <2> QED
      BY <1>5, <2>5 DEF E!move_down, end, o, g
  <1> QED
    BY <1>4, <1>5

\* A snapshot is taken, or the run goes on without one.
Recorded(e, r, kind, coalesce) ==
    \E p \in Seq(Snap) :
        /\ r = [e EXCEPT !.past = p, !.future = <<>>, !.last = kind]
        /\ coalesce => p = e.past
        /\ ~coalesce => p # <<>> /\ E!Last(p) = E!Snapshot(e)

\* Before an edit the text is remembered, unless the edit goes on with the last one.
LEMMA Records ==
    ASSUME NEW e \in Edits, e.cursor <= Len(e.text), NEW coalesce \in BOOLEAN,
           NEW kind \in {"insert", "delete", "replace"}
    PROVE  Recorded(e, E!record(e, kind, coalesce), kind, coalesce)
  <1> DEFINE snap == E!Snapshot(e)
             past == Append(e.past, snap)
             p == IF coalesce THEN e.past ELSE IF Len(past) > HistoryLimit THEN Tail(past) ELSE past
  <1>1. e.past \in Seq(Snap) /\ snap \in Snap
    BY DEF Edits, E!Snapshot, Snap
  <1> HIDE DEF snap
  <1>2. past \in Seq(Snap) /\ past # <<>> /\ E!Last(past) = snap /\ Len(past) = Len(e.past) + 1
    BY <1>1, Longer
  <1>3. Len(past) > HistoryLimit =>
            Tail(past) \in Seq(Snap) /\ Tail(past) # <<>> /\ E!Last(Tail(past)) = snap
    <2> HAVE Len(past) > HistoryLimit
    <2>1. HistoryLimit >= 1 /\ HistoryLimit \in Nat /\ Len(e.past) \in Nat
      BY <1>1, WorkspaceAssumption
    <2>2. e.past # <<>>
      <3>1. Len(e.past) # 0
        BY <1>2, <2>1
      <3> QED
        BY <1>1, <3>1, EmptySeq
    <2>3. Tail(e.past) \in Seq(Snap)
      BY <1>1, <2>2, HeadTailProperties
    <2>4. Tail(past) = Append(Tail(e.past), snap)
      BY <1>1, <2>2, HeadTailAppend
    <2> DEFINE rest == Tail(e.past)
    <2> HIDE DEF rest
    <2>5. rest \in Seq(Snap) /\ Tail(past) = Append(rest, snap)
      BY <2>3, <2>4 DEF rest
    <2> HIDE DEF past
    <2>6. Append(rest, snap) \in Seq(Snap) /\ Append(rest, snap) # <<>>
      BY <1>1, <2>5, Longer
    <2>7. E!Last(Append(rest, snap)) = snap
      BY <1>1, <2>5, Longer
    <2> QED
      BY <2>5, <2>6, <2>7
  <1> HIDE DEF past
  <1>4. p \in Seq(Snap) /\ (coalesce => p = e.past)
    BY <1>1, <1>2, <1>3
  <1>5. ~coalesce => p # <<>> /\ E!Last(p) = snap
    BY <1>2, <1>3
  <1>6. E!record(e, kind, coalesce) = [e EXCEPT !.past = p, !.future = <<>>, !.last = kind]
    BY DEF E!record, p, past, snap
  <1> HIDE DEF p
  <1> QED
    BY <1>4, <1>5, <1>6 DEF Recorded, snap

\* The editor that an edit leaves.
Rewritten(e, r, kind, coalesce, space, i, j, new) ==
    /\ r \in Edits /\ r.goal = -1 /\ r.last = kind /\ r.space = space
    /\ r.text = SubSeq(e.text, 1, i) \o new \o SubSeq(e.text, j + 1, Len(e.text))
    /\ r.cursor = i + Len(new) /\ r.cursor <= Len(r.text)
    /\ coalesce => r.past = e.past
    /\ ~coalesce => r.past # <<>> /\ E!Last(r.past) = E!Snapshot(e)

\* What an edit leaves: the stretch replaced, the cursor behind it, and a snapshot of before,
LEMMA EditsLeave ==
    ASSUME NEW e \in Edits, e.cursor <= Len(e.text), NEW coalesce \in BOOLEAN,
           NEW space \in BOOLEAN, NEW kind \in {"insert", "delete", "replace"},
           NEW last \in {kind, "none"},
           NEW i \in Nat, NEW j \in Nat, i <= j, j <= Len(e.text), NEW new \in Seq(Character)
    PROVE  Rewritten(e, E!after_edit([E!Replaced([E!record(e, kind, coalesce)
                                                    EXCEPT !.space = space],
                                                 i, j, new) EXCEPT !.last = last]),
                     last, coalesce, space, i, j, new)
  <1> DEFINE a == SubSeq(e.text, 1, i)
             d == SubSeq(e.text, j + 1, Len(e.text))
             t == a \o new \o d
             c == i + Len(new)
             q == E!Replaced([E!record(e, kind, coalesce) EXCEPT !.space = space], i, j, new)
             r == E!after_edit([q EXCEPT !.last = last])
  <1>1. e.text \in Seq(Character) /\ i \in 0 .. Len(e.text) /\ j \in 0 .. Len(e.text)
    BY DEF Edits
  <1>2. a \in Seq(Character) /\ d \in Seq(Character) /\ Len(a) = i
    BY <1>1, Halves
  <1> HIDE DEF a, d
  <1>3. t \in Seq(Character) /\ Len(t) = Len(a) + Len(new) + Len(d)
    <2> HIDE DEF t
    <2>1. t = a \o new \o d
      BY DEF t
    <2>2. Pieces(t, a, new, d)
      BY <1>2, <2>1, ThreePieces
    <2> QED
      BY <2>2 DEF Pieces
  <1>4. c \in Nat /\ c <= Len(t)
    <2>1. Len(new) \in Nat /\ Len(d) \in Nat
      BY <1>2
    <2> QED
      BY <1>2, <1>3, <2>1
  <1> HIDE DEF t, c
  <1>5. PICK p \in Seq(Snap) :
          /\ E!record(e, kind, coalesce) = [e EXCEPT !.past = p, !.future = <<>>, !.last = kind]
          /\ coalesce => p = e.past
          /\ ~coalesce => p # <<>> /\ E!Last(p) = E!Snapshot(e)
    <2>1. Recorded(e, E!record(e, kind, coalesce), kind, coalesce)
      BY Records
    <2> QED
      BY <2>1 DEF Recorded
  <1> DEFINE v == e.revision + 1
             f == <<>>
             m == TRUE
             g == -1
  <1>6. v \in Int /\ f \in Seq(Snap) /\ m \in BOOLEAN /\ g \in Int
    BY EmptySeq DEF Edits
  <1>7. q = [e EXCEPT !.past = p, !.future = f, !.last = kind, !.space = space,
                      !.text = t, !.cursor = c]
    BY <1>5 DEF E!Replaced, Edits, a, d, t, c
  <1> HIDE DEF q
  <1>8. q.revision = e.revision
    BY <1>7 DEF Edits
  <1>9. r = [q EXCEPT !.last = last, !.modified = m, !.goal = g, !.revision = v]
    BY <1>8 DEF E!after_edit
  <1> HIDE DEF v, f, m, r
  <1>10. q \in Edits
    BY <1>3, <1>4, <1>5, <1>6, <1>7 DEF Edits
  <1>11. r \in Edits
    BY <1>6, <1>9, <1>10 DEF Edits
  <1>12. /\ q.past = p /\ q.space = space /\ q.text = t /\ q.cursor = c
    BY <1>7 DEF Edits
  <1>13. /\ r.past = p /\ r.space = space /\ r.text = t /\ r.cursor = c
         /\ r.last = last /\ r.goal = g
    BY <1>9, <1>10, <1>12 DEF Edits
  <1> HIDE DEF g
  <1>14. Rewritten(e, r, last, coalesce, space, i, j, new)
    BY <1>4, <1>5, <1>11, <1>13 DEF Rewritten, t, c, a, d, g
  <1> QED
    BY <1>14 DEF r, q

\* An edit that goes behind a snapshot of its own.
LEMMA StartsARun ==
    ASSUME NEW e, Good(e), NEW r, NEW space, NEW new \in Seq(Character),
           Rewritten(e, r, "insert", FALSE, space, e.cursor, e.cursor, new),
           IsWord(new), ~space /\ new # <<>> => new[Len(new)] \notin E!Blank
    PROVE  Good(r)
  <1>1. /\ r \in Edits /\ r.goal >= -1 /\ r.cursor <= Len(r.text) /\ r.past # <<>>
        /\ E!Last(r.past) = E!Snapshot(e) /\ r.space = space /\ r.last = "insert"
        /\ r.text = SubSeq(e.text, 1, e.cursor) \o new
                      \o SubSeq(e.text, e.cursor + 1, Len(e.text))
        /\ r.cursor = e.cursor + Len(new)
    <2> DEFINE n == Len(new)
               t == SubSeq(e.text, 1, e.cursor) \o new
                      \o SubSeq(e.text, e.cursor + 1, Len(e.text))
               s == E!Snapshot(e)
               l == E!Last(r.past)
    <2>1. r \in Edits /\ r.goal = -1 /\ r.last = "insert" /\ r.space = space
      BY DEF Rewritten
    <2>2. r.text = t
      BY DEF Rewritten
    <2>3. r.cursor = e.cursor + n
      BY DEF Rewritten
    <2>4. r.cursor <= Len(r.text)
      BY DEF Rewritten
    <2>5. r.past # <<>>
      BY DEF Rewritten
    <2>6. l = s
      BY DEF Rewritten
    <2> HIDE DEF n, t, s, l
    <2>7. r.goal >= -1
      BY <2>1
    <2> QED
      BY <2>1, <2>2, <2>3, <2>4, <2>5, <2>6, <2>7 DEF n, t, s, l
  <1>2. Inserted(E!Snapshot(e), r.text, r.cursor, r.space, new)
    BY <1>1 DEF Inserted, E!Snapshot
  <1> QED
    BY <1>1, <1>2 DEF Good

\* A character that goes on with the word, or with the blanks behind it.
LEMMA GoesOn ==
    ASSUME NEW e, Good(e), e.last = "insert", NEW c \in Character, NEW space, NEW r,
           ~(e.space /\ c \notin E!Blank), ~space => c \notin E!Blank,
           Rewritten(e, r, "insert", TRUE, space, e.cursor, e.cursor, <<c>>)
    PROVE  Good(r)
  <1> DEFINE s == E!Last(e.past)
  <1>1. PICK w : Inserted(s, e.text, e.cursor, e.space, w)
    BY DEF Good
  <1>2. s \in Snap
    <2>1. e.past \in Seq(Snap) /\ e.past # <<>>
      BY DEF Good, Edits
    <2>2. Len(e.past) \in 1 .. Len(e.past)
      BY <2>1, EmptySeq
    <2> QED
      BY <2>1, <2>2, ElementOfSeq DEF E!Last
  <1> DEFINE a == SubSeq(s.text, 1, s.cursor)
             d == SubSeq(s.text, s.cursor + 1, Len(s.text))
             more == Append(w, c)
  <1> HIDE DEF s
  <1>3. s.text \in Seq(Character) /\ s.cursor \in 0 .. Len(s.text)
    BY <1>2 DEF Snap
  <1>4. a \in Seq(Character) /\ d \in Seq(Character) /\ Len(a) = s.cursor
    BY <1>3, Halves
  <1>5. /\ w \in Seq(Character) /\ e.cursor = Len(a) + Len(w) /\ e.text = a \o w \o d
        /\ IsWord(w) /\ (~e.space /\ w # <<>> => w[Len(w)] \notin E!Blank)
    BY <1>1, <1>4 DEF Inserted
  <1> HIDE DEF a, d
  <1>6. /\ SubSeq(e.text, 1, e.cursor) = a \o w
        /\ SubSeq(e.text, e.cursor + 1, Len(e.text)) = d
    <2> DEFINE t == e.text
    <2> HIDE DEF t
    <2>1. t = a \o w \o d
      BY <1>5 DEF t
    <2>2. Pieces(t, a, w, d)
      <3>1. w \in Seq(Character)
        BY <1>5
      <3> QED
        BY <1>4, <2>1, <3>1, ThreePieces
    <2>3. /\ SubSeq(t, 1, Len(a) + Len(w)) = a \o w
          /\ SubSeq(t, Len(a) + Len(w) + 1, Len(t)) = d
      BY <2>2 DEF Pieces
    <2> QED
      BY <1>5, <2>3 DEF t
  <1>7. /\ r \in Edits /\ r.goal >= -1 /\ r.cursor <= Len(r.text) /\ r.past = e.past
        /\ r.space = space /\ r.cursor = e.cursor + Len(<<c>>)
        /\ r.text = (a \o w) \o <<c>> \o d
    <2> DEFINE n == Len(<<c>>)
               t == (a \o w) \o <<c>> \o d
    <2>1. r \in Edits /\ r.goal = -1 /\ r.space = space
      BY DEF Rewritten
    <2>2. r.text = t
      BY <1>6 DEF Rewritten
    <2>3. r.cursor = e.cursor + n
      BY DEF Rewritten
    <2>4. r.cursor <= Len(r.text)
      BY DEF Rewritten
    <2>5. r.past = e.past
      BY DEF Rewritten
    <2> HIDE DEF n, t
    <2>6. r.goal >= -1
      BY <2>1
    <2> QED
      BY <2>1, <2>2, <2>3, <2>4, <2>5, <2>6 DEF n, t
  <1>8. /\ more \in Seq(Character) /\ more # <<>> /\ Len(more) = Len(w) + 1
        /\ more[Len(w) + 1] = c /\ \A i \in 1 .. Len(w) : more[i] = w[i]
    BY <1>5, AppendProperties
  <1>9. more = w \o <<c>> /\ <<c>> \in Seq(Character) /\ Len(<<c>>) = 1
    BY <1>5, AppendIsConcat
  <1>10. r.text = a \o more \o d
    <2>1. w \in Seq(Character) /\ <<c>> \in Seq(Character)
      BY <1>5, <1>9
    <2>2. (a \o w) \o <<c>> = a \o (w \o <<c>>)
      BY <1>4, <2>1, ConcatAssociative
    <2> QED
      BY <1>7, <1>9, <2>2
  <1> HIDE DEF more
  <1>11. IsWord(more)
    <2>1. Len(w) \in Nat
      BY <1>5
    <2>2. ASSUME NEW i \in 1 .. Len(more) - 1, more[i] \in E!Blank
          PROVE  more[i + 1] \in E!Blank
      <3>1. CASE i = Len(w)
        <4>1. w # <<>> /\ w[Len(w)] \in E!Blank
          <5>1. i \in 1 .. Len(w) /\ Len(w) # 0
            BY <1>8, <2>1, <2>2, <3>1
          <5> QED
            BY <1>8, <2>2, <3>1, <5>1, EmptySeq
        <4>2. e.space
          BY <1>5, <4>1 DEF Good, Edits
        <4> QED
          BY <1>8, <3>1, <4>2
      <3>2. CASE i # Len(w)
        <4>1. i \in 1 .. Len(w) - 1 /\ i \in 1 .. Len(w) /\ i + 1 \in 1 .. Len(w)
          BY <1>8, <2>1, <3>2
        <4> QED
          BY <1>5, <1>8, <2>2, <4>1 DEF IsWord
      <3> QED
        BY <3>1, <3>2
    <2> QED
      BY <2>2 DEF IsWord
  <1>12. Inserted(s, r.text, r.cursor, r.space, more)
    <2>1. r.cursor = s.cursor + Len(more)
      <3>1. Len(w) \in Nat /\ Len(a) \in Nat
        BY <1>4, <1>5
      <3> QED
        BY <1>4, <1>5, <1>7, <1>8, <1>9, <3>1
    <2>2. ~r.space => more[Len(more)] \notin E!Blank
      BY <1>7, <1>8
    <2> QED
      BY <1>8, <1>10, <1>11, <2>1, <2>2 DEF Inserted, a, d
  <1>13. r.past # <<>> /\ E!Last(r.past) = s
    BY <1>7 DEF Good, s
  <1> QED
    BY <1>7, <1>12, <1>13 DEF Good

\* or, as the last edit of its kind, that kind to be gone on with.
LEMMA EditsLeaveTheirKind ==
    ASSUME NEW e \in Edits, e.cursor <= Len(e.text), NEW coalesce \in BOOLEAN,
           NEW space \in BOOLEAN, NEW kind \in {"insert", "delete", "replace"},
           NEW i \in Nat, NEW j \in Nat, i <= j, j <= Len(e.text), NEW new \in Seq(Character)
    PROVE  Rewritten(e, E!after_edit(E!Replaced([E!record(e, kind, coalesce)
                                                   EXCEPT !.space = space], i, j, new)),
                     kind, coalesce, space, i, j, new)
  <1> DEFINE b == [E!record(e, kind, coalesce) EXCEPT !.space = space]
             q == E!Replaced(b, i, j, new)
  <1>1. PICK p : E!record(e, kind, coalesce) = [e EXCEPT !.past = p, !.future = <<>>, !.last = kind]
    <2>1. Recorded(e, E!record(e, kind, coalesce), kind, coalesce)
      BY Records
    <2> QED
      BY <2>1 DEF Recorded
  <1>2. b = [e EXCEPT !.past = p, !.future = <<>>, !.last = kind, !.space = space]
    BY <1>1 DEF Edits
  <1> DEFINE t == SubSeq(b.text, 1, i) \o new \o SubSeq(b.text, j + 1, Len(b.text))
             c == i + Len(new)
  <1>3. q = [b EXCEPT !.text = t, !.cursor = c]
    BY DEF E!Replaced
  <1> HIDE DEF b, t, c
  <1>4. q = [q EXCEPT !.last = kind]
    BY <1>2, <1>3 DEF Edits
  <1>5. kind \in {kind, "none"}
    OBVIOUS
  <1>6. Rewritten(e, E!after_edit([E!Replaced(b, i, j, new) EXCEPT !.last = kind]),
               kind, coalesce, space, i, j, new)
    BY <1>5, EditsLeave DEF b
  <1> QED
    BY <1>4, <1>6 DEF b

\* A word of one kind of character only is one word.
LEMMA BlanksAreAWord ==
    ASSUME NEW w \in Seq(E!Blank)
    PROVE  IsWord(w)
  <1>1. Len(w) \in Nat
    OBVIOUS
  <1>2. \A i \in 1 .. Len(w) - 1 : i + 1 \in 1 .. Len(w)
    BY <1>1
  <1>3. \A i \in 1 .. Len(w) : w[i] \in E!Blank
    BY ElementOfSeq
  <1> QED
    BY <1>2, <1>3 DEF IsWord

\* A character that is typed starts a word, goes on with one, or ends it.
LEMMA InsertKeepsGood ==
    ASSUME NEW e, Good(e), NEW c \in Character
    PROVE  Good(E!insert(e, c))
  <1> DEFINE starts == e.space /\ c \notin E!Blank
             coalesce == e.last = "insert" /\ ~starts
             space == c \in E!Blank
             new == <<c>>
             r == E!insert(e, c)
  <1>1. /\ e \in Edits /\ e.cursor \in Nat /\ e.cursor <= Len(e.text) /\ e.space \in BOOLEAN
    BY DEF Good, Edits
  <1>2. coalesce \in BOOLEAN /\ space \in BOOLEAN /\ "insert" \in {"insert", "delete", "replace"}
    OBVIOUS
  <1>3. new \in Seq(Character) /\ Len(new) = 1 /\ new[1] = c
    OBVIOUS
  <1>4. r = E!after_edit(E!Replaced([E!record(e, "insert", coalesce) EXCEPT !.space = space],
                                    e.cursor, e.cursor, new))
    BY DEF E!insert
  <1>5. (e.space /\ c \notin E!Blank <=> starts) /\ (c \in E!Blank <=> space)
        /\ (coalesce <=> e.last = "insert" /\ ~starts)
    OBVIOUS
  <1> HIDE DEF starts, coalesce, space, r
  <1>6. e.cursor <= e.cursor
    BY <1>1
  <1>7. Rewritten(e, r, "insert", coalesce, space, e.cursor, e.cursor, new)
    <2> HIDE DEF new
    <2> QED
      BY <1>1, <1>2, <1>3, <1>4, <1>6, EditsLeaveTheirKind
  <1>8. CASE coalesce
    <2>1. coalesce = TRUE
      BY <1>2, <1>8
    <2>2. Rewritten(e, r, "insert", TRUE, space, e.cursor, e.cursor, <<c>>)
      BY <1>7, <2>1
    <2>3. e.last = "insert" /\ ~(e.space /\ c \notin E!Blank) /\ (~space => c \notin E!Blank)
      BY <1>5, <1>8
    <2> QED
      BY <2>2, <2>3, GoesOn DEF r
  <1>9. CASE ~coalesce
    <2>1. coalesce = FALSE
      BY <1>2, <1>9
    <2>2. Rewritten(e, r, "insert", FALSE, space, e.cursor, e.cursor, new)
      BY <1>7, <2>1
    <2>3. IsWord(new)
      BY <1>3 DEF IsWord
    <2>4. ~space /\ new # <<>> => new[Len(new)] \notin E!Blank
      BY <1>3, <1>5
    <2> HIDE DEF new
    <2>5. Good(r)
      BY <1>3, <2>2, <2>3, <2>4, StartsARun
    <2> QED
      BY <2>5 DEF r
  <1> QED
    BY <1>8, <1>9

\* A line's indentation is a number of blanks,
LEMMA IndentIsANumber ==
    ASSUME NEW e, Good(e)
    PROVE  E!Indent(e) \in Nat
  <1> DEFINE start == E!line_start(e)
             l == E!line_end(e) - start
             S == {l} \cup {i - 1 : i \in {j \in 1 .. l : e.text[start + j] # "space"}}
  <1>1. e.cursor \in Nat /\ Len(e.text) \in Nat /\ e.cursor <= Len(e.text)
    BY DEF Good, Edits
  <1>2. start \in 0 .. e.cursor /\ E!column(e) \in Nat
    BY <1>1, LinesAreAround
  <1>3. E!line_end(e) \in e.cursor .. Len(e.text)
    BY <1>1, LinesEnd DEF E!line_end
  <1>4. l \in Nat
    BY <1>1, <1>2, <1>3
  <1> HIDE DEF start, l
  <1>5. S \in SUBSET Nat /\ S # {}
    BY <1>4
  <1>6. E!Min(S) \in Nat
    BY <1>5, Smallest
  <1> DEFINE m == E!Min(S)
             n == E!column(e)
  <1>7. E!Indent(e) = E!Min({m, n})
    BY DEF E!Indent, start, l
  <1>8. m \in Nat /\ n \in Nat
    BY <1>2, <1>6
  <1> HIDE DEF m, n
  <1>9. E!Min({m, n}) \in {m, n}
    BY <1>8, OfTwo
  <1> QED
    BY <1>7, <1>8, <1>9

\* which a new line repeats.
LEMMA InsertNewlineKeepsGood ==
    ASSUME NEW e, Good(e)
    PROVE  Good(E!insert_newline(e))
  <1> DEFINE b == <<"break">>
             s == [i \in 1 .. E!Indent(e) |-> "space"]
             new == b \o s
             r == E!insert_newline(e)
  <1>1. e \in Edits /\ e.cursor \in Nat /\ e.cursor <= Len(e.text) /\ e.cursor <= e.cursor
    BY DEF Good, Edits
  <1>2. b \in Seq(E!Blank)
    BY DEF E!Blank
  <1>3. s \in Seq(E!Blank)
    <2>1. E!Indent(e) \in Nat /\ \A i \in 1 .. E!Indent(e) : "space" \in E!Blank
      BY IndentIsANumber DEF E!Blank
    <2> QED
      BY <2>1
  <1> HIDE DEF b, s
  <1>4. new \in Seq(E!Blank)
    BY <1>2, <1>3, ConcatProperties
  <1>5. r = E!after_edit(E!Replaced([E!record(e, "insert", FALSE) EXCEPT !.space = TRUE],
                                    e.cursor, e.cursor, new))
    BY DEF E!insert_newline, b, s
  <1> HIDE DEF new, r
  <1>6. new \in Seq(Character)
    <2>1. E!Blank \subseteq Character
      BY DEF E!Blank, Character
    <2> QED
      BY <1>4, <2>1, SeqMonotonic
  <1>7. IsWord(new)
    BY <1>4, BlanksAreAWord
  <1>8. "insert" \in {"insert", "delete", "replace"} /\ TRUE \in BOOLEAN /\ FALSE \in BOOLEAN
    OBVIOUS
  <1>9. Rewritten(e, r, "insert", FALSE, TRUE, e.cursor, e.cursor, new)
    BY <1>1, <1>5, <1>6, <1>8, EditsLeaveTheirKind
  <1>10. Good(r)
    BY <1>6, <1>7, <1>9, StartsARun
  <1> QED
    BY <1>10 DEF r

\* What leaves another kind of edit behind leaves no run of insertions.
LEMMA OtherKindsEndTheRun ==
    ASSUME NEW e, NEW r, NEW kind, kind # "insert", NEW coalesce, NEW space, NEW i, NEW j,
           NEW new, Rewritten(e, r, kind, coalesce, space, i, j, new)
    PROVE  Good(r)
  <1>1. r \in Edits /\ r.goal = -1 /\ r.last = kind /\ r.cursor <= Len(r.text)
    BY DEF Rewritten
  <1>2. r.goal >= -1 /\ r.last # "insert"
    BY <1>1
  <1> QED
    BY <1>1, <1>2, EndsTheRun

\* A deletion ends a run of insertions,
LEMMA DeletedKeepsGood ==
    ASSUME NEW e, Good(e), NEW i \in Nat, NEW j \in Nat, i <= j, j <= Len(e.text),
           NEW coalesce \in BOOLEAN
    PROVE  Good(E!Deleted(e, i, j, coalesce))
  <1>1. CASE i = j
    BY <1>1 DEF E!Deleted
  <1>2. CASE i # j
    <2> DEFINE b == E!record(e, "delete", coalesce)
               space == e.space
               new == <<>>
               r == E!after_edit(E!Replaced([b EXCEPT !.space = space], i, j, new))
    <2>1. e \in Edits /\ e.cursor <= Len(e.text) /\ space \in BOOLEAN
          /\ "delete" \in {"insert", "delete", "replace"} /\ new \in Seq(Character)
      BY EmptySeq DEF Good, Edits
    <2>2. [b EXCEPT !.space = space] = b
      <3>1. Recorded(e, b, "delete", coalesce)
        BY <2>1, Records
      <3>2. PICK p : b = [e EXCEPT !.past = p, !.future = <<>>, !.last = "delete"]
        BY <3>1 DEF Recorded
      <3> QED
        BY <2>1, <3>2 DEF Edits
    <2>3. E!Deleted(e, i, j, coalesce) = r
      BY <1>2, <2>2 DEF E!Deleted
    <2> HIDE DEF space, new
    <2>4. Rewritten(e, r, "delete", coalesce, space, i, j, new)
      BY <2>1, EditsLeaveTheirKind
    <2>5. "delete" # "insert"
      OBVIOUS
    <2> HIDE DEF r
    <2>6. Good(r)
      BY <2>4, <2>5, OtherKindsEndTheRun
    <2> QED
      BY <2>3, <2>6
  <1> QED
    BY <1>1, <1>2

\* and so do a text that is loaded,
LEMMA SetTextKeepsGood ==
    ASSUME NEW e, Good(e), NEW text \in Seq(Character)
    PROVE  Good(E!set_text(e, text))
  <1>1. CASE text = e.text
    BY <1>1 DEF E!set_text
  <1>2. CASE text # e.text
    <2>1. e \in Edits /\ e.cursor <= Len(e.text)
          /\ "replace" \in {"insert", "delete", "replace"} /\ FALSE \in BOOLEAN
      BY DEF Good, Edits
    <2> DEFINE b == E!record(e, "replace", FALSE)
    <2>2. Recorded(e, b, "replace", FALSE)
      BY <2>1, Records
    <2> DEFINE v == b.revision + 1
               f == <<>>
               n == Len(text)
               m == FALSE
               g == -1
               r == [b EXCEPT !.text = text, !.cursor = n, !.goal = g, !.modified = m,
                              !.revision = v]
    <2>3. f \in Seq(Snap) /\ n \in Nat /\ m \in BOOLEAN /\ g \in Int /\ g >= -1
      BY EmptySeq
    <2>4. E!set_text(e, text) = r
      BY <1>2 DEF E!set_text
    <2>5. PICK p \in Seq(Snap) : b = [e EXCEPT !.past = p, !.future = f, !.last = "replace"]
      BY <2>2 DEF Recorded
    <2> HIDE DEF b, f, m, g
    <2>6. b \in Edits /\ b.last = "replace"
      BY <2>1, <2>3, <2>5 DEF Edits
    <2>7. v \in Int
      BY <2>6 DEF Edits
    <2> HIDE DEF v
    <2>8. r \in Edits /\ r.last = "replace" /\ r.cursor = n /\ r.text = text /\ r.goal = g
      BY <2>3, <2>6, <2>7 DEF Edits
    <2> HIDE DEF r
    <2>9. r.last # "insert" /\ r.cursor <= Len(r.text) /\ r.goal >= -1
      BY <2>3, <2>8
    <2>10. Good(r)
      BY <2>8, <2>9, EndsTheRun
    <2> QED
      BY <2>4, <2>10
  <1> QED
    BY <1>1, <1>2

\* a stretch that is replaced,
LEMMA ReplaceRangeKeepsGood ==
    ASSUME NEW e, Good(e), NEW i \in Nat, NEW j \in Nat, NEW new \in Seq(Character)
    PROVE  Good(E!replace_range(e, i, j, new))
  <1> DEFINE same == i > j \/ j > Len(e.text) \/ SubSeq(e.text, i + 1, j) = new
             space == E!EndsBlank(new)
             r == E!after_edit(E!Replaced([E!record(e, "replace", FALSE) EXCEPT !.space = space],
                                          i, j, new))
  <1>1. E!replace_range(e, i, j, new) = IF same THEN e ELSE r
    BY DEF E!replace_range
  <1>2. ASSUME ~same
        PROVE  Good(r)
    <2>1. /\ e \in Edits /\ e.cursor <= Len(e.text) /\ FALSE \in BOOLEAN
          /\ "replace" \in {"insert", "delete", "replace"} /\ Len(e.text) \in Nat
      BY DEF Good, Edits
    <2>2. i <= j /\ j <= Len(e.text)
      BY <1>2, <2>1
    <2>3. space \in BOOLEAN
      BY DEF E!EndsBlank
    <2> HIDE DEF space
    <2>4. Rewritten(e, r, "replace", FALSE, space, i, j, new)
      BY <2>1, <2>2, <2>3, EditsLeaveTheirKind
    <2> HIDE DEF r
    <2>5. "replace" # "insert"
      OBVIOUS
    <2> QED
      BY <2>4, <2>5, OtherKindsEndTheRun
  <1> HIDE DEF same, r
  <1> QED
    BY <1>1, <1>2

\* and a paste.
LEMMA InsertPasteKeepsGood ==
    ASSUME NEW e, Good(e), NEW new \in Seq(Character)
    PROVE  Good(E!insert_paste(e, new))
  <1> DEFINE same == Len(new) > PasteLimit \/ new = <<>>
             space == E!EndsBlank(new)
             r == E!after_edit([E!Replaced([E!record(e, "insert", FALSE) EXCEPT !.space = space],
                                           e.cursor, e.cursor, new) EXCEPT !.last = "none"])
  <1>1. E!insert_paste(e, new) = IF same THEN e ELSE r
    BY DEF E!insert_paste
  <1>2. Good(r)
    <2>1. /\ e \in Edits /\ e.cursor <= Len(e.text) /\ FALSE \in BOOLEAN
          /\ "insert" \in {"insert", "delete", "replace"} /\ "none" \in {"insert", "none"}
          /\ e.cursor \in Nat /\ e.cursor <= e.cursor
      BY DEF Good, Edits
    <2>2. space \in BOOLEAN
      BY DEF E!EndsBlank
    <2> HIDE DEF space
    <2>3. Rewritten(e, r, "none", FALSE, space, e.cursor, e.cursor, new)
      BY <2>1, <2>2, EditsLeave
    <2> HIDE DEF r
    <2>4. "none" # "insert"
      OBVIOUS
    <2> QED
      BY <2>3, <2>4, OtherKindsEndTheRun
  <1> HIDE DEF same, r
  <1> QED
    BY <1>1, <1>2

\* A snapshot is gone back to, from a stack of them, and one is put on the other.
Back(e, s, p, f) == [E!Restored(e, s) EXCEPT !.past = p, !.future = f]

\* A snapshot that is restored ends it,
LEMMA RestoringEndsTheRun ==
    ASSUME NEW e, Good(e), NEW s \in Snap, NEW p \in Seq(Snap), NEW f \in Seq(Snap)
    PROVE  Good(Back(e, s, p, f))
  <1> DEFINE n == Len(s.text)
             c == E!Min({s.cursor, n})
             v == e.revision + 1
             t == s.text
             g == -1
             m == TRUE
             q == E!Restored(e, s)
             r == [q EXCEPT !.past = p, !.future = f]
  <1>1. e \in Edits /\ v \in Int /\ t \in Seq(Character) /\ s.cursor \in Nat /\ n \in Nat
        /\ g \in Int /\ g >= -1 /\ m \in BOOLEAN
    BY DEF Good, Edits, Snap
  <1>2. c \in Nat /\ c <= n
    <2> HIDE DEF n
    <2>1. E!Min({s.cursor, n}) \in {s.cursor, n} /\ E!Min({s.cursor, n}) <= n
      BY <1>1, OfTwo
    <2> QED
      BY <1>1, <2>1
  <1>3. q = [e EXCEPT !.text = t, !.cursor = c, !.goal = g, !.last = "none", !.modified = m,
                      !.revision = v]
    BY DEF E!Restored
  <1>4. n = Len(t)
    OBVIOUS
  <1> HIDE DEF n, c, v, t, g, m, q
  <1>5. q \in Edits /\ q.text = t /\ q.cursor = c /\ q.goal = g /\ q.last = "none"
    BY <1>1, <1>2, <1>3 DEF Edits
  <1>6. r \in Edits /\ r.text = t /\ r.cursor = c /\ r.goal = g /\ r.last = "none"
    BY <1>5 DEF Edits
  <1> HIDE DEF r
  <1>7. r.cursor <= Len(r.text) /\ r.goal >= -1 /\ r.last # "insert"
    BY <1>1, <1>2, <1>4, <1>6
  <1>8. Good(r)
    BY <1>6, <1>7, EndsTheRun
  <1> QED
    BY <1>8 DEF r, q, Back

\* What is taken from a stack of snapshots, and what is put on one.
LEMMA Stacks ==
    ASSUME NEW p \in Seq(Snap), p # <<>>
    PROVE  E!Last(p) \in Snap /\ E!Front(p) \in Seq(Snap)
  <1>1. Len(p) \in 1 .. Len(p)
    BY EmptySeq
  <1>2. p[Len(p)] \in Snap
    BY <1>1, ElementOfSeq
  <1>3. Len(p) - 1 \in Nat /\ Len(p) - 1 <= Len(p) /\ 1 <= (Len(p) - 1) + 1
    BY <1>1
  <1>4. SubSeq(p, 1, Len(p) - 1) \in Seq(Snap)
    BY <1>3, Between
  <1> QED
    BY <1>2, <1>4 DEF E!Last, E!Front

\* and so undo and redo do.
LEMMA UndoKeepsGood ==
    ASSUME NEW e, Good(e)
    PROVE  Good(E!undo(e)) /\ Good(E!redo(e))
  <1> DEFINE snap == E!Snapshot(e)
  <1>1. e \in Edits /\ e.past \in Seq(Snap) /\ e.future \in Seq(Snap)
    BY DEF Good, Edits
  <1>2. snap \in Snap
    BY DEF Good, Edits, Snap, E!Snapshot
  <1>3. \A s : /\ E!Restored(e, s).past = e.past /\ E!Restored(e, s).future = e.future
    BY <1>1 DEF E!Restored, Edits
  <1>4. Good(E!undo(e))
    <2>1. CASE e.past = <<>>
      BY <2>1 DEF E!undo
    <2>2. CASE e.past # <<>>
      <3> DEFINE s == E!Last(e.past)
                 p == E!Front(e.past)
                 f == Append(e.future, snap)
      <3>1. s \in Snap /\ p \in Seq(Snap)
        BY <1>1, <2>2, Stacks
      <3>2. f \in Seq(Snap)
        BY <1>1, <1>2, AppendProperties
      <3>3. E!undo(e) = Back(e, s, p, f)
        <4>1. E!undo(e) = [E!Restored(e, s) EXCEPT !.past = E!Front(@),
                                                   !.future = Append(@, snap)]
          BY <2>2 DEF E!undo
        <4> HIDE DEF s, snap
        <4>2. [E!Restored(e, s) EXCEPT !.past = E!Front(@), !.future = Append(@, snap)]
                = [E!Restored(e, s) EXCEPT !.past = p, !.future = f]
          BY <1>3
        <4> QED
          BY <4>1, <4>2 DEF Back
      <3> HIDE DEF s, p, f
      <3> QED
        BY <3>1, <3>2, <3>3, RestoringEndsTheRun
    <2> QED
      BY <2>1, <2>2
  <1>5. Good(E!redo(e))
    <2>1. CASE e.future = <<>>
      BY <2>1 DEF E!redo
    <2>2. CASE e.future # <<>>
      <3> DEFINE s == E!Last(e.future)
                 f == E!Front(e.future)
                 p == Append(e.past, snap)
      <3>1. s \in Snap /\ f \in Seq(Snap)
        BY <1>1, <2>2, Stacks
      <3>2. p \in Seq(Snap)
        BY <1>1, <1>2, AppendProperties
      <3>3. E!redo(e) = Back(e, s, p, f)
        <4>1. E!redo(e) = [E!Restored(e, s) EXCEPT !.future = E!Front(@),
                                                   !.past = Append(@, snap)]
          BY <2>2 DEF E!redo
        <4> HIDE DEF s, snap
        <4>2. [E!Restored(e, s) EXCEPT !.future = E!Front(@), !.past = Append(@, snap)]
                = [E!Restored(e, s) EXCEPT !.past = p, !.future = f]
          BY <1>1, <1>3 DEF E!Restored, Edits
        <4> QED
          BY <4>1, <4>2 DEF Back
      <3> HIDE DEF s, p, f
      <3> QED
        BY <3>1, <3>2, <3>3, RestoringEndsTheRun
    <2> QED
      BY <2>1, <2>2
  <1> QED
    BY <1>4, <1>5

\* A text that is saved is the same one.
LEMMA MarkSavedKeepsGood ==
    ASSUME NEW e, Good(e)
    PROVE  Good([e EXCEPT !.modified = FALSE])
  <1> DEFINE m == FALSE
             r == [e EXCEPT !.modified = m]
  <1>1. e \in Edits /\ m \in BOOLEAN
    BY DEF Good
  <1> HIDE DEF m
  <1>2. /\ r \in Edits /\ r.text = e.text /\ r.cursor = e.cursor /\ r.goal = e.goal
        /\ r.last = e.last /\ r.past = e.past /\ r.space = e.space
    BY <1>1 DEF Edits
  <1> HIDE DEF r
  <1>3. Good(r)
    BY <1>2 DEF Good
  <1> QED
    BY <1>3 DEF r, m

\* The offset before another, which is the other at the start of the text.
LEMMA Preceding ==
    ASSUME NEW c \in Nat
    PROVE  E!Max({c - 1, 0}) \in 0 .. c
  <1>1. CASE c = 0
    <2>1. \E x \in {-1, 0} : \A y \in {-1, 0} : x >= y
      OBVIOUS
    <2>2. \A x \in {-1, 0} : (\A y \in {-1, 0} : x >= y) => x = 0
      OBVIOUS
    <2>3. E!Max({-1, 0}) = 0
      BY <2>1, <2>2 DEF E!Max
    <2>4. c - 1 = -1
      BY <1>1
    <2> QED
      BY <2>3, <2>4
  <1>2. CASE c # 0
    <2> DEFINE m == c - 1
    <2>1. m \in Nat /\ 0 \in Nat /\ m <= c
      BY <1>2
    <2> HIDE DEF m
    <2>2. E!Max({m, 0}) \in {m, 0}
      BY <2>1, OfTwo
    <2> QED
      BY <2>1, <2>2 DEF m
  <1> QED
    BY <1>1, <1>2

\* The texts that are pasted and loaded are made of characters.
LEMMA TextsAreTexts == E!Texts \subseteq Seq(Character)
  <1>1. {"word", "dot", "space", "break"} \subseteq Character
    BY DEF Character
  <1>2. /\ <<>> \in Seq(Character) /\ <<"dot", "space">> \in Seq(Character)
        /\ <<"word", "break", "word">> \in Seq(Character)
    BY <1>1
  <1> QED
    BY <1>2 DEF E!Texts

\* An operation on the buffer leaves it good.
LEMMA EditorStep ==
    ASSUME Good(ed), E!Next
    PROVE  Good(ed')
  <1>1. /\ ed \in Edits /\ ed.cursor \in Nat /\ Len(ed.text) \in Nat /\ ed.cursor <= Len(ed.text)
        /\ ed.last \in {"none", "insert", "delete", "replace"} /\ ed.cursor \in 0 .. Len(ed.text)
    BY DEF Good, Edits
  <1> DEFINE more == ed.cursor + 1
             runs == ed.last = "delete"
             least == E!Max({ed.cursor - 1, 0})
             most == E!Min({more, Len(ed.text)})
             left == E!word_left_from(ed.text, ed.cursor)
  <1>2. runs \in BOOLEAN /\ FALSE \in BOOLEAN /\ ed.cursor <= ed.cursor
    BY <1>1
  <1>3. least \in 0 .. ed.cursor
    BY <1>1, Preceding
  <1>4. most \in ed.cursor .. Len(ed.text)
    <2>1. more \in Nat /\ ed.cursor <= more
      BY <1>1
    <2> HIDE DEF more
    <2>2. E!Min({more, Len(ed.text)}) \in {more, Len(ed.text)}
          /\ E!Min({more, Len(ed.text)}) <= Len(ed.text)
      BY <1>1, <2>1, OfTwo
    <2> QED
      BY <1>1, <2>1, <2>2
  <1>5. /\ left \in 0 .. ed.cursor
        /\ E!word_right_from(ed.text, ed.cursor) \in ed.cursor .. Len(ed.text)
    BY <1>1, WordsAreAround
  <1>6. CASE E!Insert
    <2>1. PICK c \in Typed : ed' = E!insert(ed, c)
      BY <1>6 DEF E!Insert, E!Becomes
    <2>2. c \in Character
      BY DEF Character
    <2> QED
      BY <2>1, <2>2, InsertKeepsGood
  <1>7. CASE E!InsertNewline
    <2>1. ed' = E!insert_newline(ed)
      BY <1>7 DEF E!InsertNewline, E!Becomes
    <2> QED
      BY <2>1, InsertNewlineKeepsGood
  <1>8. CASE E!Backspace
    <2>1. ed' = E!Deleted(ed, least, ed.cursor, runs)
      BY <1>8 DEF E!Backspace, E!backspace, E!Becomes
    <2>2. least \in Nat /\ least <= ed.cursor
      BY <1>3
    <2> HIDE DEF least, runs
    <2> QED
      BY <1>1, <1>2, <2>1, <2>2, DeletedKeepsGood
  <1>9. CASE E!DeleteForward
    <2>1. ed' = E!Deleted(ed, ed.cursor, most, runs)
      BY <1>9 DEF E!DeleteForward, E!delete_forward, E!Becomes
    <2>2. most \in Nat /\ ed.cursor <= most /\ most <= Len(ed.text)
      BY <1>1, <1>4
    <2> HIDE DEF most, runs
    <2> QED
      BY <1>1, <1>2, <2>1, <2>2, DeletedKeepsGood
  <1>10. CASE E!DeleteWordLeft
    <2>1. ed' = E!Deleted(ed, left, ed.cursor, FALSE)
      BY <1>10 DEF E!DeleteWordLeft, E!delete_word_left, E!Becomes
    <2>2. left \in Nat /\ left <= ed.cursor
      BY <1>5
    <2> HIDE DEF left
    <2> QED
      BY <1>1, <1>2, <2>1, <2>2, DeletedKeepsGood
  <1>11. CASE E!SetText
    <2>1. PICK t \in E!Texts : ed' = E!set_text(ed, t)
      BY <1>11 DEF E!SetText, E!Becomes
    <2> QED
      BY <2>1, TextsAreTexts, SetTextKeepsGood
  <1>12. CASE E!ReplaceRange
    <2>1. PICK i \in 0 .. 2, j \in {1, MaxLength}, t \in E!Texts :
            ed' = E!replace_range(ed, i, j, t)
      BY <1>12 DEF E!ReplaceRange, E!Becomes
    <2>2. i \in Nat /\ j \in Nat
      BY WorkspaceAssumption
    <2> QED
      BY <2>1, <2>2, TextsAreTexts, ReplaceRangeKeepsGood
  <1>13. CASE E!InsertPaste
    <2>1. PICK t \in E!Texts : ed' = E!insert_paste(ed, t)
      BY <1>13 DEF E!InsertPaste, E!Becomes
    <2> QED
      BY <2>1, TextsAreTexts, InsertPasteKeepsGood
  <1>14. CASE E!Undo \/ E!Redo
    <2>1. ed' = E!undo(ed) \/ ed' = E!redo(ed)
      BY <1>14 DEF E!Undo, E!Redo, E!Becomes
    <2> QED
      BY <2>1, UndoKeepsGood
  <1>15. CASE E!MarkSaved
    <2>1. ed' = [ed EXCEPT !.modified = FALSE]
      BY <1>15 DEF E!MarkSaved, E!Becomes
    <2> QED
      BY <2>1, MarkSavedKeepsGood
  <1>16. CASE E!Move
    <2> DEFINE Places == {least, most, E!line_start(ed), E!line_end(ed), 0, Len(ed.text), left,
                          E!word_right_from(ed.text, ed.cursor)}
    <2>1. \/ \E i \in {1, MaxLength + 1} : ed' = E!set_cursor(ed, i)
          \/ \E line \in {0, 2}, col \in {0, 2} : ed' = E!set_position(ed, line, col)
          \/ ed' = E!move_up(ed) \/ ed' = E!move_down(ed)
          \/ ed' = E!move_up(E!move_up(ed)) \/ ed' = E!move_down(E!move_down(ed))
          \/ \E i \in Places : ed' = E!To(ed, i)
      BY <1>16 DEF E!Move, E!Becomes
    <2>2. CASE \E i \in {1, MaxLength + 1} : ed' = E!set_cursor(ed, i)
      <3>1. PICK i \in {1, MaxLength + 1} : ed' = E!set_cursor(ed, i)
        BY <2>2
      <3>2. i \in Nat
        BY WorkspaceAssumption
      <3> QED
        BY <3>1, <3>2, SetCursorMoves
    <2>3. CASE \E line \in {0, 2}, col \in {0, 2} : ed' = E!set_position(ed, line, col)
      <3>1. PICK line \in {0, 2}, col \in {0, 2} : ed' = E!set_position(ed, line, col)
        BY <2>3
      <3>2. line \in Nat /\ col \in Nat
        OBVIOUS
      <3> QED
        BY <3>1, <3>2, SetPositionMoves
    <2>4. CASE \/ ed' = E!move_up(ed) \/ ed' = E!move_down(ed)
               \/ ed' = E!move_up(E!move_up(ed)) \/ ed' = E!move_down(E!move_down(ed))
      <3>1. Good(E!move_up(ed)) /\ Good(E!move_down(ed))
        BY MoveUpMoves, MoveDownMoves
      <3>2. Good(E!move_up(E!move_up(ed))) /\ Good(E!move_down(E!move_down(ed)))
        BY <3>1, MoveUpMoves, MoveDownMoves
      <3> QED
        BY <2>4, <3>1, <3>2
    <2>5. CASE \E i \in Places : ed' = E!To(ed, i)
      <3>1. E!line_start(ed) \in 0 .. ed.cursor
        BY <1>1, LinesAreAround
      <3>2. E!line_end(ed) \in ed.cursor .. Len(ed.text)
        BY <1>1, LinesEnd DEF E!line_end
      <3>3. \A i \in 0 .. ed.cursor : i \in 0 .. Len(ed.text)
        BY <1>1
      <3>4. \A i \in ed.cursor .. Len(ed.text) : i \in 0 .. Len(ed.text)
        BY <1>1
      <3>5. 0 \in 0 .. ed.cursor /\ Len(ed.text) \in ed.cursor .. Len(ed.text)
        BY <1>1
      <3> HIDE DEF least, most, left
      <3>6. Places \subseteq 0 .. Len(ed.text)
        BY <1>3, <1>4, <1>5, <3>1, <3>2, <3>3, <3>4, <3>5
      <3> HIDE DEF Places
      <3>7. PICK i \in 0 .. Len(ed.text) : ed' = E!To(ed, i)
        BY <2>5, <3>6
      <3> QED
        BY <3>7, ToMoves
    <2> QED
      BY <2>1, <2>2, <2>3, <2>4, <2>5
  <1> QED
    BY <1>6, <1>7, <1>8, <1>9, <1>10, <1>11, <1>12, <1>13, <1>14, <1>15, <1>16 DEF E!Next

\* What was typed is between the halves of the snapshot.
LEMMA GoodUndoes ==
    ASSUME Good(ed)
    PROVE  UndoTakesOneWord
  <1> DEFINE s == E!Last(ed.past)
             typed == SubSeq(ed.text, s.cursor + 1, ed.cursor)
             a == SubSeq(s.text, 1, s.cursor)
             d == SubSeq(s.text, s.cursor + 1, Len(s.text))
  <1>1. SUFFICES ASSUME ed.last = "insert"
                 PROVE  ed.text = a \o typed \o d /\ IsWord(typed)
    BY DEF UndoTakesOneWord, E!UndoTakesOneWord, IsWord
  <1>2. PICK w : Inserted(s, ed.text, ed.cursor, ed.space, w)
    BY <1>1 DEF Good
  <1>3. s \in Snap
    BY <1>1, Stacks DEF Good, Edits
  <1> HIDE DEF s
  <1>4. s.text \in Seq(Character) /\ s.cursor \in 0 .. Len(s.text)
    BY <1>3 DEF Snap
  <1>5. a \in Seq(Character) /\ d \in Seq(Character) /\ Len(a) = s.cursor
    BY <1>4, Halves
  <1>6. /\ w \in Seq(Character) /\ ed.cursor = s.cursor + Len(w) /\ ed.text = a \o w \o d
        /\ IsWord(w)
    BY <1>2 DEF Inserted
  <1> DEFINE t == ed.text
  <1>7. t = a \o w \o d
    BY <1>6
  <1> HIDE DEF a, d, t
  <1>8. Pieces(t, a, w, d)
    <2>1. w \in Seq(Character)
      BY <1>6
    <2> QED
      BY <1>5, <1>7, <2>1, ThreePieces
  <1>9. SubSeq(t, Len(a) + 1, Len(a) + Len(w)) = w
    BY <1>8 DEF Pieces
  <1>10. typed = w
    BY <1>5, <1>6, <1>9 DEF t
  <1> HIDE DEF typed
  <1> QED
    BY <1>6, <1>10

\* Editor: in every behaviour one undo takes back one word, with the blanks behind it:
\* what was typed since the snapshot is one word, and it stands between its two halves.
THEOREM OneUndoIsOneWord == WorkspaceSpec => []UndoTakesOneWord
  <1>1. WorkspaceInit => Good(ed)
    <2>1. SUFFICES ASSUME WorkspaceInit
                   PROVE  Good(ed)
      OBVIOUS
    <2> DEFINE t == <<>>
               g == -1
               m == FALSE
    <2>2. ed = [text |-> t, cursor |-> 0, revision |-> 0, modified |-> m, goal |-> g,
                past |-> t, future |-> t, last |-> "none", space |-> m]
      BY <2>1 DEF WorkspaceInit, E!Init
    <2>3. t \in Seq(Character) /\ t \in Seq(Snap) /\ g \in Int /\ g >= -1 /\ m \in BOOLEAN
          /\ Len(t) = 0
      BY EmptySeq
    <2> HIDE DEF t, g, m
    <2>4. ed \in Edits /\ ed.cursor = 0 /\ ed.text = t /\ ed.goal = g /\ ed.last = "none"
      BY <2>2, <2>3 DEF Edits
    <2>5. ed.cursor <= Len(ed.text) /\ ed.goal >= -1 /\ ed.last # "insert"
      BY <2>3, <2>4
    <2> QED
      BY <2>4, <2>5, EndsTheRun
  <1>2. Good(ed) /\ [WorkspaceNext]_workspace => Good(ed)'
    <2>1. SUFFICES ASSUME Good(ed), [WorkspaceNext]_workspace
                   PROVE  Good(ed')
      OBVIOUS
    <2>2. E!Next \/ ed' = ed
      BY <2>1 DEF WorkspaceNext, workspace
    <2> QED
      BY <2>1, <2>2, EditorStep
  <1>3. Good(ed) => UndoTakesOneWord
    BY GoodUndoes
  <1> QED
    BY <1>1, <1>2, <1>3, PTL DEF WorkspaceSpec

-----------------------------------------------------------------------------
(* The grid: recursions, the columns that are shown, and the window.       *)

\* A set that has zero and what comes after each of its numbers has every number.
LEMMA Induction ==
    ASSUME NEW S, 0 \in S, \A n \in Nat : n \in S => n + 1 \in S
    PROVE  Nat \subseteq S
  <1> SUFFICES ASSUME Nat \ S # {} PROVE FALSE
    OBVIOUS
  <1>1. PICK m \in Nat \ S : \A n \in Nat \ S : m <= n
    BY Least
  <1>2. m # 0 /\ m - 1 \in Nat /\ m - 1 \in S
    BY <1>1
  <1>3. (m - 1) + 1 = m
    BY <1>1
  <1> QED
    BY <1>1, <1>2, <1>3

\* Values that follow from one another, one after the other.
Follows(f, base, make, n) ==
    f[0] = base /\ \A k \in 1 .. n : f[k] = make[k][f[k - 1]]

\* Whatever the steps, there are such values,
LEMMA Recursion ==
    ASSUME NEW V, NEW base \in V, NEW N \in Nat, NEW make \in [1 .. N -> [V -> V]]
    PROVE  \E f \in [0 .. N -> V] : Follows(f, base, make, N)
  <1> DEFINE S == {n \in Nat : n <= N => \E f \in [0 .. n -> V] : Follows(f, base, make, n)}
  <1>1. 0 \in S
    <2> DEFINE f == [k \in 0 .. 0 |-> base]
    <2>1. f \in [0 .. 0 -> V] /\ f[0] = base
      OBVIOUS
    <2>2. \A k \in 1 .. 0 : FALSE
      OBVIOUS
    <2>3. Follows(f, base, make, 0)
      BY <2>1, <2>2 DEF Follows
    <2> QED
      BY <2>1, <2>3
  <1>2. ASSUME NEW n \in Nat, n \in S
        PROVE  n + 1 \in S
    <2> SUFFICES ASSUME n + 1 <= N
                 PROVE  \E g \in [0 .. n + 1 -> V] : Follows(g, base, make, n + 1)
      OBVIOUS
    <2>1. PICK f \in [0 .. n -> V] : Follows(f, base, make, n)
      BY <1>2
    <2> DEFINE g == [k \in 0 .. n + 1 |-> IF k = n + 1 THEN make[n + 1][f[n]] ELSE f[k]]
    <2>2. f[n] \in V /\ n + 1 \in 1 .. N
      OBVIOUS
    <2>3. make[n + 1][f[n]] \in V
      <3>1. make[n + 1] \in [V -> V]
        BY <2>2
      <3> QED
        BY <2>2, <3>1
    <2>4. g \in [0 .. n + 1 -> V]
      BY <2>3
    <2>5. g[n + 1] = make[n + 1][f[n]] /\ \A k \in 0 .. n : g[k] = f[k]
      OBVIOUS
    <2> HIDE DEF g
    <2>6. g[0] = base /\ n \in 0 .. n /\ (n + 1) - 1 = n
      BY <2>1, <2>5 DEF Follows
    <2>7. ASSUME NEW k \in 1 .. n + 1
          PROVE  g[k] = make[k][g[k - 1]]
      <3>1. CASE k = n + 1
        BY <2>5, <2>6, <3>1
      <3>2. CASE k # n + 1
        <4>1. k \in 1 .. n /\ k \in 0 .. n /\ k - 1 \in 0 .. n
          BY <3>2
        <4> QED
          BY <2>1, <2>5, <4>1 DEF Follows
      <3> QED
        BY <3>1, <3>2
    <2> QED
      BY <2>4, <2>6, <2>7 DEF Follows
  <1> HIDE DEF S
  <1>3. N \in S
    BY <1>1, <1>2, Induction
  <1> QED
    BY <1>3 DEF S

-----------------------------------------------------------------------------
(* The grid: the columns that are drawn.                                   *)

\* Smallest, Greatest and OfTwo, of this instance's own Min and Max.
LEMMA GridSmallest ==
    ASSUME NEW S \in SUBSET Nat, S # {}
    PROVE  G!Min(S) \in S /\ \A n \in S : G!Min(S) <= n
  BY Least DEF Min, G!Min

\* The greatest of some numbers up to a bound,
LEMMA GridGreatest ==
    ASSUME NEW N \in Nat, NEW S \in SUBSET (0 .. N), S # {}
    PROVE  G!Max(S) \in S /\ \A n \in S : n <= G!Max(S)
  BY Greatest DEF E!Max, G!Max

\* and the least and the greatest of two, as the grid has them.
LEMMA GridOfTwo ==
    ASSUME NEW m \in Int, NEW n \in Int
    PROVE  /\ G!Min({m, n}) \in {m, n} /\ G!Min({m, n}) <= m /\ G!Min({m, n}) <= n
           /\ G!Max({m, n}) \in {m, n} /\ G!Max({m, n}) >= m /\ G!Max({m, n}) >= n
  <1>1. \E x \in {m, n} : \A y \in {m, n} : x <= y
    <2>1. CASE m <= n
      BY <2>1
    <2>2. CASE n <= m
      BY <2>2
    <2> QED
      BY <2>1, <2>2
  <1>2. \E x \in {m, n} : \A y \in {m, n} : x >= y
    <2>1. CASE m <= n
      BY <2>1
    <2>2. CASE n <= m
      BY <2>2
    <2> QED
      BY <2>1, <2>2
  <1>3. G!Min({m, n}) \in {m, n} /\ \A y \in {m, n} : G!Min({m, n}) <= y
    BY <1>1 DEF G!Min
  <1>4. G!Max({m, n}) \in {m, n} /\ \A y \in {m, n} : G!Max({m, n}) >= y
    BY <1>2 DEF G!Max
  <1> QED
    BY <1>3, <1>4

\* Where something is in a sequence.
LEMMA Indexes ==
    ASSUME NEW S, NEW w \in Seq(S), NEW x
    PROVE  /\ G!Index(w, x) \in 0 .. Len(w)
           /\ G!Index(w, x) # 0 => w[G!Index(w, x)] = x
           /\ \A i \in 1 .. Len(w) : w[i] = x => G!Index(w, x) # 0
  <1> DEFINE I == {i \in 1 .. Len(w) : w[i] = x}
  <1>1. G!Index(w, x) = IF I # {} THEN G!Min(I) ELSE 0
    BY DEF G!Index, G!SelectInSeq
  <1>2. I \in SUBSET Nat
    OBVIOUS
  <1>3. I # {} => G!Min(I) \in I
    BY <1>2, GridSmallest
  <1>4. 0 \in 0 .. Len(w) /\ \A i \in I : i \in 0 .. Len(w) /\ i # 0 /\ w[i] = x
    OBVIOUS
  <1>5. \A i \in 1 .. Len(w) : w[i] = x => I # {}
    OBVIOUS
  <1> HIDE DEF I
  <1> QED
    BY <1>1, <1>3, <1>4, <1>5

\* The columns that are not hidden, each once and in the result's order.
Shows(v, hidden) ==
    /\ v \in Seq(G!Columns)
    /\ \A i, j \in 1 .. Len(v) : i < j => v[i] < v[j]
    /\ \A c \in G!Columns \ hidden : \E i \in 1 .. Len(v) : v[i] = c
    /\ G!Columns \ hidden # {} => \A i \in 1 .. Len(v) : v[i] \notin hidden
    /\ G!Count > 0 => v # <<>>

\* The first n columns less the hidden ones.
Sifted(v, n, hidden) ==
    /\ \A i \in 1 .. Len(v) : v[i] \in 1 .. n \ hidden
    /\ \A i, j \in 1 .. Len(v) : i < j => v[i] < v[j]
    /\ \A c \in 1 .. n \ hidden : \E i \in 1 .. Len(v) : v[i] = c

\* One more column is put behind the others when it is not hidden,
LEMMA SiftsOn ==
    ASSUME NEW v \in Seq(G!Columns), NEW n \in Nat, NEW hidden, Sifted(v, n, hidden),
           n + 1 \in G!Columns
    PROVE  Sifted(IF n + 1 \in hidden THEN v ELSE Append(v, n + 1), n + 1, hidden)
  <1>1. CASE n + 1 \in hidden
    <2>1. 1 .. (n + 1) \ hidden = 1 .. n \ hidden
      BY <1>1
    <2> QED
      BY <1>1, <2>1 DEF Sifted
  <1>2. CASE n + 1 \notin hidden
    <2> DEFINE w == Append(v, n + 1)
               N == Len(v)
    <2>1. N \in Nat /\ Len(w) = N + 1 /\ w[N + 1] = n + 1
      BY AppendProperties
    <2>2. \A i \in 1 .. N : w[i] = v[i]
      BY AppendProperties
    <2>3. \A i \in 1 .. N : v[i] \in 1 .. n \ hidden
      BY DEF Sifted
    <2>4. \A i, j \in 1 .. N : i < j => v[i] < v[j]
      BY DEF Sifted
    <2>5. \A c \in 1 .. n \ hidden : \E i \in 1 .. N : v[i] = c
      BY DEF Sifted
    <2> HIDE DEF w, N
    <2>6. \A i \in 1 .. N + 1 : w[i] \in 1 .. (n + 1) \ hidden
      BY <1>2, <2>1, <2>2, <2>3
    <2>7. ASSUME NEW i \in 1 .. N + 1, NEW j \in 1 .. N + 1, i < j
          PROVE  w[i] < w[j]
      <3>1. i \in 1 .. N
        BY <2>1, <2>7
      <3>2. CASE j = N + 1
        <4>1. w[i] \in 1 .. n /\ w[j] = n + 1
          BY <2>1, <2>2, <2>3, <3>1, <3>2
        <4> QED
          BY <4>1
      <3>3. CASE j # N + 1
        <4>1. j \in 1 .. N
          BY <2>1, <3>3
        <4> QED
          BY <2>2, <2>4, <2>7, <3>1, <4>1
      <3> QED
        BY <3>2, <3>3
    <2>8. ASSUME NEW c \in 1 .. (n + 1) \ hidden
          PROVE  \E i \in 1 .. N + 1 : w[i] = c
      <3>1. CASE c = n + 1
        BY <2>1, <3>1
      <3>2. CASE c # n + 1
        <4>1. c \in 1 .. n \ hidden
          BY <3>2
        <4>2. PICK i \in 1 .. N : v[i] = c
          BY <2>5, <4>1
        <4>3. i \in 1 .. N + 1 /\ w[i] = c
          BY <2>1, <2>2, <4>2
        <4> QED
          BY <4>3
      <3> QED
        BY <3>1, <3>2
    <2>9. Sifted(w, n + 1, hidden)
      BY <2>1, <2>6, <2>7, <2>8 DEF Sifted
    <2> QED
      BY <1>2, <2>9 DEF w
  <1> QED
    BY <1>1, <1>2

\* so that the visible columns are those that are not hidden, in order, or the first when all
\* are.
LEMMA VisibleShows ==
    ASSUME NEW hidden, G!Count \in Nat
    PROVE  Shows(G!Visible(hidden), hidden)
  <1> DEFINE N == G!Count
             V == Seq(G!Columns)
             Solves(f) == f = [n \in 0 .. N |->
                             IF n = 0 THEN <<>>
                             ELSE IF n \in hidden THEN f[n - 1] ELSE Append(f[n - 1], n)]
             Onward(n) == [v \in V |-> IF n \in hidden THEN v ELSE Append(v, n)]
             make == [n \in 1 .. N |-> Onward(n)]
             f == CHOOSE f : Solves(f)
             v == G!Visible(hidden)
  <1>1. N \in Nat /\ G!Columns = 1 .. N /\ <<>> \in V
    BY EmptySeq DEF G!Columns
  <1>2. v = IF f[N] = <<>> /\ N > 0 THEN <<1>> ELSE f[N]
    BY DEF G!Visible
  <1>3. make \in [1 .. N -> [V -> V]]
    <2>1. ASSUME NEW n \in 1 .. N, NEW u \in V
          PROVE  (IF n \in hidden THEN u ELSE Append(u, n)) \in V
      <3>1. n \in G!Columns
        BY <1>1
      <3> QED
        BY <3>1, AppendProperties
    <2> HIDE DEF V, N
    <2>2. \A n \in 1 .. N : Onward(n) \in [V -> V]
      BY <2>1
    <2> QED
      BY <2>2
  <1>4. \A n \in 1 .. N : \A u \in V :
          make[n][u] = IF n \in hidden THEN u ELSE Append(u, n)
    OBVIOUS
  <1> HIDE DEF V, make
  <1>5. \E g \in [0 .. N -> V] : Solves(g)
    <2> DEFINE b == <<>>
    <2>1. b \in V
      BY <1>1
    <2> HIDE DEF b, N
    <2>2. PICK g \in [0 .. N -> V] : Follows(g, b, make, N)
      BY <1>1, <1>3, <2>1, Recursion
    <2>3. g[0] = <<>>
      BY <2>2 DEF Follows, b
    <2>4. ASSUME NEW n \in 0 .. N, n # 0
          PROVE  g[n] = IF n \in hidden THEN g[n - 1] ELSE Append(g[n - 1], n)
      <3>1. n \in 1 .. N /\ n - 1 \in 0 .. N
        BY <1>1, <2>4
      <3>2. g[n] = make[n][g[n - 1]] /\ g[n - 1] \in V
        BY <2>2, <3>1 DEF Follows
      <3> QED
        BY <1>4, <3>1, <3>2
    <2>5. Solves(g)
      BY <2>3, <2>4
    <2> QED
      BY <2>5
  <1>6. Solves(f)
    BY <1>5
  <1>7. f[0] = <<>> /\ \A n \in 1 .. N : f[n] = IF n \in hidden THEN f[n - 1]
                                                ELSE Append(f[n - 1], n)
    <2> HIDE DEF f, N
    <2>1. 0 \in 0 .. N
      BY <1>1
    <2>2. f[0] = <<>>
      BY <1>6, <2>1
    <2>3. ASSUME NEW n \in 1 .. N
          PROVE  f[n] = IF n \in hidden THEN f[n - 1] ELSE Append(f[n - 1], n)
      <3>1. n \in 0 .. N /\ n # 0
        BY <1>1
      <3> QED
        BY <1>6, <3>1
    <2> QED
      BY <2>2, <2>3
  <1> HIDE DEF f
  <1> DEFINE S == {n \in Nat : n <= N => f[n] \in V /\ Sifted(f[n], n, hidden)}
  <1>8. 0 \in S
    <2>1. Sifted(<<>>, 0, hidden)
      BY DEF Sifted
    <2> QED
      BY <1>1, <1>7, <2>1
  <1>9. ASSUME NEW n \in Nat, n \in S
        PROVE  n + 1 \in S
    <2> SUFFICES ASSUME n + 1 <= N
                 PROVE  f[n + 1] \in V /\ Sifted(f[n + 1], n + 1, hidden)
      OBVIOUS
    <2>1. f[n] \in V /\ Sifted(f[n], n, hidden) /\ n + 1 \in 1 .. N /\ (n + 1) - 1 = n
      BY <1>1, <1>9
    <2>2. f[n + 1] = IF n + 1 \in hidden THEN f[n] ELSE Append(f[n], n + 1)
      BY <1>7, <2>1
    <2>3. f[n + 1] \in V
      <3>1. n + 1 \in G!Columns
        BY <1>1, <2>1
      <3>2. Append(f[n], n + 1) \in V
        BY <2>1, <3>1, AppendProperties DEF V
      <3> QED
        BY <2>1, <2>2, <3>2
    <2>4. Sifted(f[n + 1], n + 1, hidden)
      BY <1>1, <2>1, <2>2, SiftsOn DEF V
    <2> QED
      BY <2>3, <2>4
  <1> HIDE DEF S
  <1>10. N \in S
    BY <1>1, <1>8, <1>9, Induction
  <1>11. f[N] \in V /\ Sifted(f[N], N, hidden)
    BY <1>1, <1>10 DEF S
  <1>12. CASE f[N] = <<>> /\ N > 0
    <2>1. v = <<1>>
      BY <1>2, <1>12
    <2>2. G!Columns \ hidden = {}
      BY <1>1, <1>11, <1>12 DEF Sifted
    <2>3. 1 \in G!Columns
      BY <1>1, <1>12
    <2>4. <<1>> \in Seq(G!Columns) /\ Len(<<1>>) = 1 /\ <<1>> # <<>>
      BY <2>3
    <2>5. \A i, j \in 1 .. 1 : ~(i < j)
      OBVIOUS
    <2> QED
      BY <2>1, <2>2, <2>4, <2>5 DEF Shows
  <1>13. CASE ~(f[N] = <<>> /\ N > 0)
    BY <1>1, <1>2, <1>11, <1>13 DEF Shows, Sifted, V
  <1> QED
    BY <1>12, <1>13

\* Every column has a width.
Wide == \A c \in G!Columns : G!width_for(grid, c) \in Nat

\* What columns take side by side is what they take one after the other.
Adds(f, columns, first) ==
    /\ f \in [0 .. Len(columns) -> Nat] /\ f[0] = 0
    /\ \A n \in 1 .. Len(columns) :
         f[n] = f[n - 1] + G!column_cost(columns[n], first /\ n = 1)

\* A column takes some of the width,
LEMMA ColumnsCost ==
    ASSUME Wide, NEW c \in G!Columns, NEW first \in BOOLEAN
    PROVE  G!column_cost(c, first) \in Nat \ {0}
  <1> DEFINE w == G!width_for(grid, c)
  <1>1. w \in Nat
    BY DEF Wide
  <1>2. G!column_cost(c, first) = w + (IF first THEN 1 ELSE 3)
    BY DEF G!column_cost
  <1> HIDE DEF w
  <1> QED
    BY <1>1, <1>2

\* and columns side by side take what each of them does.
LEMMA CostsAdd ==
    ASSUME Wide, NEW columns \in Seq(G!Columns), NEW first \in BOOLEAN
    PROVE  Adds(G!Costs(columns, first), columns, first)
  <1> DEFINE N == Len(columns)
             Cost(n) == G!column_cost(columns[n], first /\ n = 1)
             Solves(f) == f = [n \in 0 .. N |-> IF n = 0 THEN 0 ELSE f[n - 1] + Cost(n)]
             Onward(n) == [v \in Nat |-> v + Cost(n)]
             make == [n \in 1 .. N |-> Onward(n)]
             f == CHOOSE f : Solves(f)
  <1>1. N \in Nat
    OBVIOUS
  <1>2. \A n \in 1 .. N : Cost(n) \in Nat
    <2> TAKE n \in 1 .. N
    <2>1. columns[n] \in G!Columns
      BY ElementOfSeq
    <2>2. (first /\ n = 1) \in BOOLEAN
      OBVIOUS
    <2> DEFINE b == first /\ n = 1
               c == columns[n]
    <2> HIDE DEF b, c
    <2>3. G!column_cost(c, b) \in Nat \ {0}
      BY <2>1, <2>2, ColumnsCost DEF b, c
    <2> QED
      BY <2>3 DEF b, c
  <1>3. G!Costs(columns, first) = f
    BY DEF G!Costs
  <1> HIDE DEF Cost
  <1>4. make \in [1 .. N -> [Nat -> Nat]] /\ \A n \in 1 .. N : \A v \in Nat :
          make[n][v] = v + Cost(n)
    <2>1. \A n \in 1 .. N : Onward(n) \in [Nat -> Nat]
      BY <1>2
    <2> QED
      BY <2>1
  <1> HIDE DEF make
  <1>5. \E g \in [0 .. N -> Nat] : Solves(g)
    <2> HIDE DEF N
    <2>1. PICK g \in [0 .. N -> Nat] : Follows(g, 0, make, N)
      BY <1>1, <1>4, Recursion
    <2>2. ASSUME NEW n \in 0 .. N, n # 0
          PROVE  g[n] = g[n - 1] + Cost(n)
      <3>1. n \in 1 .. N /\ n - 1 \in 0 .. N
        BY <1>1, <2>2
      <3>2. g[n] = make[n][g[n - 1]] /\ g[n - 1] \in Nat
        BY <2>1, <3>1 DEF Follows
      <3> QED
        BY <1>4, <3>1, <3>2
    <2>3. g[0] = 0
      BY <2>1 DEF Follows
    <2>4. Solves(g)
      BY <2>2, <2>3
    <2> QED
      BY <2>4
  <1>6. Solves(f)
    BY <1>5
  <1> HIDE DEF f
  <1>7. f[0] = 0 /\ \A n \in 1 .. N : f[n] = f[n - 1] + Cost(n)
    <2> HIDE DEF N
    <2>1. 0 \in 0 .. N
      BY <1>1
    <2>2. f[0] = 0
      BY <1>6, <2>1
    <2>3. ASSUME NEW n \in 1 .. N
          PROVE  f[n] = f[n - 1] + Cost(n)
      <3>1. n \in 0 .. N /\ n # 0
        BY <1>1
      <3> QED
        BY <1>6, <3>1
    <2> QED
      BY <2>2, <2>3
  <1> DEFINE S == {n \in Nat : n <= N => f[n] \in Nat}
  <1>8. \A n \in Nat : n \in S => n + 1 \in S
    <2> SUFFICES ASSUME NEW n \in Nat, n \in S, n + 1 <= N
                 PROVE  f[n + 1] \in Nat
      OBVIOUS
    <2>1. n + 1 \in 1 .. N /\ (n + 1) - 1 = n /\ f[n] \in Nat
      BY <1>1
    <2> QED
      BY <1>2, <1>7, <2>1
  <1>9. 0 \in S
    BY <1>7
  <1> HIDE DEF S
  <1>10. Nat \subseteq S
    BY <1>8, <1>9, Induction
  <1>11. \A n \in 0 .. N : f[n] \in Nat
    <2> TAKE n \in 0 .. N
    <2>1. n \in S /\ n <= N
      BY <1>1, <1>10
    <2> QED
      BY <2>1 DEF S
  <1>12. f \in [0 .. N -> Nat]
    <2> HIDE DEF N
    <2>1. f = [n \in 0 .. N |-> f[n]]
      BY <1>6
    <2> QED
      BY <1>11, <2>1
  <1>13. Adds(f, columns, first)
    BY <1>7, <1>12 DEF Adds, Cost
  <1> QED
    BY <1>3, <1>13

\* The same columns take the same.
LEMMA CostsAgree ==
    ASSUME Wide, NEW a \in Seq(G!Columns), NEW b \in Seq(G!Columns), NEW first \in BOOLEAN,
           NEW m \in Nat, m <= Len(a), m <= Len(b), \A i \in 1 .. m : a[i] = b[i]
    PROVE  G!Costs(a, first)[m] = G!Costs(b, first)[m]
  <1> DEFINE f == G!Costs(a, first)
             g == G!Costs(b, first)
             S == {n \in Nat : n <= m => f[n] = g[n]}
  <1>1. Adds(f, a, first) /\ Adds(g, b, first)
    BY CostsAdd
  <1> HIDE DEF f, g
  <1>2. 0 \in S
    BY <1>1 DEF Adds
  <1>3. \A n \in Nat : n \in S => n + 1 \in S
    <2> SUFFICES ASSUME NEW n \in Nat, n \in S, n + 1 <= m
                 PROVE  f[n + 1] = g[n + 1]
      OBVIOUS
    <2>1. /\ n + 1 \in 1 .. Len(a) /\ n + 1 \in 1 .. Len(b) /\ (n + 1) - 1 = n /\ f[n] = g[n]
          /\ a[n + 1] = b[n + 1]
      OBVIOUS
    <2> DEFINE c == G!column_cost(a[n + 1], first /\ n + 1 = 1)
    <2>2. f[n + 1] = f[n] + c
      BY <1>1, <2>1 DEF Adds
    <2>3. g[n + 1] = g[n] + c
      BY <1>1, <2>1 DEF Adds
    <2> HIDE DEF c
    <2> QED
      BY <2>1, <2>2, <2>3
  <1> HIDE DEF S
  <1>4. m \in S
    BY <1>2, <1>3, Induction
  <1>5. f[m] = g[m]
    BY <1>4 DEF S
  <1> QED
    BY <1>5 DEF f, g

\* A column before others takes what it takes.
LEMMA CostsBehind ==
    ASSUME Wide, NEW c \in G!Columns, NEW w \in Seq(G!Columns)
    PROVE  G!Costs(<<c>> \o w, TRUE)[Len(w) + 1]
             = G!column_cost(c, TRUE) + G!Costs(w, FALSE)[Len(w)]
  <1> DEFINE d == <<c>>
             a == d \o w
             N == Len(w)
             f == G!Costs(a, TRUE)
             g == G!Costs(w, FALSE)
             k == G!column_cost(c, TRUE)
             S == {n \in Nat : n <= N => f[n + 1] = k + g[n]}
  <1>1. d \in Seq(G!Columns) /\ Len(d) = 1 /\ d[1] = c
    OBVIOUS
  <1>2. k \in Nat
    BY ColumnsCost
  <1> HIDE DEF d
  <1>3. a \in Seq(G!Columns) /\ Len(a) = 1 + N /\ N \in Nat
    <2>1. a \in Seq(G!Columns)
      BY <1>1, ConcatProperties
    <2>2. Len(a) = Len(d) + Len(w)
      BY <1>1, ConcatProperties
    <2> HIDE DEF a
    <2> QED
      BY <1>1, <2>1, <2>2
  <1>4. \A i \in 1 .. 1 + N : a[i] = IF i <= 1 THEN d[i] ELSE w[i - 1]
    <2>1. \A i \in 1 .. Len(d) + Len(w) : a[i] = IF i <= Len(d) THEN d[i] ELSE w[i - Len(d)]
      BY <1>1, ConcatProperties
    <2> HIDE DEF a
    <2> QED
      BY <1>1, <2>1
  <1> HIDE DEF a
  <1>5. Adds(f, a, TRUE) /\ Adds(g, w, FALSE)
    BY <1>3, CostsAdd
  <1> HIDE DEF f, g
  <1>6. 0 \in S
    <2>1. 1 \in 1 .. Len(a) /\ 1 - 1 = 0 /\ f[0] = 0 /\ g[0] = 0 /\ a[1] = c
      BY <1>1, <1>3, <1>4, <1>5 DEF Adds
    <2>2. f[1] = f[1 - 1] + G!column_cost(a[1], TRUE /\ 1 = 1)
      BY <1>5, <2>1 DEF Adds
    <2>3. (TRUE /\ 1 = 1) = TRUE
      OBVIOUS
    <2>4. f[1] = 0 + k
      BY <2>1, <2>2, <2>3
    <2> HIDE DEF k
    <2>5. f[0 + 1] = k + g[0]
      BY <1>2, <2>1, <2>4
    <2> QED
      BY <2>5
  <1>7. \A n \in Nat : n \in S => n + 1 \in S
    <2> SUFFICES ASSUME NEW n \in Nat, n \in S, n + 1 <= N
                 PROVE  f[(n + 1) + 1] = k + g[n + 1]
      <3> HIDE DEF N, k
      <3> QED
        OBVIOUS
    <2> DEFINE m == n + 1
               x == G!column_cost(w[m], FALSE)
    <2>1. /\ m \in 1 .. N /\ m - 1 = n /\ m + 1 \in 1 .. Len(a) /\ (m + 1) - 1 = m
          /\ f[m] = k + g[n] /\ g[n] \in Nat
      <3>1. m \in 1 .. N /\ m - 1 = n /\ m + 1 \in 1 .. Len(a) /\ (m + 1) - 1 = m
        <4> HIDE DEF N
        <4> QED
          BY <1>3
      <3>2. f[m] = k + g[n]
        <4> HIDE DEF N, k
        <4> QED
          BY <1>3
      <3>3. n \in 0 .. Len(w)
        BY <1>3
      <3>4. g[n] \in Nat
        BY <1>5, <3>3 DEF Adds
      <3> QED
        BY <3>1, <3>2, <3>4
    <2>2. a[m + 1] = w[m]
      BY <1>3, <1>4, <2>1
    <2>3. (FALSE /\ m = 1) = FALSE /\ (TRUE /\ m + 1 = 1) = FALSE
      BY <2>1
    <2>4. g[m] = g[n] + x
      BY <1>5, <2>1, <2>3 DEF Adds
    <2>5. f[m + 1] = f[m] + x
      BY <1>5, <2>1, <2>2, <2>3 DEF Adds
    <2>6. w[m] \in G!Columns
      BY <2>1, ElementOfSeq
    <2>7. x \in Nat
      BY <2>6, ColumnsCost
    <2> HIDE DEF k, x, m
    <2> QED
      BY <1>2, <2>1, <2>4, <2>5, <2>7 DEF m
  <1> HIDE DEF S
  <1>8. N \in S
    BY <1>3, <1>6, <1>7, Induction
  <1>9. f[N + 1] = k + g[N]
    <2> HIDE DEF N, k
    <2> QED
      BY <1>3, <1>8 DEF S
  <1> QED
    BY <1>9 DEF f, g, a, d

\* A stretch of columns: those from a start on, the first of them whether it fits or not.
Stretch(w, columns, start, available, first) ==
    /\ w \in Seq(G!Columns) /\ start + Len(w) <= Len(columns)
    /\ \A i \in 1 .. Len(w) : w[i] = columns[start + i]
    /\ start < Len(columns) => w # <<>>
    /\ Len(w) > 1 => G!Costs(w, first)[Len(w)] <= available

\* What fits from a start is a stretch of the columns: the first of them, and more as far as
\* they fit.
LEMMA WindowsFit ==
    ASSUME Wide, NEW columns \in Seq(G!Columns), NEW start \in 0 .. Len(columns),
           NEW available \in Nat, NEW first \in BOOLEAN
    PROVE  Stretch(G!fit_window(columns, start, available, first), columns, start, available, first)
  <1> DEFINE from == SubSeq(columns, start + 1, Len(columns))
             N == Len(from)
             cost == G!Costs(from, first)
             fits == {n \in 1 .. N : \A m \in 2 .. n : cost[m] <= available}
             S == {0} \cup fits
             k == G!Max(S)
             w == SubSeq(from, 1, k)
  <1>1. G!fit_window(columns, start, available, first) = w
    BY DEF G!fit_window
  <1>2. from \in Seq(G!Columns) /\ Len(from) = Len(columns) - start
    BY Halves
  <1>3. \A i \in 1 .. N : from[i] = columns[start + i]
    <2>1. /\ start + 1 \in Nat \ {0} /\ Len(columns) \in Nat /\ Len(columns) <= Len(columns)
          /\ start + 1 <= Len(columns) + 1
      OBVIOUS
    <2>2. \A i \in 1 .. (Len(columns) + 1) - (start + 1) :
            from[i] = columns[((start + 1) + i) - 1]
      BY <2>1, Between
    <2> HIDE DEF from
    <2>3. N = (Len(columns) + 1) - (start + 1)
          /\ \A i \in 1 .. N : ((start + 1) + i) - 1 = start + i
      BY <1>2
    <2> QED
      BY <2>2, <2>3
  <1> HIDE DEF from, cost
  <1>4. N \in Nat /\ S \in SUBSET (0 .. N) /\ S # {}
    BY <1>2
  <1>5. k \in S /\ \A n \in S : n <= k
    BY <1>4, GridGreatest
  <1> HIDE DEF k
  <1>6. k \in 0 .. N
    BY <1>4, <1>5
  <1>7. N > 0 => k # 0
    <2> HAVE N > 0
    <2>1. 1 \in fits
      BY <1>4
    <2> HIDE DEF fits
    <2> QED
      BY <1>5, <1>6, <2>1
  <1>8. k > 1 => cost[k] <= available
    <2> HAVE k > 1
    <2>1. k \in fits /\ k \in 2 .. k
      BY <1>5, <1>6
    <2> QED
      BY <2>1
  <1> HIDE DEF S, fits
  <1>9. w \in Seq(G!Columns) /\ Len(w) = k
    <2>1. k \in 0 .. Len(from)
      BY <1>6
    <2> QED
      BY <1>2, <2>1, Halves
  <1>10. \A i \in 1 .. k : w[i] = from[i]
    <2>1. 1 \in Nat \ {0} /\ k \in Nat /\ k <= Len(from) /\ 1 <= k + 1
      BY <1>4, <1>6
    <2>2. \A i \in 1 .. (k + 1) - 1 : w[i] = from[(1 + i) - 1]
      BY <1>2, <2>1, Between
    <2> HIDE DEF w
    <2>3. (k + 1) - 1 = k /\ \A i \in 1 .. k : (1 + i) - 1 = i
      BY <2>1
    <2> QED
      BY <2>2, <2>3
  <1> HIDE DEF w
  <1>11. G!Costs(w, first)[k] = cost[k]
    <2>1. k \in Nat /\ k <= Len(w) /\ k <= Len(from)
      BY <1>4, <1>6, <1>9
    <2> QED
      BY <1>2, <1>9, <1>10, <2>1, CostsAgree DEF cost
  <1>12. start + Len(w) <= Len(columns) /\ (start < Len(columns) => w # <<>>)
    <2>1. start < Len(columns) => N > 0
      BY <1>2
    <2>2. w = <<>> => k = 0
      BY <1>9
    <2>3. start + k <= Len(columns)
      BY <1>2, <1>6
    <2> QED
      BY <1>7, <1>9, <2>1, <2>2, <2>3
  <1>13. \A i \in 1 .. Len(w) : w[i] = columns[start + i]
    <2> TAKE i \in 1 .. Len(w)
    <2>1. i \in 1 .. k /\ i \in 1 .. N
      BY <1>4, <1>6, <1>9
    <2> QED
      BY <1>3, <1>10, <2>1
  <1>14. Stretch(w, columns, start, available, first)
    BY <1>8, <1>9, <1>11, <1>12, <1>13 DEF Stretch
  <1> QED
    BY <1>1, <1>14

\* The window slides to a stretch that has the selected column.
LEMMA WindowsSlide ==
    ASSUME Wide, NEW columns \in Seq(G!Columns), NEW start \in 0 .. Len(columns),
           NEW column, G!Index(columns, column) # 0, NEW available \in Nat, NEW first \in BOOLEAN
    PROVE  \E s \in 0 .. Len(columns) :
             LET w == G!Slide(columns, start, column, available, first)
             IN Stretch(w, columns, s, available, first) /\ G!Index(w, column) # 0
  <1> DEFINE window(s) == G!fit_window(columns, s, available, first)
             has(s) == G!Index(window(s), column) # 0
             i == G!Index(columns, column)
             from == IF has(start) THEN start ELSE G!Max({0, i - 1})
             back == {s \in 0 .. from : \A t \in s .. from - 1 : has(t)}
             b == G!Min(back)
  <1>1. G!Slide(columns, start, column, available, first) = window(b)
    BY DEF G!Slide
  <1>2. i \in 1 .. Len(columns) /\ columns[i] = column
    BY Indexes
  <1>3. \A s \in 0 .. Len(columns) : Stretch(window(s), columns, s, available, first)
    BY WindowsFit
  <1> HIDE DEF window
  <1>4. from \in 0 .. Len(columns) /\ has(from)
    <2>1. CASE has(start)
      BY <2>1
    <2>2. CASE ~has(start)
      <3> DEFINE j == i - 1
      <3>1. 0 \in Int /\ j \in Int /\ j >= 0 /\ j \in 0 .. Len(columns)
            /\ j < Len(columns) /\ j + 1 = i
        BY <1>2
      <3> HIDE DEF j
      <3>2. G!Max({0, j}) \in {0, j} /\ G!Max({0, j}) >= j
        BY <3>1, GridOfTwo
      <3>3. G!Max({0, j}) = j
        BY <3>1, <3>2
      <3>4. from = j
        BY <2>2, <3>3 DEF j
      <3>5. window(j) # <<>> /\ window(j) \in Seq(G!Columns)
            /\ \A n \in 1 .. Len(window(j)) : window(j)[n] = columns[j + n]
        BY <1>3, <3>1 DEF Stretch
      <3>6. 1 \in 1 .. Len(window(j))
        BY <3>5, EmptySeq
      <3>7. window(j)[1] = column
        BY <1>2, <3>1, <3>5, <3>6
      <3>8. has(j)
        BY <3>5, <3>6, <3>7, Indexes
      <3> QED
        BY <3>1, <3>4, <3>8
    <2> QED
      BY <2>1, <2>2
  <1> HIDE DEF from, has
  <1>5. from \in back /\ back \in SUBSET Nat
    BY <1>4
  <1>6. b \in back
    <2>1. back # {}
      BY <1>5
    <2> HIDE DEF back
    <2> QED
      BY <1>5, <2>1, GridSmallest
  <1> HIDE DEF b
  <1>7. b \in 0 .. Len(columns) /\ has(b)
    <2>1. CASE b = from
      BY <1>4, <2>1
    <2>2. CASE b # from
      <3>1. b \in 0 .. from /\ b \in b .. from - 1
        BY <1>4, <1>6, <2>2
      <3> QED
        BY <1>4, <1>6, <3>1
    <2> QED
      BY <2>1, <2>2
  <1> QED
    BY <1>1, <1>3, <1>7 DEF has

\* The state of the grid: a column that is shown is selected.
GridShape(g) ==
    /\ DOMAIN g = {"sort", "hidden", "widths", "freeze", "start"}
    /\ g.start \in Nat /\ g.freeze \in BOOLEAN
    /\ \A c \in DOMAIN g.widths : g.widths[c] \in Nat

GridInv ==
    /\ rows = <<>> \/ rows \in Tables
    /\ GridShape(grid)
    /\ DOMAIN selected = {"row", "column"}
    /\ G!Count > 0 => selected.column \in G!Columns \ grid.hidden

\* A result has a number of columns, each with a width,
LEMMA Counts ==
    ASSUME rows = <<>> \/ rows \in Tables
    PROVE  G!Count \in Nat /\ \A c \in G!Columns : Automatic[c] \in Nat
  <1>1. CASE rows = <<>>
    BY <1>1 DEF G!Count, G!Columns
  <1>2. CASE rows # <<>>
    <2>1. Len(rows[1]) \in Nat /\ \A c \in 1 .. Len(rows[1]) : Automatic[c] \in Nat
      BY <1>2, WorkspaceAssumption
    <2>2. G!Count = Len(rows[1])
      BY <1>2 DEF G!Count
    <2> QED
      BY <2>1, <2>2 DEF G!Columns
  <1> QED
    BY <1>1, <1>2

\* and each has one still after it was resized.
LEMMA GridIsWide ==
    ASSUME GridInv
    PROVE  G!Count \in Nat /\ Wide
  BY Counts DEF GridInv, GridShape, Wide, G!width_for

\* What a window of columns must be.
Includes(window, available) ==
    /\ G!Index(window, selected.column) # 0
    /\ \A i, j \in DOMAIN window : i < j => window[i] < window[j]
    /\ G!ToSet(window) \cap grid.hidden = {}
    /\ Len(window) > (IF grid.freeze THEN 2 ELSE 1) =>
         G!Costs(window, TRUE)[Len(window)] =< available

\* No column is frozen, or the selected column is the one that is.
LEMMA PlainWindows ==
    ASSUME GridInv, G!Count > 0, NEW available \in Nat, NEW w, NEW v, NEW s \in 0 .. Len(v),
           v = G!Visible(grid.hidden), Stretch(w, v, s, available, TRUE),
           G!Index(w, selected.column) # 0
    PROVE  Includes(w, available)
  <1>1. Shows(v, grid.hidden) /\ G!Columns \ grid.hidden # {}
    BY GridIsWide, VisibleShows DEF GridInv
  <1>2. /\ w \in Seq(G!Columns) /\ s + Len(w) <= Len(v) /\ s \in Nat
        /\ \A i \in 1 .. Len(w) : w[i] = v[s + i]
    BY <1>1 DEF Stretch
  <1>3. v \in Seq(G!Columns) /\ Len(v) \in Nat /\ Len(w) \in Nat /\ DOMAIN w = 1 .. Len(w)
    BY <1>1, <1>2 DEF Shows
  <1>4. \A i \in 1 .. Len(w) : s + i \in 1 .. Len(v)
    BY <1>2, <1>3
  <1>5. ASSUME NEW i \in DOMAIN w, NEW j \in DOMAIN w, i < j
        PROVE  w[i] < w[j]
    <2>1. /\ i \in 1 .. Len(w) /\ j \in 1 .. Len(w) /\ s + i \in 1 .. Len(v)
          /\ s + j \in 1 .. Len(v)
      BY <1>3, <1>4
    <2>2. s + i < s + j
      BY <1>2, <1>5, <2>1
    <2>3. v[s + i] < v[s + j]
      BY <1>1, <2>1, <2>2 DEF Shows
    <2> QED
      BY <1>2, <2>1, <2>3
  <1>6. G!ToSet(w) \cap grid.hidden = {}
    <2>1. \A i \in 1 .. Len(w) : w[i] \notin grid.hidden
      BY <1>1, <1>2, <1>4 DEF Shows
    <2> QED
      BY <1>3, <2>1 DEF G!ToSet
  <1>7. Len(w) > 1 => G!Costs(w, TRUE)[Len(w)] <= available
    BY DEF Stretch
  <1>8. Len(w) > (IF grid.freeze THEN 2 ELSE 1) => Len(w) > 1
    BY <1>3
  <1> QED
    BY <1>5, <1>6, <1>7, <1>8 DEF Includes

\* The first column is frozen, and another is selected.
LEMMA FrozenWindows ==
    ASSUME GridInv, G!Count > 0, grid.freeze, NEW available \in Nat,
           NEW v, v = G!Visible(grid.hidden), v # <<>>,
           NEW s \in 0 .. Len(Tail(v)), NEW budget \in Nat, NEW w,
           budget = G!Max({available - G!column_cost(v[1], TRUE), 0}),
           Stretch(w, Tail(v), s, budget, FALSE), G!Index(w, selected.column) # 0
    PROVE  Includes(<<v[1]>> \o w, available)
  <1> DEFINE frozen == v[1]
             d == <<frozen>>
             a == d \o w
             movable == Tail(v)
             cost == G!column_cost(frozen, TRUE)
             x == G!Costs(w, FALSE)[Len(w)]
  <1>1. Shows(v, grid.hidden) /\ G!Columns \ grid.hidden # {} /\ Wide
    BY GridIsWide, VisibleShows DEF GridInv
  <1>2. v \in Seq(G!Columns) /\ Len(v) \in Nat \ {0}
    BY <1>1, EmptySeq DEF Shows
  <1>3. /\ movable \in Seq(G!Columns) /\ Len(movable) = Len(v) - 1
        /\ \A i \in 1 .. Len(movable) : movable[i] = v[i + 1]
    BY <1>2, HeadTailProperties
  <1> HIDE DEF movable
  <1>4. frozen \in G!Columns
    BY <1>2, ElementOfSeq
  <1> HIDE DEF frozen
  <1>5. /\ w \in Seq(G!Columns) /\ s + Len(w) <= Len(movable) /\ s \in Nat
        /\ \A i \in 1 .. Len(w) : w[i] = movable[s + i]
    BY <1>3 DEF Stretch, movable
  <1>6. Len(w) \in Nat /\ d \in Seq(G!Columns) /\ Len(d) = 1 /\ d[1] = frozen
    BY <1>4, <1>5
  <1> HIDE DEF d
  <1>7. a \in Seq(G!Columns) /\ Len(a) = Len(w) + 1 /\ a[1] = frozen
        /\ \A i \in 1 .. Len(w) : a[i + 1] = w[i]
    <2>0. d \in Seq(G!Columns) /\ w \in Seq(G!Columns)
      BY <1>5, <1>6
    <2>1. a \in Seq(G!Columns)
      BY <2>0, ConcatProperties
    <2>2. Len(a) = Len(d) + Len(w)
      BY <2>0, ConcatProperties
    <2>3. \A i \in 1 .. Len(d) + Len(w) : a[i] = IF i <= Len(d) THEN d[i] ELSE w[i - Len(d)]
      BY <2>0, ConcatProperties
    <2> HIDE DEF a
    <2>4. a[1] = frozen
      BY <1>6, <2>3
    <2>5. ASSUME NEW i \in 1 .. Len(w)
          PROVE  a[i + 1] = w[i]
      <3>1. i + 1 \in 1 .. Len(d) + Len(w) /\ ~(i + 1 <= Len(d)) /\ (i + 1) - Len(d) = i
        BY <1>6
      <3> QED
        BY <2>3, <3>1
    <2> QED
      BY <1>6, <2>1, <2>2, <2>4, <2>5
  <1>8. ASSUME NEW i \in 1 .. Len(w)
        PROVE  /\ s + i \in 1 .. Len(movable) /\ (s + i) + 1 \in 1 .. Len(v)
               /\ w[i] = v[(s + i) + 1]
    <2>1. s + i \in 1 .. Len(movable) /\ (s + i) + 1 \in 1 .. Len(v)
      BY <1>2, <1>3, <1>5, <1>6
    <2> QED
      BY <1>3, <1>5, <2>1
  <1>9. 1 \in 1 .. Len(v) /\ DOMAIN a = 1 .. Len(w) + 1
    <2> HIDE DEF a
    <2> QED
      BY <1>2, <1>7
  <1> HIDE DEF a
  <1>10. \A i \in 1 .. Len(w) + 1 :
           \E n \in 1 .. Len(v) : a[i] = v[n] /\ n = IF i = 1 THEN 1 ELSE s + i
    <2> TAKE i \in 1 .. Len(w) + 1
    <2>1. CASE i = 1
      BY <1>7, <1>9, <2>1 DEF frozen
    <2>2. CASE i # 1
      <3> DEFINE j == i - 1
      <3>1. j \in 1 .. Len(w) /\ j + 1 = i /\ (s + j) + 1 = s + i
        BY <1>5, <1>6, <2>2
      <3> HIDE DEF j
      <3>2. a[i] = w[j]
        BY <1>7, <3>1
      <3>3. w[j] = v[s + i] /\ s + i \in 1 .. Len(v)
        BY <1>8, <3>1
      <3> QED
        BY <2>2, <3>2, <3>3
    <2> QED
      BY <2>1, <2>2
  <1>11. ASSUME NEW i \in DOMAIN a, NEW j \in DOMAIN a, i < j
         PROVE  a[i] < a[j]
    <2>1. i \in 1 .. Len(w) + 1 /\ j \in 1 .. Len(w) + 1
      BY <1>9
    <2>2. PICK m \in 1 .. Len(v) : a[i] = v[m] /\ m = IF i = 1 THEN 1 ELSE s + i
      BY <1>10, <2>1
    <2>3. PICK n \in 1 .. Len(v) : a[j] = v[n] /\ n = IF j = 1 THEN 1 ELSE s + j
      BY <1>10, <2>1
    <2>4. m < n
      BY <1>5, <1>6, <1>11, <2>1, <2>2, <2>3
    <2>5. v[m] < v[n]
      BY <1>1, <2>4 DEF Shows
    <2> QED
      BY <2>2, <2>3, <2>5
  <1>12. G!ToSet(a) \cap grid.hidden = {}
    <2>1. \A n \in 1 .. Len(v) : v[n] \notin grid.hidden
      BY <1>1 DEF Shows
    <2>2. \A i \in DOMAIN a : a[i] \notin grid.hidden
      BY <1>9, <1>10, <2>1
    <2> QED
      BY <2>2 DEF G!ToSet
  <1>13. G!Index(a, selected.column) # 0
    <2> DEFINE n == G!Index(w, selected.column)
    <2>1. n \in 0 .. Len(w) /\ n # 0 /\ w[n] = selected.column
      BY <1>5, Indexes
    <2> HIDE DEF n
    <2>2. n \in 1 .. Len(w) /\ n + 1 \in 1 .. Len(a)
      BY <1>6, <1>7, <2>1
    <2>3. a[n + 1] = selected.column
      BY <1>7, <2>1, <2>2
    <2> QED
      BY <1>7, <2>2, <2>3, Indexes
  <1>14. Len(a) > 2 => G!Costs(a, TRUE)[Len(a)] <= available
    <2> HAVE Len(a) > 2
    <2>1. Len(w) > 1
      BY <1>6, <1>7
    <2>2. x <= budget
      BY <2>1 DEF Stretch
    <2>3. G!Costs(a, TRUE)[Len(w) + 1] = cost + x
      BY <1>1, <1>4, <1>5, CostsBehind DEF a, d
    <2>4. cost \in Nat
      BY <1>1, <1>4, ColumnsCost
    <2>5. x \in Nat \ {0}
      <3> DEFINE f == G!Costs(w, FALSE)
                 n == Len(w)
      <3>1. Adds(f, w, FALSE)
        BY <1>1, <1>5, CostsAdd
      <3>2. n \in 1 .. Len(w) /\ n - 1 \in 0 .. Len(w) /\ n # 1
        <4> HIDE DEF n
        <4>1. n \in Nat /\ n > 1
          BY <1>6, <2>1 DEF n
        <4>2. n \in 1 .. n /\ n - 1 \in 0 .. n /\ n # 1
          BY <4>1
        <4> QED
          BY <4>2 DEF n
      <3>3. w[n] \in G!Columns
        BY <1>5, <3>2, ElementOfSeq
      <3> DEFINE c == G!column_cost(w[n], FALSE)
      <3>4. c \in Nat \ {0}
        BY <1>1, <3>3, ColumnsCost
      <3>5. (FALSE /\ n = 1) = FALSE
        OBVIOUS
      <3> HIDE DEF f
      <3>6. f[n] = f[n - 1] + c
        BY <3>1, <3>2, <3>5 DEF Adds
      <3>7. f[n - 1] \in Nat
        BY <3>1, <3>2 DEF Adds
      <3> HIDE DEF c, n
      <3>8. f[n] \in Nat \ {0}
        BY <3>4, <3>6, <3>7
      <3> QED
        BY <3>8 DEF f, n
    <2> HIDE DEF x, cost
    <2> DEFINE rest == available - cost
    <2>6. rest \in Int /\ 0 \in Int
      BY <2>4
    <2>7. budget = G!Max({rest, 0})
      BY DEF cost, frozen
    <2> HIDE DEF rest
    <2>8. budget \in {rest, 0}
      BY <2>6, <2>7, GridOfTwo
    <2>9. budget = rest
      BY <2>2, <2>5, <2>8
    <2>10. cost + x <= available
      BY <2>2, <2>4, <2>5, <2>9 DEF rest
    <2> QED
      BY <1>7, <2>3, <2>10
  <1>15. Includes(a, available)
    BY <1>11, <1>12, <1>13, <1>14 DEF Includes
  <1> QED
    BY <1>15 DEF a, d, frozen

\* The window has the selected column, frozen or not, whatever width is left for it.
LEMMA WindowsInclude ==
    ASSUME GridInv, G!Count > 0, NEW available \in Nat
    PROVE  Includes(G!column_window(available), available)
  <1> DEFINE v == G!Visible(grid.hidden)
             column == selected.column
             movable == Tail(v)
  <1>1. /\ Shows(v, grid.hidden) /\ Wide /\ column \in G!Columns \ grid.hidden
        /\ grid.start \in Nat /\ grid.freeze \in BOOLEAN
    BY GridIsWide, VisibleShows DEF GridInv, GridShape
  <1>2. v \in Seq(G!Columns) /\ v # <<>> /\ Len(v) \in Nat \ {0}
    BY <1>1, EmptySeq DEF Shows
  <1>3. PICK n \in 1 .. Len(v) : v[n] = column
    BY <1>1 DEF Shows
  <1>4. G!Index(v, column) \in 1 .. Len(v) /\ v[G!Index(v, column)] = column
    BY <1>2, <1>3, Indexes
  <1>5. CASE ~grid.freeze
    <2> DEFINE l == Len(v) - 1
               start == G!Min({grid.start, l})
               w == G!Slide(v, start, column, available, TRUE)
    <2>1. G!column_window(available) = w
      BY <1>2, <1>5 DEF G!column_window
    <2>2. l \in Nat /\ l <= Len(v)
      BY <1>2
    <2> HIDE DEF l
    <2>3. start \in 0 .. Len(v)
      <3> DEFINE k == grid.start
      <3>1. k \in Nat /\ k \in Int /\ l \in Int
        BY <1>1, <2>2
      <3> HIDE DEF k, v
      <3>2. G!Min({k, l}) \in {k, l} /\ G!Min({k, l}) <= l
        BY <3>1, GridOfTwo
      <3>3. start = G!Min({k, l})
        BY DEF k
      <3> HIDE DEF start
      <3> QED
        BY <1>2, <2>2, <3>1, <3>2, <3>3
    <2> HIDE DEF start, v
    <2>4. PICK s \in 0 .. Len(v) :
            Stretch(w, v, s, available, TRUE) /\ G!Index(w, column) # 0
      <3>1. G!Index(v, column) # 0 /\ v \in Seq(G!Columns) /\ TRUE \in BOOLEAN
        BY <1>2, <1>4
      <3> HIDE DEF column
      <3> QED
        BY <1>1, <2>3, <3>1, WindowsSlide
    <2> HIDE DEF w
    <2>5. Includes(w, available)
      BY <2>4, PlainWindows DEF v
    <2> QED
      BY <2>1, <2>5
  <1>6. CASE grid.freeze
    <2>1. CASE G!Index(v, column) <= 1
      <3> DEFINE w == <<v[1]>>
      <3>1. G!column_window(available) = w
        BY <1>2, <1>6, <2>1 DEF G!column_window
      <3>2. v[1] = column /\ v[1] \in G!Columns
        BY <1>1, <1>4, <2>1
      <3>3. w \in Seq(G!Columns) /\ Len(w) = 1 /\ w[1] = v[1] /\ w # <<>>
        BY <3>2
      <3> HIDE DEF w
      <3>4. Stretch(w, v, 0, available, TRUE) /\ 0 \in 0 .. Len(v)
        BY <1>2, <3>3 DEF Stretch
      <3>5. G!Index(w, column) # 0
        BY <3>2, <3>3, Indexes
      <3>6. Includes(w, available)
        BY <3>4, <3>5, PlainWindows
      <3> QED
        BY <3>1, <3>6
    <2>2. CASE ~(G!Index(v, column) <= 1)
      <3> DEFINE m == G!Max({grid.start - 1, 0})
                 l == G!Max({Len(movable) - 1, 0})
                 start == G!Min({m, l})
                 cost == G!column_cost(v[1], TRUE)
                 rest == available - cost
                 budget == G!Max({rest, 0})
                 w == G!Slide(movable, start, column, budget, FALSE)
      <3>1. G!column_window(available) = <<v[1]>> \o w
        BY <1>2, <1>6, <2>2 DEF G!column_window
      <3>2. /\ movable \in Seq(G!Columns) /\ Len(movable) = Len(v) - 1
            /\ \A i \in 1 .. Len(movable) : movable[i] = v[i + 1]
        BY <1>2, HeadTailProperties
      <3> HIDE DEF movable, v
      <3>3. Len(movable) \in Nat
        BY <1>2, <3>2
      <3>4. budget \in Nat
        <4>1. v[1] \in G!Columns
          <5>1. 1 \in 1 .. Len(v)
            BY <1>2
          <5> QED
            BY <1>2, <5>1, ElementOfSeq
        <4>2. cost \in Nat
          BY <1>1, <4>1, ColumnsCost
        <4> HIDE DEF cost
        <4>3. rest \in Int /\ 0 \in Int
          BY <4>2
        <4> HIDE DEF rest
        <4>4. budget \in {rest, 0} /\ budget >= 0
          BY <4>3, GridOfTwo
        <4> QED
          BY <4>3, <4>4
      <3>5. start \in 0 .. Len(movable)
        <4> DEFINE p == grid.start - 1
                   q == Len(movable) - 1
        <4>1. p \in Int /\ q \in Int /\ 0 \in Int /\ q <= Len(movable)
          BY <1>1, <3>3
        <4> HIDE DEF p, q
        <4>2. G!Max({p, 0}) \in {p, 0} /\ G!Max({p, 0}) >= 0
          BY <4>1, GridOfTwo
        <4>3. G!Max({q, 0}) \in {q, 0} /\ G!Max({q, 0}) >= 0
          BY <4>1, GridOfTwo
        <4>4. m \in Nat /\ l \in Nat /\ l <= Len(movable)
          BY <3>3, <4>1, <4>2, <4>3 DEF p, q
        <4> HIDE DEF m, l
        <4>5. m \in Int /\ l \in Int
          BY <4>4
        <4>6. G!Min({m, l}) \in {m, l} /\ G!Min({m, l}) <= l
          BY <4>5, GridOfTwo
        <4>7. start = G!Min({m, l})
          OBVIOUS
        <4> HIDE DEF start
        <4> QED
          BY <3>3, <4>4, <4>6, <4>7
      <3>6. G!Index(movable, column) # 0
        <4> DEFINE i == G!Index(v, column)
                   j == i - 1
        <4>1. i \in 2 .. Len(v) /\ v[i] = column
          BY <1>4, <2>2
        <4> HIDE DEF i
        <4>2. j \in 1 .. Len(movable) /\ j + 1 = i
          BY <1>2, <3>2, <4>1
        <4> HIDE DEF j
        <4>3. movable[j] = column
          BY <3>2, <4>1, <4>2
        <4> QED
          BY <3>2, <4>2, <4>3, Indexes
      <3> HIDE DEF start, budget
      <3>7. PICK s \in 0 .. Len(movable) :
              Stretch(w, movable, s, budget, FALSE) /\ G!Index(w, column) # 0
        BY <1>1, <3>2, <3>4, <3>5, <3>6, WindowsSlide
      <3> HIDE DEF w
      <3>8. /\ v = G!Visible(grid.hidden) /\ movable = Tail(v)
            /\ budget = G!Max({available - G!column_cost(v[1], TRUE), 0})
        BY DEF v, movable, budget
      <3>9. Includes(<<v[1]>> \o w, available)
        BY <1>2, <1>6, <3>4, <3>7, <3>8, FrozenWindows
      <3> QED
        BY <3>1, <3>9
    <2> QED
      BY <2>1, <2>2
  <1> QED
    BY <1>1, <1>5, <1>6

\* A step that leaves the result, and a column that is shown selected.
LEMMA GridSelects ==
    ASSUME GridInv, rows' = rows, GridShape(grid'), DOMAIN selected' = {"row", "column"},
           G!Count > 0 => selected'.column \in G!Columns \ grid'.hidden
    PROVE  GridInv'
  <1>1. G!Count' = G!Count /\ G!Columns' = G!Columns
    BY DEF G!Count, G!Columns
  <1>2. rows' = <<>> \/ rows' \in Tables
    BY DEF GridInv
  <1>3. G!Count' > 0 => selected'.column \in G!Columns' \ grid'.hidden
    BY <1>1
  <1> QED
    BY <1>2, <1>3 DEF GridInv, GridShape

\* A step that moves neither the columns nor the selected one keeps the invariant,
LEMMA GridKeeps ==
    ASSUME GridInv, rows' = rows, GridShape(grid'), grid'.hidden = grid.hidden,
           DOMAIN selected' = {"row", "column"}, selected'.column = selected.column
    PROVE  GridInv'
  <1>1. G!Count > 0 => selected'.column \in G!Columns \ grid'.hidden
    BY DEF GridInv
  <1> QED
    BY <1>1, GridSelects

\* a selection of a column that is shown does,
LEMMA SelectSelects ==
    ASSUME GridInv, NEW row, NEW column, NEW start \in Nat, G!Select(row, column, start),
           G!Count > 0 => column \in G!Columns \ grid.hidden
    PROVE  GridInv'
  <1>1. /\ selected' = [row |-> row, column |-> column] /\ grid' = [grid EXCEPT !.start = start]
        /\ rows' = rows
    BY DEF G!Select
  <1>2. GridShape(grid') /\ grid'.hidden = grid.hidden
    BY <1>1 DEF GridInv, GridShape
  <1>3. DOMAIN selected' = {"row", "column"} /\ selected'.column = column
    BY <1>1
  <1> QED
    BY <1>1, <1>2, <1>3, GridSelects

\* and a new order of the rows, when no column is hidden with it.
LEMMA KeepingRowKeeps ==
    ASSUME GridInv, NEW g, G!KeepingRow(g), GridShape(g),
           G!Count > 0 => selected.column \in G!Columns \ g.hidden
    PROVE  GridInv'
  <1>1. /\ grid' = g /\ rows' = rows /\ \E row : selected' = [selected EXCEPT !.row = row]
    BY DEF G!KeepingRow
  <1>2. DOMAIN selected' = {"row", "column"} /\ selected'.column = selected.column
    BY <1>1 DEF GridInv
  <1> QED
    BY <1>1, <1>2, GridSelects

\* A sort hides no column.
LEMMA SortsShape ==
    ASSUME GridInv, NEW c
    PROVE  GridShape(G!toggle_sort(c)) /\ G!toggle_sort(c).hidden = grid.hidden
  <1>1. PICK s : G!toggle_sort(c) = [grid EXCEPT !.sort = s]
    BY DEF G!toggle_sort
  <1> QED
    BY <1>1 DEF GridInv, GridShape

\* The column that keys act on is a column of the result,
LEMMA SelectedColumnIsOne ==
    ASSUME GridInv, G!Count > 0
    PROVE  G!SelectedColumn \in G!Columns
  <1> DEFINE v == G!Visible(grid.hidden)
  <1>1. Shows(v, grid.hidden)
    BY GridIsWide, VisibleShows
  <1> HIDE DEF v
  <1>2. v \in Seq(G!Columns) /\ 1 \in 1 .. Len(v)
    BY <1>1, EmptySeq DEF Shows
  <1>3. v[1] \in G!Columns
    BY <1>2, ElementOfSeq
  <1>4. selected.column \in G!Columns
    BY DEF GridInv
  <1> QED
    BY <1>3, <1>4 DEF G!SelectedColumn, v

\* and its width is changed.
LEMMA WidthKeeps ==
    ASSUME GridInv, NEW c, NEW w \in Int, G!Width(c, w)
    PROVE  GridInv'
  <1> DEFINE n == G!Max({G!MinWidth, G!Min({w, MaxWidth})})
             f == [d \in DOMAIN grid.widths \cup {c} |-> IF d = c THEN n ELSE grid.widths[d]]
  <1>1. n \in Nat
    <2> DEFINE m == G!Min({w, MaxWidth})
    <2>1. MaxWidth \in Int /\ 4 \in Int
      BY WorkspaceAssumption
    <2>2. m \in {w, MaxWidth}
      BY <2>1, GridOfTwo
    <2> HIDE DEF m
    <2>3. m \in Int
      BY <2>1, <2>2
    <2>4. G!Max({4, m}) \in {4, m} /\ G!Max({4, m}) >= 4
      BY <2>1, <2>3, GridOfTwo
    <2>5. n = G!Max({4, m})
      BY DEF m, G!MinWidth
    <2> HIDE DEF n
    <2> QED
      BY <2>3, <2>4, <2>5
  <1>2. /\ grid' = [grid EXCEPT !.widths = f] /\ rows' = rows /\ selected' = selected
    BY DEF G!Width, G!Only, GridInv, GridShape
  <1> HIDE DEF n
  <1>3. \A d \in DOMAIN f : f[d] \in Nat
    BY <1>1 DEF GridInv, GridShape
  <1> HIDE DEF f
  <1>4. GridShape(grid') /\ grid'.hidden = grid.hidden
    BY <1>2, <1>3 DEF GridInv, GridShape
  <1> QED
    BY <1>2, <1>4, GridKeeps DEF GridInv

\* A hidden column that was selected hands the selection to its neighbour.
LEMMA ToggleKeeps ==
    ASSUME GridInv, NEW c \in G!Columns, G!toggle_result_column(c)
    PROVE  GridInv'
  <1> DEFINE before == G!Visible(grid.hidden)
             hidden == IF c \in grid.hidden THEN grid.hidden \ {c} ELSE grid.hidden \cup {c}
             g == [grid EXCEPT !.hidden = hidden]
             after == G!Visible(g.hidden)
             place == IF c \in grid.hidden THEN G!Index(after, c)
                      ELSE G!Min({G!Max({1, G!Index(before, selected.column)}), Len(after)})
  <1>1. /\ c \in grid.hidden \/ Len(before) > 1
        /\ IF c \in grid.hidden \/ G!Index(after, selected.column) = 0
           THEN /\ grid' = [g EXCEPT !.start = place - 1]
                /\ selected' = [selected EXCEPT !.column = after[place]]
           ELSE grid' = g /\ selected' = selected
        /\ rows' = rows
    BY DEF G!toggle_result_column
  <1>2. G!Count \in Nat /\ G!Columns = 1 .. G!Count /\ G!Count > 0
    BY GridIsWide DEF G!Columns
  <1>3. Shows(before, grid.hidden) /\ G!Columns \ grid.hidden # {}
    BY <1>2, VisibleShows DEF GridInv
  <1>4. GridShape(g) /\ g.hidden = hidden
    BY DEF GridInv, GridShape
  <1>5. Shows(after, hidden)
    BY <1>2, <1>4, VisibleShows
  <1>6. G!Columns \ hidden # {}
    <2>1. CASE c \in grid.hidden
      BY <2>1
    <2>2. CASE c \notin grid.hidden
      <3> HIDE DEF before
      <3>1. before \in Seq(G!Columns) /\ 1 \in 1 .. Len(before) /\ 2 \in 1 .. Len(before) /\ 1 < 2
        BY <1>1, <1>3, <2>2 DEF Shows
      <3>2. before[1] < before[2] /\ before[1] \in G!Columns /\ before[2] \in G!Columns
            /\ before[1] \notin grid.hidden /\ before[2] \notin grid.hidden
        BY <1>3, <3>1, ElementOfSeq DEF Shows
      <3>3. before[1] # before[2]
        BY <1>2, <3>2
      <3> QED
        BY <2>2, <3>2, <3>3
    <2> QED
      BY <2>1, <2>2
  <1> HIDE DEF g, after
  <1>7. after \in Seq(G!Columns) /\ Len(after) \in Nat \ {0}
        /\ \A i \in 1 .. Len(after) : after[i] \in G!Columns \ hidden
    <2>1. after \in Seq(G!Columns) /\ after # <<>>
      BY <1>2, <1>5 DEF Shows
    <2>2. \A i \in 1 .. Len(after) : after[i] \notin hidden
      BY <1>5, <1>6 DEF Shows
    <2> HIDE DEF hidden
    <2> QED
      BY <2>1, <2>2, EmptySeq, ElementOfSeq
  <1>8. place \in 1 .. Len(after)
    <2>1. CASE c \in grid.hidden
      <3>1. c \in G!Columns \ hidden
        BY <2>1
      <3>2. PICK i \in 1 .. Len(after) : after[i] = c
        BY <1>5, <3>1 DEF Shows
      <3>3. G!Index(after, c) \in 0 .. Len(after) /\ G!Index(after, c) # 0
        BY <1>7, <3>2, Indexes
      <3>4. place = G!Index(after, c)
        BY <2>1
      <3> HIDE DEF place
      <3> QED
        BY <3>3, <3>4
    <2>2. CASE c \notin grid.hidden
      <3> DEFINE i == G!Index(before, selected.column)
                 m == G!Max({1, i})
                 l == Len(after)
      <3>1. i \in Int /\ 1 \in Int /\ l \in Nat \ {0} /\ l \in Int
        <4>1. before \in Seq(G!Columns)
          BY <1>3 DEF Shows
        <4>2. i \in 0 .. Len(before)
          BY <4>1, Indexes
        <4> QED
          BY <1>7, <4>2
      <3>2. place = G!Min({m, l})
        BY <2>2
      <3> HIDE DEF i, l, place
      <3>3. G!Max({1, i}) \in {1, i} /\ G!Max({1, i}) >= 1
        BY <3>1, GridOfTwo
      <3>4. m \in Int /\ m >= 1
        BY <3>1, <3>3
      <3> HIDE DEF m
      <3>5. G!Min({m, l}) \in {m, l} /\ G!Min({m, l}) <= l
        BY <3>1, <3>4, GridOfTwo
      <3>6. place \in 1 .. l
        BY <3>1, <3>2, <3>4, <3>5
      <3> QED
        BY <3>6 DEF l
    <2> QED
      BY <2>1, <2>2
  <1> HIDE DEF place, before
  <1>9. CASE c \in grid.hidden \/ G!Index(after, selected.column) = 0
    <2>1. /\ grid' = [g EXCEPT !.start = place - 1] /\ rows' = rows
          /\ selected' = [selected EXCEPT !.column = after[place]]
      BY <1>1, <1>9
    <2>2. place - 1 \in Nat
      BY <1>7, <1>8
    <2>3. GridShape(grid') /\ grid'.hidden = hidden
      BY <1>4, <2>1, <2>2 DEF GridShape
    <2>4. DOMAIN selected' = {"row", "column"} /\ selected'.column = after[place]
      BY <2>1 DEF GridInv
    <2>5. selected'.column \in G!Columns \ grid'.hidden
      BY <1>7, <1>8, <2>3, <2>4
    <2> QED
      BY <2>1, <2>3, <2>4, <2>5, GridSelects
  <1>10. CASE ~(c \in grid.hidden \/ G!Index(after, selected.column) = 0)
    <2>1. grid' = g /\ selected' = selected /\ rows' = rows
      BY <1>1, <1>10
    <2> DEFINE n == G!Index(after, selected.column)
    <2>2. n \in 0 .. Len(after) /\ n # 0 /\ after[n] = selected.column
      BY <1>7, <1>10, Indexes
    <2> HIDE DEF n
    <2>3. n \in 1 .. Len(after)
      BY <1>7, <2>2
    <2>4. selected'.column \in G!Columns \ grid'.hidden
      BY <1>4, <1>7, <2>1, <2>2, <2>3
    <2>5. GridShape(grid') /\ DOMAIN selected' = {"row", "column"}
      BY <1>4, <2>1 DEF GridInv
    <2> QED
      BY <2>1, <2>4, <2>5, GridSelects
  <1> QED
    BY <1>9, <1>10

\* A move goes to a column that is shown.
LEMMA MoveColumnKeeps ==
    ASSUME GridInv, NEW delta \in Int, G!move_result_column(delta)
    PROVE  GridInv'
  <1> DEFINE listed == G!Visible(grid.hidden)
             i == G!Index(listed, selected.column)
             current == G!Max({1, i})
             next == G!Max({1, G!Min({current + delta, Len(listed)})})
  <1>1. IF listed = <<>> THEN G!Select(selected.row, 1, 0)
        ELSE G!Select(selected.row, listed[next], next - 1)
    BY DEF G!move_result_column
  <1>2. G!Count \in Nat /\ Shows(listed, grid.hidden)
    BY GridIsWide, VisibleShows
  <1> HIDE DEF listed
  <1>3. CASE listed = <<>>
    <2>1. ~(G!Count > 0) /\ 0 \in Nat
      BY <1>2, <1>3 DEF Shows
    <2>2. G!Select(selected.row, 1, 0)
      BY <1>1, <1>3
    <2> DEFINE r == selected.row
    <2> HIDE DEF r
    <2>3. G!Select(r, 1, 0)
      BY <2>2 DEF r
    <2> QED
      BY <2>1, <2>3, SelectSelects
  <1>4. CASE listed # <<>>
    <2>1. listed \in Seq(G!Columns) /\ Len(listed) \in Nat \ {0}
      BY <1>2, <1>4, EmptySeq DEF Shows
    <2>2. i \in Int /\ 1 \in Int
      <3>1. i \in 0 .. Len(listed)
        BY <2>1, Indexes
      <3> QED
        BY <2>1, <3>1
    <2> HIDE DEF i
    <2>3. G!Max({1, i}) \in {1, i}
      BY <2>2, GridOfTwo
    <2>4. current \in Int
      BY <2>2, <2>3
    <2> HIDE DEF current
    <2> DEFINE k == current + delta
               l == Len(listed)
               m == G!Min({k, l})
    <2>5. k \in Int /\ l \in Int /\ l >= 1
      BY <2>1, <2>4
    <2> HIDE DEF k, l
    <2>6. G!Min({k, l}) \in {k, l} /\ G!Min({k, l}) <= l
      BY <2>5, GridOfTwo
    <2>7. m \in Int /\ m <= l
      BY <2>5, <2>6
    <2>8. next = G!Max({1, m})
      BY DEF k, l
    <2> HIDE DEF m, next
    <2>9. G!Max({1, m}) \in {1, m} /\ G!Max({1, m}) >= 1
      BY <2>2, <2>7, GridOfTwo
    <2>10. next \in 1 .. l /\ next - 1 \in Nat
      BY <2>5, <2>7, <2>8, <2>9
    <2>11. next \in 1 .. Len(listed)
      BY <2>10 DEF l
    <2> DEFINE column == listed[next]
               start == next - 1
               r == selected.row
    <2>12. G!Count > 0 => column \in G!Columns \ grid.hidden
      <3>1. column \in G!Columns
        BY <2>1, <2>11, ElementOfSeq
      <3>2. G!Count > 0 => column \notin grid.hidden
        BY <1>2, <2>11 DEF Shows, GridInv
      <3> QED
        BY <3>1, <3>2
    <2>13. G!Select(r, column, start)
      BY <1>1, <1>4
    <2>14. start \in Nat
      BY <2>10
    <2> HIDE DEF column, start, r
    <2> QED
      BY <2>12, <2>13, <2>14, SelectSelects
  <1> QED
    BY <1>3, <1>4

\* So every step of the grid keeps a shown column selected.
LEMMA GridStep ==
    ASSUME GridInv, G!Next
    PROVE  GridInv'
  <1>1. GridShape(grid) /\ DOMAIN selected = {"row", "column"}
    BY DEF GridInv
  <1>2. CASE G!NewResult
    <2>1. /\ rows' \in Tables /\ grid' = G!NewGrid(grid.freeze)
          /\ selected' = [row |-> 1, column |-> 1]
      BY <1>2 DEF G!NewResult
    <2>2. GridShape(grid') /\ grid'.hidden = {}
      BY <1>1, <2>1 DEF GridShape, G!NewGrid
    <2>3. G!Count' > 0 => 1 \in G!Columns'
      <3>1. CASE rows' = <<>>
        BY <3>1 DEF G!Count
      <3>2. CASE rows' # <<>>
        <4> DEFINE n == Len(rows'[1])
        <4>1. n \in Nat
          BY <2>1, <3>2, WorkspaceAssumption
        <4>2. G!Count' = n
          BY <3>2 DEF G!Count
        <4> HIDE DEF n
        <4>3. G!Columns' = 1 .. n
          BY <4>2 DEF G!Columns
        <4> QED
          BY <4>1, <4>2, <4>3
      <3> QED
        BY <3>1, <3>2
    <2>4. DOMAIN selected' = {"row", "column"} /\ selected'.column = 1
      BY <2>1
    <2>5. G!Count' > 0 => selected'.column \in G!Columns' \ grid'.hidden
      BY <2>2, <2>3, <2>4
    <2> QED
      BY <2>1, <2>2, <2>4, <2>5 DEF GridInv, GridShape
  <1>3. CASE G!RowsGone
    <2>1. rows' = rows /\ grid' = grid /\ selected' = selected
      BY <1>3 DEF G!RowsGone
    <2> QED
      BY <1>1, <2>1, GridKeeps
  <1>4. CASE G!Filter
    <2>1. rows' = rows /\ grid' = grid /\ selected' = [selected EXCEPT !.row = 1]
      BY <1>4 DEF G!Filter
    <2>2. DOMAIN selected' = {"row", "column"} /\ selected'.column = selected.column
      BY <1>1, <2>1
    <2> QED
      BY <1>1, <2>1, <2>2, GridKeeps
  <1>5. CASE G!SortSelected \/ G!PressHeader
    <2>1. PICK c : G!KeepingRow(G!toggle_sort(c))
      BY <1>5 DEF G!SortSelected, G!PressHeader
    <2> DEFINE g == G!toggle_sort(c)
    <2>2. GridShape(g) /\ g.hidden = grid.hidden
      BY SortsShape
    <2> HIDE DEF g
    <2>3. G!KeepingRow(g)
      BY <2>1 DEF g
    <2>4. G!Count > 0 => selected.column \in G!Columns \ g.hidden
      BY <2>2 DEF GridInv
    <2> QED
      BY <2>2, <2>3, <2>4, KeepingRowKeeps
  <1>6. CASE G!ResetView
    <2> DEFINE w == <<>>
               g == [grid EXCEPT !.sort = G!NoSort, !.hidden = {}, !.widths = w, !.start = 0]
    <2>1. G!KeepingRow(g)
      BY <1>6 DEF G!ResetView
    <2>2. DOMAIN w = {}
      OBVIOUS
    <2> HIDE DEF w
    <2>3. GridShape(g) /\ g.hidden = {}
      BY <1>1, <2>2 DEF GridShape
    <2>4. G!Count > 0 => selected.column \in G!Columns \ g.hidden
      BY <2>3 DEF GridInv
    <2> HIDE DEF g
    <2> QED
      BY <2>1, <2>3, <2>4, KeepingRowKeeps
  <1>7. CASE G!adjust_width
    <2>1. PICK delta \in {G!Step, -G!Step} :
            G!Width(G!SelectedColumn, G!width_for(grid, G!SelectedColumn) + delta)
      BY <1>7 DEF G!adjust_width
    <2> DEFINE c == G!SelectedColumn
               n == G!width_for(grid, c)
               w == n + delta
    <2>2. c \in G!Columns
      BY <1>7, SelectedColumnIsOne DEF G!adjust_width
    <2>3. G!Width(c, w)
      BY <2>1
    <2> HIDE DEF c
    <2>4. n \in Nat
      BY <2>2, GridIsWide DEF Wide
    <2>5. delta \in Int
      BY DEF G!Step
    <2> HIDE DEF n
    <2>6. w \in Int
      BY <2>4, <2>5
    <2> HIDE DEF w
    <2> QED
      BY <2>3, <2>6, WidthKeeps
  <1>8. CASE G!ToggleFreezeFirst
    <2> DEFINE f == ~grid.freeze
    <2>1. rows' = rows /\ grid' = [grid EXCEPT !.freeze = f] /\ selected' = selected
      BY <1>8 DEF G!ToggleFreezeFirst, G!Only
    <2>2. f \in BOOLEAN
      OBVIOUS
    <2> HIDE DEF f
    <2>3. GridShape(grid') /\ grid'.hidden = grid.hidden
      BY <1>1, <2>1, <2>2 DEF GridShape
    <2> QED
      BY <1>1, <2>1, <2>3, GridKeeps
  <1>9. CASE G!MoveRow
    <2> DEFINE column == selected.column
               start == grid.start
    <2>1. PICK row : G!Select(row, column, start)
      BY <1>9 DEF G!MoveRow
    <2>2. start \in Nat /\ (G!Count > 0 => column \in G!Columns \ grid.hidden)
      BY DEF GridInv, GridShape
    <2> HIDE DEF column, start
    <2> QED
      BY <2>1, <2>2, SelectSelects
  <1>10. CASE G!PressCell
    <2> DEFINE v == G!Visible(grid.hidden)
    <2>0. PICK i \in DOMAIN v : \E n : G!Select(n, v[i], i - 1)
      BY <1>10 DEF G!PressCell
    <2>1. PICK n : G!Select(n, v[i], i - 1)
      BY <2>0
    <2>2. Shows(v, grid.hidden)
      BY GridIsWide, VisibleShows
    <2> HIDE DEF v
    <2>3. v \in Seq(G!Columns) /\ i \in 1 .. Len(v)
      BY <2>0, <2>2 DEF Shows
    <2> DEFINE column == v[i]
               start == i - 1
    <2>4. column \in G!Columns /\ start \in Nat
      BY <2>3, ElementOfSeq
    <2>5. G!Count > 0 => column \notin grid.hidden
      BY <2>2, <2>3 DEF Shows, GridInv
    <2>6. G!Select(n, column, start)
      BY <2>1
    <2> HIDE DEF column, start
    <2> QED
      BY <2>4, <2>5, <2>6, SelectSelects
  <1>11. CASE \E c \in G!Columns : G!toggle_result_column(c)
    BY <1>11, ToggleKeeps
  <1>12. CASE \E delta \in {-1, 1} : G!move_result_column(delta)
    <2>1. PICK delta \in {-1, 1} : G!move_result_column(delta)
      BY <1>12
    <2>2. delta \in Int
      OBVIOUS
    <2> QED
      BY <2>1, <2>2, MoveColumnKeeps
  <1> QED
    BY <1>2, <1>3, <1>4, <1>5, <1>6, <1>7, <1>8, <1>9, <1>10, <1>11, <1>12 DEF G!Next

\* Grid: whatever is hidden, frozen, moved or resized in a result of any width, the selected
\* column is in the window of columns that is drawn; each is drawn once, in order, none of
\* them is hidden, and all but the one that must be drawn fit.
THEOREM SelectedColumnIsDrawn == WorkspaceSpec => []SelectedIsInWindow
  <1>1. WorkspaceInit => GridInv
    <2>1. SUFFICES ASSUME WorkspaceInit
                   PROVE  GridInv
      OBVIOUS
    <2>2. /\ rows = <<>> /\ grid = G!NewGrid(FALSE) /\ selected = [row |-> 1, column |-> 1]
      BY <2>1 DEF WorkspaceInit, G!Init
    <2>3. GridShape(grid)
      BY <2>2 DEF GridShape, G!NewGrid
    <2>4. ~(G!Count > 0)
      BY <2>2 DEF G!Count
    <2> QED
      BY <2>2, <2>3, <2>4 DEF GridInv
  <1>2. GridInv /\ [WorkspaceNext]_workspace => GridInv'
    <2>1. SUFFICES ASSUME GridInv, [WorkspaceNext]_workspace
                   PROVE  GridInv'
      OBVIOUS
    <2>2. G!Next \/ (rows' = rows /\ grid' = grid /\ selected' = selected)
      BY <2>1 DEF WorkspaceNext, workspace, gridVars
    <2>3. CASE rows' = rows /\ grid' = grid /\ selected' = selected
      BY <2>1, <2>3, GridKeeps DEF GridInv
    <2> QED
      BY <2>1, <2>2, <2>3, GridStep
  <1>3. GridInv => SelectedIsInWindow
    <2>1. SUFFICES ASSUME GridInv, G!Count > 0, NEW available \in {0, 11, 20}
                   PROVE  Includes(G!column_window(available), available)
      BY DEF SelectedIsInWindow, G!SelectedIsInWindow, Includes
    <2>2. available \in Nat
      OBVIOUS
    <2> QED
      BY <2>1, <2>2, WindowsInclude
  <1> QED
    BY <1>1, <1>2, <1>3, PTL DEF WorkspaceSpec
=============================================================================
