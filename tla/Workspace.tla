------------------------------ MODULE Workspace ------------------------------
(***************************************************************************)
(* The interactive screen: the surfaces that own the keyboard (Surfaces),  *)
(* the buffer of SQL (Editor), the panes (Panes) and the grid of a result  *)
(* (Grid), on one instance.                                                *)
(*                                                                         *)
(* Surfaces numbers the texts that Editor spells out, and Grid and Panes   *)
(* share no state with them or with each other, so that interleaving the   *)
(* four adds no state of any one of them: a behaviour moves one part and   *)
(* leaves the other three as they start.                                   *)
(***************************************************************************)
EXTENDS Surfaces

CONSTANTS
    HistoryLimit, PasteLimit, Typed, MaxLength, MaxRevision,
    Size, Pointer, MaxShapes,
    Tables, Automatic, MaxWidth, MaxResized, Bits

ASSUME WorkspaceAssumption ==
    /\ HistoryLimit \in Nat \ {0} /\ PasteLimit \in Nat /\ MaxLength \in Nat
    /\ Size \subseteq (Nat \ {0}) \X (Nat \ {0}) /\ Pointer \subseteq Nat
    /\ Bits \in Nat \ {0} /\ MaxWidth \in Nat
    /\ \A t \in Tables : t # << >> =>
         Len(t[1]) \in Nat /\ \A c \in 1 .. Len(t[1]) : Automatic[c] \in Nat

VARIABLES
    part,                                                       \* the part that moves
    ed,                                                         \* Editor
    size, pane, sidebar, splits, trouble, drag, covered, shapes, \* Panes
    rows, retained, grid, admitted, selected                    \* Grid

E == INSTANCE Editor
P == INSTANCE Panes WITH focus <- pane
G == INSTANCE Grid

paneVars == <<size, pane, sidebar, splits, trouble, drag, covered, shapes>>
gridVars == <<rows, retained, grid, admitted, selected>>
workspace == <<part, vars, ed, paneVars, gridVars>>
Parts == {"surfaces", "editor", "panes", "grid"}

WorkspaceInit ==
    /\ part \in Parts
    /\ Init /\ E!Init /\ G!Init
    /\ P!Init
    /\ part # "panes" => size = CHOOSE s \in Size : TRUE

WorkspaceNext ==
    /\ UNCHANGED part
    /\ \/ part = "surfaces" /\ Next /\ UNCHANGED <<ed, paneVars, gridVars>>
       \/ part = "editor" /\ E!Next /\ UNCHANGED <<vars, paneVars, gridVars>>
       \/ part = "panes" /\ P!Next /\ UNCHANGED <<vars, ed, gridVars>>
       \/ part = "grid" /\ G!Next /\ UNCHANGED <<vars, ed, paneVars>>

WorkspaceSpec == WorkspaceInit /\ [][WorkspaceNext]_workspace

-----------------------------------------------------------------------------

(* One undo takes back one word and the blanks behind it (editor.rs:170). *)
UndoTakesOneWord == E!UndoTakesOneWord

(* The panes fill the body at every size, whatever was preferred at        *)
(* another (layout.rs:182).                                                *)
PanesFit == P!PanesFit

(* An error or a failed transaction is drawn whatever is zoomed, and so is *)
(* the pane with the focus (update.rs:686).                                *)
TroubleIsDrawn == P!TroubleIsDrawn

(* The selected column is in the window of columns, however narrow         *)
(* (grid.rs:334).                                                          *)
SelectedIsInWindow == G!SelectedIsInWindow

(* Sorting keeps the row that is selected (update.rs, restore_selected_    *)
(* source_row()).                                                          *)
SortKeepsTheRow == G!SortKeepsTheRow

(* A numeric column is sorted by what its cells are worth                  *)
(* (specs/014-workable-result-grid/data-model.md:51).                      *)
SortedByValue == G!SortedByValue
=============================================================================
