----------------------------- MODULE CellReview -----------------------------
(***************************************************************************)
(* What a generated UPDATE promises: it is about one cell from the key that *)
(* asks for it to the answer to the write, it is sent only out of its       *)
(* review, and once for each.                                               *)
(***************************************************************************)
CONSTANT Cell, NoCell

VARIABLES stage, cell

Init == stage = "none" /\ cell = NoCell

\* A new question replaces one whose relation is still being read.
Ask == stage \in {"none", "relation"} /\ stage' = "relation" /\ cell' \in Cell

Enter  == stage = "relation" /\ stage' = "value" /\ UNCHANGED cell
Review == stage = "value" /\ stage' = "review" /\ UNCHANGED cell
Send   == stage = "review" /\ stage' = "sent" /\ UNCHANGED cell

\* Refused, given up, answered, or gone with its connection: nothing is retried.
End == stage # "none" /\ stage' = "none" /\ cell' = NoCell

Next == Ask \/ Enter \/ Review \/ Send \/ End

Spec == Init /\ [][Next]_<<stage, cell>>
=============================================================================
