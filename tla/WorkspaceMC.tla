----------------------------- MODULE WorkspaceMC -----------------------------
(***************************************************************************)
(* Values for Workspace: terminals from too small to full, and results     *)
(* with equal numbers in two spellings, text, NULL, and a zero.            *)
(***************************************************************************)
EXTENDS Workspace

Sizes == {<<30, 30>>, <<60, 12>>, <<40, 8>>, <<80, 24>>, <<120, 40>>}

Number(n, d, f, e) == [text |-> 1, negative |-> n, digits |-> d, fraction |-> f, exponent |-> e]
Word(n) == [text |-> n]

Two      == Number(FALSE, <<2>>, 0, 0)          \* 2
TwoAgain == Number(FALSE, <<0, 2, 0>>, 1, 0)    \* 02.0
Half     == Number(FALSE, <<0, 5>>, 1, 0)       \* 0.5
Minus    == Number(TRUE, <<1, 2>>, 0, 0)        \* -12
Twenty   == Number(FALSE, <<2>>, 0, 1)          \* 2e1
Zero     == Number(FALSE, <<0>>, 0, 0)          \* 0

Results ==
    {<< <<Two, [text |-> 0], Word(2)>>, <<TwoAgain, Half, Word(1)>> >>,
     << <<Twenty>>, <<Minus>>, <<Two>> >>}

Zeros == {<< <<Two>>, <<Zero>>, <<Half>> >>}

Widths == <<6, 4, 6>>
=============================================================================
