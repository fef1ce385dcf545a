------------------------------- MODULE Editor -------------------------------
(***************************************************************************)
(* The SQL buffer (src/app/editor.rs): its text and cursor, the snapshots  *)
(* that undo and redo return to, and the run of edits that one undo takes  *)
(* back.                                                                   *)
(*                                                                         *)
(* A text is a sequence of characters and the cursor the number of them    *)
(* before it, so that it is on a character boundary by its nature.  Of a   *)
(* character only its class counts: part of a word, punctuation, a space   *)
(* or a line break.  Line endings of a paste are line breaks already.      *)
(***************************************************************************)
EXTENDS Integers, Sequences, SequencesExt

CONSTANTS
    HistoryLimit,   \* HISTORY_LIMIT: how many snapshots undo keeps
    PasteLimit,     \* PASTE_LIMIT_BYTES: the longest paste that is taken
    Typed,          \* the characters that are typed
    MaxLength,      \* bound: the length of the text
    MaxRevision     \* bound: how many times the text changes

VARIABLE ed         \* the Editor

Blank == {"space", "break"}

Snapshot(e) == [text |-> e.text, cursor |-> e.cursor]

Init ==
    ed = [text |-> << >>, cursor |-> 0, revision |-> 0, modified |-> FALSE, goal |-> -1,
          past |-> << >>, future |-> << >>, last |-> "none", space |-> FALSE]

-----------------------------------------------------------------------------
(* Lines, columns and words.                                               *)

Before(e, s) == {i \in 1 .. e.cursor : e.text[i] \in s}

line_start(e) == Max({0} \cup Before(e, {"break"}))

EndOfLine(text, start) ==
    Min({Len(text)} \cup {i - 1 : i \in {j \in start + 1 .. Len(text) : text[j] = "break"}})

line_end(e) == EndOfLine(e.text, e.cursor)

column(e) == e.cursor - line_start(e)

offset_in_line(text, start, col) == Min({start + col, EndOfLine(text, start)})

Class(c) == IF c \in Blank THEN "blank" ELSE c

(* The first of the characters text[i + 1 .. j] that are all of one class. *)
RunStart(text, j) ==
    CHOOSE i \in 0 .. j :
        /\ \A k \in i + 1 .. j : Class(text[k]) = Class(text[j])
        /\ i > 0 => Class(text[i]) # Class(text[j])

RunEnd(text, i) ==
    CHOOSE j \in i .. Len(text) :
        /\ \A k \in i + 1 .. j : Class(text[k]) = Class(text[i + 1])
        /\ j < Len(text) => Class(text[j + 1]) # Class(text[i + 1])

(* Blanks first, then the run of one class next to them.                   *)
word_left_from(text, from) ==
    LET i == IF from > 0 /\ text[from] \in Blank THEN RunStart(text, from) ELSE from
    IN IF i = 0 THEN 0 ELSE RunStart(text, i)

word_right_from(text, from) ==
    LET i == IF from < Len(text) /\ text[from + 1] \in Blank THEN RunEnd(text, from) ELSE from
    IN IF i = Len(text) THEN i ELSE RunEnd(text, i)

-----------------------------------------------------------------------------
(* Editing.                                                                *)

(* record(): a snapshot, unless the edit folds into the last one.          *)
record(e, kind, coalesce) ==
    LET past == Append(e.past, Snapshot(e))
    IN [e EXCEPT !.past = IF coalesce THEN @
                          ELSE IF Len(past) > HistoryLimit THEN Tail(past) ELSE past,
                 !.future = << >>,
                 !.last = kind]

after_edit(e) == [e EXCEPT !.modified = TRUE, !.goal = -1, !.revision = @ + 1]

(* The characters text[i + 1 .. j] replaced, the cursor behind them.       *)
Replaced(e, i, j, new) ==
    [e EXCEPT !.text = SubSeq(@, 1, i) \o new \o SubSeq(@, j + 1, Len(@)),
              !.cursor = i + Len(new)]

insertRunsOn(e, c) ==        \* fault: a new word does not end the run
    LET r == record(e, "insert", e.last = "insert")
    IN after_edit(Replaced([r EXCEPT !.space = c \in Blank], e.cursor, e.cursor, <<c>>))
insert(e, c) ==
    LET starts_a_word == e.space /\ c \notin Blank
        r == record(e, "insert", e.last = "insert" /\ ~starts_a_word)
    IN after_edit(Replaced([r EXCEPT !.space = c \in Blank], e.cursor, e.cursor, <<c>>))

(* The spaces that the line starts with, but none from beyond the cursor.  *)
Indent(e) ==
    LET start == line_start(e)
        spaces == Min({line_end(e) - start} \cup
                      {i - 1 : i \in {j \in 1 .. line_end(e) - start :
                                        e.text[start + j] # "space"}})
    IN Min({spaces, column(e)})

insert_newline(e) ==
    LET r == [record(e, "insert", FALSE) EXCEPT !.space = TRUE]
    IN after_edit(Replaced(r, e.cursor, e.cursor,
                           <<"break">> \o [i \in 1 .. Indent(e) |-> "space"]))

Deleted(e, i, j, coalesce) ==
    IF i = j THEN e
    ELSE after_edit(Replaced(record(e, "delete", coalesce), i, j, << >>))

backspace(e) == Deleted(e, Max({e.cursor - 1, 0}), e.cursor, e.last = "delete")
delete_forward(e) ==
    Deleted(e, e.cursor, Min({e.cursor + 1, Len(e.text)}), e.last = "delete")
delete_word_left(e) == Deleted(e, word_left_from(e.text, e.cursor), e.cursor, FALSE)

(* Loading is not editing, but it can be undone.                           *)
set_text(e, text) ==
    IF text = e.text THEN e
    ELSE [record(e, "replace", FALSE) EXCEPT
            !.text = text, !.cursor = Len(text), !.goal = -1, !.modified = FALSE,
            !.revision = @ + 1]

(* The space flag of a text that arrives at once is that of its last       *)
(* character.                                                              *)
EndsBlank(text) == text # << >> /\ Last(text) \in Blank

replace_range(e, i, j, new) ==
    IF i > j \/ j > Len(e.text) \/ SubSeq(e.text, i + 1, j) = new THEN e
    ELSE after_edit(Replaced([record(e, "replace", FALSE) EXCEPT !.space = EndsBlank(new)],
                             i, j, new))

insert_paste(e, new) ==
    IF Len(new) > PasteLimit \/ new = << >> THEN e
    ELSE after_edit([Replaced([record(e, "insert", FALSE) EXCEPT !.space = EndsBlank(new)],
                              e.cursor, e.cursor, new) EXCEPT !.last = "none"])

Restored(e, s) ==
    [e EXCEPT !.text = s.text, !.cursor = Min({s.cursor, Len(s.text)}), !.goal = -1,
              !.last = "none", !.modified = TRUE, !.revision = @ + 1]

undo(e) ==
    IF e.past = << >> THEN e
    ELSE [Restored(e, Last(e.past)) EXCEPT !.past = Front(@),
                                           !.future = Append(@, Snapshot(e))]

redo(e) ==
    IF e.future = << >> THEN e
    ELSE [Restored(e, Last(e.future)) EXCEPT !.future = Front(@),
                                             !.past = Append(@, Snapshot(e))]

-----------------------------------------------------------------------------
(* Movement: every move ends the run of edits that one undo takes back.    *)

To(e, i) == [e EXCEPT !.cursor = i, !.last = "none", !.goal = -1]

set_cursor(e, i) == To(e, Min({i, Len(e.text)}))

set_position(e, line, col) ==
    LET breaks == SelectInSeq(e.text, LAMBDA c : c = "break")
        start == IF line =< 1 THEN 0 ELSE IF breaks = 0 THEN Len(e.text) ELSE breaks
    IN set_cursor(e, offset_in_line(e.text, start, Max({col - 1, 0})))

Goal(e) == IF e.goal = -1 THEN column(e) ELSE e.goal

(* The line above or below at the goal column, which is kept; the ends of  *)
(* the text beyond the first and the last.                                 *)
move_up(e) ==
    LET start == line_start(e)
        above == line_start([e EXCEPT !.cursor = start - 1])
    IN IF start = 0 THEN [e EXCEPT !.cursor = 0, !.last = "none"]
       ELSE [e EXCEPT !.cursor = offset_in_line(e.text, above, Goal(e)),
                      !.last = "none", !.goal = Goal(e)]

move_down(e) ==
    LET end == line_end(e)
    IN IF end = Len(e.text) THEN [e EXCEPT !.cursor = end, !.last = "none"]
       ELSE [e EXCEPT !.cursor = offset_in_line(e.text, end + 1, Goal(e)),
                      !.last = "none", !.goal = Goal(e)]

-----------------------------------------------------------------------------

Texts == {<< >>, <<"dot", "space">>, <<"word", "break", "word">>}

Becomes(e) ==
    /\ Len(e.text) =< MaxLength /\ e.revision =< MaxRevision
    /\ ed' = e

Insert == \E c \in Typed : Becomes(insert(ed, c))
InsertNewline == Becomes(insert_newline(ed))
Backspace == Becomes(backspace(ed))
DeleteForward == Becomes(delete_forward(ed))
DeleteWordLeft == Becomes(delete_word_left(ed))
SetText == \E t \in Texts : Becomes(set_text(ed, t))
ReplaceRange ==
    \E i \in 0 .. 2, j \in {1, MaxLength}, t \in Texts : Becomes(replace_range(ed, i, j, t))
InsertPaste == \E t \in Texts : Becomes(insert_paste(ed, t))
Undo == Becomes(undo(ed))
Redo == Becomes(redo(ed))
MarkSaved == Becomes([ed EXCEPT !.modified = FALSE])

Move ==
    \/ \E i \in {1, MaxLength + 1} : Becomes(set_cursor(ed, i))
    \/ \E line \in {0, 2}, col \in {0, 2} : Becomes(set_position(ed, line, col))
    \/ Becomes(move_up(ed)) \/ Becomes(move_down(ed))
    \/ Becomes(move_up(move_up(ed))) \/ Becomes(move_down(move_down(ed)))
    \/ \E i \in {Max({ed.cursor - 1, 0}), Min({ed.cursor + 1, Len(ed.text)}), line_start(ed),
                 line_end(ed), 0, Len(ed.text), word_left_from(ed.text, ed.cursor),
                 word_right_from(ed.text, ed.cursor)} : Becomes(To(ed, i))

Next ==
    \/ Insert \/ InsertNewline \/ Backspace \/ DeleteForward \/ DeleteWordLeft
    \/ SetText \/ ReplaceRange \/ InsertPaste \/ Undo \/ Redo \/ MarkSaved \/ Move

Spec == Init /\ [][Next]_ed

-----------------------------------------------------------------------------

(* "One undo step is one word and the space that follows it"               *)
(* (editor.rs:170): what was typed since the last snapshot stands between  *)
(* the two halves of that snapshot, and no word in it follows a blank,     *)
(* wherever the cursor has been and whatever was undone before.            *)
UndoTakesOneWord ==
    ed.last = "insert" =>
        LET s == Last(ed.past)
            typed == SubSeq(ed.text, s.cursor + 1, ed.cursor)
        IN /\ ed.text = SubSeq(s.text, 1, s.cursor) \o typed \o
                        SubSeq(s.text, s.cursor + 1, Len(s.text))
           /\ \A i \in 1 .. Len(typed) - 1 : typed[i] \in Blank => typed[i + 1] \in Blank
=============================================================================
