------------------------------ MODULE Console ------------------------------
(***************************************************************************)
(* The command line editor of Src/common/consoleHandler.c ("fake bash")    *)
(* together with the terminal that displays its answers: the promise of a  *)
(* line editor is a relation between the two.                              *)
(*                                                                         *)
(* commandBuffer is the flat array of the code, COMMAND_HISTORY_SIZE rows  *)
(* of COMMAND_BUFFER_SIZE characters, each a zero-terminated string.  The  *)
(* answer is a sequence of characters and cursor movements.                *)
(*                                                                         *)
(* Any key may follow any other.  The editor does not cope with all of     *)
(* them, and two marks say when: lost, the terminal does not show the      *)
(* command any more, which only a carriage return repairs, and shortened,  *)
(* characters erased at the end of a command may still be in the buffer.   *)
(***************************************************************************)
EXTENDS Integers, Sequences, SequencesExt

CONSTANTS
  Letters,    \* the printable characters that are typed, a space perhaps
  Controls,   \* the other keys, a subset of AllControls
  Columns,    \* COMMAND_BUFFER_SIZE
  Rows,       \* COMMAND_HISTORY_SIZE
  Wrap        \* 256, the cursor is an uint8_t

\* 0x8, 0x7F and the lead-in of the arrow keys
AllControls == {"CR", "BS", "DEL", "ESC"}
Arrows == {"A", "B", "C", "D"}  \* up, down, right, left, after ESC [

NUL == "NUL"
Space == "SPACE"

\* what the terminal does not print
Tokens == {"PROMPT", "BS", "LEFT", "RIGHT"}

ASSUME LettersAssumption ==
  Letters \intersect (AllControls \union Arrows \union Tokens \union {"[", NUL}) = {}
ASSUME ControlsAssumption == Controls \subseteq AllControls
ASSUME SizeAssumption == Columns \in Nat \ {0, 1} /\ Rows \in Nat \ {0, 1}
ASSUME WrapAssumption == Wrap \in Nat /\ Wrap >= Columns

Cells == 0..(Columns * Rows - 1)

VARIABLES
  con,     \* the console
  screen,  \* the terminal line behind the prompt, and the column of its cursor
  past,    \* history: the commands executed, the latest first
  edited,  \* history: the old commands edited since the last one
  lost,       \* history: a key the editor does not answer correctly
  shortened   \* history: the end of a command was erased

vars == <<con, screen, past, edited, lost, shortened>>

\* columns are counted from the end of the prompt
Blank == [line |-> << >>, column |-> 0]

\* initConsole
Init ==
  /\ con = [commandBuffer |-> [k \in Cells |-> NUL],
            commandBufferShadow |-> [k \in Cells |-> NUL],
            cbfCnt |-> 0, cbfIdx |-> 0, cursor |-> 0, mode |-> 0, cmdBfr |-> NUL]
  /\ screen = Blank
  /\ past = << >>
  /\ edited = {}
  /\ lost = FALSE
  /\ shortened = FALSE

-----------------------------------------------------------------------------
(* Strings in the buffer.                                                  *)

\* the index of the character at position p of the row being edited
At(c, p) == c.cbfIdx * Columns + p

\* the position of the zero that ends the string at position p
End(c, p) == CHOOSE e \in p..(Columns * Rows) :
               /\ c.commandBuffer[At(c, e)] = NUL
               /\ \A q \in p..(e - 1) : c.commandBuffer[At(c, q)] # NUL

\* the characters from position p on
From(c, p) == [k \in 1..(End(c, p) - p) |-> c.commandBuffer[At(c, p + k - 1)]]

\* the characters s written from position p on
Written(c, p, s) ==
  [c EXCEPT !.commandBuffer = [k \in Cells |->
     IF k - At(c, p) + 1 \in 1..Len(s) THEN s[k - At(c, p) + 1] ELSE c.commandBuffer[k]]]

Row(buffer, r) ==
  LET cell == [p \in 1..Columns |-> buffer[r * Columns + p - 1]]
      zeros == {p \in 1..Columns : cell[p] = NUL}
  IN IF zeros = {} THEN cell ELSE SubSeq(cell, 1, Min(zeros) - 1)

-----------------------------------------------------------------------------
(* The answers: the console after a key, and what is printed.              *)

Answer(c, out) == [con |-> c, out |-> out]
Times(n, s) == [k \in 1..(n * Len(s)) |-> s[((k - 1) % Len(s)) + 1]]
Rubout == <<"BS", Space, "BS">>

Pushed_firstRow(c) ==
  [k \in Cells |-> IF k < 2 * Columns THEN c.commandBuffer[k % Columns]
                                      ELSE c.commandBufferShadow[k - Columns]]

\* copyCommandBetweenArrays, copyCommand: shadow row r becomes row r + 1, row
\* 0 the command just entered
Pushed(c) ==
  [k \in Cells |->
     IF k < 2 * Columns THEN c.commandBuffer[At(c, k % Columns)]
                        ELSE c.commandBufferShadow[k - Columns]]

Cleared(shadow) == [k \in Cells |-> IF k < Columns THEN NUL ELSE shadow[k]]

Enter_keepsEdits(c) ==
  LET shadow == Cleared(Pushed(c)) IN
  Answer([c EXCEPT !.commandBuffer = [@ EXCEPT ![0] = NUL], !.commandBufferShadow = shadow,
                   !.cbfIdx = 0, !.cbfCnt = 0, !.cursor = 0],
         <<"PROMPT">>)

\* the handling of the command itself is left to handleCommand
Enter(c) ==
  LET shadow == Cleared(Pushed(c)) IN
  Answer([c EXCEPT !.commandBuffer = shadow, !.commandBufferShadow = shadow,
                   !.cbfIdx = 0, !.cbfCnt = 0, !.cursor = 0],
         <<"PROMPT">>)

Erase_ghost(c) ==
  LET tail == From(c, c.cursor) IN
  Answer([Written(c, c.cursor - 1, Append(tail, NUL)) EXCEPT
            !.cbfCnt = @ - 1, !.cursor = @ - 1],
         <<"LEFT">> \o tail \o Times(Len(tail), <<"LEFT">>))

\* within the command the rest moves to the left, at the end the zero behind
\* the last character is written again
Erase(c) ==
  IF c.cursor < c.cbfCnt
    THEN LET tail == From(c, c.cursor) IN
         Answer([Written(c, c.cursor - 1, Append(tail, NUL)) EXCEPT
                   !.cbfCnt = @ - 1, !.cursor = @ - 1],
                <<"LEFT">> \o tail \o <<Space>> \o Times(Len(tail) + 1, <<"LEFT">>))
    ELSE Answer([Written(c, c.cbfCnt, <<NUL>>) EXCEPT !.cbfCnt = @ - 1, !.cursor = @ - 1],
                Rubout)

Insert(c, ch) ==
  IF c.cursor < c.cbfCnt
    THEN LET tail == From(c, c.cursor) IN
         Answer([Written(c, c.cursor, <<ch>> \o tail) EXCEPT
                   !.cbfCnt = @ + 1, !.cursor = (@ + 1) % Wrap],
                <<ch>> \o tail \o Times(Len(tail), <<"LEFT">>))
    ELSE Answer([Written(c, c.cbfCnt, <<ch>>) EXCEPT !.cbfCnt = @ + 1, !.cursor = (@ + 1) % Wrap],
                <<ch>>)

\* the line on the screen is rubbed out, and replaced if there is such a row
Browse(c, row) ==
  LET old == Times(c.cbfCnt, Rubout) IN
  IF row \in 0..(Rows - 1)
    THEN LET d == [c EXCEPT !.cbfIdx = row]
             text == From(d, 0)
         IN Answer([d EXCEPT !.cbfCnt = Len(text), !.cursor = Len(text)], old \o text)
    ELSE Answer([c EXCEPT !.cbfCnt = 0], old)

Left(c) == IF c.cursor > 0 THEN Answer([c EXCEPT !.cursor = @ - 1], <<"LEFT">>)
                           ELSE Answer(c, << >>)
Right_beyond(c) == Answer([c EXCEPT !.cursor = @ + 1], <<"RIGHT">>)
Right(c) == IF c.cursor < c.cbfCnt THEN Answer([c EXCEPT !.cursor = @ + 1], <<"RIGHT">>)
                                   ELSE Answer(c, << >>)

\* the second character after ESC; cmdBfr, which the next control character
\* clears, is not read before and is cleared here
Arrow(c, ch) ==
  LET d == [c EXCEPT !.mode = 0, !.cmdBfr = NUL] IN
  CASE c.cmdBfr = "[" /\ ch = "D" -> Left(d)
    [] c.cmdBfr = "[" /\ ch = "C" -> Right(d)
    [] c.cmdBfr = "[" /\ ch = "A" -> Browse(d, d.cbfIdx + 1)
    [] c.cmdBfr = "[" /\ ch = "B" -> Browse(d, d.cbfIdx - 1)
    [] OTHER -> Answer(d, << >>)

Erases(c, ch) == ch \in {"BS", "DEL"} /\ c.mode = 0 /\ c.cbfCnt > 0 /\ c.cursor > 0

\* the chain of conditions of onCharacterReception
onCharacterReception(c, ch) ==
  IF ch = "CR" /\ c.mode = 0 THEN Enter(c)
  ELSE IF Erases(c, ch) THEN Erase(c)
  ELSE IF ch \in {"CR", "BS", "ESC"}  \* any control character
    THEN Answer([c EXCEPT !.mode = 1, !.cmdBfr = NUL], << >>)
  ELSE IF c.mode = 1  \* of the first character only the bracket matters
    THEN Answer([c EXCEPT !.mode = 2, !.cmdBfr = IF ch = "[" THEN ch ELSE NUL], << >>)
  ELSE IF c.mode = 2 THEN Arrow(c, ch)
  ELSE IF ch # "DEL" /\ c.cbfCnt < Columns - 1 THEN Insert(c, ch)
  ELSE Answer(c, << >>)

-----------------------------------------------------------------------------
(* The terminal.                                                           *)

Padded(line, n) == line \o [k \in 1..(n - Len(line)) |-> Space]

Trimmed(line) ==
  LET visible == {k \in 1..Len(line) : line[k] # Space}
  IN IF visible = {} THEN << >> ELSE SubSeq(line, 1, Max(visible))

\* what overwrites the prompt is of no interest
Put(line, column, ch) ==
  IF column < 0 THEN line ELSE [Padded(line, column + 1) EXCEPT ![column + 1] = ch]

Displayed(s, token) ==
  CASE token = "PROMPT" -> Blank
    [] token \in {"BS", "LEFT"} -> [s EXCEPT !.column = @ - 1]
    [] token = "RIGHT" -> [s EXCEPT !.column = @ + 1]
    [] OTHER -> [line |-> Put(s.line, s.column, token), column |-> s.column + 1]

\* the tokens one after the other
Shown(s, out) ==
  LET after[k \in 0..Len(out)] == IF k = 0 THEN s ELSE Displayed(after[k - 1], out[k])
  IN after[Len(out)]

Display(s, out) == [Shown(s, out) EXCEPT !.line = Trimmed(@)]

-----------------------------------------------------------------------------
\* the keys: behind a control character the ones that select an arrow as well
Typed == Letters \union Controls \union
         (CASE con.mode = 0 -> {} [] con.mode = 1 -> {"["} [] con.mode = 2 -> Arrows)

Inserts(c, ch) == ch \in Letters /\ c.mode = 0 /\ c.cbfCnt < Columns - 1
Inside(c) == c.cursor < c.cbfCnt

\* a character put inside a line that, with what was erased at its end, fills
\* its row goes into the next one: not modelled
Overruns(c, ch) == Inserts(c, ch) /\ Inside(c) /\ End(c, c.cursor) >= Columns - 1

\* Keys after which the terminal does not show the command: up and down from
\* inside a line or to a row that does not exist, which rub out a line but keep
\* the cursor, and edits inside a line that print what was erased behind it
Misleads(c, ch) ==
  \/ /\ c.mode = 2 /\ c.cmdBfr = "[" /\ ch \in {"A", "B"}
     /\ LET d == onCharacterReception(c, ch).con IN
        c.cursor # c.cbfCnt \/ d.cursor # d.cbfCnt
  \/ /\ Inserts(c, ch) \/ Erases(c, ch)
     /\ Inside(c) /\ c.commandBuffer[At(c, c.cbfCnt)] # NUL

ErasesTheEnd(c, ch) == Erases(c, ch) /\ ~Inside(c)

\* no characters are left behind the end of a command
Neat(buffer) ==
  \A r \in 0..(Rows - 1) : \A p \in 1..(Columns - 1) :
    buffer[r * Columns + p - 1] = NUL => buffer[r * Columns + p] = NUL

EditedRows(old, new) ==
  {r \in 1..(Rows - 1) :
     \E p \in 0..(Columns - 1) : old[r * Columns + p] # new[r * Columns + p]}

\* one character from the user, and the answer on the terminal
Key(ch) ==
  LET answer == onCharacterReception(con, ch)
      executes == ch = "CR" /\ con.mode = 0
  IN
  /\ ~Overruns(con, ch)
  /\ con' = answer.con
  /\ lost' = (~executes /\ (lost \/ Misleads(con, ch)))
  /\ screen' = IF lost' THEN Blank ELSE Display(screen, answer.out)
  /\ past' = IF executes
               THEN <<Row(Pushed(con), 0)>> \o SubSeq(past, 1, Min({Len(past), Rows - 2}))
               ELSE past
  /\ edited' = IF executes THEN {}
               ELSE edited \union EditedRows(con.commandBuffer, con'.commandBuffer)
  /\ shortened' = IF executes THEN ~Neat(con'.commandBuffer)
                  ELSE shortened \/ ErasesTheEnd(con, ch)

Next == \E ch \in Typed : Key(ch)

Spec == Init /\ [][Next]_vars

-----------------------------------------------------------------------------
TypeOK ==
  /\ con.commandBuffer \in [Cells -> Letters \union {NUL}]
  /\ con.commandBufferShadow \in [Cells -> Letters \union {NUL}]
  /\ con.cbfCnt \in 0..(Columns - 1)
  /\ con.cursor \in 0..(Wrap - 1)
  /\ ~lost => con.cursor <= con.cbfCnt
  /\ con.cbfIdx \in 0..(Rows - 1)
  /\ con.mode \in 0..2

\* the command as far as the editor counts it
Line(c) == [k \in 1..c.cbfCnt |-> c.commandBuffer[At(c, k - 1)]]

\* Unless a key has misled the terminal since the last carriage return, it shows
\* the command that is being edited, and its cursor where the next character
\* goes, after typing, erasing, moving and browsing in every order.  Spaces at
\* the end of the command cannot be told from nothing.
WhatYouSee ==
  ~lost => screen = [line |-> Trimmed(Line(con)), column |-> con.cursor]

\* A carriage return executes a command that begins with what is on the screen,
\* and nothing else if no command was erased from its end.
ExecutesWhatIsEdited ==
  [][past' # past /\ ~lost =>
       /\ IsPrefix(screen.line, Head(past'))
       /\ ~shortened => Trimmed(Head(past')) = screen.line]_vars

\* consoleHandler.c:56: "Del/Backspace: deletes parts of the currently entered
\* content", so that a carriage return executes what is left on the screen.
ExecutesWhatIsShown ==
  [][past' # past /\ ~lost => Trimmed(Head(past')) = screen.line]_vars

\* The history is the last commands executed; edits of it are "reverted to
\* their old state once a new command is executed", whatever keys came before.
HistoryKept ==
  \A r \in 1..(Rows - 1) :
    LET command == IF r <= Len(past) THEN past[r] ELSE << >> IN
    /\ Row(con.commandBufferShadow, r) = command
    /\ r \notin edited => Row(con.commandBuffer, r) = command
=============================================================================
