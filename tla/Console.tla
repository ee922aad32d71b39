------------------------------ MODULE Console ------------------------------
(***************************************************************************)
(* The text output protocol: ConOut of src/efi/conout.rs and the stdout    *)
(* services of src/efi/mod.rs.  What the firmware keeps is the mode record *)
(* that callers read through the protocol; bytes go out over the serial    *)
(* port and OUTPUT_ESC is false, so no control sequences are sent.         *)
(***************************************************************************)
EXTENDS Integers, Sequences, FiniteSetsExt

CONSTANTS
  Columns,         \* 80
  RowsOf,          \* the rows of each mode: 25 and 50
  Messages,        \* sequences of characters, each named by what it is to the console
  Positions,       \* pairs <<column, row>> that callers set
  ModeNumbers,     \* arguments of set_mode
  IntModulus       \* modes and positions are cut to i32: 2^32

ASSUME ConsoleAssumption ==
  /\ Columns \in Nat \ {0} /\ RowsOf \in [1 .. 2 -> Nat \ {0}] /\ IntModulus \in Nat
  /\ \A n \in {Columns, RowsOf[1], RowsOf[2]} : 2 * n <= IntModulus
  /\ Positions \subseteq Nat \X Nat /\ ModeNumbers \subseteq Nat
  /\ Messages \subseteq Seq(STRING)

\* The mode record STDOUT_MODE, less cursor_visible (enable_cursor leaves it alone), and
\* asked, the position callers set last.
VARIABLE console    \* [mode, attribute, cursor_column, cursor_row, asked]

MaxMode == Len(RowsOf) - 1

\* usize as i32.
AsInt(n) == IF n % IntModulus < IntModulus \div 2 THEN n % IntModulus ELSE (n % IntModulus) - IntModulus

\* max_row of output_string: every mode but mode 1 has the rows of mode 0.
MaxRow == IF console.mode = 1 THEN RowsOf[2] ELSE RowsOf[1]

NextRow(c) == IF c.cursor_row < MaxRow - 1 THEN [c EXCEPT !.cursor_row = @ + 1] ELSE c

\* The cursor after a character.
Moved(c, char) ==
  CASE char = "BACKSPACE" -> IF c.cursor_column > 0 THEN [c EXCEPT !.cursor_column = @ - 1] ELSE c
    [] char = "LINEFEED" -> NextRow(c)
    [] char = "CARRIAGE_RETURN" -> [c EXCEPT !.cursor_column = 0]
    [] OTHER -> IF c.cursor_column < Columns - 1 THEN [c EXCEPT !.cursor_column = @ + 1]
                ELSE NextRow([c EXCEPT !.cursor_column = 0])

\* A message ends at the first character whose low byte is zero.
UpToZero(message) ==
  LET zeroes == {i \in DOMAIN message : message[i] = "ZERO_LOW_BYTE"}
  IN  IF zeroes = {} THEN message ELSE SubSeq(message, 1, Min(zeroes) - 1)

output_string(message) ==
  LET written == UpToZero(message)
      after[i \in 0 .. Len(written)] == IF i = 0 THEN console ELSE Moved(after[i - 1], written[i])
  IN  console' = after[Len(written)]

\* Any position is taken, on the screen or not.
set_cursor_position(column, row) ==
  console' = [console EXCEPT !.cursor_column = AsInt(column), !.cursor_row = AsInt(row),
                             !.asked = <<column, row>>]

clear_screen == set_cursor_position(0, 0)

\* Mutant of set_mode: the screen is not cleared.
SetModeNoClear(number) ==
  console' = IF AsInt(number) > MaxMode THEN console ELSE [console EXCEPT !.mode = AsInt(number)]

\* set_mode compares the number as i32, so a large one passes as negative.
set_mode(number) ==
  console' = IF AsInt(number) > MaxMode THEN console
             ELSE [console EXCEPT !.mode = AsInt(number), !.cursor_column = 0, !.cursor_row = 0,
                                  !.asked = <<0, 0>>]

\* An attribute with other bits than the seven of the colours changes nothing, and no
\* attribute moves the cursor.
set_attribute(attribute) ==
  console' = IF attribute = "invalid" THEN console ELSE [console EXCEPT !.attribute = attribute]

ConsoleStart ==
  [mode |-> 0, attribute |-> "black", cursor_column |-> 0, cursor_row |-> 0, asked |-> <<0, 0>>]

ConsoleNext ==
  \/ \E message \in Messages : output_string(message)
  \/ \E p \in Positions : set_cursor_position(p[1], p[2])
  \/ clear_screen
  \/ \E number \in ModeNumbers : set_mode(number)
  \/ \E attribute \in {"black", "blue", "invalid"} : set_attribute(attribute)

ConsoleSpec == console = ConsoleStart /\ [][ConsoleNext]_console

-----------------------------------------------------------------------------
(* Properties *)

\* stdout_query_mode: the size of a mode, none for a number that is not one.
query_mode(number) ==
  IF number \in 0 .. MaxMode THEN [columns |-> Columns, rows |-> RowsOf[number + 1]]
  ELSE [columns |-> 0, rows |-> 0]

\* The cursor a caller reads from the mode record is on the screen of the current mode,
\* as query_mode describes it, whatever was written and whichever modes came before: as
\* long as the last position a caller set is, and the mode is one that query_mode knows.
CursorOnScreen ==
  LET screen == query_mode(console.mode)
  IN  console.mode \in 0 .. MaxMode /\ console.asked[1] < screen.columns /\ console.asked[2] < screen.rows =>
        /\ console.cursor_column \in 0 .. screen.columns - 1
        /\ console.cursor_row \in 0 .. screen.rows - 1
=============================================================================
