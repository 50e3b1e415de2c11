------------------------------- MODULE Console -------------------------------
(***************************************************************************)
(* The kernel's text console: kprintf formats a message under console_lock *)
(* and kput puts one character after the other on a screen that scrolls    *)
(* only when the next character needs the room.  A cell is a character or  *)
(* Blank; colours are left out.                                            *)
(***************************************************************************)
EXTENDS Integers, Sequences, SequencesExt

CONSTANTS VIDEO_X, VIDEO_Y,
          Tab,       \* distance of the tab stops, a divisor of VIDEO_X
          Blank,
          Messages,  \* formats with their arguments that kprintf is called with
          MaxMessages

VARIABLES video,    \* row -> column -> cell
          curx, cury,
          left,     \* what the holder of console_lock has still to put
          printed   \* history: the messages, in the order the lock was given

consoleVars == <<video, curx, cury, left, printed>>

WithCell(cells, place, char) ==
    [p \in DOMAIN cells \cup {place} |-> IF p = place THEN char ELSE cells[p]]

EmptyRow == [x \in 0 .. VIDEO_X - 1 |-> Blank]

ConsoleInit ==
    /\ video = [y \in 0 .. VIDEO_Y - 1 |-> EmptyRow]
    /\ curx = 0 /\ cury = 0
    /\ left = <<>> /\ printed = <<>>

(***************************************************************************)
(* Formatting.  A format is a sequence of characters; the one after a "%"  *)
(* says what becomes of the next argument.                                 *)
(***************************************************************************)
Figure(d) == <<"0", "1", "2", "3", "4", "5", "6", "7", "8", "9", "a", "b", "c", "d", "e", "f">>[d + 1]

itoa(number, base) ==
    LET digits[n \in 0 .. number] ==
            IF n < base THEN <<Figure(n)>> ELSE digits[n \div base] \o <<Figure(n % base)>>
    IN  digits[number]

Converted(conversion, arg) ==
    CASE conversion = "s" -> arg
      [] conversion \in {"d", "u"} -> itoa(arg, 10)
      [] conversion \in {"x", "p"} -> itoa(arg, 16)

TakesArgument == {"s", "d", "u", "x", "p"}

\* The formatter's state after a character: what it has put, whether it is behind a "%".
Formatted(f, char, args) ==
    CASE ~ f.behind /\ char = "%" -> [f EXCEPT !.behind = TRUE]
      [] ~ f.behind /\ char # "%" -> [f EXCEPT !.put = Append(@, char)]
      [] f.behind /\ char \in TakesArgument ->
           [put |-> f.put \o Converted(char, args[f.taken + 1]), behind |-> FALSE, taken |-> f.taken + 1]
      [] f.behind /\ char = "%" -> [f EXCEPT !.put = Append(@, "%"), !.behind = FALSE]
      [] OTHER -> [f EXCEPT !.put = @ \o <<"%", char>>, !.behind = FALSE]

kprintfstrcol_scr(fmt, args) ==
    FoldLeft(LAMBDA f, char : Formatted(f, char, args),
             [put |-> <<>>, behind |-> FALSE, taken |-> 0], fmt).put

(* A screen with places; and messages whose arguments are what the format  *)
(* asks for, so that characters come out.                                  *)
ASSUME ScreenAssumption ==
    /\ VIDEO_X \in Nat \ {0} /\ VIDEO_Y \in Nat \ {0}
    /\ Tab \in Nat \ {0} /\ VIDEO_X % Tab = 0
    /\ \A message \in Messages :
         LET text == kprintfstrcol_scr(message.fmt, message.args) IN text \in Seq(Range(text))

kprintf_message(message) ==
    /\ left = <<>> /\ Len(printed) < MaxMessages
    /\ left' = kprintfstrcol_scr(message.fmt, message.args)
    /\ printed' = Append(printed, left')
    /\ UNCHANGED <<video, curx, cury>>

(***************************************************************************)
(* The screen.                                                             *)
(***************************************************************************)
scroll(rows, by) ==
    [y \in DOMAIN rows |-> IF y + by \in DOMAIN rows THEN rows[y + by] ELSE EmptyRow]

\* A line that is full goes on in the next one; the screen moves when there is none.
Wrapped == curx >= VIDEO_X /\ cury < VIDEO_Y - 1
\* Slip: a full last line is not seen to be full.
ScrollsLate == ~ Wrapped /\ cury = VIDEO_Y
Scrolls == ~ Wrapped /\ (cury = VIDEO_Y \/ (cury = VIDEO_Y - 1 /\ curx = VIDEO_X))

\* Where the character is put, and on what.
PutColumn == IF Wrapped \/ Scrolls THEN 0 ELSE curx
PutRow == IF Wrapped THEN cury + 1 ELSE IF Scrolls THEN VIDEO_Y - 1 ELSE cury
PutRows == IF Scrolls THEN scroll(video, 1) ELSE video

\* A backspace copies the first two bytes of memory, which pmm_init has cleared.
kput(char) ==
    CASE char = "newline" -> video' = PutRows /\ cury' = PutRow + 1 /\ curx' = 0
      [] char = "tab" -> video' = PutRows /\ cury' = PutRow /\ curx' = (PutColumn \div Tab + 1) * Tab
      [] char = "backspace" ->
           /\ cury' = PutRow /\ curx' = IF PutColumn = 0 THEN 0 ELSE PutColumn - 1
           /\ video' = [PutRows EXCEPT ![PutRow] = WithCell(@, curx', Blank)]
      [] OTHER ->
           /\ video' = [PutRows EXCEPT ![PutRow] = WithCell(@, PutColumn, char)]
           /\ cury' = PutRow /\ curx' = PutColumn + 1

kputs ==
    /\ left # <<>>
    /\ kput(Head(left))
    /\ left' = Tail(left)
    /\ UNCHANGED printed

ConsoleNext == kputs \/ \E message \in Messages : kprintf_message(message)

ConsoleSpec == ConsoleInit /\ [][ConsoleNext]_consoleVars

-----------------------------------------------------------------------------
(***************************************************************************)
(* What a reader of the screen relies on: an endless sheet on which every  *)
(* message was put in turn, the cursor going to the next line when one is  *)
(* full.  A sheet is a function from places to characters.                 *)
(***************************************************************************)
OnSheet(sheet, char) ==
    LET full == sheet.x = VIDEO_X
        x == IF full THEN 0 ELSE sheet.x
        y == IF full THEN sheet.y + 1 ELSE sheet.y
        before == IF x = 0 THEN 0 ELSE x - 1
    IN  CASE char = "newline" -> [x |-> 0, y |-> y + 1, cells |-> sheet.cells]
          [] char = "tab" -> [x |-> (x \div Tab + 1) * Tab, y |-> y, cells |-> sheet.cells]
          [] char = "backspace" -> [x |-> before, y |-> y, cells |-> WithCell(sheet.cells, <<before, y>>, Blank)]
          [] OTHER -> [x |-> x + 1, y |-> y, cells |-> WithCell(sheet.cells, <<x, y>>, char)]

AllPut == FlattenSeq(printed)
Sheet == FoldLeft(OnSheet, [x |-> 0, y |-> 0, cells |-> <<>>],
                  SubSeq(AllPut, 1, Len(AllPut) - Len(left)))

(***************************************************************************)
(* The screen is a window on the sheet: its rows are consecutive lines,    *)
(* the last that was written on is among them, a line leaves at the top    *)
(* only when the next character needs its room, and nothing of the lines   *)
(* shown is lost, whichever way the last row fills: character by           *)
(* character, by a tab or by a new line (kput and scroll, vram.c:57).      *)
(***************************************************************************)
TheScreenIsAWindow ==
    LET sheet == Sheet
        first == sheet.y - cury
    IN  /\ first >= 0 /\ curx = sheet.x /\ cury <= VIDEO_Y
        /\ first > 0 => cury >= VIDEO_Y - 1
        /\ \A y \in 0 .. VIDEO_Y - 1, x \in 0 .. VIDEO_X - 1 :
             video[y][x] = IF <<x, first + y>> \in DOMAIN sheet.cells
                           THEN sheet.cells[<<x, first + y>>] ELSE Blank
=============================================================================
