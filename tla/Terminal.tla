------------------------------ MODULE Terminal ------------------------------
(***************************************************************************)
(* The terminals of the processes and the one VGA screen they share        *)
(* (kernel/terminal.cpp, drivers/vga.cpp, the keyboard interrupt of        *)
(* kernel/kernel.cpp).                                                     *)
(*                                                                         *)
(* m_text is an array addressed by y * 80 + x.  A string is written        *)
(* character by character and the loop keeps nothing between characters,   *)
(* so writing a string is a series of Output steps.  The set of terminals  *)
(* is fixed: a terminal outlives its process.  Colours never change.  The  *)
(* model stops when a character is stored outside m_text: what that        *)
(* destroys is not modelled.                                               *)
(***************************************************************************)
EXTENDS Integers, SequencesExt

CONSTANTS
  NumTerminals,  \* terminals, in the order of Shift+Tab
  Cols,          \* 80
  Rows,          \* 25
  Char,          \* what can be typed and printed
  Blank,         \* ' '
  Newline,       \* '\n'
  MaxLine,       \* bound of the model on an unfinished input line; the
                 \* code has none
  Background     \* processes with threads that print while the main one reads

ASSUME TerminalAssumption == NumTerminals \in Nat \ {0}
ASSUME ScreenAssumption == Cols \in Nat \ {0} /\ Rows \in Nat /\ Rows > 2
ASSUME CharAssumption == Newline \notin Char /\ Blank # Newline
ASSUME LineAssumption == MaxLine \in Nat
Term == 0 .. NumTerminals - 1
Cell == 0 .. Cols * Rows - 1
Glyph == Char \cup {Blank}

ASSUME BackgroundAssumption == Background \subseteq Term

VARIABLES
  m_text,
  m_cursor_x,
  m_cursor_y,
  line,               \* m_input_buffer
  reading,            \* m_process->m_sys_read_count > 0
  m_active,
  m_active_terminal,
  screen,             \* the VGA text memory
  screen_cursor,      \* the VGA cursor
  outside,            \* something was stored outside m_text
  overlong            \* terminals whose line has been longer than Room since
                      \* it was begun: history, read by no action

term == <<m_text, m_cursor_x, m_cursor_y>>
focus == <<m_active, m_active_terminal>>
vars == <<term, line, reading, focus, screen, screen_cursor, outside, overlong>>

(* The characters that stay on the screen however it scrolls.              *)
Room == (Rows - 2) * Cols

(* Row -1 is what the unsigned 0 becomes when 1 is subtracted.             *)
TypeOK ==
  /\ m_text \in [Term -> [Cell -> Glyph]]
  /\ m_cursor_x \in [Term -> 0 .. Cols - 1]
  /\ m_cursor_y \in [Term -> -1 .. Rows - 1]
  /\ line \in [Term -> Seq(Char)]
  /\ reading \in [Term -> BOOLEAN]
  /\ m_active \in [Term -> BOOLEAN]
  /\ m_active_terminal \in Term
  /\ screen \in [Cell -> Glyph]
  /\ screen_cursor \in (0 .. Cols - 1) \X (-1 .. Rows - 1)
  /\ outside \in BOOLEAN
  /\ overlong \subseteq Term

(* The constructors and clear; the first process's terminal is active. *)
Init ==
  /\ m_text = [t \in Term |-> [i \in Cell |-> Blank]]
  /\ m_cursor_x = [t \in Term |-> 0]
  /\ m_cursor_y = [t \in Term |-> 0]
  /\ line = [t \in Term |-> << >>]
  /\ reading = [t \in Term |-> FALSE]
  /\ m_active = [t \in Term |-> t = 0]
  /\ m_active_terminal = 0
  /\ screen = [i \in Cell |-> Blank]
  /\ screen_cursor = <<0, 0>>
  /\ outside = FALSE
  /\ overlong = {}

-----------------------------------------------------------------------------

(* The cell a terminal's cursor addresses. *)
Position(t) == m_cursor_y[t] * Cols + m_cursor_x[t]

(* m_text[i] = c, and the same of the screen; an index outside the array   *)
(* leaves it as it is, and is recorded.                                    *)
Put(cells, i, c) == [cells EXCEPT ![i] = c]

(* Mutants: a row too few is copied; the last column is not the end. *)
Scrolled_Short(cells) ==
  [i \in Cell |-> IF i < Cols * (Rows - 2) THEN cells[i + Cols] ELSE cells[i]]

EndsRow_Newline(t, c) == c = Newline

(* Everything moves up by a row; the last row stays as it is. *)
Scrolled(cells) ==
  [i \in Cell |-> IF i < Cols * (Rows - 1) THEN cells[i + Cols] ELSE cells[i]]

EndsRow(t, c) == c = Newline \/ m_cursor_x[t] + 1 = Cols

(* Writing c brings the cursor of t to the last row. *)
Scrolls(t, c) == EndsRow(t, c) /\ m_cursor_y[t] + 1 = Rows - 1

(* terminal::write of one character, on the screen too if t is active. *)
write(t, c) ==
  LET Drawn(cells) == IF c = Newline THEN cells ELSE Put(cells, Position(t), c)
      x == IF EndsRow(t, c) THEN 0 ELSE m_cursor_x[t] + 1
      y == IF EndsRow(t, c) /\ ~Scrolls(t, c) THEN m_cursor_y[t] + 1
                                              ELSE m_cursor_y[t]
      text == IF Scrolls(t, c) THEN Scrolled(Drawn(m_text[t]))
                               ELSE Drawn(m_text[t])
  IN  /\ m_text' = [m_text EXCEPT ![t] = text]
      /\ m_cursor_x' = [m_cursor_x EXCEPT ![t] = x]
      /\ m_cursor_y' = [m_cursor_y EXCEPT ![t] = y]
      /\ screen' = IF ~m_active[t] THEN screen
                   ELSE IF Scrolls(t, c) THEN text
                   ELSE Drawn(screen)
      /\ screen_cursor' = IF m_active[t] THEN <<x, y>> ELSE screen_cursor
      /\ outside' = (c # Newline /\ Position(t) \notin Cell)

(* The cursor moves first, then the cell it has reached is blanked. *)
backspace(t) ==
  LET x == IF m_cursor_x[t] = 0 THEN Cols - 1 ELSE m_cursor_x[t] - 1
      y == IF m_cursor_x[t] = 0 THEN m_cursor_y[t] - 1 ELSE m_cursor_y[t]
      i == y * Cols + x
  IN  /\ m_text' = [m_text EXCEPT ![t] = Put(@, i, Blank)]
      /\ m_cursor_x' = [m_cursor_x EXCEPT ![t] = x]
      /\ m_cursor_y' = [m_cursor_y EXCEPT ![t] = y]
      /\ screen' = IF m_active[t] THEN Put(screen, i, Blank) ELSE screen
      /\ screen_cursor' = <<x, y>>
      /\ outside' = (i \notin Cell)

-----------------------------------------------------------------------------
(* System calls. *)

(* A process prints; while its main thread waits only other threads can. *)
Output(t, c) ==
  /\ reading[t] => t \in Background
  /\ write(t, c)
  /\ UNCHANGED <<line, reading, focus, overlong>>

(* sys_read with too little input at hand. *)
Read(t) ==
  /\ ~reading[t]
  /\ reading' = [reading EXCEPT ![t] = TRUE]
  /\ UNCHANGED <<term, line, focus, screen, screen_cursor, outside, overlong>>

-----------------------------------------------------------------------------
(* The keyboard interrupt. *)

(* Mutant: the new terminal does not repaint the screen. *)
SwitchTerminal_NoRefresh ==
  LET t == m_active_terminal
      u == (t + 1) % NumTerminals
  IN  /\ m_active' = [m_active EXCEPT ![t] = FALSE, ![u] = TRUE]
      /\ m_active_terminal' = u
      /\ UNCHANGED <<term, line, reading, screen, screen_cursor, outside, overlong>>

(* Shift+Tab: set_inactive, set_active and its refresh. *)
SwitchTerminal ==
  LET t == m_active_terminal
      u == (t + 1) % NumTerminals
  IN  /\ m_active' = [m_active EXCEPT ![t] = FALSE, ![u] = TRUE]
      /\ m_active_terminal' = u
      /\ screen' = m_text[u]
      /\ screen_cursor' = <<m_cursor_x[u], m_cursor_y[u]>>
      /\ UNCHANGED <<term, line, reading, outside, overlong>>

KeyChar(t, c) ==
  /\ t = m_active_terminal /\ reading[t]
  /\ Len(line[t]) < MaxLine
  /\ line' = [line EXCEPT ![t] = Append(@, c)]
  /\ overlong' = IF Len(line[t]) + 1 > Room THEN overlong \cup {t} ELSE overlong
  /\ write(t, c)
  /\ UNCHANGED <<reading, focus>>

(* Mutant: without the test of the line's length. *)
KeyBackspace_Always(t) ==
  /\ t = m_active_terminal /\ reading[t]
  /\ line' = [line EXCEPT ![t] = IF @ = << >> THEN @ ELSE Front(@)]
  /\ backspace(t)
  /\ UNCHANGED <<reading, focus, overlong>>

KeyBackspace(t) ==
  /\ t = m_active_terminal /\ reading[t]
  /\ line[t] # << >>
  /\ line' = [line EXCEPT ![t] = Front(@)]
  /\ backspace(t)
  /\ UNCHANGED <<reading, focus, overlong>>

(* Mutant: the line is copied, not moved, to the process. *)
KeyEnter_KeepsLine(t) ==
  /\ t = m_active_terminal /\ reading[t]
  /\ write(t, Newline)
  /\ \E more \in BOOLEAN : reading' = [reading EXCEPT ![t] = more]
  /\ overlong' = overlong \ {t}
  /\ UNCHANGED <<line, focus>>

(* The line goes to the process; the read may ask for more than it holds. *)
KeyEnter(t) ==
  /\ t = m_active_terminal /\ reading[t]
  /\ write(t, Newline)
  /\ line' = [line EXCEPT ![t] = << >>]
  /\ overlong' = overlong \ {t}
  /\ \E more \in BOOLEAN : reading' = [reading EXCEPT ![t] = more]
  /\ UNCHANGED focus

Next ==
  /\ ~outside
  /\ \/ \E t \in Term, c \in Char \cup {Newline} : Output(t, c)
     \/ \E t \in Term : Read(t)
     \/ SwitchTerminal
     \/ \E t \in Term, c \in Char : KeyChar(t, c)
     \/ \E t \in Term : KeyBackspace(t)
     \/ \E t \in Term : KeyEnter(t)

Spec == Init /\ [][Next]_vars

-----------------------------------------------------------------------------
(* Properties. *)

(* What the active terminal holds is what the screen shows, cell by cell,  *)
(* with the cursor in the right place; terminals that run in the           *)
(* background, scroll, or are edited never leave a trace on it.            *)
ScreenShowsActive ==
  \A t \in Term :
    m_active[t] => /\ screen = m_text[t]
                   /\ screen_cursor = <<m_cursor_x[t], m_cursor_y[t]>>

(* Nothing is stored outside m_text but by backspace, on a line that has   *)
(* been longer than what stays on the screen: only then is there still     *)
(* something to erase when the cursor is at the first cell and moves to    *)
(* row -1.  Whatever the length of the lines, the last row is never        *)
(* reached and no output overwrites another: all cells from the cursor on  *)
(* are blank, after wrapping, scrolling and erasing back over a row's      *)
(* start.                                                                  *)
CursorIsSound ==
  /\ outside => m_active_terminal \in overlong
  /\ \A t \in Term :
       /\ m_cursor_y[t] < Rows - 1
       /\ m_cursor_y[t] = -1 => outside
       /\ \A i \in Cell : i >= Position(t) => m_text[t][i] = Blank

(* The characters of the line being typed are the ones before the cursor,  *)
(* where no other thread of the process prints and the line has not been   *)
(* too long for the screen: what the user sees is what Enter will hand to  *)
(* the process.                                                            *)
EchoShowsLine ==
  \A t \in Term \ (Background \cup overlong) :
    LET n == Len(line[t])
    IN  \A k \in 1 .. n : m_text[t][Position(t) - n + k - 1] = line[t][k]

=============================================================================
