--------------------------- MODULE TerminalProofs ---------------------------
(***************************************************************************)
(* Theorems about Terminal for every size of the screen, every number of   *)
(* terminals and every alphabet.                                           *)
(***************************************************************************)
EXTENDS Terminal, TLAPS

(* What is before the cursor is at least the line, unless that has been    *)
(* longer than what stays on the screen: erasing any other line never goes *)
(* over the first cell.  Nothing is left of a line nobody reads.           *)
LineIsOnScreen ==
  \A t \in Term : /\ t \notin overlong => /\ Len(line[t]) <= Room
                                          /\ Len(line[t]) <= Position(t)
                  /\ ~reading[t] => line[t] = << >>

(* The one active terminal is the one m_active_terminal names. *)
OneActive == \A t \in Term : m_active[t] <=> t = m_active_terminal

IInv ==
  /\ TypeOK
  /\ LineIsOnScreen
  /\ OneActive
  /\ ScreenShowsActive
  /\ CursorIsSound
  /\ EchoShowsLine

-----------------------------------------------------------------------------
(* Arithmetic of rows and columns. *)

LEMMA MulMono ==
  ASSUME NEW a \in Nat, NEW b \in Nat, NEW c \in Nat, a <= b
  PROVE  a * c <= b * c
<1>1. (b - a) * c >= 0 /\ (b - a) * c = b * c - a * c
  OBVIOUS
<1>2. a * c \in Nat /\ b * c \in Nat
  OBVIOUS
<1> QED BY <1>1, <1>2

(* The rows' limits as cells, in linear terms. *)
LEMMA Limits ==
  /\ Cols \in Nat \ {0} /\ Rows \in Nat /\ Rows > 2
  /\ Cols * (Rows - 1) \in Nat
  /\ (Rows - 2) * Cols \in Nat /\ Room = (Rows - 2) * Cols
  /\ Cols * (Rows - 1) = (Rows - 2) * Cols + Cols
  /\ Cols * Rows = (Rows - 2) * Cols + Cols + Cols
BY ScreenAssumption DEF Room

(* A cursor above the last row addresses a cell above the last row. *)
LEMMA CellOfCursor ==
  ASSUME NEW x \in 0 .. Cols - 1, NEW y \in Nat, y < Rows - 1
  PROVE  /\ y * Cols \in Nat
         /\ y * Cols + x \in Cell
         /\ y * Cols + x < Cols * (Rows - 1)
         /\ (y + 1) * Cols = y * Cols + Cols
         /\ y # 0 => (y - 1) * Cols = y * Cols - Cols /\ (y - 1) * Cols \in Nat
<1>1. y * Cols <= (Rows - 2) * Cols
  BY MulMono, ScreenAssumption
<1>2. y * Cols \in Nat /\ (y + 1) * Cols = y * Cols + Cols
  BY ScreenAssumption
<1>3. y # 0 => (y - 1) * Cols = y * Cols - Cols /\ (y - 1) * Cols \in Nat
  BY ScreenAssumption
<1> QED BY <1>1, <1>2, <1>3, Limits DEF Cell

(* The same of the cursor of a terminal. *)
LEMMA CellOfTerminal ==
  ASSUME TypeOK, CursorIsSound, ~outside, NEW t \in Term
  PROVE  /\ m_cursor_x[t] \in 0 .. Cols - 1
         /\ m_cursor_y[t] \in Nat
         /\ m_cursor_y[t] < Rows - 1
         /\ m_cursor_y[t] * Cols \in Nat
         /\ Position(t) = m_cursor_y[t] * Cols + m_cursor_x[t]
         /\ Position(t) \in Cell
         /\ Position(t) \in Nat
         /\ Position(t) < Cols * (Rows - 1)
<1>1. /\ m_cursor_x[t] \in 0 .. Cols - 1
      /\ m_cursor_y[t] \in Nat
      /\ m_cursor_y[t] < Rows - 1
  <2>1. m_cursor_y[t] \in -1 .. Rows - 1 /\ m_cursor_y[t] # -1
    BY DEF TypeOK, CursorIsSound
  <2> QED BY <2>1, ScreenAssumption DEF TypeOK, CursorIsSound
<1> QED BY <1>1, CellOfCursor DEF Position, Cell

-----------------------------------------------------------------------------
(* write. *)

(* The cells of t with c drawn at the cursor. *)
Drawn(t, c) ==
  IF c = Newline THEN m_text[t] ELSE Put(m_text[t], Position(t), c)

(* write, taken apart. *)
LEMMA WriteParts ==
  ASSUME TypeOK, NEW t \in Term, NEW c \in Char \cup {Newline}, write(t, c)
  PROVE  /\ m_text'[t] = IF Scrolls(t, c) THEN Scrolled(Drawn(t, c))
                                          ELSE Drawn(t, c)
         /\ m_cursor_x'[t] = IF EndsRow(t, c) THEN 0 ELSE m_cursor_x[t] + 1
         /\ m_cursor_y'[t] = IF EndsRow(t, c) /\ ~Scrolls(t, c)
                               THEN m_cursor_y[t] + 1 ELSE m_cursor_y[t]
         /\ \A u \in Term \ {t} : /\ m_text'[u] = m_text[u]
                                  /\ m_cursor_x'[u] = m_cursor_x[u]
                                  /\ m_cursor_y'[u] = m_cursor_y[u]
BY DEF write, Drawn, TypeOK

(* Drawing leaves cells of the array. *)
LEMMA DrawnCells ==
  ASSUME TypeOK, CursorIsSound, ~outside, NEW t \in Term, NEW c \in Char \cup {Newline}
  PROVE  /\ Drawn(t, c) \in [Cell -> Glyph]
         /\ Scrolled(Drawn(t, c)) \in [Cell -> Glyph]
         /\ \A i \in Cell : i # Position(t) => Drawn(t, c)[i] = m_text[t][i]
         /\ c \in Char => Drawn(t, c)[Position(t)] = c
<1>1. Position(t) \in Cell /\ m_text[t] \in [Cell -> Glyph]
  BY CellOfTerminal DEF TypeOK
<1>2. Drawn(t, c) \in [Cell -> Glyph]
  BY <1>1 DEF Drawn, Put, Glyph
<1>3. \A i \in Cell : i < Cols * (Rows - 1) => i + Cols \in Cell
  BY Limits DEF Cell
<1>4. Scrolled(Drawn(t, c)) \in [Cell -> Glyph]
  BY <1>2, <1>3 DEF Scrolled
<1>5. /\ \A i \in Cell : i # Position(t) => Drawn(t, c)[i] = m_text[t][i]
      /\ c \in Char => Drawn(t, c)[Position(t)] = c
  BY <1>1, CharAssumption DEF Drawn, Put
<1> QED BY <1>2, <1>4, <1>5

(* The cursor moves forward, except that a scroll puts it at the start of  *)
(* the row before the last.                                                *)
LEMMA WriteCursor ==
  ASSUME TypeOK, CursorIsSound, ~outside,
         NEW t \in Term, NEW c \in Char \cup {Newline}, write(t, c)
  PROVE  /\ m_cursor_x'[t] \in 0 .. Cols - 1
         /\ m_cursor_y'[t] \in Nat
         /\ m_cursor_y'[t] < Rows - 1
         /\ Position(t)' \in Nat
         /\ Scrolls(t, c) => Position(t)' = (Rows - 2) * Cols
         /\ ~Scrolls(t, c) => Position(t)' > Position(t)
         /\ ~Scrolls(t, c) /\ c \in Char => Position(t)' = Position(t) + 1
         /\ Scrolls(t, c) /\ c \in Char =>
              Position(t) + 1 = Cols * (Rows - 1)
<1> DEFINE x == m_cursor_x[t]
           y == m_cursor_y[t]
<1>1. /\ x \in 0 .. Cols - 1 /\ y \in Nat /\ y < Rows - 1 /\ y * Cols \in Nat
      /\ Position(t) = y * Cols + x
      /\ (y + 1) * Cols = y * Cols + Cols
  BY CellOfTerminal, CellOfCursor
<1>2. Position(t)' = m_cursor_y'[t] * Cols + m_cursor_x'[t]
  BY DEF Position
<1>3. c \in Char => c # Newline
  BY CharAssumption
<1>4. CASE Scrolls(t, c)
  <2>1. m_cursor_x'[t] = 0 /\ m_cursor_y'[t] = y /\ y = Rows - 2
    BY <1>1, <1>4, WriteParts, Limits DEF Scrolls
  <2>2. c \in Char => x + 1 = Cols
    BY <1>3, <1>4 DEF Scrolls, EndsRow
  <2>3. Position(t)' = (Rows - 2) * Cols
    BY <1>2, <2>1, Limits
  <2>4. y * Cols = (Rows - 2) * Cols
    BY <2>1
  <2> QED BY <1>1, <1>4, <2>1, <2>2, <2>3, <2>4, Limits
<1>5. CASE ~Scrolls(t, c) /\ EndsRow(t, c)
  <2>1. m_cursor_x'[t] = 0 /\ m_cursor_y'[t] = y + 1
    BY <1>5, WriteParts
  <2>2. y + 1 < Rows - 1
    BY <1>1, <1>5, Limits DEF Scrolls
  <2>3. c \in Char => x + 1 = Cols
    BY <1>3, <1>5 DEF EndsRow
  <2>4. Position(t)' = y * Cols + Cols
    BY <1>1, <1>2, <2>1, Limits
  <2> QED BY <1>1, <1>5, <2>1, <2>2, <2>3, <2>4, Limits
<1>6. CASE ~EndsRow(t, c)
  <2>1. m_cursor_x'[t] = x + 1 /\ m_cursor_y'[t] = y /\ x + 1 # Cols
    BY <1>6, WriteParts DEF EndsRow
  <2>2. Position(t)' = y * Cols + (x + 1)
    BY <1>2, <2>1
  <2>3. ~Scrolls(t, c)
    BY <1>6 DEF Scrolls
  <2> QED BY <1>1, <2>1, <2>2, <2>3, Limits
<1> QED BY <1>4, <1>5, <1>6

(* The variables keep their types. *)
LEMMA WriteType ==
  ASSUME TypeOK, CursorIsSound, ~outside,
         NEW t \in Term, NEW c \in Char \cup {Newline}, write(t, c)
  PROVE  /\ m_text' \in [Term -> [Cell -> Glyph]]
         /\ m_cursor_x' \in [Term -> 0 .. Cols - 1]
         /\ m_cursor_y' \in [Term -> -1 .. Rows - 1]
         /\ screen' \in [Cell -> Glyph]
         /\ screen_cursor' \in (0 .. Cols - 1) \X (-1 .. Rows - 1)
         /\ outside' = FALSE
<1>1. /\ m_cursor_x'[t] \in 0 .. Cols - 1
      /\ m_cursor_y'[t] \in -1 .. Rows - 1
  BY WriteCursor, ScreenAssumption
<1>2. m_cursor_x' \in [Term -> 0 .. Cols - 1]
  <2>1. m_cursor_x' = [m_cursor_x EXCEPT ![t] = m_cursor_x'[t]]
    BY DEF write, TypeOK
  <2> QED BY <1>1, <2>1 DEF TypeOK
<1>3. m_cursor_y' \in [Term -> -1 .. Rows - 1]
  <2>1. m_cursor_y' = [m_cursor_y EXCEPT ![t] = m_cursor_y'[t]]
    BY DEF write, TypeOK
  <2> QED BY <1>1, <2>1 DEF TypeOK
<1>4. m_text' \in [Term -> [Cell -> Glyph]]
  <2>1. m_text' = [m_text EXCEPT ![t] = m_text'[t]]
    BY DEF write, TypeOK
  <2>2. m_text'[t] \in [Cell -> Glyph]
    BY WriteParts, DrawnCells
  <2> QED BY <2>1, <2>2 DEF TypeOK
<1>5. screen' \in [Cell -> Glyph]
  <2>1. Position(t) \in Cell /\ screen \in [Cell -> Glyph]
    BY CellOfTerminal DEF TypeOK
  <2>2. Put(screen, Position(t), c) \in [Cell -> Glyph] \/ c = Newline
    BY <2>1 DEF Put, Glyph
  <2>3. \/ screen' = screen \/ screen' = m_text'[t]
        \/ c # Newline /\ screen' = Put(screen, Position(t), c)
    BY DEF write, TypeOK
  <2> QED BY <1>4, <2>1, <2>2, <2>3
<1>6. screen_cursor' \in (0 .. Cols - 1) \X (-1 .. Rows - 1)
  <2>1. screen_cursor' = screen_cursor
          \/ screen_cursor' = <<m_cursor_x'[t], m_cursor_y'[t]>>
    BY DEF write, TypeOK
  <2> QED BY <1>1, <2>1 DEF TypeOK
<1>7. outside' = FALSE
  BY CellOfTerminal DEF write
<1> QED BY <1>2, <1>3, <1>4, <1>5, <1>6, <1>7

(* The cells from the cursor on stay blank, above the last row. *)
LEMMA WriteCursorIsSound ==
  ASSUME TypeOK, CursorIsSound, ~outside,
         NEW t \in Term, NEW c \in Char \cup {Newline}, write(t, c)
  PROVE  CursorIsSound'
<1> SUFFICES ASSUME NEW u \in Term
             PROVE  /\ m_cursor_y'[u] < Rows - 1 /\ m_cursor_y'[u] # -1
                    /\ \A i \in Cell : i >= Position(u)' => m_text'[u][i] = Blank
  BY WriteType DEF CursorIsSound
<1>1. CASE u # t
  <2>1. /\ m_text'[u] = m_text[u]
        /\ m_cursor_y'[u] = m_cursor_y[u]
        /\ Position(u)' = Position(u)
    BY <1>1, WriteParts DEF Position
  <2> QED BY <2>1 DEF CursorIsSound
<1>2. CASE u = t
  <2>1. /\ m_cursor_y'[t] < Rows - 1 /\ m_cursor_y'[t] \in Nat
        /\ Position(t) \in Nat /\ Position(t)' \in Nat
        /\ Position(t) < Cols * (Rows - 1)
        /\ Scrolls(t, c) => Position(t)' = (Rows - 2) * Cols
        /\ ~Scrolls(t, c) => Position(t)' > Position(t)
    BY WriteCursor, CellOfTerminal
  <2>2. \A i \in Cell : i > Position(t) => Drawn(t, c)[i] = Blank
    <3> SUFFICES ASSUME NEW i \in Cell, i > Position(t)
                 PROVE  Drawn(t, c)[i] = Blank
      OBVIOUS
    <3>1. i # Position(t) /\ i >= Position(t)
      BY <2>1 DEF Cell
    <3> QED BY <3>1, DrawnCells DEF CursorIsSound
  <2>3. ASSUME NEW i \in Cell, i >= Position(t)'
        PROVE  m_text'[t][i] = Blank
    <3>1. CASE ~Scrolls(t, c)
      BY <2>1, <2>2, <2>3, <3>1, WriteParts DEF Cell
    <3>2. CASE Scrolls(t, c) /\ i < Cols * (Rows - 1)
      <4>1. i + Cols \in Cell /\ i + Cols > Position(t)
        BY <2>1, <2>3, <3>2, Limits DEF Cell
      <4>2. m_text'[t][i] = Drawn(t, c)[i + Cols]
        BY <3>2, WriteParts DEF Scrolled
      <4> QED BY <2>2, <4>1, <4>2
    <3>3. CASE Scrolls(t, c) /\ ~(i < Cols * (Rows - 1))
      <4>1. i > Position(t)
        BY <2>1, <3>3, Limits DEF Cell
      <4>2. m_text'[t][i] = Drawn(t, c)[i]
        BY <3>3, WriteParts DEF Scrolled
      <4> QED BY <2>2, <4>1, <4>2
    <3> QED BY <3>1, <3>2, <3>3
  <2>4. m_cursor_y'[t] # -1
    BY <2>1
  <2> QED BY <1>2, <2>1, <2>3, <2>4
<1> QED BY <1>1, <1>2

(* Whichever terminal is written to, the active one is what one sees. *)
LEMMA WriteScreen ==
  ASSUME TypeOK, OneActive, ScreenShowsActive, m_active' = m_active,
         NEW t \in Term, NEW c \in Char \cup {Newline}, write(t, c)
  PROVE  ScreenShowsActive'
<1> SUFFICES ASSUME NEW u \in Term, m_active[u]
             PROVE  /\ screen' = m_text'[u]
                    /\ screen_cursor' = <<m_cursor_x'[u], m_cursor_y'[u]>>
  BY DEF ScreenShowsActive
<1>1. /\ screen = m_text[u]
      /\ screen_cursor = <<m_cursor_x[u], m_cursor_y[u]>>
      /\ m_active[t] <=> t = u
  BY DEF OneActive, ScreenShowsActive
<1>2. CASE t = u
  BY <1>1, <1>2 DEF write, TypeOK
<1>3. CASE t # u
  BY <1>1, <1>3 DEF write, TypeOK
<1> QED BY <1>2, <1>3

(* The characters before the cursor move with it, and the new one follows. *)
LEMMA WriteAppends ==
  ASSUME TypeOK, CursorIsSound, ~outside,
         NEW t \in Term, NEW c \in Char, write(t, c)
  PROVE  /\ Position(t)' - 1 \in Nat => m_text'[t][Position(t)' - 1] = c
         /\ \A d \in 1 .. Position(t) :
              Position(t)' - 1 - d \in Nat =>
                m_text'[t][Position(t)' - 1 - d] = m_text[t][Position(t) - d]
<1>1. c \in Char \cup {Newline}
  OBVIOUS
<1>2. /\ Position(t) \in Cell /\ Position(t) \in Nat /\ Position(t)' \in Nat
      /\ Scrolls(t, c) => Position(t)' = (Rows - 2) * Cols
      /\ ~Scrolls(t, c) => Position(t)' = Position(t) + 1
      /\ Scrolls(t, c) => Position(t) + 1 = Cols * (Rows - 1)
  BY <1>1, WriteCursor, CellOfTerminal
<1>3. /\ Drawn(t, c)[Position(t)] = c
      /\ \A i \in Cell : i # Position(t) => Drawn(t, c)[i] = m_text[t][i]
  BY <1>1, DrawnCells
<1>4. m_text'[t] = IF Scrolls(t, c) THEN Scrolled(Drawn(t, c))
                                    ELSE Drawn(t, c)
  BY <1>1, WriteParts
<1>5. \A d \in 0 .. Position(t) :
        Position(t)' - 1 - d \in Nat =>
          m_text'[t][Position(t)' - 1 - d] = Drawn(t, c)[Position(t) - d]
  <2> SUFFICES ASSUME NEW d \in 0 .. Position(t), Position(t)' - 1 - d \in Nat
               PROVE  m_text'[t][Position(t)' - 1 - d]
                        = Drawn(t, c)[Position(t) - d]
    OBVIOUS
  <2>1. CASE ~Scrolls(t, c)
    <3>1. Position(t)' - 1 - d = Position(t) - d
      BY <1>2, <2>1
    <3> QED BY <1>4, <2>1, <3>1
  <2>2. CASE Scrolls(t, c)
    <3> DEFINE i == Position(t)' - 1 - d
    <3>1. /\ i \in Cell /\ i < Cols * (Rows - 1)
          /\ i + Cols = Position(t) - d
      BY <1>2, <2>2, Limits DEF Cell
    <3>2. Scrolled(Drawn(t, c))[i] = Drawn(t, c)[i + Cols]
      BY <3>1 DEF Scrolled
    <3> HIDE DEF i
    <3>3. m_text'[t][i] = Drawn(t, c)[Position(t) - d]
      BY <1>4, <2>2, <3>1, <3>2
    <3> QED BY <3>3 DEF i
  <2> QED BY <2>1, <2>2
<1>6. Position(t)' - 1 \in Nat => m_text'[t][Position(t)' - 1] = c
  <2>1. 0 \in 0 .. Position(t) /\ Position(t) - 0 = Position(t)
        /\ Position(t)' - 1 - 0 = Position(t)' - 1
    BY <1>2
  <2> QED BY <1>3, <1>5, <2>1
<1>7. ASSUME NEW d \in 1 .. Position(t), Position(t)' - 1 - d \in Nat
      PROVE  m_text'[t][Position(t)' - 1 - d] = m_text[t][Position(t) - d]
  <2>1. /\ Position(t) \in Nat /\ Position(t) < Cols * Rows
        /\ Cols * Rows \in Nat
    BY <1>2, Limits DEF Cell
  <2>2. /\ Position(t) - d \in 0 .. Cols * Rows - 1
        /\ Position(t) - d # Position(t)
        /\ d \in 0 .. Position(t)
    BY <2>1
  <2>3. Position(t) - d \in Cell
    BY <2>2 DEF Cell
  <2> QED BY <1>3, <1>5, <1>7, <2>2, <2>3
<1> QED BY <1>6, <1>7

-----------------------------------------------------------------------------
(* backspace. *)

(* The cursor goes back by one cell, over the start of a row if need be. *)
LEMMA BackspaceCursor ==
  ASSUME TypeOK, CursorIsSound, ~outside,
         NEW t \in Term, Position(t) > 0, backspace(t)
  PROVE  /\ m_cursor_x'[t] \in 0 .. Cols - 1
         /\ m_cursor_y'[t] \in Nat
         /\ m_cursor_y'[t] < Rows - 1
         /\ Position(t)' = Position(t) - 1
         /\ m_text'[t] = Put(m_text[t], Position(t) - 1, Blank)
         /\ \A u \in Term \ {t} : /\ m_text'[u] = m_text[u]
                                  /\ m_cursor_x'[u] = m_cursor_x[u]
                                  /\ m_cursor_y'[u] = m_cursor_y[u]
         /\ m_active[t] =>
              /\ screen' = Put(screen, Position(t) - 1, Blank)
              /\ screen_cursor' = <<m_cursor_x'[t], m_cursor_y'[t]>>
         /\ outside' = FALSE
<1> DEFINE x == m_cursor_x[t]
           y == m_cursor_y[t]
           i == m_cursor_y'[t] * Cols + m_cursor_x'[t]
<1>1. /\ x \in 0 .. Cols - 1 /\ y \in Nat /\ y < Rows - 1 /\ y * Cols \in Nat
      /\ Position(t) = y * Cols + x
      /\ y # 0 => (y - 1) * Cols = y * Cols - Cols
  <2>1. /\ x \in 0 .. Cols - 1 /\ y \in Nat /\ y < Rows - 1 /\ y * Cols \in Nat
        /\ Position(t) = y * Cols + x
    BY CellOfTerminal
  <2> HIDE DEF x, y
  <2>2. y # 0 => (y - 1) * Cols = y * Cols - Cols
    BY <2>1, ScreenAssumption
  <2> QED BY <2>1, <2>2
<1>2. /\ m_cursor_x'[t] = IF x = 0 THEN Cols - 1 ELSE x - 1
      /\ m_cursor_y'[t] = IF x = 0 THEN y - 1 ELSE y
      /\ m_text'[t] = Put(m_text[t], i, Blank)
      /\ m_active[t] => /\ screen' = Put(screen, i, Blank)
                        /\ screen_cursor' = <<m_cursor_x'[t], m_cursor_y'[t]>>
      /\ outside' = (i \notin Cell)
  BY DEF backspace, TypeOK
<1>3. \A u \in Term \ {t} : /\ m_text'[u] = m_text[u]
                            /\ m_cursor_x'[u] = m_cursor_x[u]
                            /\ m_cursor_y'[u] = m_cursor_y[u]
  BY DEF backspace, TypeOK
<1>4. Position(t)' = i
  BY DEF Position
<1>a. Position(t) - 1 \in Cell
  <2>1. /\ Position(t) \in Nat /\ Position(t) < Cols * (Rows - 1)
        /\ Cols * (Rows - 1) <= Cols * Rows - 1
        /\ Cols * (Rows - 1) \in Nat /\ Cols * Rows \in Nat
    BY CellOfTerminal, Limits
  <2>2. Position(t) - 1 \in 0 .. Cols * Rows - 1
    BY <2>1
  <2> QED BY <2>2 DEF Cell
<1>b. /\ Rows \in Nat /\ Cols \in Nat \ {0}
      /\ x \in 0 .. Cols - 1 /\ y \in Nat /\ y < Rows - 1
  BY <1>1, ScreenAssumption
<1> HIDE DEF i
<1>5. CASE x = 0
  <2>1. y # 0
    <3> SUFFICES ASSUME y = 0 PROVE FALSE
      OBVIOUS
    <3>1. y * Cols = 0
      BY Limits
    <3> QED BY <1>1, <1>5, <3>1
  <2>2. m_cursor_x'[t] = Cols - 1 /\ m_cursor_y'[t] = y - 1
    BY <1>1, <1>2, <1>5, <2>1
  <2>3. i = (y - 1) * Cols + (Cols - 1)
    BY <2>2 DEF i
  <2>4. i = Position(t) - 1
    BY <1>1, <1>5, <2>1, <2>3, Limits
  <2>5. /\ m_cursor_x'[t] \in 0 .. Cols - 1
        /\ m_cursor_y'[t] \in Nat
        /\ m_cursor_y'[t] < Rows - 1
    <3> HIDE DEF x, y
    <3>1. Cols - 1 \in 0 .. Cols - 1 /\ y - 1 \in Nat /\ y - 1 < Rows - 1
      BY <1>b, <2>1
    <3> QED BY <2>2, <3>1
  <2>6. outside' = FALSE
    BY <1>2, <1>a, <2>4
  <2> HIDE DEF x, y
  <2> QED BY <1>2, <1>3, <1>4, <2>4, <2>5, <2>6
<1>6. CASE x # 0
  <2>1. m_cursor_x'[t] = x - 1 /\ m_cursor_y'[t] = y
    BY <1>2, <1>6
  <2>2. i = y * Cols + (x - 1)
    BY <2>1 DEF i
  <2>3. i = Position(t) - 1
    BY <1>1, <2>2, Limits
  <2>4. /\ m_cursor_x'[t] \in 0 .. Cols - 1
        /\ m_cursor_y'[t] \in Nat
        /\ m_cursor_y'[t] < Rows - 1
    <3> HIDE DEF x, y
    <3>1. x - 1 \in 0 .. Cols - 1
      BY <1>6, <1>b
    <3> QED BY <1>b, <2>1, <3>1
  <2>5. outside' = FALSE
    BY <1>2, <1>a, <2>3
  <2> HIDE DEF x, y
  <2> QED BY <1>2, <1>3, <1>4, <2>3, <2>4, <2>5
<1> QED BY <1>5, <1>6

(* And past the first cell, where nothing is stored in the arrays.         *)
LEMMA BackspacePast ==
  ASSUME TypeOK, CursorIsSound, ~outside,
         NEW t \in Term, Position(t) = 0, backspace(t)
  PROVE  /\ outside'
         /\ m_text' = m_text /\ screen' = screen
         /\ m_cursor_x' = [m_cursor_x EXCEPT ![t] = Cols - 1]
         /\ m_cursor_y' = [m_cursor_y EXCEPT ![t] = -1]
         /\ screen_cursor' = <<Cols - 1, -1>>
         /\ Position(t)' = -1
<1>1. m_cursor_x[t] = 0 /\ m_cursor_y[t] = 0
  <2>1. /\ m_cursor_x[t] \in Nat /\ m_cursor_y[t] \in Nat
        /\ m_cursor_y[t] * Cols \in Nat
        /\ m_cursor_y[t] * Cols + m_cursor_x[t] = 0
    BY CellOfTerminal
  <2>2. m_cursor_x[t] = 0 /\ m_cursor_y[t] * Cols = 0
    BY <2>1
  <2>3. m_cursor_y[t] >= 1 => 1 * Cols <= m_cursor_y[t] * Cols
    BY <2>1, MulMono, Limits
  <2> QED BY <2>1, <2>2, <2>3, Limits
<1>2. /\ (-1) * Cols + (Cols - 1) = -1 /\ -1 \notin Cell
      /\ 0 - 1 = -1
  BY Limits DEF Cell
<1>3. /\ m_cursor_x' = [m_cursor_x EXCEPT ![t] = Cols - 1]
      /\ m_cursor_y' = [m_cursor_y EXCEPT ![t] = -1]
      /\ screen_cursor' = <<Cols - 1, -1>>
      /\ outside' /\ m_text' = [m_text EXCEPT ![t] = Put(@, -1, Blank)]
      /\ screen' = screen \/ screen' = Put(screen, -1, Blank)
  <2> DEFINE x == IF m_cursor_x[t] = 0 THEN Cols - 1 ELSE m_cursor_x[t] - 1
             y == IF m_cursor_x[t] = 0 THEN m_cursor_y[t] - 1 ELSE m_cursor_y[t]
             i == y * Cols + x
  <2>1. x = Cols - 1 /\ y = -1
    BY <1>1, <1>2
  <2>2. i = -1
    BY <1>2, <2>1
  <2>3. /\ m_cursor_x' = [m_cursor_x EXCEPT ![t] = x]
        /\ m_cursor_y' = [m_cursor_y EXCEPT ![t] = y]
        /\ screen_cursor' = <<x, y>>
        /\ m_text' = [m_text EXCEPT ![t] = Put(@, i, Blank)]
        /\ screen' = IF m_active[t] THEN Put(screen, i, Blank) ELSE screen
        /\ outside' = (i \notin Cell)
    BY Zenon DEF backspace
  <2> HIDE DEF x, y, i
  <2> QED BY <1>2, <2>1, <2>2, <2>3
<1>4. \A cells \in [Cell -> Glyph] : Put(cells, -1, Blank) = cells
  BY <1>2 DEF Put
<1>5. m_text' = m_text /\ screen' = screen
  BY <1>3, <1>4 DEF TypeOK
<1>6. Position(t)' = -1
  BY <1>2, <1>3 DEF Position, TypeOK
<1> QED BY <1>3, <1>5, <1>6

-----------------------------------------------------------------------------
(* The invariant. *)

LEMMA InitInvariant == Init => IInv
<1> SUFFICES ASSUME Init PROVE IInv
  OBVIOUS
<1>1. \A t \in Term : Position(t) = 0
  BY Limits DEF Init, Position
<1>2. TypeOK
  <2>1. 0 \in 0 .. Cols - 1 /\ 0 \in -1 .. Rows - 1
    BY ScreenAssumption
  <2>2. 0 \in Term /\ Blank \in Glyph
    BY TerminalAssumption DEF Term, Glyph
  <2>3. <<0, 0>> \in (0 .. Cols - 1) \X (-1 .. Rows - 1)
    BY <2>1
  <2>4. m_active \in [Term -> BOOLEAN] /\ reading \in [Term -> BOOLEAN]
    BY DEF Init
  <2>5. m_cursor_y \in [Term -> -1 .. Rows - 1] /\ m_cursor_x \in [Term -> 0 .. Cols - 1]
    BY <2>1 DEF Init
  <2>6. /\ m_text \in [Term -> [Cell -> Glyph]]
        /\ screen \in [Cell -> Glyph] /\ line \in [Term -> Seq(Char)]
    BY <2>2 DEF Init
  <2> QED BY <2>2, <2>3, <2>4, <2>5, <2>6 DEF Init, TypeOK
<1>3. LineIsOnScreen
  BY <1>1, Limits DEF Init, LineIsOnScreen
<1>4. OneActive
  BY DEF Init, OneActive
<1>5. ScreenShowsActive /\ CursorIsSound
  BY Limits DEF Init, ScreenShowsActive, CursorIsSound
<1>6. EchoShowsLine
  BY DEF Init, EchoShowsLine
<1> QED BY <1>2, <1>3, <1>4, <1>5, <1>6 DEF IInv

(* After anything is printed the line still has its place. *)
LEMMA WriteLeavesRoom ==
  ASSUME IInv, ~outside, NEW t \in Term \ overlong,
         NEW c \in Char \cup {Newline}, write(t, c)
  PROVE  /\ Len(line[t]) <= Position(t)'
         /\ c \in Char /\ Len(line[t]) < Room => Len(line[t]) + 1 <= Position(t)'
<1>1. /\ Len(line[t]) \in Nat /\ Len(line[t]) <= Room
      /\ Len(line[t]) <= Position(t)
  BY DEF IInv, TypeOK, LineIsOnScreen
<1>2. /\ Position(t) \in Nat /\ Position(t)' \in Nat
      /\ Scrolls(t, c) => Position(t)' = (Rows - 2) * Cols
      /\ ~Scrolls(t, c) => Position(t)' > Position(t)
  BY WriteCursor, CellOfTerminal DEF IInv
<1> QED BY <1>1, <1>2, Limits

(* The other terminals, which a step on terminal t leaves alone. *)
LEMMA OtherTerminals ==
  ASSUME IInv, NEW t \in Term,
         \A u \in Term \ {t} : /\ m_text'[u] = m_text[u]
                               /\ m_cursor_x'[u] = m_cursor_x[u]
                               /\ m_cursor_y'[u] = m_cursor_y[u]
                               /\ line'[u] = line[u]
                               /\ reading'[u] = reading[u]
                               /\ u \in overlong' <=> u \in overlong,
         /\ t \notin overlong' => /\ Len(line'[t]) <= Room
                                  /\ Len(line'[t]) <= Position(t)'
         /\ ~reading'[t] => line'[t] = << >>,
         t \notin Background \cup overlong' =>
           \A k \in 1 .. Len(line'[t]) :
             m_text'[t][Position(t)' - Len(line'[t]) + k - 1] = line'[t][k]
  PROVE  LineIsOnScreen' /\ EchoShowsLine'
<1>1. \A u \in Term \ {t} : Position(u)' = Position(u)
  BY DEF Position
<1>2. LineIsOnScreen'
  <2> SUFFICES ASSUME NEW u \in Term
               PROVE  /\ u \notin overlong' => /\ Len(line'[u]) <= Room
                                               /\ Len(line'[u]) <= Position(u)'
                      /\ ~reading'[u] => line'[u] = << >>
    BY DEF LineIsOnScreen, Room
  <2> QED BY <1>1 DEF IInv, LineIsOnScreen
<1>3. EchoShowsLine'
  <2> SUFFICES ASSUME NEW u \in Term \ (Background \cup overlong'), NEW k \in 1 .. Len(line'[u])
               PROVE  m_text'[u][Position(u)' - Len(line'[u]) + k - 1]
                        = line'[u][k]
    BY DEF EchoShowsLine
  <2>1. CASE u = t
    BY <2>1
  <2>2. CASE u # t
    <3>1. /\ m_text'[u] = m_text[u] /\ line'[u] = line[u]
          /\ Position(u)' = Position(u)
      BY <1>1, <2>2
    <3> QED BY <3>1 DEF IInv, EchoShowsLine
  <2> QED BY <2>1, <2>2
<1> QED BY <1>2, <1>3

LEMMA OutputInvariant ==
  ASSUME IInv, ~outside,
         NEW t \in Term, NEW c \in Char \cup {Newline}, Output(t, c)
  PROVE  IInv'
<1>1. /\ write(t, c) /\ line' = line /\ reading' = reading /\ overlong' = overlong
      /\ m_active' = m_active /\ m_active_terminal' = m_active_terminal
      /\ reading[t] => t \in Background
  BY DEF Output, focus
<1>2. TypeOK'
  BY <1>1, WriteType DEF IInv, TypeOK
<1>3. OneActive'
  BY <1>1 DEF IInv, OneActive
<1>4. ScreenShowsActive' /\ CursorIsSound'
  BY <1>1, WriteScreen, WriteCursorIsSound DEF IInv
<1>5. LineIsOnScreen' /\ EchoShowsLine'
  <2>1. \A u \in Term \ {t} : /\ m_text'[u] = m_text[u]
                              /\ m_cursor_x'[u] = m_cursor_x[u]
                              /\ m_cursor_y'[u] = m_cursor_y[u]
    BY <1>1, WriteParts DEF IInv
  <2>2. /\ t \notin overlong => /\ Len(line[t]) <= Room
                                /\ Len(line[t]) <= Position(t)'
        /\ ~reading[t] => line[t] = << >>
    BY <1>1, WriteLeavesRoom DEF IInv, LineIsOnScreen
  <2>3. t \notin Background => 1 .. Len(line[t]) = {}
    BY <1>1, <2>2
  <2> QED BY <1>1, <2>1, <2>2, <2>3, OtherTerminals
<1> QED BY <1>2, <1>3, <1>4, <1>5 DEF IInv

LEMMA ReadInvariant ==
  ASSUME IInv, ~outside, NEW t \in Term, Read(t)
  PROVE  IInv'
<1>1. /\ UNCHANGED <<m_text, m_cursor_x, m_cursor_y, line, m_active,
                     m_active_terminal, screen, screen_cursor, outside, overlong>>
      /\ reading' = [reading EXCEPT ![t] = TRUE]
  BY DEF Read, term, focus
<1>2. \A u \in Term : Position(u)' = Position(u)
  BY <1>1 DEF Position
<1>3. TypeOK'
  BY <1>1 DEF IInv, TypeOK
<1>4. LineIsOnScreen'
  BY <1>1, <1>2 DEF IInv, TypeOK, LineIsOnScreen, Room
<1>5. OneActive' /\ ScreenShowsActive'
  BY <1>1 DEF IInv, OneActive, ScreenShowsActive
<1>6. CursorIsSound' /\ EchoShowsLine'
  BY <1>1, <1>2 DEF IInv, CursorIsSound, EchoShowsLine
<1> QED BY <1>3, <1>4, <1>5, <1>6 DEF IInv

LEMMA SwitchInvariant ==
  ASSUME IInv, ~outside, SwitchTerminal
  PROVE  IInv'
<1> DEFINE t == m_active_terminal
           u == (t + 1) % NumTerminals
<1>1. t \in Term /\ u \in Term
  BY TerminalAssumption DEF IInv, TypeOK, Term
<1> HIDE DEF u
<1>2. /\ UNCHANGED <<m_text, m_cursor_x, m_cursor_y, line, reading, outside, overlong>>
      /\ m_active' = [m_active EXCEPT ![t] = FALSE, ![u] = TRUE]
      /\ m_active_terminal' = u
      /\ screen' = m_text[u]
      /\ screen_cursor' = <<m_cursor_x[u], m_cursor_y[u]>>
  BY DEF SwitchTerminal, term, u
<1>3. \A v \in Term : Position(v)' = Position(v)
  BY <1>2 DEF Position
<1>4. OneActive'
  BY <1>1, <1>2 DEF IInv, TypeOK, OneActive
<1>5. TypeOK'
  BY <1>1, <1>2 DEF IInv, TypeOK
<1>6. ScreenShowsActive'
  BY <1>2, <1>4 DEF OneActive, ScreenShowsActive
<1>7. LineIsOnScreen' /\ CursorIsSound' /\ EchoShowsLine'
  BY <1>2, <1>3 DEF IInv, LineIsOnScreen, CursorIsSound, EchoShowsLine, Room
<1> QED BY <1>4, <1>5, <1>6, <1>7 DEF IInv

LEMMA KeyCharInvariant ==
  ASSUME IInv, ~outside, NEW t \in Term, NEW c \in Char, KeyChar(t, c)
  PROVE  IInv'
<1> DEFINE n == Len(line[t])
<1>1. /\ write(t, c) /\ reading' = reading /\ reading[t]
      /\ m_active' = m_active /\ m_active_terminal' = m_active_terminal
      /\ line' = [line EXCEPT ![t] = Append(@, c)]
      /\ overlong' = IF n + 1 > Room THEN overlong \cup {t} ELSE overlong
      /\ c \in Char \cup {Newline}
  BY DEF KeyChar, focus
<1>2. /\ line[t] \in Seq(Char) /\ n \in Nat
      /\ line'[t] = Append(line[t], c)
      /\ Len(line'[t]) = n + 1
      /\ \A v \in Term \ {t} : line'[v] = line[v]
  BY <1>1 DEF IInv, TypeOK
<1>3. TypeOK'
  <2>1. line' \in [Term -> Seq(Char)]
    BY <1>1, <1>2 DEF IInv, TypeOK
  <2> QED BY <1>1, <2>1, WriteType DEF IInv, TypeOK
<1>4. OneActive'
  BY <1>1 DEF IInv, OneActive
<1>5. ScreenShowsActive' /\ CursorIsSound'
  BY <1>1, WriteScreen, WriteCursorIsSound DEF IInv
<1>a. t \notin overlong' => t \notin overlong /\ n < Room /\ n + 1 <= Room
  BY <1>1, <1>2, Limits
<1>b. Position(t) \in Nat /\ Position(t)' \in Nat
  BY <1>1, CellOfTerminal, WriteCursor DEF IInv
<1>6. t \notin overlong' => n <= Position(t) /\ n + 1 <= Position(t)'
  BY <1>1, <1>a, WriteLeavesRoom DEF IInv, LineIsOnScreen
<1>7. t \notin Background \cup overlong' =>
        \A k \in 1 .. n + 1 :
          m_text'[t][Position(t)' - (n + 1) + k - 1] = line'[t][k]
  <2> SUFFICES ASSUME t \notin Background \cup overlong', NEW k \in 1 .. n + 1
               PROVE  m_text'[t][Position(t)' - (n + 1) + k - 1] = line'[t][k]
    OBVIOUS
  <2>1. CASE k = n + 1
    <3>1. /\ Position(t)' - (n + 1) + k - 1 = Position(t)' - 1
          /\ Position(t)' - 1 \in Nat
      BY <1>2, <1>6, <1>b, <2>1
    <3>2. m_text'[t][Position(t)' - 1] = c
      BY <1>1, <3>1, WriteAppends DEF IInv
    <3>3. line'[t][k] = c
      BY <1>2, <2>1
    <3> QED BY <3>1, <3>2, <3>3
  <2>2. CASE k # n + 1
    <3> DEFINE d == n - k + 1
    <3>1. /\ k \in 1 .. n /\ d \in 1 .. Position(t)
          /\ Position(t)' - (n + 1) + k - 1 = Position(t)' - 1 - d
          /\ Position(t)' - 1 - d \in Nat
          /\ Position(t) - d = Position(t) - n + k - 1
      <4>1. k \in 1 .. n /\ d \in 1 .. n
        BY <1>2, <2>2
      <4> HIDE DEF n
      <4>2. d \in 1 .. Position(t) /\ Position(t)' - 1 - d \in Nat
        BY <1>2, <1>6, <1>b, <4>1
      <4>3. /\ Position(t)' - (n + 1) + k - 1 = Position(t)' - 1 - d
            /\ Position(t) - d = Position(t) - n + k - 1
        <5>1. n \in Int /\ k \in Int /\ Position(t) \in Int /\ Position(t)' \in Int
          BY <1>2, <1>b, <4>1
        <5>2. \A p, q, m, j \in Int :
                /\ p - (m + 1) + j - 1 = p - 1 - (m - j + 1)
                /\ q - (m - j + 1) = q - m + j - 1
          OBVIOUS
        <5> QED BY <5>1, <5>2
      <4> QED BY <4>1, <4>2, <4>3
    <3>2. m_text'[t][Position(t)' - 1 - d] = m_text[t][Position(t) - d]
      BY <1>1, <3>1, WriteAppends DEF IInv
    <3>3. m_text[t][Position(t) - n + k - 1] = line[t][k]
      BY <1>a, <3>1 DEF IInv, EchoShowsLine
    <3>4. line'[t][k] = line[t][k]
      BY <1>2, <3>1
    <3> QED BY <3>1, <3>2, <3>3, <3>4
  <2> QED BY <2>1, <2>2
<1>8. LineIsOnScreen' /\ EchoShowsLine'
  <2>1. \A v \in Term \ {t} : /\ m_text'[v] = m_text[v]
                              /\ m_cursor_x'[v] = m_cursor_x[v]
                              /\ m_cursor_y'[v] = m_cursor_y[v]
    BY <1>1, WriteParts DEF IInv
  <2>2. t \notin overlong' => Len(line'[t]) <= Room /\ Len(line'[t]) <= Position(t)'
    BY <1>2, <1>6, <1>a
  <2>3. reading'[t] /\ \A v \in Term \ {t} : v \in overlong' <=> v \in overlong
    BY <1>1
  <2> HIDE DEF n
  <2>4. t \notin Background \cup overlong' =>
          \A k \in 1 .. Len(line'[t]) :
            m_text'[t][Position(t)' - Len(line'[t]) + k - 1] = line'[t][k]
    BY <1>2, <1>7
  <2> QED BY <1>1, <1>2, <2>1, <2>2, <2>3, <2>4, OtherTerminals
<1> QED BY <1>3, <1>4, <1>5, <1>8 DEF IInv

LEMMA KeyBackspaceBefore ==
  ASSUME IInv, ~outside, NEW t \in Term, KeyBackspace(t), Position(t) > 0
  PROVE  IInv'
<1> DEFINE n == Len(line[t])
<1>1. /\ backspace(t) /\ reading' = reading /\ reading[t]
      /\ m_active' = m_active /\ m_active_terminal' = m_active_terminal
      /\ line[t] # << >> /\ line' = [line EXCEPT ![t] = Front(@)]
      /\ t = m_active_terminal /\ overlong' = overlong
  BY DEF KeyBackspace, focus
<1>2. /\ line[t] \in Seq(Char) /\ n \in Nat /\ n # 0
      /\ line'[t] \in Seq(Char)
      /\ Len(line'[t]) = n - 1
      /\ \A k \in 1 .. n - 1 : line'[t][k] = line[t][k]
      /\ \A v \in Term \ {t} : line'[v] = line[v]
  <2>1. line[t] \in Seq(Char) /\ n \in Nat /\ n # 0
    BY <1>1 DEF IInv, TypeOK
  <2>2. line'[t] = SubSeq(line[t], 1, n - 1)
    BY <1>1 DEF IInv, TypeOK, Front
  <2>3. \A v \in Term \ {t} : line'[v] = line[v]
    BY <1>1 DEF IInv, TypeOK
  <2> QED BY <2>1, <2>2, <2>3
<1>3. /\ t \notin overlong => n <= Position(t) /\ n <= Room
      /\ Position(t) \in Nat /\ Position(t) \in Cell /\ Position(t) > 0
      /\ Position(t) - 1 \in Cell
  <2>1. t \notin overlong => n <= Position(t) /\ n <= Room
    BY DEF IInv, LineIsOnScreen
  <2>2. Position(t) \in Nat /\ Position(t) \in Cell
    BY CellOfTerminal DEF IInv
  <2> QED BY <2>1, <2>2, Limits DEF Cell
<1>4. /\ m_cursor_x'[t] \in 0 .. Cols - 1
      /\ m_cursor_y'[t] \in Nat
      /\ m_cursor_y'[t] < Rows - 1
      /\ Position(t)' = Position(t) - 1
      /\ m_text'[t] = Put(m_text[t], Position(t) - 1, Blank)
      /\ \A v \in Term \ {t} : /\ m_text'[v] = m_text[v]
                               /\ m_cursor_x'[v] = m_cursor_x[v]
                               /\ m_cursor_y'[v] = m_cursor_y[v]
      /\ m_active[t] =>
           /\ screen' = Put(screen, Position(t) - 1, Blank)
           /\ screen_cursor' = <<m_cursor_x'[t], m_cursor_y'[t]>>
      /\ outside' = FALSE
  BY <1>1, <1>3, BackspaceCursor DEF IInv
<1>5. m_active[t]
  BY <1>1 DEF IInv, OneActive
<1>6. TypeOK'
  <2>1. m_cursor_y'[t] \in -1 .. Rows - 1
    BY <1>4, ScreenAssumption
  <2>2. /\ m_cursor_x' = [m_cursor_x EXCEPT ![t] = m_cursor_x'[t]]
        /\ m_cursor_y' = [m_cursor_y EXCEPT ![t] = m_cursor_y'[t]]
        /\ m_text' = [m_text EXCEPT ![t] = m_text'[t]]
    BY <1>1 DEF backspace, IInv, TypeOK
  <2>3. /\ m_cursor_x' \in [Term -> 0 .. Cols - 1]
        /\ m_cursor_y' \in [Term -> -1 .. Rows - 1]
    BY <1>4, <2>1, <2>2 DEF IInv, TypeOK
  <2>4. /\ m_text'[t] \in [Cell -> Glyph]
        /\ screen' \in [Cell -> Glyph]
    <3>1. m_text[t] \in [Cell -> Glyph] /\ screen \in [Cell -> Glyph]
      BY DEF IInv, TypeOK
    <3>2. Blank \in Glyph
      BY DEF Glyph
    <3> DEFINE i == Position(t) - 1
    <3>3. i \in Cell /\ m_text'[t] = Put(m_text[t], i, Blank)
          /\ screen' = Put(screen, i, Blank)
      BY <1>3, <1>4, <1>5
    <3> HIDE DEF i
    <3> QED BY <3>1, <3>2, <3>3 DEF Put
  <2>5. m_text' \in [Term -> [Cell -> Glyph]]
    BY <2>2, <2>4 DEF IInv, TypeOK
  <2>6. line' \in [Term -> Seq(Char)]
    BY <1>1, <1>2 DEF IInv, TypeOK
  <2>7. screen_cursor' \in (0 .. Cols - 1) \X (-1 .. Rows - 1)
    BY <1>4, <1>5, <2>1
  <2> QED BY <1>1, <1>4, <2>3, <2>4, <2>5, <2>6, <2>7 DEF IInv, TypeOK
<1>7. OneActive'
  BY <1>1 DEF IInv, OneActive
<1>8. ScreenShowsActive'
  <2> SUFFICES ASSUME NEW v \in Term, m_active'[v]
               PROVE  /\ screen' = m_text'[v]
                      /\ screen_cursor' = <<m_cursor_x'[v], m_cursor_y'[v]>>
    BY DEF ScreenShowsActive
  <2>1. v = t
    BY <1>1 DEF IInv, OneActive
  <2>2. screen = m_text[t]
    BY <1>5 DEF IInv, ScreenShowsActive
  <2> QED BY <1>4, <1>5, <2>1, <2>2
<1>9. CursorIsSound'
  <2> SUFFICES ASSUME NEW v \in Term
               PROVE  /\ m_cursor_y'[v] < Rows - 1 /\ m_cursor_y'[v] # -1
                      /\ \A i \in Cell :
                           i >= Position(v)' => m_text'[v][i] = Blank
    BY <1>4 DEF CursorIsSound
  <2>1. CASE v # t
    <3>1. /\ m_text'[v] = m_text[v] /\ m_cursor_y'[v] = m_cursor_y[v]
          /\ Position(v)' = Position(v)
      BY <1>4, <2>1 DEF Position
    <3> QED BY <3>1 DEF IInv, CursorIsSound
  <2>2. CASE v = t
    <3> SUFFICES ASSUME NEW i \in Cell, i >= Position(t)'
                 PROVE  m_text'[t][i] = Blank
      <4>1. m_cursor_y'[t] # -1
        BY <1>4
      <4> QED BY <1>4, <2>2, <4>1
    <3>1. CASE i = Position(t) - 1
      BY <1>3, <1>4, <3>1 DEF IInv, TypeOK, Put
    <3>2. CASE i # Position(t) - 1
      <4>1. i \in Nat /\ i >= Position(t)
        BY <1>3, <1>4, <3>2 DEF Cell
      <4>2. m_text'[t][i] = m_text[t][i]
        BY <1>4, <3>2 DEF IInv, TypeOK, Put
      <4> QED BY <4>1, <4>2 DEF IInv, CursorIsSound
    <3> QED BY <3>1, <3>2
  <2> QED BY <2>1, <2>2
<1>10. LineIsOnScreen' /\ EchoShowsLine'
  <2>1. /\ t \notin overlong => /\ Len(line'[t]) <= Room
                                /\ Len(line'[t]) <= Position(t)'
        /\ reading'[t]
    BY <1>1, <1>2, <1>3, <1>4, Limits
  <2>2. ASSUME t \notin Background \cup overlong, NEW k \in 1 .. n - 1
        PROVE  m_text'[t][Position(t)' - (n - 1) + k - 1] = line'[t][k]
    <3> DEFINE i == Position(t) - n + k - 1
    <3>1. /\ k \in 1 .. n /\ Position(t)' - (n - 1) + k - 1 = i
          /\ i \in Nat /\ i < Position(t) - 1
      BY <1>2, <1>3, <1>4, <2>2, SMTT(30)
    <3>2. i \in Cell
      BY <1>3, <3>1, Limits DEF Cell
    <3>3. m_text[t][i] = line[t][k]
      BY <2>2, <3>1 DEF IInv, EchoShowsLine
    <3>4. line'[t][k] = line[t][k]
      BY <1>2
    <3> HIDE DEF i
    <3>5. m_text'[t][i] = m_text[t][i]
      BY <1>3, <1>4, <3>1, <3>2 DEF IInv, TypeOK, Put
    <3> QED BY <3>1, <3>3, <3>4, <3>5
  <2> HIDE DEF n
  <2>3. t \notin Background \cup overlong =>
          \A k \in 1 .. Len(line'[t]) :
            m_text'[t][Position(t)' - Len(line'[t]) + k - 1] = line'[t][k]
    BY <1>2, <2>2
  <2> QED BY <1>1, <1>2, <1>4, <2>1, <2>3, OtherTerminals
<1> QED BY <1>6, <1>7, <1>8, <1>9, <1>10 DEF IInv

(* Backspace at the first cell: only a line that has been too long is      *)
(* still there to be erased.                                               *)
LEMMA KeyBackspacePast ==
  ASSUME IInv, ~outside, NEW t \in Term, KeyBackspace(t), Position(t) = 0
  PROVE  IInv'
<1>1. /\ backspace(t) /\ reading' = reading /\ reading[t]
      /\ m_active' = m_active /\ m_active_terminal' = m_active_terminal
      /\ line[t] # << >> /\ line' = [line EXCEPT ![t] = Front(@)]
      /\ t = m_active_terminal /\ overlong' = overlong
  BY DEF KeyBackspace, focus
<1>2. /\ outside'
      /\ m_text' = m_text /\ screen' = screen
      /\ m_cursor_x' = [m_cursor_x EXCEPT ![t] = Cols - 1]
      /\ m_cursor_y' = [m_cursor_y EXCEPT ![t] = -1]
      /\ screen_cursor' = <<Cols - 1, -1>>
      /\ Position(t)' = -1
  BY <1>1, BackspacePast DEF IInv
<1>3. t \in overlong
  <2>1. line[t] \in Seq(Char) /\ Len(line[t]) # 0 /\ Len(line[t]) \in Nat
    BY <1>1 DEF IInv, TypeOK
  <2>2. ~ (Len(line[t]) <= Position(t))
    BY <2>1
  <2> QED BY <2>2 DEF IInv, LineIsOnScreen
<1>4. /\ line'[t] \in Seq(Char)
      /\ \A v \in Term \ {t} : line'[v] = line[v]
  <2>1. line[t] \in Seq(Char) /\ Len(line[t]) # 0
    BY <1>1 DEF IInv, TypeOK
  <2>2. line'[t] = SubSeq(line[t], 1, Len(line[t]) - 1)
    BY <1>1 DEF IInv, TypeOK, Front
  <2>3. \A v \in Term \ {t} : line'[v] = line[v]
    BY <1>1 DEF IInv, TypeOK
  <2> QED BY <2>1, <2>2, <2>3
<1>5. TypeOK'
  <2>1. /\ Cols - 1 \in 0 .. Cols - 1 /\ -1 \in -1 .. Rows - 1
    BY ScreenAssumption
  <2>2. line' \in [Term -> Seq(Char)]
    BY <1>1, <1>4 DEF IInv, TypeOK
  <2>3. /\ m_cursor_x' \in [Term -> 0 .. Cols - 1]
        /\ m_cursor_y' \in [Term -> -1 .. Rows - 1]
    BY <1>2, <2>1 DEF IInv, TypeOK
  <2> QED BY <1>1, <1>2, <2>1, <2>2, <2>3 DEF IInv, TypeOK
<1>6. OneActive'
  BY <1>1 DEF IInv, OneActive
<1>7. ScreenShowsActive'
  <2> SUFFICES ASSUME NEW v \in Term, m_active'[v]
               PROVE  /\ screen' = m_text'[v]
                      /\ screen_cursor' = <<m_cursor_x'[v], m_cursor_y'[v]>>
    BY DEF ScreenShowsActive
  <2>1. v = t /\ m_active[t]
    BY <1>1 DEF IInv, OneActive
  <2>2. screen = m_text[t]
    BY <2>1 DEF IInv, ScreenShowsActive
  <2> QED BY <1>2, <2>1, <2>2 DEF IInv, TypeOK
<1>8. CursorIsSound'
  <2> SUFFICES ASSUME NEW v \in Term
               PROVE  /\ m_cursor_y'[v] < Rows - 1
                      /\ \A i \in Cell : i >= Position(v)' => m_text'[v][i] = Blank
    BY <1>1, <1>2, <1>3 DEF CursorIsSound
  <2>1. CASE v # t
    <3>1. /\ m_text'[v] = m_text[v] /\ m_cursor_y'[v] = m_cursor_y[v]
          /\ m_cursor_x'[v] = m_cursor_x[v]
      BY <1>2, <2>1 DEF IInv, TypeOK
    <3>2. Position(v)' = Position(v)
      BY <3>1 DEF Position
    <3> QED BY <3>1, <3>2 DEF IInv, CursorIsSound
  <2>2. CASE v = t
    <3>1. m_cursor_y'[t] = -1 /\ -1 < Rows - 1
      BY <1>2, ScreenAssumption DEF IInv, TypeOK
    <3>2. \A i \in Cell : i >= Position(t)
      BY DEF Cell
    <3> QED BY <1>2, <2>2, <3>1, <3>2 DEF IInv, CursorIsSound
  <2> QED BY <2>1, <2>2
<1>9. LineIsOnScreen' /\ EchoShowsLine'
  <2>1. \A v \in Term \ {t} : /\ m_text'[v] = m_text[v]
                              /\ m_cursor_x'[v] = m_cursor_x[v]
                              /\ m_cursor_y'[v] = m_cursor_y[v]
    BY <1>2 DEF IInv, TypeOK
  <2> QED BY <1>1, <1>3, <1>4, <2>1, OtherTerminals
<1> QED BY <1>5, <1>6, <1>7, <1>8, <1>9 DEF IInv

LEMMA KeyBackspaceInvariant ==
  ASSUME IInv, ~outside, NEW t \in Term, KeyBackspace(t)
  PROVE  IInv'
<1>1. Position(t) \in Nat
  BY CellOfTerminal DEF IInv
<1>2. Position(t) > 0 \/ Position(t) = 0
  BY <1>1
<1> QED BY <1>2, KeyBackspaceBefore, KeyBackspacePast

LEMMA KeyEnterInvariant ==
  ASSUME IInv, ~outside, NEW t \in Term, KeyEnter(t)
  PROVE  IInv'
<1>1. /\ write(t, Newline) /\ line' = [line EXCEPT ![t] = << >>]
      /\ m_active' = m_active /\ m_active_terminal' = m_active_terminal
      /\ \E more \in BOOLEAN : reading' = [reading EXCEPT ![t] = more]
      /\ overlong' = overlong \ {t}
      /\ Newline \in Char \cup {Newline}
  BY DEF KeyEnter, focus
<1>2. TypeOK'
  <2>1. /\ line' \in [Term -> Seq(Char)]
        /\ reading' \in [Term -> BOOLEAN]
    BY <1>1 DEF IInv, TypeOK
  <2> QED BY <1>1, <2>1, WriteType DEF IInv, TypeOK
<1>3. OneActive'
  BY <1>1 DEF IInv, OneActive
<1>4. ScreenShowsActive' /\ CursorIsSound'
  BY <1>1, WriteScreen, WriteCursorIsSound DEF IInv
<1>5. LineIsOnScreen' /\ EchoShowsLine'
  <2>1. \A v \in Term \ {t} : /\ m_text'[v] = m_text[v]
                              /\ m_cursor_x'[v] = m_cursor_x[v]
                              /\ m_cursor_y'[v] = m_cursor_y[v]
    BY <1>1, WriteParts DEF IInv
  <2>2. /\ line'[t] = << >>
        /\ \A v \in Term \ {t} : line'[v] = line[v] /\ reading'[v] = reading[v]
    BY <1>1 DEF IInv, TypeOK
  <2>3. /\ Len(line'[t]) = 0 /\ 1 .. Len(line'[t]) = {}
    BY <2>2
  <2>4. Position(t)' \in Nat
    BY <1>1, WriteCursor DEF IInv
  <2>5. 0 <= Room /\ 0 <= Position(t)'
    BY <2>4, Limits
  <2> QED BY <1>1, <2>1, <2>2, <2>3, <2>5, OtherTerminals
<1> QED BY <1>2, <1>3, <1>4, <1>5 DEF IInv

(* Every step keeps the invariant. *)
LEMMA StepInvariant == IInv /\ [Next]_vars => IInv'
<1> SUFFICES ASSUME IInv, [Next]_vars PROVE IInv'
  OBVIOUS
<1>1. ASSUME ~outside, NEW t \in Term, NEW c \in Char \cup {Newline}, Output(t, c)
      PROVE  IInv'
  BY <1>1, OutputInvariant
<1>2. ASSUME ~outside, NEW t \in Term, Read(t) PROVE IInv'
  BY <1>2, ReadInvariant
<1>3. CASE ~outside /\ SwitchTerminal
  BY <1>3, SwitchInvariant
<1>4. ASSUME ~outside, NEW t \in Term, NEW c \in Char, KeyChar(t, c) PROVE IInv'
  BY <1>4, KeyCharInvariant
<1>5. ASSUME ~outside, NEW t \in Term, KeyBackspace(t) PROVE IInv'
  BY <1>5, KeyBackspaceInvariant
<1>6. ASSUME ~outside, NEW t \in Term, KeyEnter(t) PROVE IInv'
  BY <1>6, KeyEnterInvariant
<1>7. CASE UNCHANGED vars
  BY <1>7
     DEF vars, term, focus, IInv, TypeOK, LineIsOnScreen, OneActive, Position,
         ScreenShowsActive, CursorIsSound, EchoShowsLine, Room
<1> QED BY <1>1, <1>2, <1>3, <1>4, <1>5, <1>6, <1>7 DEF Next

LEMMA Invariant == Spec => []IInv
<1>1. Init => IInv
  BY InitInvariant
<1>2. IInv /\ [Next]_vars => IInv'
  BY StepInvariant
<1> QED BY <1>1, <1>2, PTL DEF Spec

-----------------------------------------------------------------------------
(* The properties. *)

(* The column and the row of every cursor, and of the screen's, are those  *)
(* of a cell of the screen, or row -1 after backspace at the first cell.   *)
THEOREM TypeCorrect == Spec => []TypeOK
<1>1. IInv => TypeOK
  BY DEF IInv
<1> QED BY <1>1, Invariant, PTL

(* The screen is the active terminal's text after any order of printing,   *)
(* typing, erasing, scrolling and switching.                               *)
THEOREM ScreenIsTheActive == Spec => []ScreenShowsActive
<1>1. IInv => ScreenShowsActive
  BY DEF IInv
<1> QED BY <1>1, Invariant, PTL

(* For lines of any length nothing is printed over something else and      *)
(* nothing reaches the last row; nothing is stored outside the text but by *)
(* backspace in a line that has been longer than what stays on the screen. *)
THEOREM CursorIsAlwaysSound == Spec => []CursorIsSound
<1>1. IInv => CursorIsSound
  BY DEF IInv
<1> QED BY <1>1, Invariant, PTL

(* What is before the cursor is what Enter delivers, if the line has never *)
(* been longer than what stays on the screen.                              *)
THEOREM EchoIsTheLine == Spec => []EchoShowsLine
<1>1. IInv => EchoShowsLine
  BY DEF IInv
<1> QED BY <1>1, Invariant, PTL

=============================================================================
