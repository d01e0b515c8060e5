---------------------------- MODULE TtyIrqProofs ----------------------------
(***************************************************************************)
(* The console under interrupts, for every size of screen and ring,        *)
(* whatever keys arrive between whichever accesses: the view stays within  *)
(* the stored lines, no stored line is altered before it leaves the ring,  *)
(* and what a key can do to the screen and to the hardware cursor is       *)
(* confined to the call it arrives in and to a redraw it interrupts.       *)
(*                                                                         *)
(* There are three invariants, each on top of the one before it:           *)
(*   IInv  the numbers of the scrollback: what the main program has        *)
(*         already written when it is interrupted inside advance_lines     *)
(*         and terminal_clear_screen;                                      *)
(*   CInv  the cursor: what the registers of the CRT controller will hold  *)
(*         once the accesses under way have been made;                     *)
(*   DInv  the screen: which of its rows a redraw has already copied.      *)
(* The arithmetic says that lines less than SCROLLBACK_LINES apart lie in  *)
(* different places of the ring, also when line_for_view_y wraps around,   *)
(* and that two bytes hold every place of the screen.                      *)
(***************************************************************************)
EXTENDS TtyIrq, SequenceTheorems, TLAPS

N == SCROLLBACK_LINES

Fields == {"color", "x", "y", "scrollbuf", "tail_line", "sb_count",
           "view_offset", "screen", "cursor", "cursor_on"}

Labels == {"idle", "follow", "bottom", "body", "row", "tail", "count", "clear",
           "blit", "copy", "show", "ports", "ring", "screen", "caret", "back",
           "fix", "cursor", "spaces", "clear count", "clear offset",
           "clear line", "fill", "home"}

Typed ==
    /\ DOMAIN tty = Fields /\ DOMAIN tty.scrollbuf = Ring
    /\ tty.tail_line \in 0..MaxTail /\ tty.sb_count \in 1..N
    /\ tty.view_offset \in Nat /\ tty.y \in Rows
    /\ pc \in Labels /\ after \in {"idle", "body", "fix", "cursor", "ring", "spaces"}
    /\ blit \in [start : Nat, off : Nat, row : Nat, clean : BOOLEAN]

\* What tail_line, sb_count and view_offset say of each other, by the place
\* where the main program is.
Stored ==
    /\ pc \notin {"clear count", "clear offset"} =>
         tty.sb_count <= tty.tail_line + 1 /\ tty.view_offset <= max_view_offset(tty)
    /\ pc = "count" => tty.sb_count <= tty.tail_line
    /\ pc = "clear offset" => tty.sb_count = 1
    /\ pc \in {"tail", "count", "clear"} => tty.y = SCREEN_HEIGHT - 1

Redrawing ==
    /\ blit.start <= tty.tail_line /\ blit.row <= SCREEN_HEIGHT
    /\ pc \notin {"copy", "show", "fill"} => blit.start = 0 /\ blit.row = 0
    /\ pc \in {"copy", "fill"} => blit.row < SCREEN_HEIGHT

IInv == Typed /\ Stored /\ Redrawing

-----------------------------------------------------------------------------
(***************************************************************************)
(* Arithmetic.                                                             *)
(***************************************************************************)
LEMMA ModRange ==
  ASSUME NEW a \in Int, NEW n \in Nat \ {0}
  PROVE  /\ a % n \in 0..(n - 1)
         /\ a \div n \in Int
         /\ a = n * (a \div n) + (a % n)
OBVIOUS

LEMMA ModSmall ==
  ASSUME NEW n \in Nat \ {0}, NEW a \in 0..(n - 1)
  PROVE  a % n = a
BY ModRange

LEMMA Times ==
  ASSUME NEW n \in Nat \ {0}, NEW d \in Int, n * d < n, - n < n * d
  PROVE  d = 0
<1>1. d >= 1 => n * d >= n
  OBVIOUS
<1>2. d <= -1 => n * d <= - n
  OBVIOUS
<1> QED BY <1>1, <1>2

LEMMA Near ==
  ASSUME NEW a \in Int, NEW b \in Int, NEW n \in Nat \ {0},
         a % n = b % n, a - b < n, b - a < n
  PROVE  a = b
<1> DEFINE d == (a \div n) - (b \div n)
<1>1. d \in Int
  BY ModRange
<1>2. a - b = n * d
  BY ModRange
<1>3. d = 0
  BY <1>1, <1>2, Times
<1> QED BY <1>2, <1>3

LEMMA ModAdd ==
  ASSUME NEW a \in Int, NEW q \in Int, NEW n \in Nat \ {0}
  PROVE  (a + n * q) % n = a % n
<1> DEFINE b == a + n * q
           d == (b \div n) - (a \div n) - q
<1>1. b \in Int /\ d \in Int
  BY ModRange
<1>2. /\ a = n * (a \div n) + (a % n) /\ b = n * (b \div n) + (b % n)
      /\ a % n \in 0..(n - 1) /\ b % n \in 0..(n - 1)
      /\ a \div n \in Int /\ b \div n \in Int
  BY <1>1, ModRange
<1>3. n * d = n * (b \div n) - n * (a \div n) - n * q
  BY <1>2
<1>4. n * d = (a % n) - (b % n)
  BY <1>2, <1>3
<1>5. n * d < n /\ - n < n * d
  BY <1>2, <1>4
<1>6. d = 0
  BY <1>1, <1>5, Times
<1> HIDE DEF d
<1>7. n * d = 0
  BY <1>6
<1> QED BY <1>2, <1>4, <1>7

LEMMA Sizes ==
  /\ N \in Nat \ {0} /\ SCREEN_HEIGHT \in Nat \ {0} /\ SCREEN_HEIGHT < N
  /\ WORD \in Nat \ {0} /\ MaxTail \in Nat /\ MaxTail + SCREEN_HEIGHT < WORD
<1>1. WORD \in Nat /\ MaxTail \in Nat /\ SCREEN_HEIGHT \in Nat \ {0}
      /\ MaxTail + SCREEN_HEIGHT < WORD \div 2
  BY TtyAssumption
<1>2. WORD \div 2 <= WORD /\ WORD # 0 /\ WORD \div 2 \in Nat
  BY <1>1
<1>3. N \in Nat /\ SCREEN_HEIGHT < N
  BY TtyAssumption DEF N
<1> QED BY <1>1, <1>2, <1>3

LEMMA SizeIs ==
  ASSUME NEW a \in 0..MaxTail
  PROVE  size(a) = a
<1>1. a \in 0..(WORD - 1)
  BY Sizes
<1> QED BY <1>1, Sizes, ModSmall DEF size

\* A place in the ring is the same before and after size_t wraps around.
LEMMA RingSize ==
  ASSUME NEW a \in Int
  PROVE  size(a) \in Nat /\ ring(size(a)) = a % N
<1> DEFINE k == WORD \div N
           q == a \div WORD
<1>1. k \in Int /\ WORD = N * k
  <2>1. WORD % N = 0
    BY TtyAssumption DEF N
  <2> QED BY <2>1, Sizes, ModRange
<1>2. size(a) \in Nat /\ q \in Int /\ a = WORD * q + size(a)
  BY Sizes, ModRange DEF size
<1> HIDE DEF k, q
<1> DEFINE m == -(k * q)
<1>3. m \in Int /\ WORD * q \in Int
  BY <1>1, <1>2, Sizes
<1>4. N * m = - (WORD * q)
  BY <1>1, <1>2, Sizes
<1>5. size(a) = a + N * m
  BY <1>2, <1>3, <1>4
<1> HIDE DEF m
<1>6. (a + N * m) % N = a % N
  BY <1>3, Sizes, ModAdd
<1> QED BY <1>2, <1>5, <1>6 DEF ring, N

LEMMA RingApart ==
  ASSUME NEW a \in Int, NEW b \in Int, ring(size(a)) = ring(size(b)),
         a - b < N, b - a < N
  PROVE  a = b
BY RingSize, Near, Sizes

-----------------------------------------------------------------------------
(***************************************************************************)
(* The console's functions leave the scrollback's numbers alone.           *)
(***************************************************************************)
Same(t, u) ==
    /\ DOMAIN u = DOMAIN t /\ u.scrollbuf = t.scrollbuf /\ u.tail_line = t.tail_line
    /\ u.sb_count = t.sb_count /\ u.view_offset = t.view_offset /\ u.y = t.y

LEMMA BlitKeeps ==
  ASSUME NEW t, DOMAIN t = Fields
  PROVE  Same(t, blit_view(t))
BY DEF Same, blit_view, Fields, set_cursor

LEMMA ClearKeeps ==
  ASSUME NEW t, DOMAIN t = Fields, DOMAIN t.scrollbuf = Ring, NEW n
  PROVE  LET u == sb_clear_line(t, n)
         IN  /\ DOMAIN u = Fields /\ DOMAIN u.scrollbuf = Ring
             /\ u.tail_line = t.tail_line /\ u.sb_count = t.sb_count
             /\ u.view_offset = t.view_offset /\ u.y = t.y
             /\ \A i \in Ring \ {ring(n)} : u.scrollbuf[i] = t.scrollbuf[i]
BY DEF sb_clear_line, Fields

\* A scroll key redraws the console with another view_offset.
LEMMA IrqRedraws ==
  ASSUME Typed, ScrollIrq
  PROVE  \E n \in 0..max_view_offset(tty) :
           LET t == [tty EXCEPT !.view_offset = n]
           IN  /\ tty' = [blit_view(t) EXCEPT !.cursor = tty.cursor, !.cursor_on = tty.cursor_on]
               /\ crtc' = Run(crtc, blit_cursor(t.x, cursor_row(t), t.view_offset))
<1>1. PICK t \in Scrolled \cup Ended :
        /\ tty' = [blit_view(t) EXCEPT !.cursor = tty.cursor, !.cursor_on = tty.cursor_on]
        /\ crtc' = Run(crtc, blit_cursor(t.x, cursor_row(t), t.view_offset))
  BY DEF ScrollIrq
<1>2. max_view_offset(tty) \in Nat
  BY Sizes DEF Typed, max_view_offset
<1>3. PICK n \in 0..max_view_offset(tty) : t = [tty EXCEPT !.view_offset = n]
  <2>1. CASE t \in Ended
    BY <1>2, <2>1 DEF Ended
  <2>2. CASE t \in Scrolled
    <3>1. PICK delta \in {-SCREEN_HEIGHT, -1, 1, SCREEN_HEIGHT} :
            t = [tty EXCEPT !.view_offset =
                   clamp(tty.view_offset + delta, max_view_offset(tty))]
      BY <2>2 DEF Scrolled
    <3>2. tty.view_offset + delta \in Int
      BY Sizes DEF Typed
    <3>3. clamp(tty.view_offset + delta, max_view_offset(tty)) \in 0..max_view_offset(tty)
      BY <1>2, <3>2 DEF clamp
    <3> QED BY <3>1, <3>3
  <2> QED BY <2>1, <2>2
<1> QED BY <1>1, <1>3

\* The stored lines stay what they are, and the offset within them.
LEMMA IrqMoves ==
  ASSUME Typed, ScrollIrq
  PROVE  /\ DOMAIN tty' = Fields /\ tty'.scrollbuf = tty.scrollbuf
         /\ tty'.tail_line = tty.tail_line /\ tty'.sb_count = tty.sb_count
         /\ tty'.y = tty.y
         /\ tty'.view_offset \in 0..max_view_offset(tty)
<1>1. PICK n \in 0..max_view_offset(tty) :
        tty' = [blit_view([tty EXCEPT !.view_offset = n])
                  EXCEPT !.cursor = tty.cursor, !.cursor_on = tty.cursor_on]
  BY IrqRedraws
<1> DEFINE t == [tty EXCEPT !.view_offset = n]
           u == blit_view(t)
<1>2. /\ DOMAIN t = Fields /\ t.view_offset = n /\ t.scrollbuf = tty.scrollbuf
      /\ t.tail_line = tty.tail_line /\ t.sb_count = tty.sb_count /\ t.y = tty.y
  BY DEF Typed, Fields
<1> HIDE DEF t
<1>3. Same(t, u)
  BY <1>2, BlitKeeps
<1> HIDE DEF u
<1>4. tty' = [u EXCEPT !.cursor = tty.cursor, !.cursor_on = tty.cursor_on]
  BY <1>1 DEF t, u
<1> QED BY <1>2, <1>3, <1>4 DEF Same, Fields

-----------------------------------------------------------------------------
(***************************************************************************)
(* The invariant is inductive.                                             *)
(***************************************************************************)
LEMMA InitIInv == IrqInit => IInv
<1> SUFFICES ASSUME IrqInit PROVE IInv
  OBVIOUS
<1>1. PICK color \in Colors : tty = terminal_clear_screen(Static(color))
  BY DEF IrqInit, Init
<1> DEFINE t == [Static(color) EXCEPT !.tail_line = 0, !.sb_count = 1, !.view_offset = 0]
           u == sb_clear_line(t, 0)
<1>2. /\ DOMAIN t = Fields /\ DOMAIN t.scrollbuf = Ring /\ t.tail_line = 0
      /\ t.sb_count = 1 /\ t.view_offset = 0 /\ t.y = 0
  BY DEF Static, Fields
<1> HIDE DEF t
<1>3. /\ DOMAIN u = Fields /\ DOMAIN u.scrollbuf = Ring /\ u.tail_line = 0
      /\ u.sb_count = 1 /\ u.view_offset = 0
  BY <1>2, ClearKeeps
<1>4. tty = set_cursor([u EXCEPT !.screen = [r \in Rows |-> BlankLine(Static(color))],
                                 !.x = 0, !.y = 0, !.cursor_on = TRUE], 0, 0)
  BY <1>1 DEF terminal_clear_screen, t
<1> HIDE DEF u
<1>5. /\ DOMAIN tty = Fields /\ DOMAIN tty.scrollbuf = Ring /\ tty.tail_line = 0
      /\ tty.sb_count = 1 /\ tty.view_offset = 0 /\ tty.y = 0
  BY <1>3, <1>4 DEF set_cursor, Fields
<1>6. max_view_offset(tty) \in Nat /\ 0 \in Rows
  BY <1>5, Sizes DEF max_view_offset, Rows
<1>7. pc = "idle" /\ after = "idle" /\ blit = NoBlit
  BY DEF IrqInit
<1> QED BY <1>5, <1>6, <1>7, Sizes DEF IInv, Typed, Stored, Redrawing, NoBlit, Labels

LEMMA MaxView ==
  ASSUME Typed
  PROVE  /\ tty.sb_count <= SCREEN_HEIGHT => max_view_offset(tty) = 0
         /\ tty.sb_count > SCREEN_HEIGHT =>
              max_view_offset(tty) = tty.sb_count - SCREEN_HEIGHT
BY Sizes DEF Typed, max_view_offset

LEMMA Numbers ==
  ASSUME Typed
  PROVE  /\ tty.tail_line \in 0..MaxTail /\ tty.sb_count \in 1..N
         /\ tty.view_offset \in Nat /\ tty.y \in 0..(SCREEN_HEIGHT - 1)
         /\ DOMAIN tty = Fields /\ DOMAIN tty.scrollbuf = Ring
BY DEF Typed, Rows

LEMMA BackspaceInv == ASSUME IInv, PutBackspace PROVE IInv'
<1>1. /\ pc' \in {"ring", "back"}
      /\ \/ tty' = tty
         \/ tty' = [tty EXCEPT !.x = tty.x - 1]
         \/ tty.y > 0 /\ tty' = [tty EXCEPT !.x = SCREEN_WIDTH - 1, !.y = tty.y - 1]
  BY DEF PutBackspace, Goto
<1>2. pc = "body" /\ UNCHANGED <<after, blit>>
  BY DEF PutBackspace
<1>3. tty.y > 0 => tty.y - 1 \in 0..(SCREEN_HEIGHT - 1)
  BY Numbers, Sizes DEF IInv
<1>4. /\ DOMAIN tty' = Fields /\ tty'.scrollbuf = tty.scrollbuf
      /\ tty'.tail_line = tty.tail_line /\ tty'.sb_count = tty.sb_count
      /\ tty'.view_offset = tty.view_offset /\ tty'.y \in Rows
  BY <1>1, <1>3, Numbers DEF IInv, Fields, Rows
<1>5. max_view_offset(tty') = max_view_offset(tty)
  BY <1>4 DEF max_view_offset
<1> QED BY <1>1, <1>2, <1>4, <1>5 DEF IInv, Typed, Stored, Redrawing, Labels

LEMMA NextRowInv == ASSUME IInv, NextRow PROVE IInv'
<1>1. CASE tty.y < SCREEN_HEIGHT - 1
  <2>1. /\ tty' = [tty EXCEPT !.y = tty.y + 1] /\ pc' = after
        /\ pc = "row" /\ UNCHANGED <<after, blit>>
    BY <1>1 DEF NextRow, Goto
  <2>2. tty.y + 1 \in 0..(SCREEN_HEIGHT - 1)
    BY <1>1, Numbers, Sizes DEF IInv
  <2>3. /\ DOMAIN tty' = Fields /\ tty'.scrollbuf = tty.scrollbuf
        /\ tty'.tail_line = tty.tail_line /\ tty'.sb_count = tty.sb_count
        /\ tty'.view_offset = tty.view_offset /\ tty'.y \in Rows
    BY <2>1, <2>2, Numbers DEF IInv, Fields, Rows
  <2>4. max_view_offset(tty') = max_view_offset(tty)
    BY <2>3 DEF max_view_offset
  <2> QED BY <2>1, <2>3, <2>4 DEF IInv, Typed, Stored, Redrawing, Labels
<1>2. CASE ~(tty.y < SCREEN_HEIGHT - 1)
  <2>1. pc' = "tail" /\ pc = "row" /\ UNCHANGED <<tty, after, blit>>
    BY <1>2 DEF NextRow, Goto
  <2>2. tty.y = SCREEN_HEIGHT - 1
    BY <1>2, Numbers, Sizes DEF IInv
  <2> QED BY <2>1, <2>2 DEF IInv, Typed, Stored, Redrawing, Labels, max_view_offset
<1> QED BY <1>1, <1>2

LEMMA CountInv == ASSUME IInv, AdvanceCount PROVE IInv'
<1>1. /\ tty' = [tty EXCEPT !.sb_count = IF tty.sb_count < N THEN tty.sb_count + 1
                                                           ELSE tty.sb_count]
      /\ pc = "count" /\ pc' = "clear" /\ UNCHANGED <<after, blit>>
  BY DEF AdvanceCount, Goto, N
<1>2. /\ tty'.sb_count = IF tty.sb_count < N THEN tty.sb_count + 1 ELSE tty.sb_count
      /\ DOMAIN tty' = Fields /\ tty'.scrollbuf = tty.scrollbuf
      /\ tty'.tail_line = tty.tail_line /\ tty'.view_offset = tty.view_offset
      /\ tty'.y = tty.y
  BY <1>1, Numbers DEF IInv, Fields
<1>3. tty.sb_count <= tty.tail_line
  BY <1>1 DEF IInv, Stored
<1>4. /\ tty'.sb_count \in 1..N /\ tty'.sb_count >= tty.sb_count
      /\ tty'.sb_count <= tty.tail_line + 1
  BY <1>2, <1>3, Numbers, Sizes DEF IInv
<1>5. tty.view_offset <= max_view_offset(tty)
  BY <1>1 DEF IInv, Stored
<1>6. tty'.view_offset <= max_view_offset(tty')
  BY <1>2, <1>4, <1>5, Numbers, Sizes DEF IInv, max_view_offset
<1> QED BY <1>1, <1>2, <1>4, <1>6 DEF IInv, Typed, Stored, Redrawing, Labels

LEMMA LineInv ==
  ASSUME IInv, AdvanceClear \/ ClearLine
  PROVE  IInv'
<1>1. PICK n : tty' = sb_clear_line(tty, n)
  BY DEF AdvanceClear, ClearLine, Store
<1>2. /\ (pc = "clear" /\ pc' = "blit") \/ (pc = "clear line" /\ pc' = "fill")
      /\ UNCHANGED <<after, blit>>
  BY DEF AdvanceClear, ClearLine, Store, Goto
<1>3. /\ DOMAIN tty' = Fields /\ DOMAIN tty'.scrollbuf = Ring /\ tty'.y = tty.y
      /\ tty'.tail_line = tty.tail_line /\ tty'.sb_count = tty.sb_count
      /\ tty'.view_offset = tty.view_offset
  BY <1>1, ClearKeeps, Numbers DEF IInv
<1>4. max_view_offset(tty') = max_view_offset(tty)
  BY <1>3 DEF max_view_offset
<1>5. CASE pc = "clear" /\ pc' = "blit"
  BY <1>2, <1>3, <1>4, <1>5, Sizes DEF IInv, Typed, Stored, Redrawing, Labels
<1>6. CASE pc = "clear line" /\ pc' = "fill"
  <2>1. blit.row = 0
    BY <1>6 DEF IInv, Redrawing
  <2>2. 0 < SCREEN_HEIGHT
    BY Sizes
  <2> QED BY <1>2, <1>3, <1>4, <1>6, <2>1, <2>2 DEF IInv, Typed, Stored, Redrawing, Labels
<1> QED BY <1>2, <1>5, <1>6

\* The arithmetic of start_line, over numbers only.
LEMMA Within ==
  ASSUME NEW t \in Nat, NEW o \in Nat, NEW s \in Nat, NEW h \in Nat \ {0},
         NEW m \in Nat, s <= t + 1, o <= m, m = IF s <= h THEN 0 ELSE s - h
  PROVE  /\ o <= t /\ t - o \in 0..t
         /\ (IF t - o >= h - 1 THEN t - o - (h - 1) ELSE 0) \in 0..t
OBVIOUS

LEMMA StartLine ==
  ASSUME Typed, tty.sb_count <= tty.tail_line + 1,
         tty.view_offset <= max_view_offset(tty)
  PROVE  /\ start_line(tty) \in 0..tty.tail_line /\ tty.view_offset <= tty.tail_line
         /\ start_line(tty) = IF tty.tail_line - tty.view_offset >= SCREEN_HEIGHT - 1
                             THEN tty.tail_line - tty.view_offset - (SCREEN_HEIGHT - 1)
                             ELSE 0
<1>1. /\ tty.tail_line \in Nat /\ tty.tail_line <= MaxTail
      /\ tty.sb_count \in Nat /\ tty.view_offset \in Nat
  BY Numbers, Sizes
<1>3. max_view_offset(tty) =
        IF tty.sb_count <= SCREEN_HEIGHT THEN 0 ELSE tty.sb_count - SCREEN_HEIGHT
  BY DEF max_view_offset
<1>4. max_view_offset(tty) \in Nat
  BY <1>1, <1>3, Sizes
<1>5. SCREEN_HEIGHT \in Nat \ {0} /\ MaxTail \in Nat
  BY Sizes
<1> DEFINE st == IF tty.tail_line - tty.view_offset >= SCREEN_HEIGHT - 1
                 THEN tty.tail_line - tty.view_offset - (SCREEN_HEIGHT - 1) ELSE 0
<1>6. /\ tty.view_offset <= tty.tail_line
      /\ tty.tail_line - tty.view_offset \in 0..tty.tail_line
      /\ st \in 0..tty.tail_line
  BY <1>1, <1>3, <1>4, <1>5, Within
<1>7. tty.tail_line - tty.view_offset \in 0..MaxTail
  BY <1>1, <1>5, <1>6
<1>8. start_line(tty) = st
  BY <1>7, SizeIs DEF start_line
<1> QED BY <1>6, <1>8

LEMMA BlitInv == ASSUME IInv, Blit PROVE IInv'
<1>1. /\ blit' = [start |-> start_line(tty), off |-> tty.view_offset, row |-> 0,
                  clean |-> TRUE]
      /\ pc = "blit" /\ pc' = "copy" /\ UNCHANGED <<tty, after>>
  BY DEF Blit, Goto
<1>2. start_line(tty) \in Nat /\ start_line(tty) <= tty.tail_line
  BY <1>1, StartLine, Numbers DEF IInv, Stored
<1> QED BY <1>1, <1>2, Sizes DEF IInv, Typed, Stored, Redrawing, Labels, max_view_offset

LEMMA ClearInv ==
  ASSUME IInv, ClearTail \/ ClearCount \/ ClearOffset
  PROVE  IInv'
<1>1. CASE ClearTail
  <2>1. /\ tty' = [tty EXCEPT !.tail_line = 0] /\ pc = "idle" /\ pc' = "clear count"
        /\ UNCHANGED <<after, blit>>
    BY <1>1 DEF ClearTail, Store, Goto
  <2>2. /\ DOMAIN tty' = Fields /\ tty'.scrollbuf = tty.scrollbuf /\ tty'.tail_line = 0
        /\ tty'.sb_count = tty.sb_count /\ tty'.view_offset = tty.view_offset
        /\ tty'.y = tty.y
    BY <2>1, Numbers DEF IInv, Fields
  <2>3. 0 \in 0..MaxTail
    BY Sizes
  <2>4. Typed'
    BY <2>1, <2>2, <2>3 DEF IInv, Typed, Labels
  <2>5. Stored'
    BY <2>1 DEF Stored
  <2>6. blit'.start = 0 /\ blit'.row = 0
    BY <2>1 DEF IInv, Redrawing
  <2>7. 0 <= tty'.tail_line /\ 0 <= SCREEN_HEIGHT
    BY <2>2, Sizes
  <2>8. Redrawing'
    BY <2>1, <2>6, <2>7 DEF Redrawing
  <2> QED BY <2>4, <2>5, <2>8 DEF IInv
<1>2. CASE ClearCount
  <2>1. /\ tty' = [tty EXCEPT !.sb_count = 1] /\ pc = "clear count"
        /\ pc' = "clear offset" /\ UNCHANGED <<after, blit>>
    BY <1>2 DEF ClearCount, Store, Goto
  <2>2. /\ DOMAIN tty' = Fields /\ tty'.scrollbuf = tty.scrollbuf
        /\ tty'.tail_line = tty.tail_line /\ tty'.sb_count = 1
        /\ tty'.view_offset = tty.view_offset /\ tty'.y = tty.y
    BY <2>1, Numbers DEF IInv, Fields
  <2>3. 1 \in 1..N
    BY Sizes
  <2>4. Typed'
    BY <2>1, <2>2, <2>3 DEF IInv, Typed, Labels
  <2>5. Stored'
    BY <2>1, <2>2 DEF Stored
  <2>6. Redrawing'
    BY <2>1, <2>2 DEF IInv, Redrawing
  <2> QED BY <2>4, <2>5, <2>6 DEF IInv
<1>3. CASE ClearOffset
  <2>1. /\ tty' = [tty EXCEPT !.view_offset = 0] /\ pc = "clear offset"
        /\ pc' = "clear line" /\ UNCHANGED <<after, blit>>
    BY <1>3 DEF ClearOffset, Store, Goto
  <2>2. /\ DOMAIN tty' = Fields /\ tty'.scrollbuf = tty.scrollbuf
        /\ tty'.tail_line = tty.tail_line /\ tty'.sb_count = tty.sb_count
        /\ tty'.view_offset = 0 /\ tty'.y = tty.y
    BY <2>1, Numbers DEF IInv, Fields
  <2>3. tty.sb_count = 1
    BY <2>1 DEF IInv, Stored
  <2>4. tty'.sb_count <= tty'.tail_line + 1 /\ 0 <= max_view_offset(tty')
    BY <2>2, <2>3, Numbers, Sizes DEF IInv, max_view_offset
  <2> QED BY <2>1, <2>2, <2>4, Sizes DEF IInv, Typed, Stored, Redrawing, Labels
<1> QED BY <1>1, <1>2, <1>3

LEMMA FillInv == ASSUME IInv, FillRow PROVE IInv'
<1>1. /\ tty' = [tty EXCEPT !.screen[blit.row] = BlankLine(tty)]
      /\ pc = "fill" /\ UNCHANGED after
  BY DEF FillRow
<1>2. /\ DOMAIN tty' = Fields /\ tty'.scrollbuf = tty.scrollbuf
      /\ tty'.tail_line = tty.tail_line /\ tty'.sb_count = tty.sb_count
      /\ tty'.view_offset = tty.view_offset /\ tty'.y = tty.y
  BY <1>1, Numbers DEF IInv, Fields
<1>3. max_view_offset(tty') = max_view_offset(tty)
  BY <1>2 DEF max_view_offset
<1>4. CASE blit.row < SCREEN_HEIGHT - 1
  <2>1. blit' = [blit EXCEPT !.row = blit.row + 1] /\ pc' = pc
    BY <1>4 DEF FillRow
  <2>2. /\ blit' \in [start : Nat, off : Nat, row : Nat, clean : BOOLEAN]
        /\ blit'.start = blit.start /\ blit'.row = blit.row + 1 /\ blit.row \in Nat
    BY <2>1 DEF IInv, Typed
  <2>3. blit.row + 1 < SCREEN_HEIGHT
    BY <1>4, <2>2, Sizes
  <2> QED BY <1>1, <1>2, <1>3, <2>1, <2>2, <2>3, Sizes
        DEF IInv, Typed, Stored, Redrawing, Labels
<1>5. CASE ~(blit.row < SCREEN_HEIGHT - 1)
  <2>1. blit' = NoBlit /\ pc' = "home"
    BY <1>5 DEF FillRow, Goto
  <2> QED BY <1>1, <1>2, <1>3, <2>1, Numbers, Sizes
        DEF IInv, Typed, Stored, Redrawing, Labels, NoBlit
<1> QED BY <1>4, <1>5

LEMMA IrqInv == ASSUME IInv, ScrollIrq PROVE IInv'
<1>1. /\ DOMAIN tty' = Fields /\ tty'.scrollbuf = tty.scrollbuf
      /\ tty'.tail_line = tty.tail_line /\ tty'.sb_count = tty.sb_count
      /\ tty'.y = tty.y /\ tty'.view_offset \in 0..max_view_offset(tty)
  BY IrqMoves DEF IInv
<1>2. /\ blit' = [blit EXCEPT !.clean = blit.clean /\ pc \notin {"copy", "show", "fill"}]
      /\ UNCHANGED <<pc, after>>
  BY DEF ScrollIrq
<1>3. /\ blit' \in [start : Nat, off : Nat, row : Nat, clean : BOOLEAN]
      /\ blit'.start = blit.start /\ blit'.row = blit.row
  BY <1>2 DEF IInv, Typed
<1>4. max_view_offset(tty') = max_view_offset(tty) /\ max_view_offset(tty) \in Nat
  BY <1>1, Numbers, Sizes DEF IInv, max_view_offset
<1>5. tty'.view_offset \in Nat /\ tty'.view_offset <= max_view_offset(tty')
  BY <1>1, <1>4
<1> QED BY <1>1, <1>2, <1>3, <1>4, <1>5 DEF IInv, Typed, Stored, Redrawing

LEMMA StutterIInv == ASSUME IInv, UNCHANGED vars PROVE IInv'
<1>1. UNCHANGED <<tty, pc, after, blit>>
  BY DEF vars
<1> QED BY <1>1 DEF IInv, Typed, Stored, Redrawing, max_view_offset

LEMMA NextIInv == IInv /\ [IrqNext]_vars => IInv'
<1> SUFFICES ASSUME IInv, [IrqNext]_vars PROVE IInv'
  OBVIOUS
<1> USE Sizes DEF IInv, Typed, Stored, Redrawing, Labels, Goto, screen, Access,
          max_view_offset, Rows
<1>1. CASE Follow
  BY <1>1 DEF Follow, Fields
<1>2. CASE Bottom
  BY <1>2 DEF Bottom, Fields
<1>3. CASE PutReturn
  BY <1>3 DEF PutReturn, Fields
<1>4. CASE PutTab
  BY <1>4 DEF PutTab, Fields
<1>5. CASE PutSpaces
  BY <1>5 DEF PutSpaces, Fields
<1>6. CASE PutChar
  BY <1>6 DEF PutChar, Fields
<1>7. CASE WriteRing
  BY <1>7 DEF WriteRing, cell, Fields
<1>8. CASE WriteScreen
  BY <1>8 DEF WriteScreen, Fields
<1>9. CASE MoveCaret
  BY <1>9 DEF MoveCaret, Fields
<1>10. CASE BackCursor
  BY <1>10 DEF BackCursor, Fields
<1>11. CASE Fixup
  BY <1>11 DEF Fixup, Fields
<1>12. CASE Finish
  BY <1>12 DEF Finish, Fields
<1>13. CASE AdvanceTail
  BY <1>13 DEF AdvanceTail, Fields
<1>14. CASE CopyRow
  BY <1>14 DEF CopyRow, Fields
<1>15. CASE ShowCursor
  BY <1>15 DEF ShowCursor, NoBlit, Fields
<1>16. CASE Port
  BY <1>16 DEF Port, Fields
<1>17. CASE PutNewline
  BY <1>17 DEF PutNewline, Fields
<1>18. CASE Home
  BY <1>18 DEF Home, Fields
<1>19. ASSUME NEW c \in Chars \cup {" ", NL, CR, TABCHAR, BS}, Call(c) PROVE IInv'
  BY <1>19 DEF Call
<1>20. CASE UNCHANGED vars
  BY <1>20, StutterIInv
<1> HIDE DEF IInv
<1> QED BY <1>1, <1>2, <1>3, <1>4, <1>5, <1>6, <1>7, <1>8, <1>9, <1>10, <1>11, <1>12, <1>13, <1>14, <1>15, <1>16, <1>17, <1>18, <1>19, <1>20,
       BackspaceInv, NextRowInv, CountInv, LineInv, BlitInv, ClearInv, FillInv, IrqInv
       DEF IrqNext, Putc, ClearScreen

\* The numbers of the scrollback fit each other wherever the main program is.
THEOREM Invariance == IrqSpec => []IInv
<1>1. IrqInit => IInv
  BY InitIInv
<1>2. IInv /\ [IrqNext]_vars => IInv'
  BY NextIInv
<1> QED BY <1>1, <1>2, PTL DEF IrqSpec

-----------------------------------------------------------------------------
(***************************************************************************)
(* What follows from it.                                                   *)
(***************************************************************************)
\* Interrupted anywhere, the view stays within the lines stored, and the
\* redraw under way too (tty.c 115-119, 125-127, 176-178, 277-311).
THEOREM ViewStaysInside == IrqSpec => []ViewWindowIrq
<1>1. IInv => ViewWindowIrq
  <2> SUFFICES ASSUME IInv PROVE ViewWindowIrq
    OBVIOUS
  <2>1. blit.start \in 0..tty.tail_line /\ blit.row \in 0..SCREEN_HEIGHT
    BY Numbers, Sizes DEF IInv, Typed, Redrawing
  <2>2. ASSUME pc \notin {"clear count", "clear offset"} PROVE ViewWindow
    <3>1. tty.sb_count <= tty.tail_line + 1 /\ tty.view_offset <= max_view_offset(tty)
      BY <2>2 DEF IInv, Stored
    <3>2. tty.sb_count <= SCROLLBACK_LINES /\ tty.view_offset <= tty.tail_line
      BY <3>1, StartLine, Numbers, Sizes DEF IInv, N
    <3> QED BY <3>1, <3>2 DEF ViewWindow
  <2> QED BY <2>1, <2>2 DEF ViewWindowIrq
<1> QED BY <1>1, Invariance, PTL

\* No line stored lies where the caret's line is written.
LEMMA CaretApart ==
  ASSUME Typed, tty.sb_count <= tty.tail_line + 1,
         NEW n \in oldest(tty)..tty.tail_line, n # caret_line(tty)
  PROVE  ring(n) \in Ring \ {ring(caret_line(tty))}
<1>1. /\ tty.tail_line \in Nat /\ tty.tail_line <= MaxTail /\ MaxTail \in Nat
      /\ tty.sb_count \in Nat /\ tty.sb_count >= 1 /\ tty.sb_count <= N
      /\ tty.y \in Nat /\ tty.y <= SCREEN_HEIGHT - 1
      /\ SCREEN_HEIGHT \in Nat /\ SCREEN_HEIGHT < N /\ N \in Nat
  BY Numbers, Sizes
<1>2. oldest(tty) = tty.tail_line + 1 - tty.sb_count
  <2>1. tty.tail_line + 1 - tty.sb_count \in 0..MaxTail
    BY <1>1
  <2> QED BY <1>1, <2>1, SizeIs DEF oldest
<1>3. n \in 0..MaxTail /\ n <= tty.tail_line /\ n >= tty.tail_line + 1 - tty.sb_count
  BY <1>1, <1>2
<1>4. size(n) = n
  BY <1>3, SizeIs
<1> DEFINE c == tty.tail_line - ((SCREEN_HEIGHT - 1) - tty.y)
<1>5. c \in Int /\ n - c < N /\ c - n < N
  BY <1>1, <1>3
<1>6. caret_line(tty) = size(c)
  BY DEF caret_line, line_for_view_y
<1>7. n # c
  BY <1>4, <1>6
<1> HIDE DEF c
<1>8. ring(size(n)) # ring(size(c))
  BY <1>3, <1>5, <1>7, RingApart
<1>9. ring(n) \in Ring
  BY <1>3, Sizes, ModRange DEF ring, Ring, N
<1> QED BY <1>4, <1>6, <1>8, <1>9

LEMMA BottomCaret ==
  ASSUME Typed, tty.y = SCREEN_HEIGHT - 1
  PROVE  caret_line(tty) = tty.tail_line
<1>1. tty.tail_line \in 0..MaxTail
  BY Numbers
<1>2. tty.tail_line - ((SCREEN_HEIGHT - 1) - tty.y) = tty.tail_line
  BY <1>1, Sizes
<1> QED BY <1>1, <1>2, SizeIs DEF caret_line, line_for_view_y

\* What a step writes into the ring is the caret's line, or the bottom line as
\* a clear blanks it.
LEMMA RingWrites ==
  ASSUME IInv, [IrqNext]_vars, pc # "clear line"
  PROVE  \/ tty'.scrollbuf = tty.scrollbuf
         \/ /\ tty.sb_count <= tty.tail_line + 1
            /\ tty'.tail_line = tty.tail_line /\ tty'.sb_count = tty.sb_count
            /\ \A i \in Ring \ {ring(caret_line(tty))} :
                 tty'.scrollbuf[i] = tty.scrollbuf[i]
<1>0. DOMAIN tty = Fields /\ DOMAIN tty.scrollbuf = Ring
  BY Numbers DEF IInv
<1>1. CASE AdvanceClear
  <2>1. tty' = sb_clear_line(tty, tty.tail_line) /\ pc = "clear"
    BY <1>1 DEF AdvanceClear
  <2>2. tty.y = SCREEN_HEIGHT - 1 /\ tty.sb_count <= tty.tail_line + 1
    BY <2>1 DEF IInv, Stored
  <2>3. caret_line(tty) = tty.tail_line
    BY <2>2, BottomCaret DEF IInv
  <2> QED BY <1>0, <2>1, <2>2, <2>3, ClearKeeps
<1>2. CASE WriteRing
  <2>1. /\ pc = "ring"
        /\ tty' = [tty EXCEPT !.scrollbuf[ring(caret_line(tty))][tty.x] = cell]
    BY <1>2 DEF WriteRing, caret_line
  <2>2. tty.sb_count <= tty.tail_line + 1
    BY <2>1 DEF IInv, Stored
  <2> QED BY <1>0, <2>1, <2>2 DEF Fields
<1>3. CASE ScrollIrq
  BY <1>3, IrqMoves DEF IInv
<1>4. CASE UNCHANGED tty
  BY <1>4
<1>5. CASE Bottom \/ CopyRow \/ AdvanceTail \/ AdvanceCount
  BY <1>0, <1>5 DEF Bottom, CopyRow, AdvanceTail, AdvanceCount, Fields
<1>6. CASE NextRow \/ PutNewline \/ PutReturn \/ PutChar \/ Fixup
  BY <1>0, <1>6 DEF NextRow, PutNewline, PutReturn, PutChar, Fixup, Fields
<1>7. CASE PutBackspace
  BY <1>0, <1>7 DEF PutBackspace, Fields
<1>8. CASE WriteScreen \/ MoveCaret \/ FillRow \/ Home
  BY <1>0, <1>8 DEF WriteScreen, MoveCaret, FillRow, Home, Fields
<1>9. CASE ClearTail \/ ClearCount \/ ClearOffset
  BY <1>0, <1>9 DEF ClearTail, ClearCount, ClearOffset, Store, Fields
<1>10. CASE ClearLine
  BY <1>10 DEF ClearLine, Store
<1>11. CASE Follow \/ PutTab \/ PutSpaces \/ BackCursor \/ Finish \/ Blit
  BY <1>11 DEF Follow, PutTab, PutSpaces, BackCursor, Finish, Blit
<1>12. CASE ShowCursor \/ Port \/ \E k \in Chars \cup {" ", NL, CR, TABCHAR, BS} : Call(k)
  BY <1>12 DEF ShowCursor, Port, Call
<1>13. CASE UNCHANGED vars
  BY <1>13 DEF vars
<1> QED BY <1>1, <1>2, <1>3, <1>5, <1>6, <1>7, <1>8, <1>9, <1>10, <1>11, <1>12, <1>13
        DEF IrqNext, Putc, ClearScreen

\* The lines stored after a step that are not new were stored before it.
LEMMA KeptStep ==
  ASSUME IInv, IInv', [IrqNext]_vars, pc # "clear line",
         NEW n \in oldest(tty')..tty.tail_line,
         n \notin {caret_line(tty), caret_line(tty')}
  PROVE  tty'.scrollbuf[ring(n)] = tty.scrollbuf[ring(n)]
<1>1. CASE tty'.scrollbuf = tty.scrollbuf
  BY <1>1
<1>2. CASE /\ tty.sb_count <= tty.tail_line + 1
           /\ tty'.tail_line = tty.tail_line /\ tty'.sb_count = tty.sb_count
           /\ \A i \in Ring \ {ring(caret_line(tty))} :
                tty'.scrollbuf[i] = tty.scrollbuf[i]
  <2>1. oldest(tty') = oldest(tty)
    BY <1>2 DEF oldest
  <2>2. ring(n) \in Ring \ {ring(caret_line(tty))}
    BY <1>2, <2>1, CaretApart DEF IInv
  <2> QED BY <1>2, <2>2
<1> QED BY <1>1, <1>2, RingWrites

\* The text the user scrolls back to is the text that was printed: no step of
\* the program or of a key alters a stored line other than the caret's (tty.c
\* 128-129, 146-155), but a clear of the screen.
THEOREM HistoryIsKept == IrqSpec => HistoryKeptIrq
<1> DEFINE Kept ==
      pc # "clear line" =>
        \A n \in oldest(tty')..tty.tail_line :
          n \in {caret_line(tty), caret_line(tty')}
            \/ tty'.scrollbuf[ring(n)] = tty.scrollbuf[ring(n)]
<1>1. IInv /\ IInv' /\ [IrqNext]_vars => [Kept]_vars
  <2> SUFFICES ASSUME IInv, IInv', [IrqNext]_vars PROVE Kept
    OBVIOUS
  <2> QED BY KeptStep
<1> QED BY <1>1, Invariance, PTL DEF IrqSpec, HistoryKeptIrq

-----------------------------------------------------------------------------
(***************************************************************************)
(* Sequences of accesses to the CRT controller.                            *)
(***************************************************************************)
Registers == {"start", "end", "hi", "lo"}
Controller == [index : Registers, reg : [Registers -> Byte]]
Accesses == [port : {"index"}, val : Registers] \cup [port : {"data"}, val : Byte]
              \cup {Merge(KEEP_START, 0), Merge(KEEP_END, LAST_SCAN)}

\* No function makes more than eight accesses.
Short == {s \in Seq(Accesses) : Len(s) <= 8}

\* The controller after each access of a sequence.
Trace(f, c, s) ==
    f = [n \in 0..Len(s) |-> IF n = 0 THEN c ELSE Obey(f[n - 1], s[n])]

LEMMA TraceIs ==
  ASSUME NEW c, NEW s, Len(s) \in Nat, NEW f, Trace(f, c, s)
  PROVE  f[0] = c /\ \A n \in 1..Len(s) : f[n] = Obey(f[n - 1], s[n])
<1>1. \A n \in 0..Len(s) : f[n] = IF n = 0 THEN c ELSE Obey(f[n - 1], s[n])
  BY DEF Trace
<1> QED BY <1>1

\* Eight accesses can be written out.
LEMMA TraceExists ==
  ASSUME NEW c, NEW s \in Short
  PROVE  \E f : Trace(f, c, s)
<1> DEFINE c1 == Obey(c, s[1])
           c2 == Obey(c1, s[2])
           c3 == Obey(c2, s[3])
           c4 == Obey(c3, s[4])
           c5 == Obey(c4, s[5])
           c6 == Obey(c5, s[6])
           c7 == Obey(c6, s[7])
           c8 == Obey(c7, s[8])
           f == [n \in 0..Len(s) |->
                  IF n = 0 THEN c ELSE IF n = 1 THEN c1 ELSE IF n = 2 THEN c2
                  ELSE IF n = 3 THEN c3 ELSE IF n = 4 THEN c4 ELSE IF n = 5 THEN c5
                  ELSE IF n = 6 THEN c6 ELSE IF n = 7 THEN c7 ELSE c8]
<1>1. Len(s) \in Nat /\ Len(s) <= 8  BY DEF Short
<1>2. /\ c1 = Obey(c, s[1]) /\ c2 = Obey(c1, s[2]) /\ c3 = Obey(c2, s[3])
      /\ c4 = Obey(c3, s[4]) /\ c5 = Obey(c4, s[5]) /\ c6 = Obey(c5, s[6])
      /\ c7 = Obey(c6, s[7]) /\ c8 = Obey(c7, s[8])
  OBVIOUS
<1> HIDE DEF c1, c2, c3, c4, c5, c6, c7, c8
<1>3. \A n \in 0..Len(s) : f[n] = IF n = 0 THEN c ELSE Obey(f[n - 1], s[n])
  <2> SUFFICES ASSUME NEW n \in 0..Len(s)
               PROVE  f[n] = IF n = 0 THEN c ELSE Obey(f[n - 1], s[n])
    OBVIOUS
  <2>1. n \in 0..8 /\ (n # 0 => n - 1 \in 0..Len(s))  BY <1>1
  <2> QED BY <1>2, <2>1
<1>4. f = [n \in 0..Len(s) |-> f[n]]  OBVIOUS
<1> HIDE DEF f
<1>5. f = [n \in 0..Len(s) |-> IF n = 0 THEN c ELSE Obey(f[n - 1], s[n])]
  BY <1>3, <1>4
<1> QED BY <1>5 DEF Trace

LEMMA RunIs ==
  ASSUME NEW c, NEW s \in Short
  PROVE  \E f : Trace(f, c, s) /\ Run(c, s) = f[Len(s)]
<1> DEFINE f == CHOOSE f : Trace(f, c, s)
<1>1. Trace(f, c, s)  BY TraceExists
<1>2. Run(c, s) = f[Len(s)]  BY DEF Run, Trace
<1> QED BY <1>1, <1>2

\* The first access, then the others.
LEMMA RunFirst ==
  ASSUME NEW c, NEW s \in Short, s # <<>>
  PROVE  Tail(s) \in Short /\ Run(c, s) = Run(Obey(c, Head(s)), Tail(s))
<1>1. /\ s \in Seq(Accesses) /\ Len(s) \in 1..8 /\ Tail(s) \in Seq(Accesses)
      /\ Len(Tail(s)) = Len(s) - 1 /\ Head(s) = s[1]
      /\ \A i \in 1..(Len(s) - 1) : Tail(s)[i] = s[i + 1]
  <2>1. s \in Seq(Accesses) /\ Len(s) <= 8  BY DEF Short
  <2>2. Len(s) \in 1..8
    <3>1. Len(s) \in Nat  BY <2>1, LenProperties
    <3>2. Len(s) # 0  BY <2>1, EmptySeq
    <3>3. Len(s) <= 8  BY <2>1
    <3> DEFINE m == Len(s)
    <3>4. m \in Nat /\ m # 0 /\ m <= 8  BY <3>1, <3>2, <3>3
    <3> HIDE DEF m
    <3>5. m \in 1..8  BY <3>4
    <3> QED BY <3>5 DEF m
  <2>3. Tail(s) \in Seq(Accesses) /\ Len(Tail(s)) = Len(s) - 1 /\ Head(s) = s[1]
    BY <2>1, HeadTailProperties
  <2>4. \A i \in 1..(Len(s) - 1) : Tail(s)[i] = s[i + 1]
    BY <2>1, <2>3, HeadTailProperties
  <2> QED BY <2>1, <2>2, <2>3, <2>4
<1>2. Tail(s) \in Short  BY <1>1 DEF Short
<1>3. PICK f : Trace(f, c, s) /\ Run(c, s) = f[Len(s)]  BY RunIs
<1>4. PICK g : Trace(g, Obey(c, Head(s)), Tail(s))
               /\ Run(Obey(c, Head(s)), Tail(s)) = g[Len(Tail(s))]
  BY <1>2, RunIs
<1> DEFINE n == Len(s)
<1>5. f[0] = c /\ \A i \in 1..n : f[i] = Obey(f[i - 1], s[i])
  BY <1>1, <1>3, TraceIs
<1>6. g[0] = Obey(c, s[1]) /\ \A i \in 1..(n - 1) : g[i] = Obey(g[i - 1], s[i + 1])
  <2> DEFINE t == Tail(s)
             d == Obey(c, Head(s))
  <2>1. Trace(g, d, t) /\ Len(t) \in Nat  BY <1>1, <1>4
  <2> HIDE DEF t, d
  <2>2. g[0] = d /\ \A i \in 1..Len(t) : g[i] = Obey(g[i - 1], t[i])
    BY <2>1, TraceIs
  <2> QED BY <1>1, <2>2 DEF t, d
<1>7. n \in 1..8  BY <1>1
<1> HIDE DEF n
<1>8. g[0] = f[1]
  <2>1. 1 \in 1..n  BY <1>7
  <2> QED BY <1>5, <1>6, <2>1
<1>9. ASSUME NEW i \in 1..(n - 1), g[i - 1] = f[i] PROVE g[i] = f[i + 1]
  <2>1. i + 1 \in 1..n /\ (i + 1) - 1 = i  BY <1>7
  <2>2. f[i + 1] = Obey(f[i], s[i + 1])  BY <1>5, <2>1
  <2> QED BY <1>6, <1>9, <2>2
<1>10. /\ 1 <= n - 1 => g[1] = f[2]
       /\ 2 <= n - 1 => g[2] = f[3]
       /\ 3 <= n - 1 => g[3] = f[4]
       /\ 4 <= n - 1 => g[4] = f[5]
       /\ 5 <= n - 1 => g[5] = f[6]
       /\ 6 <= n - 1 => g[6] = f[7]
       /\ 7 <= n - 1 => g[7] = f[8]
  <2>1. 1 <= n - 1 => g[1] = f[2]  BY <1>7, <1>8, <1>9
  <2>2. 2 <= n - 1 => g[2] = f[3]  BY <1>7, <1>9, <2>1
  <2>3. 3 <= n - 1 => g[3] = f[4]  BY <1>7, <1>9, <2>2
  <2>4. 4 <= n - 1 => g[4] = f[5]  BY <1>7, <1>9, <2>3
  <2>5. 5 <= n - 1 => g[5] = f[6]  BY <1>7, <1>9, <2>4
  <2>6. 6 <= n - 1 => g[6] = f[7]  BY <1>7, <1>9, <2>5
  <2>7. 7 <= n - 1 => g[7] = f[8]  BY <1>7, <1>9, <2>6
  <2> QED BY <2>1, <2>2, <2>3, <2>4, <2>5, <2>6, <2>7
<1>11. g[n - 1] = f[n]  BY <1>7, <1>8, <1>10
<1> QED BY <1>1, <1>2, <1>3, <1>4, <1>11 DEF n

LEMMA RunNone == ASSUME NEW c PROVE Run(c, <<>>) = c
<1>1. <<>> \in Short /\ Len(<<>>) = 0  BY DEF Short
<1>2. PICK f : Trace(f, c, <<>>) /\ Run(c, <<>>) = f[Len(<<>>)]  BY <1>1, RunIs
<1>3. f[0] = c  BY <1>1, <1>2, TraceIs
<1> QED BY <1>1, <1>2, <1>3

\* Two accesses in front of at most six.
LEMMA RunTwo ==
  ASSUME NEW c, NEW a \in Accesses, NEW b \in Accesses, NEW t \in Seq(Accesses), Len(t) <= 6
  PROVE  /\ <<a, b>> \o t \in Short
         /\ Run(c, <<a, b>> \o t) = Run(Obey(Obey(c, a), b), t)
<1> DEFINE s == <<a, b>> \o t
           u == <<b>> \o t
<1>1. /\ s \in Seq(Accesses) /\ Len(s) = Len(t) + 2 /\ s # <<>> /\ Head(s) = a
      /\ u \in Seq(Accesses) /\ Len(u) = Len(t) + 1 /\ u # <<>> /\ Head(u) = b
  OBVIOUS
<1>2. Tail(s) = u /\ Tail(u) = t
  OBVIOUS
<1>3. Len(t) \in Nat  OBVIOUS
<1> HIDE DEF s, u
<1>4. s \in Short /\ u \in Short  BY <1>1, <1>3 DEF Short
<1>5. Run(c, s) = Run(Obey(c, a), u)  BY <1>1, <1>2, <1>4, RunFirst
<1>6. Run(Obey(c, a), u) = Run(Obey(Obey(c, a), b), t)  BY <1>1, <1>2, <1>4, RunFirst
<1> QED BY <1>4, <1>5, <1>6 DEF s

-----------------------------------------------------------------------------
(***************************************************************************)
(* What each sequence leaves in the registers.                             *)
(***************************************************************************)
LEMMA CrtcNumbers ==
  /\ BYTE \in Nat \ {0} /\ SCREEN_WIDTH \in Nat \ {0} /\ SCREEN_HEIGHT \in Nat \ {0}
  /\ CURSOR_OFF \in Nat \ {0} /\ CURSOR_OFF \in Byte
  /\ KEEP_START \in Nat \ {0} /\ KEEP_END \in Nat \ {0} /\ LAST_SCAN \in Nat
<1>1. CURSOR_OFF \in 1..(BYTE - 1) /\ BYTE \in Nat \ {0}  BY CrtcAssumption
<1>2. KEEP_END \in Nat \ {0} /\ LAST_SCAN \in 0..(KEEP_END - 1)  BY CrtcAssumption
<1>3. KEEP_START \in Nat \ {0} /\ SCREEN_WIDTH \in Nat \ {0} /\ SCREEN_HEIGHT \in Nat \ {0}
  BY CrtcAssumption, TtyAssumption
<1> QED BY <1>1, <1>2, <1>3 DEF Byte

\* A register selected and written.
With(c, r, v) == [index |-> r, reg |-> [c.reg EXCEPT ![r] = v]]

LEMMA WithIs ==
  ASSUME NEW c \in Controller, NEW r \in Registers, NEW v \in Byte
  PROVE  /\ With(c, r, v) \in Controller
         /\ \A s \in Registers : With(c, r, v).reg[s] = IF s = r THEN v ELSE c.reg[s]
  BY DEF With, Controller

LEMMA RunData ==
  ASSUME NEW c \in Controller, NEW r \in Registers, NEW v \in Byte,
         NEW t \in Seq(Accesses), Len(t) <= 6
  PROVE  /\ <<Index(r), Data(v)>> \o t \in Short
         /\ Run(c, <<Index(r), Data(v)>> \o t) = Run(With(c, r, v), t)
<1>1. /\ Index(r) \in Accesses /\ Data(v) \in Accesses
      /\ Obey(Obey(c, Index(r)), Data(v)) = With(c, r, v)
  BY DEF Index, Data, Accesses, Obey, Out, Controller, With
<1> QED BY <1>1, RunTwo

LEMMA RunMerge ==
  ASSUME NEW c \in Controller, NEW r \in Registers, NEW k, NEW v,
         Merge(k, v) \in Accesses, NEW w \in Byte, w = c.reg[r] - (c.reg[r] % k) + v,
         NEW t \in Seq(Accesses), Len(t) <= 6
  PROVE  /\ <<Index(r), Merge(k, v)>> \o t \in Short
         /\ Run(c, <<Index(r), Merge(k, v)>> \o t) = Run(With(c, r, w), t)
<1> DEFINE d == [c EXCEPT !.index = r]
<1>1. Obey(c, Index(r)) = d /\ Index(r) \in Accesses  BY DEF Index, Obey, Out, Accesses
<1>2. d.index = r /\ d.reg = c.reg /\ d = [index |-> r, reg |-> c.reg]  BY DEF Controller
<1> HIDE DEF d
<1>3. Merged(d, Merge(k, v)) = Data(w)  BY <1>2 DEF Merged, Merge
<1>4. Obey(d, Merge(k, v)) = Out(d, Data(w))
  <2>1. Merge(k, v).port = "in"  BY DEF Merge
  <2> QED BY <1>3, <2>1 DEF Obey
<1>5. Out(d, Data(w)) = [d EXCEPT !.reg[r] = w]  BY <1>2 DEF Out, Data
<1>6. [d EXCEPT !.reg[r] = w] = With(c, r, w)
  <2>1. [d EXCEPT !.reg[r] = w] = [d EXCEPT !.reg = [c.reg EXCEPT ![r] = w]]  BY <1>2
  <2> QED BY <1>2, <2>1 DEF With
<1>7. Obey(Obey(c, Index(r)), Merge(k, v)) = With(c, r, w)  BY <1>1, <1>4, <1>5, <1>6
<1> QED BY <1>1, <1>7, RunTwo

\* The start register comes to a multiple of KEEP_START, the end register to
\* its own multiple of KEEP_END and LAST_SCAN: both are bytes.
LEMMA MergeBytes ==
  ASSUME NEW v \in Byte
  PROVE  /\ v - (v % KEEP_START) + 0 \in Byte
         /\ v - (v % KEEP_END) + LAST_SCAN \in Byte
         /\ ((v - (v % KEEP_START) + 0) \div CURSOR_OFF) % 2 = 0
<1>0. v \in Nat /\ v <= BYTE - 1 /\ BYTE \in Nat \ {0}  BY CrtcNumbers DEF Byte
<1>1. v - (v % KEEP_START) + 0 \in Byte
  <2> DEFINE K == KEEP_START
             q == v \div K
  <2>1. K \in Nat \ {0}  BY CrtcNumbers
  <2>2. v % K \in 0..(K - 1) /\ q \in Int /\ v = K * q + (v % K)
    BY <1>0, <2>1, ModRange
  <2>3. q \in Nat  BY <1>0, <2>1
  <2> HIDE DEF K, q
  <2>4. K * q \in Nat  BY <2>1, <2>3
  <2>5. v - (v % K) + 0 \in 0..(BYTE - 1)  BY <1>0, <2>1, <2>2, <2>4
  <2> QED BY <2>5 DEF Byte, K
<1>2. v - (v % KEEP_END) + LAST_SCAN \in Byte
  <2> DEFINE q == v \div KEEP_END
             m == BYTE \div KEEP_END
             K == KEEP_END
  <2>1. K \in Nat \ {0} /\ LAST_SCAN \in 0..(K - 1) /\ BYTE % K = 0  BY CrtcAssumption
  <2>2. v % K \in 0..(K - 1) /\ q \in Int /\ v = K * q + (v % K)
    BY <1>0, <2>1, ModRange
  <2>3. m \in Int /\ BYTE = K * m  BY <1>0, <2>1, ModRange
  <2>4. q \in Nat  BY <1>0, <2>1
  <2> HIDE DEF q, m, K
  <2>5. K * q < K * m  BY <1>0, <2>1, <2>2, <2>3, <2>4
  <2>6. q < m
    <3>1. q >= m => K * q >= K * m  BY <2>1, <2>3, <2>4
    <3> QED BY <2>1, <2>3, <2>4, <2>5, <3>1
  <2>7. K * q + K <= K * m
    <3>1. m - q - 1 \in Nat  BY <2>3, <2>4, <2>6
    <3>2. K * (m - q - 1) >= 0  BY <2>1, <3>1
    <3>3. K * (m - q - 1) = K * m - K * q - K  BY <2>1, <2>3, <2>4
    <3>4. K * m \in Int /\ K * q \in Int  BY <2>1, <2>3, <2>4
    <3> QED BY <2>1, <3>2, <3>3, <3>4
  <2>8. K * q \in Nat  BY <2>1, <2>4
  <2>9. v - (v % K) = K * q  BY <1>0, <2>1, <2>2, <2>8
  <2>10. K * q + LAST_SCAN \in 0..(BYTE - 1)  BY <1>0, <2>1, <2>3, <2>7, <2>8
  <2> QED BY <2>9, <2>10 DEF Byte, K
<1>3. ((v - (v % KEEP_START) + 0) \div CURSOR_OFF) % 2 = 0
  <2> DEFINE K == KEEP_START
             C == CURSOR_OFF
             q == v \div K
             m == K \div (2 * C)
  <2>1. K \in Nat \ {0} /\ C \in Nat \ {0} /\ K % (2 * C) = 0  BY CrtcNumbers, CrtcAssumption
  <2>2. v % K \in 0..(K - 1) /\ q \in Int /\ v = K * q + (v % K)
    BY <1>0, <2>1, ModRange
  <2>3. q \in Nat  BY <1>0, <2>1
  <2>4. m \in Int /\ K = (2 * C) * m
    <3> DEFINE w == 2 * C
    <3>1. w \in Nat \ {0} /\ K % w = 0 /\ K \in Int  BY <2>1
    <3> HIDE DEF w
    <3>2. K \div w \in Int /\ K = w * (K \div w) + (K % w)  BY <3>1, ModRange
    <3>3. K \div w \in Int /\ K = w * (K \div w)  BY <3>1, <3>2
    <3> QED BY <3>3 DEF w, m
  <2> HIDE DEF K, C, q, m
  <2>5. v - (v % K) + 0 = K * q  BY <1>0, <2>1, <2>2
  <2>6. K * q = C * (2 * (m * q))  BY <2>1, <2>3, <2>4
  <2> DEFINE p == m * q
  <2>7. p \in Int  BY <2>3, <2>4
  <2>8. K * q = C * (2 * p)  BY <2>6
  <2> HIDE DEF p
  <2>9. (C * (2 * p)) \div C = 2 * p
    <3> DEFINE w == 2 * p
    <3>1. w \in Int  BY <2>7
    <3> HIDE DEF w
    <3>2. (C * w) \div C = w
      <4>1. C * w \in Int  BY <2>1, <3>1
      <4> DEFINE d == (C * w) \div C
                 r == (C * w) % C
      <4>2. d \in Int /\ r \in 0..(C - 1) /\ C * w = C * d + r  BY <2>1, <4>1, ModRange
      <4> HIDE DEF d, r
      <4>3. w - d \in Int /\ C * (w - d) = r  BY <2>1, <3>1, <4>2
      <4>4. w - d = 0
        <5>1. C * (w - d) < C /\ - C < C * (w - d)  BY <2>1, <4>2, <4>3
        <5> QED BY <2>1, <4>3, <5>1, Times
      <4> QED BY <3>1, <4>2, <4>4 DEF d
    <3> QED BY <3>2 DEF w
  <2>10. (2 * p) % 2 = 0  BY <2>7
  <2> QED BY <2>5, <2>8, <2>9, <2>10 DEF K, C
<1> QED BY <1>1, <1>2, <1>3

Moved(c, pos) == With(With(c, "lo", pos % BYTE), "hi", (pos \div BYTE) % BYTE)

Enabled(c) ==
    With(With(c, "start", c.reg["start"] - (c.reg["start"] % KEEP_START) + 0),
         "end", c.reg["end"] - (c.reg["end"] % KEEP_END) + LAST_SCAN)

Disabled(c) == With(c, "start", CURSOR_OFF)

LEMMA MoveRun ==
  ASSUME NEW c \in Controller, NEW x \in Nat, NEW y \in Nat,
         NEW t \in Seq(Accesses), Len(t) <= 4
  PROVE  /\ move_cursor(x, y) \o t \in Short
         /\ Run(c, move_cursor(x, y) \o t) = Run(Moved(c, y * SCREEN_WIDTH + x), t)
         /\ Moved(c, y * SCREEN_WIDTH + x) \in Controller
<1> DEFINE pos == y * SCREEN_WIDTH + x
           l == pos % BYTE
           h == (pos \div BYTE) % BYTE
           u == <<Index("hi"), Data(h)>> \o t
           d == With(c, "lo", l)
<1>1. pos \in Nat  BY CrtcNumbers
<1> HIDE DEF pos
<1>2. l \in Byte /\ h \in Byte
  <2>1. BYTE \in Nat \ {0} /\ pos \in Int  BY <1>1, CrtcNumbers
  <2>2. pos % BYTE \in 0..(BYTE - 1) /\ pos \div BYTE \in Int  BY <2>1, ModRange
  <2>3. (pos \div BYTE) % BYTE \in 0..(BYTE - 1)  BY <2>1, <2>2, ModRange
  <2> QED BY <2>2, <2>3 DEF Byte
<1> HIDE DEF l, h
<1>3. "lo" \in Registers /\ "hi" \in Registers  BY DEF Registers
<1>4. /\ Index("lo") \in Accesses /\ Index("hi") \in Accesses
      /\ Data(l) \in Accesses /\ Data(h) \in Accesses
  BY <1>2, <1>3 DEF Accesses, Index, Data
<1>5. u \in Seq(Accesses) /\ Len(u) <= 6
  BY <1>4
<1>6. move_cursor(x, y) \o t = <<Index("lo"), Data(l)>> \o u
  BY <1>4 DEF move_cursor, l, h, pos
<1>7. d \in Controller  BY <1>2, <1>3, WithIs
<1>8. With(d, "hi", h) \in Controller  BY <1>2, <1>3, <1>7, WithIs
<1> HIDE DEF u
<1>9. <<Index("lo"), Data(l)>> \o u \in Short /\ Run(c, <<Index("lo"), Data(l)>> \o u) = Run(d, u)
  BY <1>2, <1>3, <1>5, RunData
<1> HIDE DEF d
<1>10. Run(d, <<Index("hi"), Data(h)>> \o t) = Run(With(d, "hi", h), t)
  <2>1. Len(t) <= 6  OBVIOUS
  <2> QED BY <1>2, <1>3, <1>7, <2>1, RunData
<1> QED BY <1>6, <1>8, <1>9, <1>10 DEF u, d, l, h, pos, Moved

LEMMA EnableRun ==
  ASSUME NEW c \in Controller, NEW t \in Seq(Accesses), Len(t) <= 4
  PROVE  /\ enable_cursor \o t \in Short
         /\ Run(c, enable_cursor \o t) = Run(Enabled(c), t)
         /\ Enabled(c) \in Controller
<1> DEFINE a == Merge(KEEP_START, 0)
           b == Merge(KEEP_END, LAST_SCAN)
           u == <<Index("end"), b>> \o t
           v == c.reg["start"] - (c.reg["start"] % KEEP_START) + 0
           w == c.reg["end"] - (c.reg["end"] % KEEP_END) + LAST_SCAN
           d == With(c, "start", v)
<1>1. "start" \in Registers /\ "end" \in Registers  BY DEF Registers
<1>2. c.reg["start"] \in Byte /\ c.reg["end"] \in Byte  BY <1>1 DEF Controller
<1>3. v \in Byte /\ w \in Byte  BY <1>2, MergeBytes
<1>4. /\ Index("start") \in Accesses /\ Index("end") \in Accesses
      /\ a \in Accesses /\ b \in Accesses
  BY <1>1 DEF Accesses, Index
<1> HIDE DEF a, b
<1>5. u \in Seq(Accesses) /\ Len(u) <= 6  BY <1>4
<1>6. enable_cursor \o t = <<Index("start"), a>> \o u
  BY <1>4 DEF enable_cursor, a, b
<1> HIDE DEF u
<1>7. v = c.reg["start"] - (c.reg["start"] % KEEP_START) + 0  OBVIOUS
<1>8. w = c.reg["end"] - (c.reg["end"] % KEEP_END) + LAST_SCAN  OBVIOUS
<1> HIDE DEF v, w
<1>9. d \in Controller /\ d.reg["end"] = c.reg["end"]
  <2>1. "end" # "start"  OBVIOUS
  <2> QED BY <1>1, <1>3, <2>1, WithIs
<1> HIDE DEF d
<1>10. With(d, "end", w) \in Controller  BY <1>1, <1>3, <1>9, WithIs
<1>11. <<Index("start"), a>> \o u \in Short /\ Run(c, <<Index("start"), a>> \o u) = Run(d, u)
  BY <1>1, <1>3, <1>4, <1>5, <1>7, RunMerge DEF a, d
<1>12. Run(d, <<Index("end"), b>> \o t) = Run(With(d, "end", w), t)
  <2>1. Len(t) <= 6 /\ w = d.reg["end"] - (d.reg["end"] % KEEP_END) + LAST_SCAN
    BY <1>8, <1>9
  <2> QED BY <1>1, <1>3, <1>4, <1>9, <2>1, RunMerge DEF b
<1> QED BY <1>6, <1>10, <1>11, <1>12 DEF u, d, v, w, Enabled

LEMMA DisableRun ==
  ASSUME NEW c \in Controller
  PROVE  /\ disable_cursor \in Short /\ Run(c, disable_cursor) = Disabled(c)
         /\ Disabled(c) \in Controller
<1>1. "start" \in Registers /\ CURSOR_OFF \in Byte  BY CrtcNumbers DEF Registers
<1>2. <<>> \in Seq(Accesses) /\ Len(<<>>) <= 6  OBVIOUS
<1>3. disable_cursor = <<Index("start"), Data(CURSOR_OFF)>> \o <<>>
  <2>1. Index("start") \in Accesses /\ Data(CURSOR_OFF) \in Accesses
    BY <1>1 DEF Accesses, Index, Data
  <2> QED BY <2>1 DEF disable_cursor
<1>4. /\ <<Index("start"), Data(CURSOR_OFF)>> \o <<>> \in Short
      /\ Run(c, <<Index("start"), Data(CURSOR_OFF)>> \o <<>>) = Run(Disabled(c), <<>>)
  BY <1>1, <1>2, RunData DEF Disabled
<1>5. Disabled(c) \in Controller  BY <1>1, WithIs DEF Disabled
<1> QED BY <1>3, <1>4, <1>5, RunNone

\* The position is told in two bytes.
Place(c, pos) == c.reg["hi"] * BYTE + c.reg["lo"] = pos
Hidden(c) == (c.reg["start"] \div CURSOR_OFF) % 2 = 1

LEMMA MovedIs ==
  ASSUME NEW c \in Controller, NEW pos \in Nat, pos < BYTE * BYTE
  PROVE  Place(Moved(c, pos), pos) /\ (Hidden(Moved(c, pos)) <=> Hidden(c))
<1> DEFINE l == pos % BYTE
           q == pos \div BYTE
           h == q % BYTE
           d == With(c, "lo", l)
<1>1. BYTE \in Nat \ {0}  BY CrtcNumbers
<1>2. l \in 0..(BYTE - 1) /\ q \in Int /\ pos = BYTE * q + l  BY <1>1, ModRange
<1>3. q \in Nat  BY <1>1
<1> HIDE DEF l, q
<1>4. q < BYTE
  <2>1. q >= BYTE => BYTE * q >= BYTE * BYTE  BY <1>1, <1>3
  <2>2. BYTE * q \in Nat /\ BYTE * BYTE \in Nat  BY <1>1, <1>3
  <2> QED BY <1>1, <1>2, <1>3, <2>1, <2>2
<1>5. h = q
  <2>1. q \in 0..(BYTE - 1)  BY <1>1, <1>3, <1>4
  <2> QED BY <1>1, <2>1, ModSmall
<1>6. l \in Byte /\ h \in Byte  BY <1>1, <1>2, <1>3, <1>4, <1>5 DEF Byte
<1> HIDE DEF h
<1>7. /\ "lo" \in Registers /\ "hi" \in Registers /\ "start" \in Registers
      /\ "lo" # "hi" /\ "start" # "hi" /\ "start" # "lo"
  BY DEF Registers
<1>8. d \in Controller /\ d.reg["lo"] = l /\ d.reg["start"] = c.reg["start"]
  BY <1>6, <1>7, WithIs
<1> HIDE DEF d
<1> DEFINE e == With(d, "hi", h)
<1>9. e.reg["lo"] = l /\ e.reg["start"] = c.reg["start"] /\ e.reg["hi"] = h
  BY <1>6, <1>7, <1>8, WithIs
<1>10. Moved(c, pos) = e  BY DEF Moved, l, h, q, d
<1> HIDE DEF e
<1>11. h * BYTE + l = pos  BY <1>1, <1>2, <1>3, <1>5
<1> QED BY <1>9, <1>10, <1>11 DEF Place, Hidden

LEMMA EnabledIs ==
  ASSUME NEW c \in Controller
  PROVE  /\ ~Hidden(Enabled(c))
         /\ Enabled(c).reg["hi"] = c.reg["hi"] /\ Enabled(c).reg["lo"] = c.reg["lo"]
<1> DEFINE v == c.reg["start"] - (c.reg["start"] % KEEP_START) + 0
           w == c.reg["end"] - (c.reg["end"] % KEEP_END) + LAST_SCAN
           d == With(c, "start", v)
<1>1. /\ "start" \in Registers /\ "end" \in Registers /\ "lo" \in Registers /\ "hi" \in Registers
      /\ "end" # "start" /\ "lo" # "start" /\ "hi" # "start" /\ "lo" # "end" /\ "hi" # "end"
  BY DEF Registers
<1>2. c.reg["start"] \in Byte /\ c.reg["end"] \in Byte  BY <1>1 DEF Controller
<1>3. v \in Byte /\ w \in Byte /\ (v \div CURSOR_OFF) % 2 = 0  BY <1>2, MergeBytes
<1> HIDE DEF v, w
<1>4. /\ d \in Controller /\ d.reg["start"] = v
      /\ d.reg["hi"] = c.reg["hi"] /\ d.reg["lo"] = c.reg["lo"]
  BY <1>1, <1>3, WithIs
<1> HIDE DEF d
<1> DEFINE e == With(d, "end", w)
<1>5. e.reg["start"] = v /\ e.reg["hi"] = c.reg["hi"] /\ e.reg["lo"] = c.reg["lo"]
  BY <1>1, <1>3, <1>4, WithIs
<1>6. Enabled(c) = e  BY DEF Enabled, v, w, d
<1> QED BY <1>3, <1>5, <1>6 DEF Hidden

LEMMA DisabledIs == ASSUME NEW c \in Controller PROVE Hidden(Disabled(c))
<1>1. "start" \in Registers /\ CURSOR_OFF \in Byte /\ CURSOR_OFF \in Nat \ {0}
  BY CrtcNumbers DEF Registers
<1>2. Disabled(c).reg["start"] = CURSOR_OFF  BY <1>1, WithIs DEF Disabled
<1>3. CURSOR_OFF \div CURSOR_OFF = 1  BY <1>1
<1>4. 1 % 2 = 1  OBVIOUS
<1> QED BY <1>2, <1>3, <1>4 DEF Hidden

-----------------------------------------------------------------------------
(***************************************************************************)
(* The invariant of the cursor.  Final is the controller as the accesses   *)
(* under way will leave it, if no key comes: what they are to heal holds   *)
(* of it, whichever of them have been made.                                *)
(***************************************************************************)
TtyForm == tty \in Console /\ (tty.x = SCREEN_WIDTH => pc = "fix")

PcForm ==
    /\ pc \in {"ring", "screen"} => ch \in Chars \cup {" ", BS}
    /\ after # "ring" /\ (pc = "idle" => after = "idle")
    /\ pc \in {"row", "tail", "count", "clear", "blit", "copy", "show"} =>
         after \in {"body", "fix", "cursor"}
    /\ pc \in {"row", "tail", "count", "clear"} => after # "body"
    /\ spaces \in -1..TAB /\ (pc = "spaces" => spaces >= 0)
    /\ after = "spaces" => pc = "ports" /\ spaces >= 0

CrtcForm == crtc \in Controller /\ ports \in Short /\ (pc = "ports" <=> ports # <<>>)

Forms == TtyForm /\ PcForm /\ CrtcForm

Final == Run(crtc, ports)
Caret == tty.y * SCREEN_WIDTH + tty.x
Scrolled_ == tty.view_offset # 0

Redraws == {"blit", "copy", "show", "clear line", "fill", "home"}

Placed ==
    /\ pc = "idle" /\ "place" \notin bad => Place(crtc, Caret)
    /\ pc = "ports" /\ "place" \in heals => Place(Final, Caret)
    /\ pc = "ports" /\ after = "idle" => "place" \in heals \cup bad

Shaped ==
    /\ pc \notin Redraws \cup {"ports"} /\ ~torn /\ "shape" \notin bad =>
         (Hidden(crtc) <=> Scrolled_)
    /\ pc = "ports" /\ ~torn /\ ("shape" \in heals \/ "shape" \notin bad) =>
         (Hidden(Final) <=> Scrolled_)

Blitted ==
    /\ pc \in {"copy", "show"} /\ blit.clean => blit.off = tty.view_offset
    /\ pc \in {"clear line", "fill", "home"} => tty.sb_count = 1

Steered == Placed /\ Shaped /\ Blitted

CInv == IInv /\ Forms /\ Steered

-----------------------------------------------------------------------------
LEMMA BlitCursor ==
  ASSUME NEW c \in Controller, NEW x \in Nat, NEW row \in Nat, NEW off \in Nat
  PROVE  LET s == blit_cursor(x, row, off)
         IN  /\ s \in Short /\ s # <<>> /\ Run(c, s) \in Controller
             /\ Hidden(Run(c, s)) <=> off # 0
<1>1. CASE off = 0
  <2> DEFINE m == Moved(c, row * SCREEN_WIDTH + x)
             t == enable_cursor
  <2>1. /\ Index("start") \in Accesses /\ Index("end") \in Accesses
        /\ Merge(KEEP_START, 0) \in Accesses /\ Merge(KEEP_END, LAST_SCAN) \in Accesses
    BY DEF Accesses, Index, Registers
  <2>2. t \in Seq(Accesses) /\ Len(t) = 4
    BY <2>1 DEF enable_cursor
  <2>8. Len(t) <= 4  BY <2>2
  <2> HIDE DEF m, t
  <2>3. /\ move_cursor(x, row) \o t \in Short
        /\ Run(c, move_cursor(x, row) \o t) = Run(m, t)
        /\ m \in Controller
    BY <2>2, <2>8, MoveRun DEF m
  <2>4. <<>> \in Seq(Accesses) /\ Len(<<>>) <= 4 /\ t \o <<>> = t
    BY <2>2
  <2>5. Run(m, t) = Enabled(m) /\ Enabled(m) \in Controller
    <3>1. Run(m, t \o <<>>) = Run(Enabled(m), <<>>) /\ Enabled(m) \in Controller
      BY <2>3, <2>4, EnableRun DEF t
    <3> QED BY <2>4, <3>1, RunNone
  <2>6. ~Hidden(Enabled(m))  BY <2>3, EnabledIs
  <2>7. move_cursor(x, row) \o t # <<>>
    <3>1. move_cursor(x, row) \o enable_cursor # <<>>
      BY DEF move_cursor, enable_cursor
    <3> QED BY <3>1 DEF t
  <2> QED BY <1>1, <2>3, <2>5, <2>6, <2>7 DEF blit_cursor, t
<1>2. CASE off # 0
  <2>1. disable_cursor # <<>>  BY DEF disable_cursor
  <2> QED BY <1>2, <2>1, DisableRun, DisabledIs DEF blit_cursor
<1> QED BY <1>1, <1>2

LEMMA MoveCursor ==
  ASSUME NEW c \in Controller, NEW x \in Nat, NEW y \in Nat
  PROVE  LET s == move_cursor(x, y)
         IN  /\ s \in Short /\ s # <<>> /\ Run(c, s) \in Controller
             /\ y * SCREEN_WIDTH + x < BYTE * BYTE =>
                  Place(Run(c, s), y * SCREEN_WIDTH + x) /\ (Hidden(Run(c, s)) <=> Hidden(c))
<1> DEFINE pos == y * SCREEN_WIDTH + x
           s == move_cursor(x, y)
<1>1. <<>> \in Seq(Accesses) /\ Len(<<>>) <= 4  OBVIOUS
<1>2. pos \in Nat  BY CrtcNumbers
<1>3. s \o <<>> = s /\ s # <<>>  BY DEF move_cursor
<1>4. /\ s \o <<>> \in Short /\ Run(c, s \o <<>>) = Run(Moved(c, pos), <<>>)
      /\ Moved(c, pos) \in Controller
  BY <1>1, MoveRun
<1> HIDE DEF s, pos
<1>5. s \in Short /\ Run(c, s) = Moved(c, pos)  BY <1>3, <1>4, RunNone
<1>6. pos < BYTE * BYTE => Place(Moved(c, pos), pos) /\ (Hidden(Moved(c, pos)) <=> Hidden(c))
  BY <1>2, MovedIs
<1> QED BY <1>3, <1>4, <1>5, <1>6 DEF s, pos

LEMMA HomeCursor ==
  ASSUME NEW c \in Controller
  PROVE  LET s == enable_cursor \o move_cursor(0, 0)
         IN  /\ s \in Short /\ s # <<>> /\ Run(c, s) \in Controller
             /\ Place(Run(c, s), 0) /\ ~Hidden(Run(c, s))
<1> DEFINE t == move_cursor(0, 0)
           e == Enabled(c)
<1>0. Len(t) = 4  BY DEF move_cursor
<1>1. t \in Short  BY MoveCursor
<1> HIDE DEF t
<1>2. t \in Seq(Accesses) /\ Len(t) <= 4  BY <1>0, <1>1 DEF Short
<1>3. /\ enable_cursor \o t \in Short /\ Run(c, enable_cursor \o t) = Run(e, t)
      /\ e \in Controller
  BY <1>2, EnableRun
<1>4. ~Hidden(e)  BY EnabledIs
<1> HIDE DEF e
<1>5. 0 * SCREEN_WIDTH + 0 = 0 /\ 0 < BYTE * BYTE
  <2>1. BYTE \in Nat \ {0}  BY CrtcNumbers
  <2>2. BYTE * BYTE > 0  BY <2>1
  <2> QED BY <2>2, CrtcNumbers
<1>6. Run(e, t) \in Controller /\ Place(Run(e, t), 0) /\ (Hidden(Run(e, t)) <=> Hidden(e))
  BY <1>3, <1>5, MoveCursor DEF t
<1>7. enable_cursor \o t # <<>>
  <2>1. enable_cursor \o t \in Seq(Accesses)  BY <1>3 DEF Short
  <2> QED BY <1>2, <2>1 DEF enable_cursor
<1> QED BY <1>3, <1>4, <1>6, <1>7 DEF t

\* A step of the ports brings the controller nearer to what it will be.
LEMMA PortFinal ==
  ASSUME Forms, Port
  PROVE  /\ crtc' \in Controller /\ ports' \in Short
         /\ Run(crtc', ports') = Final
         /\ ports' = <<>> => crtc' = Final
<1> DEFINE op == Head(ports)
           t == Tail(ports)
           m == Merged(crtc, op)
<1>1. crtc \in Controller /\ ports \in Short /\ ports # <<>>
  BY DEF Forms, CrtcForm, Port
<1>2. /\ op \in Accesses /\ t \in Seq(Accesses) /\ Len(t) <= 7 /\ t \in Short
      /\ Run(crtc, ports) = Run(Obey(crtc, op), t)
  <2>1. ports \in Seq(Accesses) /\ Len(ports) <= 8  BY <1>1 DEF Short
  <2>2. op \in Accesses  BY <1>1, <2>1
  <2>3. t \in Seq(Accesses) /\ Len(t) = Len(ports) - 1 /\ Len(ports) \in Nat
    BY <1>1, <2>1, HeadTailProperties, LenProperties
  <2> QED BY <1>1, <2>1, <2>2, <2>3, RunFirst
<1> HIDE DEF op, t
<1>3. CASE op.port = "in"
  <2>1. ports' = <<m>> \o t /\ crtc' = crtc  BY <1>3 DEF Port, op, t
  <2>2. m \in [port : {"data"}, val : Byte] /\ m.port = "data"
    <3> DEFINE v == crtc.reg[crtc.index]
    <3>1. v \in Byte  BY <1>1 DEF Controller
    <3>2. op = Merge(KEEP_START, 0) \/ op = Merge(KEEP_END, LAST_SCAN)
      BY <1>2, <1>3 DEF Accesses
    <3>3. CASE op = Merge(KEEP_START, 0)
      <4>1. m = Data(v - (v % KEEP_START) + 0)  BY <3>3 DEF Merged, Merge
      <4>2. v - (v % KEEP_START) + 0 \in Byte  BY <3>1, MergeBytes
      <4> QED BY <4>1, <4>2 DEF Data
    <3>4. CASE op = Merge(KEEP_END, LAST_SCAN)
      <4>1. m = Data(v - (v % KEEP_END) + LAST_SCAN)  BY <3>4 DEF Merged, Merge
      <4>2. v - (v % KEEP_END) + LAST_SCAN \in Byte  BY <3>1, MergeBytes
      <4> QED BY <4>1, <4>2 DEF Data
    <3> QED BY <3>2, <3>3, <3>4
  <2>3. Obey(crtc, m) = Obey(crtc, op)  BY <1>3, <2>2 DEF Obey
  <2>4. m \in Accesses  BY <2>2 DEF Accesses
  <2> HIDE DEF m
  <2>5. /\ <<m>> \o t \in Seq(Accesses) /\ Len(<<m>> \o t) <= 8
        /\ <<m>> \o t # <<>> /\ Head(<<m>> \o t) = m /\ Tail(<<m>> \o t) = t
    BY <1>2, <2>4
  <2>6. <<m>> \o t \in Short  BY <2>5 DEF Short
  <2>7. Run(crtc, <<m>> \o t) = Run(Obey(crtc, m), t)  BY <2>5, <2>6, RunFirst
  <2> QED BY <1>1, <1>2, <2>1, <2>3, <2>5, <2>6, <2>7 DEF Final
<1>4. CASE op.port # "in"
  <2>1. ports' = t /\ crtc' = Out(crtc, op)  BY <1>4 DEF Port, op, t
  <2>2. Obey(crtc, op) = Out(crtc, op)  BY <1>4 DEF Obey
  <2>3. Out(crtc, op) \in Controller
    <3>1. CASE op \in [port : {"index"}, val : Registers]
      BY <1>1, <3>1 DEF Out, Controller
    <3>2. CASE op \in [port : {"data"}, val : Byte]
      BY <1>1, <3>2 DEF Out, Controller
    <3>3. op # Merge(KEEP_START, 0) /\ op # Merge(KEEP_END, LAST_SCAN)
      BY <1>4 DEF Merge
    <3> QED BY <1>2, <3>1, <3>2, <3>3 DEF Accesses
  <2> QED BY <1>2, <2>1, <2>2, <2>3, RunNone DEF Final
<1> QED BY <1>3, <1>4

-----------------------------------------------------------------------------
(***************************************************************************)
(* The console's functions keep a console a console.                       *)
(***************************************************************************)
LEMMA LineTypes ==
  ASSUME NEW t \in Console
  PROVE  BlankLine(t) \in Line /\ \A src \in Nat : line_source(t, src) \in Line
<1>1. BlankLine(t) \in Line
  <2>1. t.color \in Colors  BY DEF Console
  <2> QED BY <2>1 DEF BlankLine, Line, Cell
<1>2. ASSUME NEW src \in Nat PROVE line_source(t, src) \in Line
  <2>1. ring(src) \in Ring  BY Sizes, ModRange DEF ring, Ring, N
  <2>2. t.scrollbuf \in [Ring -> Line]  BY DEF Console
  <2> QED BY <1>1, <2>1, <2>2 DEF line_source
<1> QED BY <1>1, <1>2

LEMMA StartType ==
  ASSUME NEW t \in Console
  PROVE  start_line(t) \in Nat /\ cursor_row(t) \in Rows
<1>1. t.tail_line \in Nat /\ t.view_offset \in Nat  BY DEF Console
<1> DEFINE e == size(t.tail_line - t.view_offset)
<1>2. e \in Nat  BY <1>1, RingSize
<1> HIDE DEF e
<1>3. start_line(t) = IF e >= SCREEN_HEIGHT - 1 THEN e - (SCREEN_HEIGHT - 1) ELSE 0
  BY DEF start_line, e
<1>4. start_line(t) \in Nat  BY <1>2, <1>3, Sizes
<1>5. cursor_row(t) \in Rows  BY <1>1, <1>4, Sizes DEF cursor_row, Rows
<1> QED BY <1>4, <1>5

LEMMA BlitType == ASSUME NEW t \in Console PROVE blit_view(t) \in Console
<1> DEFINE f == [r \in Rows |-> line_source(t, size(start_line(t) + r))]
           u == [t EXCEPT !.screen = f, !.cursor_on = (t.view_offset = 0)]
<1>1. f \in [Rows -> Line]
  <2> SUFFICES ASSUME NEW r \in Rows PROVE line_source(t, size(start_line(t) + r)) \in Line
    OBVIOUS
  <2>1. start_line(t) + r \in Int  BY StartType DEF Rows
  <2>2. size(start_line(t) + r) \in Nat  BY <2>1, RingSize
  <2> QED BY <2>2, LineTypes
<1> HIDE DEF f
<1>2. u \in Console  BY <1>1 DEF Console
<1>3. t.x \in 0..SCREEN_WIDTH /\ cursor_row(t) \in Rows  BY StartType DEF Console
<1> HIDE DEF u
<1>4. set_cursor(u, t.x, cursor_row(t)) \in Console  BY <1>2, <1>3 DEF set_cursor, Console
<1>5. blit_view(t) = IF t.view_offset = 0 THEN set_cursor(u, t.x, cursor_row(t)) ELSE u
  BY DEF blit_view, u, f
<1> QED BY <1>2, <1>4, <1>5

\* A scroll key shows the cursor if and only if the view is at the bottom.
LEMMA IrqCursor ==
  ASSUME IInv, Forms, ScrollIrq
  PROVE  /\ tty' \in Console /\ tty'.x = tty.x /\ tty'.y = tty.y
         /\ crtc' \in Controller
         /\ Hidden(crtc') <=> tty'.view_offset # 0
<1>1. PICK n \in 0..max_view_offset(tty) :
        LET t == [tty EXCEPT !.view_offset = n]
        IN  /\ tty' = [blit_view(t) EXCEPT !.cursor = tty.cursor, !.cursor_on = tty.cursor_on]
            /\ crtc' = Run(crtc, blit_cursor(t.x, cursor_row(t), t.view_offset))
  BY IrqRedraws DEF IInv
<1> DEFINE t == [tty EXCEPT !.view_offset = n]
           u == blit_view(t)
           row == cursor_row(t)
<1>2. tty \in Console /\ crtc \in Controller  BY DEF Forms, TtyForm, CrtcForm
<1>3. max_view_offset(tty) \in Nat  BY Sizes DEF IInv, Typed, max_view_offset
<1>4. n \in Nat  BY <1>3
<1>5. t \in Console /\ t.view_offset = n /\ t.x = tty.x /\ t.y = tty.y /\ t.x \in Nat
  BY <1>2, <1>4 DEF Console
<1>6. tty' = [u EXCEPT !.cursor = tty.cursor, !.cursor_on = tty.cursor_on]
      /\ crtc' = Run(crtc, blit_cursor(t.x, row, n))
  BY <1>1, <1>5
<1>7. row \in Nat  BY <1>5, StartType DEF Rows
<1>8. u \in Console /\ u.x = t.x /\ u.y = t.y /\ u.view_offset = t.view_offset
  <2>1. u \in Console  BY <1>5, BlitType
  <2>2. u.x = t.x /\ u.y = t.y /\ u.view_offset = t.view_offset
    BY <1>5 DEF blit_view, set_cursor, Console
  <2> QED BY <2>1, <2>2
<1> HIDE DEF t, u, row
<1>9. /\ tty' \in Console /\ tty'.x = tty.x /\ tty'.y = tty.y /\ tty'.view_offset = n
  BY <1>2, <1>5, <1>6, <1>8 DEF Console
<1>10. crtc' \in Controller /\ (Hidden(crtc') <=> n # 0)
  <2> DEFINE s == blit_cursor(t.x, row, n)
  <2>1. Run(crtc, s) \in Controller /\ (Hidden(Run(crtc, s)) <=> n # 0)
    BY <1>2, <1>4, <1>5, <1>7, BlitCursor
  <2> HIDE DEF s
  <2>2. crtc' = Run(crtc, s)  BY <1>6 DEF s
  <2> QED BY <2>1, <2>2 DEF Hidden
<1> QED BY <1>9, <1>10

-----------------------------------------------------------------------------
(***************************************************************************)
(* The invariant of the cursor is inductive: its forms.                    *)
(***************************************************************************)
LEMMA InitConsole ==
  ASSUME IrqInit
  PROVE  tty \in Console /\ tty.x = 0 /\ tty.y = 0 /\ tty.view_offset = 0
<1>1. PICK color \in Colors : tty = terminal_clear_screen(Static(color))
  BY DEF IrqInit, Init
<1> DEFINE s == Static(color)
           t == [s EXCEPT !.tail_line = 0, !.sb_count = 1, !.view_offset = 0]
           u == sb_clear_line(t, 0)
           f == [r \in Rows |-> BlankLine(s)]
<1>2. s \in Console
  <2>1. 0 \in 0..SCREEN_WIDTH /\ 0 \in Rows /\ 0 \in Nat  BY CrtcNumbers DEF Rows
  <2>2. [x \in Cols |-> <<" ", color>>] \in Line  BY DEF Line, Cell
  <2> QED BY <2>1, <2>2 DEF Static, Console
<1> HIDE DEF s
<1>3. t \in Console  BY <1>2 DEF Console
<1> HIDE DEF t
<1>4. u \in Console /\ u.view_offset = t.view_offset
  <2>1. ring(0) \in Ring  BY Sizes, ModRange DEF ring, Ring, N
  <2>2. BlankLine(t) \in Line  BY <1>3, LineTypes
  <2> QED BY <1>3, <2>1, <2>2 DEF sb_clear_line, Console
<1>5. f \in [Rows -> Line]  BY <1>2, LineTypes
<1>6. t.view_offset = 0  BY <1>2 DEF t, Console
<1>7. tty = set_cursor([u EXCEPT !.screen = f, !.x = 0, !.y = 0, !.cursor_on = TRUE], 0, 0)
  BY <1>1 DEF terminal_clear_screen, s, t
<1> HIDE DEF u, f
<1>8. 0 \in 0..SCREEN_WIDTH /\ 0 \in Rows  BY CrtcNumbers DEF Rows
<1> QED BY <1>4, <1>5, <1>6, <1>7, <1>8 DEF set_cursor, Console

LEMMA InitCInv == IrqInit => CInv
<1> SUFFICES ASSUME IrqInit PROVE CInv
  OBVIOUS
<1> DEFINE c == [index |-> "lo", reg |-> [r \in {"start", "end", "hi", "lo"} |-> 0]]
           s == enable_cursor \o move_cursor(0, 0)
<1>1. /\ pc = "idle" /\ after = "idle" /\ spaces = -1 /\ ports = <<>> /\ crtc = Run(c, s)
      /\ blit = NoBlit
  BY DEF IrqInit
<1>2. tty \in Console /\ tty.x = 0 /\ tty.y = 0 /\ tty.view_offset = 0
  BY InitConsole
<1>3. c \in Controller
  <2>1. 0 \in Byte  BY CrtcNumbers DEF Byte
  <2> QED BY <2>1 DEF Controller, Registers
<1> HIDE DEF c
<1>4. Run(c, s) \in Controller /\ Place(Run(c, s), 0) /\ ~Hidden(Run(c, s))
  BY <1>3, HomeCursor
<1> HIDE DEF s
<1>5. TtyForm  BY <1>2, CrtcNumbers DEF TtyForm
<1>6. PcForm
  <2>1. TAB \in 1..4  BY TtyAssumption
  <2> QED BY <1>1, <2>1 DEF PcForm
<1>7. CrtcForm
  <2>1. ports \in Short /\ pc # "ports" /\ ports = <<>>  BY <1>1, RunFirst DEF Short
  <2> QED BY <1>1, <1>4, <2>1 DEF CrtcForm
<1>8. Place(crtc, Caret) /\ ~Hidden(crtc) /\ ~Scrolled_
  <2>1. Caret = 0  BY <1>2, CrtcNumbers DEF Caret
  <2> QED BY <1>1, <1>2, <1>4, <2>1 DEF Scrolled_
<1>9. Steered
  BY <1>1, <1>8 DEF Steered, Placed, Shaped, Blitted, Redraws
<1> QED BY <1>5, <1>6, <1>7, <1>9, InitIInv DEF CInv, Forms

LEMMA CellType ==
  ASSUME Forms, pc \in {"ring", "screen"}
  PROVE  cell \in Cell
<1>1. ch \in Chars \cup {" ", BS} /\ tty.color \in Colors
  BY DEF Forms, TtyForm, PcForm, Console
<1> QED BY <1>1 DEF cell, Cell

LEMMA TtyFormNext ==
  ASSUME IInv, Forms, [IrqNext]_vars
  PROVE  TtyForm'
<1>0. tty \in Console /\ (tty.x = SCREEN_WIDTH => pc = "fix")  BY DEF Forms, TtyForm
<1>1. /\ SCREEN_WIDTH \in Nat \ {0} /\ SCREEN_HEIGHT \in Nat \ {0}
      /\ tty.x \in 0..SCREEN_WIDTH /\ tty.y \in Rows
  BY <1>0, CrtcNumbers DEF Console
<1> USE DEF Goto, Access, TtyForm
<1>2. CASE Follow \/ PutTab \/ PutSpaces \/ BackCursor \/ Finish \/ Blit \/ ShowCursor
  <2>1. UNCHANGED tty /\ pc # "fix"
    BY <1>2 DEF Follow, PutTab, PutSpaces, BackCursor, Finish, Blit, ShowCursor
  <2> QED BY <1>0, <2>1
<1>3. CASE Port \/ \E k \in Chars \cup {" ", NL, CR, TABCHAR, BS} : Call(k)
  <2>1. UNCHANGED tty /\ pc # "fix"  BY <1>3 DEF Port, Call
  <2> QED BY <1>0, <2>1
<1>4. CASE Bottom \/ AdvanceTail \/ AdvanceCount
  <2>1. pc # "fix"  BY <1>4 DEF Bottom, AdvanceTail, AdvanceCount
  <2>2. tty' \in Console /\ tty'.x = tty.x
    <3>1. CASE Bottom  BY <1>0, <3>1 DEF Bottom, Console
    <3>2. CASE AdvanceTail  BY <1>0, <3>2 DEF AdvanceTail, Console
    <3>3. CASE AdvanceCount  BY <1>0, <3>3 DEF AdvanceCount, Console
    <3> QED BY <1>4, <3>1, <3>2, <3>3
  <2> QED BY <1>0, <2>1, <2>2
<1>5. CASE PutNewline \/ PutReturn
  <2>1. tty' = [tty EXCEPT !.x = 0]  BY <1>5 DEF PutNewline, PutReturn
  <2> QED BY <1>0, <1>1, <2>1 DEF Console
<1>6. CASE PutBackspace
  <2>1. /\ pc # "fix"
        /\ \/ tty' = tty
           \/ tty.x > 0 /\ tty' = [tty EXCEPT !.x = tty.x - 1]
           \/ tty.y > 0 /\ tty' = [tty EXCEPT !.x = SCREEN_WIDTH - 1, !.y = tty.y - 1]
    BY <1>6 DEF PutBackspace
  <2>2. CASE tty' = tty  BY <1>0, <2>1, <2>2
  <2>3. CASE tty.x > 0 /\ tty' = [tty EXCEPT !.x = tty.x - 1]
    <3>1. tty.x - 1 \in 0..SCREEN_WIDTH /\ tty.x - 1 # SCREEN_WIDTH  BY <1>1, <2>3
    <3> QED BY <1>0, <2>3, <3>1 DEF Console
  <2>4. CASE tty.y > 0 /\ tty' = [tty EXCEPT !.x = SCREEN_WIDTH - 1, !.y = tty.y - 1]
    <3>1. SCREEN_WIDTH - 1 \in 0..SCREEN_WIDTH /\ SCREEN_WIDTH - 1 # SCREEN_WIDTH  BY <1>1
    <3>2. tty.y - 1 \in Rows  BY <1>1, <2>4 DEF Rows
    <3> QED BY <1>0, <2>4, <3>1, <3>2 DEF Console
  <2> QED BY <2>1, <2>2, <2>3, <2>4
<1>7. CASE PutChar \/ Fixup
  <2>1. tty' = [tty EXCEPT !.x = 0] \/ (UNCHANGED tty /\ tty.x < SCREEN_WIDTH)
    <3>1. CASE tty.x >= SCREEN_WIDTH
      <4>1. tty' = [tty EXCEPT !.x = 0]  BY <1>7, <3>1 DEF PutChar, Fixup
      <4> QED BY <4>1
    <3>2. CASE ~(tty.x >= SCREEN_WIDTH)
      <4>1. UNCHANGED tty  BY <1>7, <3>2 DEF PutChar, Fixup
      <4>2. tty.x < SCREEN_WIDTH  BY <1>1, <3>2
      <4> QED BY <4>1, <4>2
    <3> QED BY <3>1, <3>2
  <2>2. CASE tty' = [tty EXCEPT !.x = 0]  BY <1>0, <1>1, <2>2 DEF Console
  <2>3. CASE UNCHANGED tty /\ tty.x < SCREEN_WIDTH  BY <1>0, <1>1, <2>3
  <2> QED BY <2>1, <2>2, <2>3
<1>8. CASE WriteRing
  <2> DEFINE i == ring(line_for_view_y(tty, tty.y))
             v == cell
  <2>1. pc = "ring" /\ tty' = [tty EXCEPT !.scrollbuf[i][tty.x] = v]
    BY <1>8 DEF WriteRing
  <2>2. v \in Cell  BY <2>1, CellType
  <2>3. i \in Ring
    <3>1. tty.tail_line - ((SCREEN_HEIGHT - 1) - tty.y) \in Int
      BY <1>0, <1>1 DEF Console, Rows
    <3>2. line_for_view_y(tty, tty.y) \in Nat  BY <3>1, RingSize DEF line_for_view_y
    <3>3. \A k \in Nat : ring(k) \in Ring  BY Sizes, ModRange DEF ring, Ring, N
    <3> QED BY <3>2, <3>3
  <2> HIDE DEF i, v
  <2>4. tty.x \in Cols  BY <1>0, <1>1, <2>1 DEF Cols
  <2>5. tty.scrollbuf \in [Ring -> Line]  BY <1>0 DEF Console
  <2>6. [tty.scrollbuf EXCEPT ![i][tty.x] = v] \in [Ring -> Line]
    BY <2>2, <2>3, <2>4, <2>5 DEF Line
  <2>7. tty' = [tty EXCEPT !.scrollbuf = [tty.scrollbuf EXCEPT ![i][tty.x] = v]]
    BY <2>1
  <2> QED BY <1>0, <2>1, <2>6, <2>7 DEF Console
<1>9. CASE WriteScreen
  <2> DEFINE v == cell
  <2>1. pc = "screen" /\ tty' = [tty EXCEPT !.screen[tty.y][tty.x] = v]
    BY <1>9 DEF WriteScreen
  <2>2. v \in Cell  BY <2>1, CellType
  <2> HIDE DEF v
  <2>4. tty.x \in Cols  BY <1>0, <1>1, <2>1 DEF Cols
  <2>5. tty.screen \in [Rows -> Line]  BY <1>0 DEF Console
  <2>6. [tty.screen EXCEPT ![tty.y][tty.x] = v] \in [Rows -> Line]
    BY <1>1, <2>2, <2>4, <2>5 DEF Line
  <2>7. tty' = [tty EXCEPT !.screen = [tty.screen EXCEPT ![tty.y][tty.x] = v]]
    BY <2>1
  <2> QED BY <1>0, <2>1, <2>6, <2>7 DEF Console
<1>10. CASE MoveCaret
  <2>1. tty' = [tty EXCEPT !.x = tty.x + 1] /\ pc = "caret" /\ pc' = "fix"
    BY <1>10 DEF MoveCaret
  <2>2. tty.x + 1 \in 0..SCREEN_WIDTH  BY <1>0, <1>1, <2>1
  <2> QED BY <1>0, <2>1, <2>2 DEF Console
<1>11. CASE NextRow
  <2>1. pc = "row"  BY <1>11 DEF NextRow
  <2>2. CASE tty.y < SCREEN_HEIGHT - 1
    <3>1. tty' = [tty EXCEPT !.y = tty.y + 1]  BY <1>11, <2>2 DEF NextRow
    <3>2. tty.y + 1 \in Rows  BY <1>1, <2>2 DEF Rows
    <3> QED BY <1>0, <2>1, <3>1, <3>2 DEF Console
  <2>3. CASE ~(tty.y < SCREEN_HEIGHT - 1)
    <3>1. UNCHANGED tty  BY <1>11, <2>3 DEF NextRow
    <3> QED BY <1>0, <2>1, <3>1
  <2> QED BY <2>2, <2>3
<1>12. CASE AdvanceClear \/ ClearLine
  <2>1. pc # "fix" /\ \E n \in Nat : tty' = sb_clear_line(tty, n)
    <3>1. tty.tail_line \in Nat  BY <1>0 DEF Console
    <3> QED BY <1>12, <3>1 DEF AdvanceClear, ClearLine, Store
  <2>2. PICK n \in Nat : tty' = sb_clear_line(tty, n)  BY <2>1
  <2>3. ring(n) \in Ring  BY Sizes, ModRange DEF ring, Ring, N
  <2>4. BlankLine(tty) \in Line  BY <1>0, LineTypes
  <2> QED BY <1>0, <2>1, <2>2, <2>3, <2>4 DEF sb_clear_line, Console
<1>13. CASE ClearTail \/ ClearCount \/ ClearOffset
  <2>1. pc # "fix"  BY <1>13 DEF ClearTail, ClearCount, ClearOffset, Store
  <2>2. tty' \in Console /\ tty'.x = tty.x
    <3>1. CASE ClearTail  BY <1>0, <3>1 DEF ClearTail, Store, Console
    <3>2. CASE ClearCount  BY <1>0, <3>2 DEF ClearCount, Store, Console
    <3>3. CASE ClearOffset  BY <1>0, <3>3 DEF ClearOffset, Store, Console
    <3> QED BY <1>13, <3>1, <3>2, <3>3
  <2> QED BY <1>0, <2>1, <2>2
<1>14. CASE CopyRow \/ FillRow
  <2>1. pc # "fix" /\ \E l \in Line : tty' = [tty EXCEPT !.screen[blit.row] = l]
    <3>1. CASE CopyRow
      <4>1. blit.start + blit.row \in Int  BY DEF IInv, Typed
      <4>2. line_source(tty, size(blit.start + blit.row)) \in Line
        BY <1>0, <4>1, RingSize, LineTypes
      <4> QED BY <3>1, <4>2 DEF CopyRow
    <3>2. CASE FillRow  BY <1>0, <3>2, LineTypes DEF FillRow
    <3> QED BY <1>14, <3>1, <3>2
  <2>2. PICK l \in Line : tty' = [tty EXCEPT !.screen[blit.row] = l]  BY <2>1
  <2>3. tty' \in Console /\ tty'.x = tty.x  BY <1>0, <2>2 DEF Console
  <2> QED BY <1>0, <2>1, <2>3
<1>15. CASE Home
  <2>1. tty' = [tty EXCEPT !.x = 0, !.y = 0]  BY <1>15 DEF Home
  <2>2. 0 \in Rows /\ 0 \in 0..SCREEN_WIDTH /\ 0 # SCREEN_WIDTH  BY <1>1 DEF Rows
  <2>3. tty' \in Console /\ tty'.x = 0  BY <1>0, <2>1, <2>2 DEF Console
  <2> QED BY <2>2, <2>3
<1>16. CASE ScrollIrq
  <2>1. tty' \in Console /\ tty'.x = tty.x  BY <1>16, IrqCursor
  <2>2. pc' = pc  BY <1>16 DEF ScrollIrq
  <2> QED BY <1>0, <2>1, <2>2
<1>17. CASE UNCHANGED vars
  BY <1>0, <1>17 DEF vars
<1> HIDE DEF Goto, Access, TtyForm
<1> QED BY <1>2, <1>3, <1>4, <1>5, <1>6, <1>7, <1>8, <1>9, <1>10, <1>11, <1>12, <1>13, <1>14,
           <1>15, <1>16, <1>17 DEF IrqNext, Putc, ClearScreen

LEMMA PcFormNext ==
  ASSUME IInv, Forms, [IrqNext]_vars
  PROVE  PcForm'
<1>a. PcForm /\ TAB \in 1..4  BY TtyAssumption DEF Forms
<1>b. spaces \in -1..TAB /\ (pc = "spaces" => spaces >= 0)  BY <1>a DEF PcForm
<1>c. spaces \in Int  BY <1>a, <1>b
<1>d. pc = "spaces" => spaces - 1 \in -1..TAB  BY <1>a, <1>b
<1>e. tty.x \in 0..SCREEN_WIDTH /\ (pc = "body" => tty.x # SCREEN_WIDTH)
  BY DEF Forms, TtyForm, Console
<1>f. tty.x \in Int /\ (pc = "body" => ~(tty.x >= SCREEN_WIDTH))
  <2>1. SCREEN_WIDTH \in Nat  BY CrtcNumbers
  <2> QED BY <1>e, <2>1
<1>g. TAB - (tty.x % TAB) \in -1..TAB /\ TAB - (tty.x % TAB) >= 0
  <2> DEFINE k == tty.x % TAB
  <2>1. TAB \in Nat \ {0}  BY <1>a
  <2>2. k \in 0..(TAB - 1)  BY <1>f, <2>1, ModRange
  <2> HIDE DEF k
  <2>3. TAB - k \in -1..TAB /\ TAB - k >= 0  BY <1>a, <2>2
  <2> QED BY <2>3 DEF k
<1>0. PcForm /\ TAB \in 1..4 /\ spaces \in Int  BY <1>a, <1>c
<1> USE <1>0 DEF PcForm, Goto, Access
<1>1. ASSUME NEW c \in Chars \cup {" ", NL, CR, TABCHAR, BS}, Call(c) PROVE PcForm'
  BY <1>1 DEF Call
<1>2. CASE Follow \/ Bottom \/ Blit \/ CopyRow
  BY <1>2 DEF Follow, Bottom, Blit, CopyRow
<1>3. CASE PutNewline \/ PutReturn \/ Fixup \/ BackCursor
  BY <1>3 DEF PutNewline, PutReturn, Fixup, BackCursor
<1>4. CASE PutTab
  <2> DEFINE m == TAB - (tty.x % TAB)
  <2>1. spaces' = m /\ pc' = "spaces" /\ pc = "body" /\ UNCHANGED <<ch, after>>
    BY <1>4 DEF PutTab
  <2>2. m \in -1..TAB /\ m >= 0  BY <1>g
  <2> HIDE DEF m
  <2> QED BY <2>1, <2>2
<1>5. CASE PutSpaces
  <2>1. /\ pc = "spaces" /\ spaces' = spaces - 1 /\ UNCHANGED after
        /\ pc' \in {"follow", "fix"}
    BY <1>5 DEF PutSpaces
  <2>2. spaces' \in -1..TAB  BY <1>d, <2>1
  <2> QED BY <2>1, <2>2
<1>6. CASE PutBackspace
  BY <1>6 DEF PutBackspace
<1>7. CASE PutChar
  <2>1. ~(tty.x >= SCREEN_WIDTH)  BY <1>7, <1>f DEF PutChar
  <2> QED BY <1>7, <2>1 DEF PutChar
<1>8. CASE WriteRing \/ WriteScreen \/ MoveCaret
  BY <1>8 DEF WriteRing, WriteScreen, MoveCaret
<1>9. CASE Finish
  BY <1>9 DEF Finish
<1>10. CASE NextRow
  <2>1. /\ pc' \in {after, "tail"} /\ pc = "row" /\ UNCHANGED <<ch, after, spaces>>
    BY <1>10 DEF NextRow
  <2> QED BY <2>1
<1>11. CASE AdvanceTail \/ AdvanceCount \/ AdvanceClear
  BY <1>11 DEF AdvanceTail, AdvanceCount, AdvanceClear
<1>12. CASE ShowCursor
  BY <1>12 DEF ShowCursor
<1>13. CASE Port
  <2>1. /\ pc = "ports" /\ UNCHANGED spaces
        /\ \/ pc' = after /\ after' = "idle" /\ (ch' = ch \/ after = "idle")
           \/ UNCHANGED <<pc, after, ch>>
    BY <1>13 DEF Port
  <2>2. after \notin {"ring", "screen", "row", "tail", "count", "clear", "blit", "copy", "show"}
    BY <1>13, <2>1 DEF IInv, Typed
  <2> QED BY <2>1, <2>2
<1>14. CASE ClearTail \/ ClearCount \/ ClearOffset \/ ClearLine
  BY <1>14 DEF ClearTail, ClearCount, ClearOffset, ClearLine, Store
<1>15. CASE FillRow \/ Home
  BY <1>15 DEF FillRow, Home
<1>16. CASE ScrollIrq \/ UNCHANGED vars
  BY <1>16 DEF ScrollIrq, vars
<1> QED BY <1>1, <1>2, <1>3, <1>4, <1>5, <1>6, <1>7, <1>8, <1>9, <1>10, <1>11, <1>12, <1>13,
           <1>14, <1>15, <1>16 DEF IrqNext, Putc, ClearScreen

LEMMA CrtcFormNext ==
  ASSUME IInv, Forms, [IrqNext]_vars
  PROVE  CrtcForm'
<1>0. /\ tty \in Console /\ crtc \in Controller /\ ports \in Short
      /\ pc = "ports" <=> ports # <<>>
  BY DEF Forms, TtyForm, CrtcForm
<1>1. tty.x \in Nat /\ tty.y \in Nat  BY <1>0, CrtcNumbers DEF Console, Rows
<1>2. CASE BackCursor \/ Finish
  <2> DEFINE s == move_cursor(tty.x, tty.y)
  <2>1. ports' = s /\ crtc' = crtc /\ pc' = "ports"
    BY <1>2 DEF BackCursor, Finish, Access, Goto
  <2>2. s \in Short /\ s # <<>>  BY <1>0, <1>1, MoveCursor
  <2> HIDE DEF s
  <2> QED BY <1>0, <2>1, <2>2 DEF CrtcForm
<1>3. CASE ShowCursor
  <2> DEFINE row == cursor_row([tty EXCEPT !.view_offset = blit.off])
             s == blit_cursor(tty.x, row, blit.off)
  <2>1. ports' = s /\ crtc' = crtc /\ pc' = "ports"
    BY <1>3 DEF ShowCursor, Access, Goto
  <2>2. blit.off \in Nat  BY DEF IInv, Typed
  <2>3. row \in Nat
    <3>1. [tty EXCEPT !.view_offset = blit.off] \in Console  BY <1>0, <2>2 DEF Console
    <3> QED BY <3>1, StartType DEF Rows
  <2> HIDE DEF row
  <2>4. s \in Short /\ s # <<>>  BY <1>0, <1>1, <2>2, <2>3, BlitCursor
  <2> HIDE DEF s
  <2> QED BY <1>0, <2>1, <2>4 DEF CrtcForm
<1>4. CASE Home
  <2> DEFINE s == enable_cursor \o move_cursor(0, 0)
  <2>1. ports' = s /\ crtc' = crtc /\ pc' = "ports"
    BY <1>4 DEF Home, Access, Goto
  <2>2. s \in Short /\ s # <<>>  BY <1>0, HomeCursor
  <2> HIDE DEF s
  <2> QED BY <1>0, <2>1, <2>2 DEF CrtcForm
<1>5. CASE Port
  <2>1. crtc' \in Controller /\ ports' \in Short  BY <1>5, PortFinal
  <2>2. pc = "ports" /\ (IF ports' = <<>> THEN pc' = after ELSE pc' = pc)
    BY <1>5 DEF Port, Goto
  <2>3. after # "ports"  BY DEF IInv, Typed
  <2> QED BY <2>1, <2>2, <2>3 DEF CrtcForm
<1>6. CASE ScrollIrq
  <2>1. crtc' \in Controller  BY <1>6, IrqCursor
  <2>2. UNCHANGED <<pc, ports>>  BY <1>6 DEF ScrollIrq
  <2> QED BY <1>0, <2>1, <2>2 DEF CrtcForm
<1>7. ASSUME pc # "ports", pc' # "ports", UNCHANGED <<crtc, ports>> PROVE CrtcForm'
  BY <1>0, <1>7 DEF CrtcForm
<1> USE <1>7 DEF Goto, screen
<1>8. ASSUME NEW c \in Chars \cup {" ", NL, CR, TABCHAR, BS}, Call(c) PROVE CrtcForm'
  BY <1>8 DEF Call
<1>9. CASE Follow \/ Bottom \/ Blit \/ CopyRow \/ PutNewline \/ PutReturn
  BY <1>9 DEF Follow, Bottom, Blit, CopyRow, PutNewline, PutReturn
<1>10. CASE Fixup \/ PutTab \/ PutSpaces \/ PutBackspace \/ PutChar
  BY <1>10 DEF Fixup, PutTab, PutSpaces, PutBackspace, PutChar
<1>11. CASE WriteRing \/ WriteScreen \/ MoveCaret
  BY <1>11 DEF WriteRing, WriteScreen, MoveCaret
<1>12. CASE NextRow
  <2>1. pc' \in {after, "tail"} /\ pc = "row" /\ UNCHANGED <<crtc, ports>>
    BY <1>12 DEF NextRow
  <2>2. after # "ports"  BY DEF IInv, Typed
  <2> QED BY <2>1, <2>2
<1>13. CASE AdvanceTail \/ AdvanceCount \/ AdvanceClear
  BY <1>13 DEF AdvanceTail, AdvanceCount, AdvanceClear
<1>14. CASE ClearTail \/ ClearCount \/ ClearOffset \/ ClearLine \/ FillRow
  BY <1>14 DEF ClearTail, ClearCount, ClearOffset, ClearLine, Store, FillRow
<1>15. CASE UNCHANGED vars
  BY <1>0, <1>15 DEF vars, CrtcForm
<1> QED BY <1>2, <1>3, <1>4, <1>5, <1>6, <1>8, <1>9, <1>10, <1>11, <1>12, <1>13,
           <1>14, <1>15 DEF IrqNext, Putc, ClearScreen

-----------------------------------------------------------------------------
(***************************************************************************)
(* The invariant of the cursor is inductive: where it is and whether it    *)
(* shows.                                                                  *)
(***************************************************************************)
\* The caret's place fits the two bytes.
LEMMA CaretFits ==
  ASSUME Forms, pc # "fix"
  PROVE  tty.x \in Nat /\ tty.y \in Nat /\ tty.y * SCREEN_WIDTH + tty.x < BYTE * BYTE
<1> DEFINE W == SCREEN_WIDTH
           H == SCREEN_HEIGHT
           x == tty.x
           y == tty.y
           B == BYTE * BYTE
<1>1. W \in Nat \ {0} /\ H \in Nat \ {0}  BY CrtcNumbers
<1>2. B \in Nat /\ W * H <= B
  <2>1. BYTE \in Nat  BY CrtcNumbers
  <2> QED BY <2>1, CrtcAssumption
<1>3. x \in 0..W /\ x # W /\ y \in 0..(H - 1)
  BY DEF Forms, TtyForm, Console, Rows
<1> HIDE DEF W, H, x, y, B
<1>4. (H - 1 - y) * W >= 0  BY <1>1, <1>3
<1>5. (H - 1 - y) * W = W * H - W - y * W  BY <1>1, <1>3
<1>6. W * H \in Int /\ y * W \in Int  BY <1>1, <1>3
<1> DEFINE p == W * H
           q == y * W
<1>7. p \in Int /\ q \in Int /\ p - W - q >= 0 /\ p <= B  BY <1>2, <1>4, <1>5, <1>6
<1> HIDE DEF p, q
<1>8. q + x < B  BY <1>1, <1>2, <1>3, <1>7
<1>9. x \in Nat /\ y \in Nat  BY <1>1, <1>3
<1> QED BY <1>8, <1>9 DEF q, W, x, y, B

LEMMA MoveSteers ==
  ASSUME CInv, BackCursor \/ Finish
  PROVE  Placed' /\ Shaped'
<1> DEFINE s == move_cursor(tty.x, tty.y)
           F == Run(crtc, s)
<1>1. /\ pc \in {"back", "cursor"} /\ pc' = "ports" /\ ports' = s /\ heals' = {"place"}
      /\ UNCHANGED <<tty, crtc, torn, bad>>
  BY DEF BackCursor, Finish, Access, Goto
<1>2. /\ tty.x \in Nat /\ tty.y \in Nat
      /\ tty.y * SCREEN_WIDTH + tty.x < BYTE * BYTE
  BY <1>1, CaretFits DEF CInv
<1>3. Place(F, Caret) /\ (Hidden(F) <=> Hidden(crtc))
  <2>1. crtc \in Controller  BY DEF CInv, Forms, CrtcForm
  <2> QED BY <1>2, <2>1, MoveCursor DEF Caret
<1>4. ~torn /\ "shape" \notin bad => (Hidden(crtc) <=> Scrolled_)
  BY <1>1 DEF CInv, Steered, Shaped, Redraws
<1> HIDE DEF s
<1>5. Final' = F  BY <1>1 DEF Final
<1> HIDE DEF F
<1>6. Place(Final', Caret') /\ (Hidden(Final') <=> Hidden(F)) /\ Scrolled_' = Scrolled_
  <2>1. Caret' = Caret /\ Scrolled_' = Scrolled_  BY <1>1 DEF Caret, Scrolled_
  <2> QED BY <1>3, <1>5, <2>1
<1>7. Placed'  BY <1>1, <1>6 DEF Placed
<1>8. Shaped'  BY <1>1, <1>3, <1>4, <1>6 DEF Shaped
<1> QED BY <1>7, <1>8

LEMMA ShowSteers ==
  ASSUME CInv, ShowCursor
  PROVE  Placed' /\ Shaped'
<1> DEFINE row == cursor_row([tty EXCEPT !.view_offset = blit.off])
           s == blit_cursor(tty.x, row, blit.off)
           F == Run(crtc, s)
<1>1. /\ pc = "show" /\ pc' = "ports" /\ ports' = s /\ heals' = {"shape"} /\ after' = after
      /\ torn' = (~blit.clean \/ (blit.off # 0 /\ after = "body"))
      /\ UNCHANGED <<tty, crtc, bad>>
  BY DEF ShowCursor, Access, Goto
<1>2. tty \in Console /\ crtc \in Controller /\ after # "idle" /\ blit.off \in Nat
  BY <1>1 DEF CInv, Forms, TtyForm, PcForm, CrtcForm, IInv, Typed
<1>3. row \in Nat
  <2>1. [tty EXCEPT !.view_offset = blit.off] \in Console  BY <1>2 DEF Console
  <2> QED BY <2>1, StartType DEF Rows
<1> HIDE DEF row
<1>4. Hidden(F) <=> blit.off # 0
  <2>1. tty.x \in Nat  BY <1>2, CrtcNumbers DEF Console
  <2> QED BY <1>2, <1>3, <2>1, BlitCursor
<1>5. blit.clean => blit.off = tty.view_offset
  BY <1>1 DEF CInv, Steered, Blitted
<1> HIDE DEF s
<1>6. Final' = F  BY <1>1 DEF Final
<1> HIDE DEF F
<1>7. Placed'  BY <1>1, <1>2 DEF Placed
<1>8. Scrolled_' = (tty.view_offset # 0)  BY <1>1 DEF Scrolled_
<1>9. ~torn' => blit.clean  BY <1>1
<1>10. Shaped'  BY <1>1, <1>4, <1>5, <1>6, <1>8, <1>9 DEF Shaped
<1> QED BY <1>7, <1>10

LEMMA HomeSteers ==
  ASSUME CInv, Home
  PROVE  Placed' /\ Shaped'
<1> DEFINE s == enable_cursor \o move_cursor(0, 0)
           F == Run(crtc, s)
<1>1. /\ pc = "home" /\ pc' = "ports" /\ ports' = s /\ heals' = {"shape", "place"}
      /\ tty' = [tty EXCEPT !.x = 0, !.y = 0] /\ UNCHANGED crtc
  BY DEF Home, Access, Goto
<1>2. tty \in Console /\ crtc \in Controller
  BY DEF CInv, Forms, TtyForm, CrtcForm
<1>3. Place(F, 0) /\ ~Hidden(F)  BY <1>2, HomeCursor
<1>4. tty'.x = 0 /\ tty'.y = 0 /\ tty'.view_offset = tty.view_offset
  BY <1>1, <1>2 DEF Console
<1>5. tty.view_offset = 0
  <2>1. tty.sb_count = 1 /\ tty.view_offset <= max_view_offset(tty)
    BY <1>1 DEF CInv, IInv, Stored, Steered, Blitted
  <2>2. max_view_offset(tty) = 0 /\ tty.view_offset \in Nat
    BY <2>1, MaxView, Sizes DEF CInv, IInv, Typed
  <2> QED BY <2>1, <2>2
<1> HIDE DEF s
<1>6. Final' = F  BY <1>1 DEF Final
<1> HIDE DEF F
<1>7. Caret' = 0 /\ Scrolled_' = FALSE
  BY <1>4, <1>5, CrtcNumbers DEF Caret, Scrolled_
<1>8. Placed'  BY <1>1, <1>3, <1>6, <1>7 DEF Placed
<1>9. Shaped'  BY <1>1, <1>3, <1>6, <1>7 DEF Shaped
<1> QED BY <1>8, <1>9

LEMMA PortSteers ==
  ASSUME CInv, Port
  PROVE  Placed' /\ Shaped'
<1>1. /\ pc = "ports" /\ UNCHANGED <<tty, torn>>
      /\ IF ports' = <<>>
           THEN bad' = bad \ heals /\ pc' = after /\ after' = "idle" /\ heals' = {}
           ELSE UNCHANGED <<bad, pc, after, heals>>
  BY DEF Port, Goto
<1>2. Run(crtc', ports') = Final /\ (ports' = <<>> => crtc' = Final)
  BY PortFinal DEF CInv
<1>3. Caret' = Caret /\ Scrolled_' = Scrolled_ /\ Final' = Final
  BY <1>1, <1>2 DEF Caret, Scrolled_, Final
<1>4. /\ "place" \in heals => Place(Final, Caret)
      /\ after = "idle" => "place" \in heals \cup bad
      /\ ~torn /\ ("shape" \in heals \/ "shape" \notin bad) => (Hidden(Final) <=> Scrolled_)
  BY <1>1 DEF CInv, Steered, Placed, Shaped
<1>5. CASE ports' = <<>>
  <2>1. /\ bad' = bad \ heals /\ pc' = after /\ heals' = {} /\ crtc' = Final /\ torn' = torn
    BY <1>1, <1>2, <1>5
  <2>2. after # "ports"  BY DEF CInv, IInv, Typed
  <2>3. Placed'
    <3>1. pc' = "idle" /\ "place" \notin bad' => Place(Final, Caret)  BY <1>4, <2>1
    <3>2. pc' = "idle" /\ "place" \notin bad' => Place(crtc', Caret')  BY <1>3, <2>1, <3>1
    <3> QED BY <2>1, <2>2, <3>2 DEF Placed
  <2>4. Shaped'
    <3>1. ~torn' /\ "shape" \notin bad' => (Hidden(Final) <=> Scrolled_)  BY <1>4, <2>1
    <3>2. ~torn' /\ "shape" \notin bad' => (Hidden(crtc') <=> Scrolled_')  BY <1>3, <2>1, <3>1
    <3> QED BY <2>1, <2>2, <3>2 DEF Shaped
  <2> QED BY <2>3, <2>4
<1>6. CASE ports' # <<>>
  <2>1. UNCHANGED <<bad, pc, after, heals, torn>>  BY <1>1, <1>6
  <2>2. Placed'  BY <1>1, <1>3, <1>4, <2>1 DEF Placed
  <2>3. Shaped'  BY <1>1, <1>3, <1>4, <2>1 DEF Shaped
  <2> QED BY <2>2, <2>3
<1> QED BY <1>5, <1>6

LEMMA IrqSteers ==
  ASSUME CInv, ScrollIrq
  PROVE  Placed' /\ Shaped'
<1>1. /\ UNCHANGED <<pc, after>>
      /\ IF pc = "ports" THEN heals' = {} /\ bad' = {"place", "shape"}
                         ELSE bad' = {"place"}
  BY DEF ScrollIrq
<1>2. Hidden(crtc') <=> Scrolled_'
  BY IrqCursor DEF CInv, Scrolled_
<1>3. Placed'  BY <1>1 DEF Placed
<1>4. Shaped'  BY <1>1, <1>2 DEF Shaped
<1> QED BY <1>3, <1>4

LEMMA StaySteers ==
  ASSUME CInv, pc' \notin {"idle", "ports"}, pc # "ports",
         UNCHANGED <<crtc, torn, bad>>,
         \/ pc' \in Redraws
         \/ pc \notin Redraws /\ tty'.view_offset = tty.view_offset
  PROVE  Placed' /\ Shaped'
<1>1. Placed'  BY DEF Placed
<1>2. Shaped'
  <2>1. CASE pc' \in Redraws  BY <2>1 DEF Shaped, Redraws
  <2>2. CASE pc \notin Redraws /\ tty'.view_offset = tty.view_offset
    <3>1. ~torn /\ "shape" \notin bad => (Hidden(crtc) <=> Scrolled_)
      BY <2>2 DEF CInv, Steered, Shaped
    <3>2. Scrolled_' = Scrolled_ /\ crtc' = crtc  BY <2>2 DEF Scrolled_
    <3> QED BY <3>1, <3>2 DEF Shaped
  <2> QED BY <2>1, <2>2
<1> QED BY <1>1, <1>2

LEMMA PlaceNext ==
  ASSUME CInv, [IrqNext]_vars
  PROVE  Placed' /\ Shaped'
<1>0. /\ tty \in Console /\ "ports" \notin Redraws
      /\ pc = "row" => after \in {"body", "fix", "cursor"}
  BY DEF CInv, Forms, TtyForm, PcForm, Redraws
<1> USE StaySteers DEF Goto, screen
<1>1. ASSUME NEW c \in Chars \cup {" ", NL, CR, TABCHAR, BS}, Call(c) PROVE Placed' /\ Shaped'
  BY <1>1 DEF Call, Redraws
<1>2. CASE Follow \/ PutTab \/ PutSpaces
  BY <1>2 DEF Follow, PutTab, PutSpaces, Redraws
<1>3. CASE Bottom \/ Blit \/ AdvanceClear \/ ClearOffset \/ ClearLine
  BY <1>3 DEF Bottom, Blit, AdvanceClear, ClearOffset, ClearLine, Store, Redraws
<1>4. CASE CopyRow
  <2>1. pc' \in {"copy", "show"} /\ pc = "copy" /\ UNCHANGED <<crtc, torn, bad>>
    BY <1>4 DEF CopyRow
  <2> QED BY <2>1 DEF Redraws
<1>5. CASE FillRow
  <2>1. CASE blit.row < SCREEN_HEIGHT - 1
    BY <1>5, <2>1 DEF FillRow, Redraws
  <2>2. CASE ~(blit.row < SCREEN_HEIGHT - 1)
    <3>1. pc' = "home"  BY <1>5, <2>2 DEF FillRow
    <3> QED BY <3>1 DEF Placed, Shaped, Redraws
  <2> QED BY <2>1, <2>2
<1>6. CASE PutNewline \/ PutReturn \/ PutBackspace \/ PutChar \/ Fixup
  <2>1. tty'.view_offset = tty.view_offset
    <3>1. CASE PutNewline \/ PutReturn  BY <1>0, <3>1 DEF PutNewline, PutReturn, Console
    <3>2. CASE PutBackspace  BY <1>0, <3>2 DEF PutBackspace, Console
    <3>3. CASE PutChar  BY <1>0, <3>3 DEF PutChar, Console
    <3>4. CASE Fixup  BY <1>0, <3>4 DEF Fixup, Console
    <3> QED BY <1>6, <3>1, <3>2, <3>3, <3>4
  <2>2. /\ pc \in {"body", "fix"} /\ pc' \in {"row", "fix", "ring", "back", "cursor"}
        /\ UNCHANGED <<crtc, torn, bad>>
    <3>1. CASE PutNewline \/ PutReturn  BY <3>1 DEF PutNewline, PutReturn
    <3>2. CASE PutBackspace  BY <3>2 DEF PutBackspace
    <3>3. CASE PutChar  BY <3>3 DEF PutChar
    <3>4. CASE Fixup  BY <3>4 DEF Fixup
    <3> QED BY <1>6, <3>1, <3>2, <3>3, <3>4
  <2> QED BY <2>1, <2>2 DEF Redraws
<1>7. CASE WriteRing \/ WriteScreen \/ MoveCaret
  <2>1. tty'.view_offset = tty.view_offset
    <3>1. CASE WriteRing  BY <1>0, <3>1 DEF WriteRing, Console
    <3>2. CASE WriteScreen  BY <1>0, <3>2 DEF WriteScreen, Console
    <3>3. CASE MoveCaret  BY <1>0, <3>3 DEF MoveCaret, Console
    <3> QED BY <1>7, <3>1, <3>2, <3>3
  <2> QED BY <1>7, <2>1 DEF WriteRing, WriteScreen, MoveCaret, Redraws
<1>8. CASE NextRow
  <2>1. /\ pc = "row" /\ pc' \in {after, "tail"} /\ UNCHANGED <<crtc, torn, bad>>
    BY <1>8 DEF NextRow
  <2>2. tty'.view_offset = tty.view_offset  BY <1>0, <1>8 DEF NextRow, Console
  <2> QED BY <1>0, <2>1, <2>2 DEF Redraws
<1>9. CASE AdvanceTail \/ AdvanceCount \/ ClearTail \/ ClearCount
  <2>1. tty'.view_offset = tty.view_offset
    <3>1. CASE AdvanceTail  BY <1>0, <3>1 DEF AdvanceTail, Console
    <3>2. CASE AdvanceCount  BY <1>0, <3>2 DEF AdvanceCount, Console
    <3>3. CASE ClearTail \/ ClearCount  BY <1>0, <3>3 DEF ClearTail, ClearCount, Store, Console
    <3> QED BY <1>9, <3>1, <3>2, <3>3
  <2>2. /\ pc \in {"tail", "count", "idle", "clear count"}
        /\ pc' \in {"count", "clear", "clear count", "clear offset"}
        /\ UNCHANGED <<crtc, torn, bad>>
    BY <1>9 DEF AdvanceTail, AdvanceCount, ClearTail, ClearCount, Store
  <2> QED BY <2>1, <2>2 DEF Redraws
<1>10. CASE UNCHANGED vars
  <2>1. UNCHANGED <<tty, pc, after, crtc, ports, heals, torn, bad>>  BY <1>10 DEF vars
  <2>2. Caret' = Caret /\ Scrolled_' = Scrolled_ /\ Final' = Final
    BY <2>1 DEF Caret, Scrolled_, Final
  <2> QED BY <2>1, <2>2 DEF CInv, Steered, Placed, Shaped
<1> QED BY <1>1, <1>2, <1>3, <1>4, <1>5, <1>6, <1>7, <1>8, <1>9, <1>10,
           MoveSteers, ShowSteers, HomeSteers, PortSteers, IrqSteers
        DEF IrqNext, Putc, ClearScreen

LEMMA BlittedNext ==
  ASSUME CInv, [IrqNext]_vars
  PROVE  Blitted'
<1>0. /\ tty \in Console /\ "ports" \notin Redraws /\ Blitted
      /\ blit \in [start : Nat, off : Nat, row : Nat, clean : BOOLEAN]
      /\ after \in {"idle", "body", "fix", "cursor", "ring", "spaces"}
  BY DEF CInv, Forms, TtyForm, Redraws, Steered, IInv, Typed
<1>1. ASSUME pc' \notin {"copy", "show", "clear line", "fill", "home"} PROVE Blitted'
  BY <1>1 DEF Blitted
<1>2. CASE Blit
  BY <1>2 DEF Blit, Goto, Blitted
<1>3. CASE CopyRow
  <2>1. /\ pc = "copy" /\ pc' \in {"copy", "show"}
        /\ blit' = [blit EXCEPT !.row = blit.row + 1]
    BY <1>3 DEF CopyRow, Goto
  <2>2. tty'.view_offset = tty.view_offset  BY <1>0, <1>3 DEF CopyRow, Console
  <2>3. blit'.off = blit.off /\ blit'.clean = blit.clean  BY <1>0, <2>1
  <2> QED BY <1>0, <2>1, <2>2, <2>3 DEF Blitted
<1>4. CASE ClearOffset
  <2>1. pc = "clear offset" /\ pc' = "clear line" /\ tty' = [tty EXCEPT !.view_offset = 0]
    BY <1>4 DEF ClearOffset, Store, Goto
  <2>2. tty'.sb_count = 1  BY <1>0, <2>1 DEF CInv, IInv, Stored, Console
  <2> QED BY <2>1, <2>2 DEF Blitted
<1>5. CASE ClearLine
  <2>1. pc = "clear line" /\ pc' = "fill" /\ tty' = sb_clear_line(tty, 0)
    BY <1>5 DEF ClearLine, Store, Goto
  <2>2. tty'.sb_count = tty.sb_count  BY <1>0, <2>1 DEF sb_clear_line, Console
  <2> QED BY <1>0, <2>1, <2>2 DEF Blitted
<1>6. CASE FillRow
  <2>1. pc = "fill" /\ pc' \in {"fill", "home"}  BY <1>6 DEF FillRow, Goto
  <2>2. tty'.sb_count = tty.sb_count  BY <1>0, <1>6 DEF FillRow, Console
  <2> QED BY <1>0, <2>1, <2>2 DEF Blitted
<1>7. CASE ScrollIrq
  <2>1. /\ pc' = pc
        /\ blit' = [blit EXCEPT !.clean = blit.clean /\ pc \notin {"copy", "show", "fill"}]
    BY <1>7 DEF ScrollIrq
  <2>2. tty'.sb_count = tty.sb_count  BY <1>7, IrqMoves DEF CInv, IInv
  <2>3. pc \in {"copy", "show"} => ~blit'.clean  BY <1>0, <2>1
  <2> QED BY <1>0, <2>1, <2>2, <2>3 DEF Blitted
<1>8. CASE UNCHANGED vars
  BY <1>0, <1>8 DEF vars, Blitted
<1> USE <1>1 DEF Goto
<1>9. ASSUME NEW c \in Chars \cup {" ", NL, CR, TABCHAR, BS}, Call(c) PROVE Blitted'
  BY <1>9 DEF Call
<1>10. CASE Follow \/ Bottom \/ PutTab \/ PutSpaces
  BY <1>10 DEF Follow, Bottom, PutTab, PutSpaces
<1>11. CASE PutNewline \/ PutReturn \/ PutBackspace \/ PutChar \/ Fixup
  <2>1. pc' \in {"row", "fix", "ring", "back", "cursor"}
    <3>1. CASE PutNewline \/ PutReturn  BY <3>1 DEF PutNewline, PutReturn
    <3>2. CASE PutBackspace  BY <3>2 DEF PutBackspace
    <3>3. CASE PutChar  BY <3>3 DEF PutChar
    <3>4. CASE Fixup  BY <3>4 DEF Fixup
    <3> QED BY <1>11, <3>1, <3>2, <3>3, <3>4
  <2> QED BY <2>1
<1>12. CASE WriteRing \/ WriteScreen \/ MoveCaret
  BY <1>12 DEF WriteRing, WriteScreen, MoveCaret
<1>13. CASE NextRow
  <2>1. pc' \in {after, "tail"}  BY <1>13 DEF NextRow
  <2> QED BY <1>0, <2>1
<1>14. CASE AdvanceTail \/ AdvanceCount \/ AdvanceClear \/ ClearTail \/ ClearCount
  BY <1>14 DEF AdvanceTail, AdvanceCount, AdvanceClear, ClearTail, ClearCount, Store
<1>15. CASE BackCursor \/ Finish \/ ShowCursor \/ Home
  BY <1>15 DEF BackCursor, Finish, ShowCursor, Home, Access
<1>16. CASE Port
  <2>1. pc' \in {after, "ports"}  BY <1>16 DEF Port
  <2> QED BY <1>0, <2>1
<1> QED BY <1>2, <1>3, <1>4, <1>5, <1>6, <1>7, <1>8, <1>9, <1>10, <1>11, <1>12, <1>13,
           <1>14, <1>15, <1>16 DEF IrqNext, Putc, ClearScreen

\* So do the console's fields, the ports' accesses and the cursor's registers.
THEOREM CursorInvariance == IrqSpec => []CInv
<1>1. CInv /\ [IrqNext]_vars => CInv'
  <2> SUFFICES ASSUME CInv, [IrqNext]_vars PROVE CInv'
    OBVIOUS
  <2>1. IInv'  BY NextIInv DEF CInv
  <2>2. Forms'  BY TtyFormNext, PcFormNext, CrtcFormNext DEF CInv, Forms
  <2>3. Steered'  BY PlaceNext, BlittedNext DEF Steered
  <2> QED BY <2>1, <2>2, <2>3 DEF CInv
<1> QED BY <1>1, InitCInv, PTL DEF IrqSpec

\* The console's state stays well formed whenever a key arrives, the caret is
\* past the last column only on the way to _putc's post-fixup (tty.c:257-266),
\* and each register of the controller holds a byte.
THEOREM IrqTypes == IrqSpec => []IrqTypeOK
<1>1. CInv => IrqTypeOK
  <2> SUFFICES ASSUME CInv PROVE IrqTypeOK
    OBVIOUS
  <2>1. /\ tty \in Console /\ (tty.x = SCREEN_WIDTH => pc = "fix") /\ spaces \in -1..TAB
        /\ crtc \in Controller /\ (pc = "ports" <=> ports # <<>>)
    BY DEF CInv, Forms, TtyForm, PcForm, CrtcForm
  <2>2. crtc.index \in DOMAIN crtc.reg /\ \A r \in DOMAIN crtc.reg : crtc.reg[r] \in Byte
    BY <2>1 DEF Controller
  <2> QED BY <2>1, <2>2 DEF IrqTypeOK
<1> QED BY <1>1, CursorInvariance, PTL

\* Between calls, the hardware cursor stands at the caret and hides exactly
\* while the view is scrolled back, unless a key came between the accesses of
\* the last function that could have set it right (tty.c:30-50, 100-111).
THEOREM CursorIsConfined == IrqSpec => []CursorConfined
<1>1. CInv => CursorConfined
  <2> SUFFICES ASSUME CInv, pc = "idle" PROVE
        /\ "place" \notin bad =>
             crtc.reg["hi"] * BYTE + crtc.reg["lo"] = tty.y * SCREEN_WIDTH + tty.x
        /\ ~torn /\ "shape" \notin bad =>
             ((crtc.reg["start"] \div CURSOR_OFF) % 2 = 1 <=> tty.view_offset # 0)
    BY DEF CursorConfined
  <2>1. "place" \notin bad => Place(crtc, Caret)
    BY DEF CInv, Steered, Placed
  <2>2. ~torn /\ "shape" \notin bad => (Hidden(crtc) <=> Scrolled_)
    BY DEF CInv, Steered, Shaped, Redraws
  <2> QED BY <2>1, <2>2 DEF Place, Caret, Hidden, Scrolled_
<1> QED BY <1>1, CursorInvariance, PTL

-----------------------------------------------------------------------------
(***************************************************************************)
(* The invariant of the screen.  Between redraws it is the window of the   *)
(* ring; inside one, the rows copied so far are; and sb_count is the       *)
(* number of lines since the last clear, of which the ring keeps N.        *)
(***************************************************************************)
Mirrors(t) ==
    t.tail_line >= SCREEN_HEIGHT - 1 =>
      LET top == t.tail_line - t.view_offset - (SCREEN_HEIGHT - 1)
      IN  /\ oldest(t) <= top
          /\ \A r \in Rows : t.screen[r] = t.scrollbuf[ring(top + r)]

Lesser(a, b) == IF a < b THEN a ELSE b

Counted ==
    /\ pc \in {"clear count", "clear offset", "clear line", "fill", "home"} =>
         tty.tail_line = 0
    /\ pc \notin {"count", "clear count", "clear offset"} =>
         tty.sb_count = Lesser(tty.tail_line + 1, N)
    /\ pc = "count" => tty.sb_count = Lesser(tty.tail_line, N)

Quiet == {"idle", "follow", "bottom", "body", "spaces", "ring", "caret", "back",
          "fix", "cursor", "row", "ports"}

\* The next character goes to the bottom of the text.
ToBottom == pc \in {"body", "ring"} \/ (pc = "ports" /\ after = "body")

Shown ==
    /\ ~torn /\ pc \in Quiet => Mirrors(tty)
    /\ ~torn /\ pc = "screen" => Mirrors([tty EXCEPT !.screen[tty.y][tty.x] = cell])
    /\ ~torn /\ ToBottom => tty.view_offset = 0

Copied ==
    /\ pc \in {"copy", "show"} /\ blit.clean =>
         /\ blit.start = start_line(tty)
         /\ \A r \in Rows : r < blit.row =>
              tty.screen[r] = line_source(tty, size(blit.start + r))
    /\ pc = "show" => blit.row = SCREEN_HEIGHT

Blanked ==
    /\ pc \in {"fill", "home"} => tty.scrollbuf[ring(0)] = BlankLine(tty)
    /\ pc = "fill" /\ blit.clean =>
         \A r \in Rows : r < blit.row => tty.screen[r] = BlankLine(tty)
    /\ pc = "home" /\ ~torn => \A r \in Rows : tty.screen[r] = BlankLine(tty)

DInv == Counted /\ Shown /\ Copied /\ Blanked

\* A screen that has just been redrawn mirrors the ring.
LEMMA RedrawMirrors ==
  ASSUME NEW t, t.tail_line \in 0..MaxTail, t.view_offset \in Nat,
         t.sb_count = Lesser(t.tail_line + 1, N),
         t.view_offset <= max_view_offset(t),
         \A r \in Rows : t.screen[r] = line_source(t, size(start_line(t) + r))
  PROVE  Mirrors(t)
<1> SUFFICES ASSUME t.tail_line >= SCREEN_HEIGHT - 1
             PROVE  LET top == t.tail_line - t.view_offset - (SCREEN_HEIGHT - 1)
                    IN  /\ oldest(t) <= top
                        /\ \A r \in Rows : t.screen[r] = t.scrollbuf[ring(top + r)]
  BY DEF Mirrors
<1> DEFINE a == t.tail_line
           s == t.sb_count
           o == t.view_offset
           H == SCREEN_HEIGHT
           top == a - o - (H - 1)
<1>1. a \in Nat /\ a <= MaxTail /\ o \in Nat /\ H \in Nat \ {0} /\ N \in Nat /\ H < N
      /\ MaxTail \in Nat /\ a >= H - 1
  BY Sizes
<1>2. s = IF a + 1 < N THEN a + 1 ELSE N  BY DEF Lesser
<1>3. o <= IF s <= H THEN 0 ELSE s - H  BY DEF max_view_offset
<1>4. oldest(t) = IF s > 0 THEN size(a + 1 - s) ELSE 0  BY DEF oldest
<1>5. start_line(t) = LET e == size(a - o) IN IF e >= H - 1 THEN e - (H - 1) ELSE 0
  BY DEF start_line
<1>6. \A n : line_source(t, n) =
        IF s = 0 \/ n < oldest(t) \/ n > a THEN BlankLine(t) ELSE t.scrollbuf[ring(n)]
  BY DEF line_source
<1>7. \A r \in Rows : t.screen[r] = line_source(t, size(start_line(t) + r))  OBVIOUS
<1> HIDE DEF a, s, o, H
<1>8. s \in Nat /\ s >= H /\ s <= a + 1  BY <1>1, <1>2
<1>9. o <= s - H  BY <1>1, <1>3, <1>8
<1>10. a + 1 - s \in 0..MaxTail /\ a - o \in 0..MaxTail /\ a - o >= H - 1 /\ a + 1 - s <= top
  BY <1>1, <1>8, <1>9
<1>11. oldest(t) = a + 1 - s  BY <1>1, <1>4, <1>8, <1>10, SizeIs
<1>12. start_line(t) = top  BY <1>5, <1>10, SizeIs
<1>13. ASSUME NEW r \in Rows PROVE t.screen[r] = t.scrollbuf[ring(top + r)]
  <2>1. r \in 0..(H - 1)  BY DEF Rows, H
  <2>2. top + r \in 0..MaxTail /\ top + r <= a /\ a + 1 - s <= top + r
    BY <1>1, <1>8, <1>9, <1>10, <2>1
  <2>3. size(top + r) = top + r  BY <2>2, SizeIs
  <2>4. t.screen[r] = line_source(t, top + r)  BY <1>7, <1>12, <2>3
  <2>5. s # 0 /\ ~(top + r < oldest(t)) /\ ~(top + r > a)
    BY <1>1, <1>8, <1>11, <2>2
  <2> QED BY <1>6, <2>4, <2>5
<1> QED BY <1>10, <1>11, <1>13 DEF a, o, H

LEMMA MirrorsSame ==
  ASSUME NEW t, NEW u, Mirrors(t), u.tail_line = t.tail_line, u.sb_count = t.sb_count,
         u.view_offset = t.view_offset, u.screen = t.screen, u.scrollbuf = t.scrollbuf
  PROVE  Mirrors(u)
BY DEF Mirrors, oldest

\* putchr, first in the ring: the screen lacks that one cell.
LEMMA RingShown ==
  ASSUME CInv, DInv, WriteRing
  PROVE  Shown'
<1> DEFINE x == tty.x
           y == tty.y
           i == ring(line_for_view_y(tty, y))
           v == cell
           u == [tty' EXCEPT !.screen[y][x] = v]
<1>1. /\ pc = "ring" /\ pc' = "screen" /\ torn' = torn /\ ch' = ch
      /\ tty' = [tty EXCEPT !.scrollbuf[i][x] = v]
  BY DEF WriteRing, Goto, screen
<1>2. SUFFICES ASSUME ~torn PROVE Mirrors([tty EXCEPT !.screen[tty.y][tty.x] = cell]')
  BY <1>1 DEF Shown, Quiet, ToBottom
<1>3. tty \in Console /\ Mirrors(tty) /\ tty.view_offset = 0 /\ tty.tail_line \in 0..MaxTail
  BY <1>1, <1>2 DEF CInv, IInv, Typed, Forms, TtyForm, DInv, Shown, Quiet, ToBottom
<1>4. /\ tty'.x = x /\ tty'.y = y /\ tty'.tail_line = tty.tail_line /\ tty'.color = tty.color
      /\ tty'.sb_count = tty.sb_count /\ tty'.view_offset = 0 /\ tty'.screen = tty.screen
      /\ tty'.scrollbuf = [tty.scrollbuf EXCEPT ![i][x] = v]
  BY <1>1, <1>3 DEF Console
<1>5. cell' = v  BY <1>1, <1>4 DEF cell
<1> SUFFICES Mirrors(u)
  BY <1>4, <1>5
<1>6. x \in Cols /\ y \in Rows /\ tty.screen \in [Rows -> Line] /\ tty.scrollbuf \in [Ring -> Line]
  <2>1. x \in 0..SCREEN_WIDTH /\ x # SCREEN_WIDTH
    BY <1>1, <1>3 DEF CInv, Forms, TtyForm, Console
  <2> QED BY <1>3, <2>1, CrtcNumbers DEF Console, Cols
<1>7. /\ u.tail_line = tty.tail_line /\ u.view_offset = 0 /\ u.sb_count = tty.sb_count
      /\ u.screen = [tty.screen EXCEPT ![y][x] = v]
      /\ u.scrollbuf = [tty.scrollbuf EXCEPT ![i][x] = v]
  <2>1. tty' \in Console  BY TtyFormNext DEF CInv, TtyForm, IrqNext, Putc
  <2> QED BY <1>4, <2>1 DEF Console
<1> HIDE DEF u, v
<1> SUFFICES ASSUME tty.tail_line >= SCREEN_HEIGHT - 1
             PROVE  LET top == tty.tail_line - 0 - (SCREEN_HEIGHT - 1)
                    IN  /\ oldest(u) <= top
                        /\ \A r \in Rows : u.screen[r] = u.scrollbuf[ring(top + r)]
  BY <1>7 DEF Mirrors
<1> DEFINE top == tty.tail_line - 0 - (SCREEN_HEIGHT - 1)
<1>8. oldest(tty) <= top /\ \A r \in Rows : tty.screen[r] = tty.scrollbuf[ring(top + r)]
  BY <1>3 DEF Mirrors
<1>9. oldest(u) <= top  BY <1>7, <1>8 DEF oldest
<1>10. /\ top \in Nat /\ top + (SCREEN_HEIGHT - 1) <= MaxTail /\ MaxTail \in Nat
       /\ SCREEN_HEIGHT \in Nat \ {0} /\ N \in Nat /\ SCREEN_HEIGHT < N
  BY <1>3, Sizes
<1>11. tty.tail_line - ((SCREEN_HEIGHT - 1) - y) = top + y
  BY <1>3, <1>6, Sizes DEF Rows
<1> HIDE DEF top
<1>12. \A r \in Rows : top + r \in 0..MaxTail /\ size(top + r) = top + r
  <2> SUFFICES ASSUME NEW r \in Rows PROVE top + r \in 0..MaxTail /\ size(top + r) = top + r
    OBVIOUS
  <2>1. top + r \in 0..MaxTail  BY <1>10 DEF Rows
  <2> QED BY <2>1, SizeIs
<1>13. i = ring(top + y)
  BY <1>6, <1>11, <1>12 DEF line_for_view_y
<1>14. i \in Ring
  <2>1. top + y \in Nat  BY <1>6, <1>12
  <2>2. \A k \in Nat : ring(k) \in Ring  BY Sizes, ModRange DEF ring, Ring, N
  <2> QED BY <1>13, <2>1, <2>2
<1> HIDE DEF i
<1>15. ASSUME NEW r \in Rows PROVE u.screen[r] = u.scrollbuf[ring(top + r)]
  <2>1. tty.screen[r] = tty.scrollbuf[ring(top + r)]  BY <1>8
  <2>2. CASE r = y
    <3>1. u.screen[y] = [tty.screen[y] EXCEPT ![x] = v]  BY <1>6, <1>7
    <3>2. u.scrollbuf[i] = [tty.scrollbuf[i] EXCEPT ![x] = v]  BY <1>6, <1>7, <1>14
    <3> QED BY <1>13, <2>1, <2>2, <3>1, <3>2
  <2>3. CASE r # y
    <3>1. ring(top + r) # i
      <4>1. top + r \in Int /\ top + y \in Int /\ top + r # top + y
            /\ (top + r) - (top + y) < N /\ (top + y) - (top + r) < N
        BY <1>6, <1>10, <2>3 DEF Rows
      <4>2. ring(size(top + r)) # ring(size(top + y))  BY <4>1, RingApart
      <4> QED BY <1>6, <1>12, <1>13, <4>2
    <3>2. u.screen[r] = tty.screen[r]  BY <1>6, <1>7, <2>3
    <3>3. u.scrollbuf[ring(top + r)] = tty.scrollbuf[ring(top + r)]
      BY <1>6, <1>7, <3>1
    <3> QED BY <2>1, <3>2, <3>3
  <2> QED BY <2>2, <2>3
<1> QED BY <1>9, <1>15 DEF top

LEMMA ScreenShown ==
  ASSUME CInv, DInv, WriteScreen
  PROVE  Shown'
<1>1. /\ pc = "screen" /\ pc' \in {"back", "caret"} /\ torn' = torn
      /\ tty' = [tty EXCEPT !.screen[tty.y][tty.x] = cell]
  BY DEF WriteScreen, Goto, screen
<1>2. ~torn => Mirrors(tty')  BY <1>1 DEF DInv, Shown
<1> QED BY <1>1, <1>2 DEF Shown, ToBottom

\* The last access of a redraw that no key interrupted.
LEMMA ShowShown ==
  ASSUME CInv, DInv, ShowCursor
  PROVE  Shown'
<1>1. /\ pc = "show" /\ pc' = "ports" /\ after' = after /\ tty' = tty
      /\ torn' = (~blit.clean \/ (blit.off # 0 /\ after = "body"))
  BY DEF ShowCursor, Access, Goto
<1>2. SUFFICES ASSUME ~torn' PROVE Mirrors(tty) /\ (after = "body" => tty.view_offset = 0)
  BY <1>1 DEF Shown, ToBottom
<1>3. blit.clean /\ (after = "body" => blit.off = 0)  BY <1>1, <1>2
<1>4. blit.off = tty.view_offset
  BY <1>1, <1>3 DEF CInv, Steered, Blitted
<1>5. /\ tty.tail_line \in 0..MaxTail /\ tty.view_offset \in Nat
      /\ tty.sb_count = Lesser(tty.tail_line + 1, N)
      /\ tty.view_offset <= max_view_offset(tty)
  BY <1>1 DEF CInv, IInv, Typed, Stored, DInv, Counted
<1>6. \A r \in Rows : tty.screen[r] = line_source(tty, size(start_line(tty) + r))
  <2>1. /\ blit.start = start_line(tty) /\ blit.row = SCREEN_HEIGHT
        /\ \A r \in Rows : r < blit.row =>
             tty.screen[r] = line_source(tty, size(blit.start + r))
    BY <1>1, <1>3 DEF DInv, Copied
  <2>2. \A r \in Rows : r < SCREEN_HEIGHT  BY Sizes DEF Rows
  <2> QED BY <2>1, <2>2
<1>7. Mirrors(tty)  BY <1>5, <1>6, RedrawMirrors
<1> QED BY <1>3, <1>4, <1>7

\* A cleared screen shows the window only where it has one row.
LEMMA HomeShown ==
  ASSUME CInv, DInv, Home
  PROVE  Shown'
<1>1. /\ pc = "home" /\ pc' = "ports" /\ after' = "idle" /\ torn' = torn
      /\ tty' = [tty EXCEPT !.x = 0, !.y = 0]
  BY DEF Home, Access, Goto
<1>2. SUFFICES ASSUME ~torn PROVE Mirrors(tty')
  BY <1>1 DEF Shown, ToBottom, Quiet
<1>3. /\ tty \in Console /\ tty.tail_line = 0 /\ tty.sb_count = 1
      /\ \A r \in Rows : tty.screen[r] = BlankLine(tty)
      /\ tty.scrollbuf[ring(0)] = BlankLine(tty)
  BY <1>1, <1>2 DEF CInv, Forms, TtyForm, DInv, Counted, Steered, Blitted, Blanked
<1>4. tty.view_offset = 0
  <2>1. tty.view_offset <= max_view_offset(tty)  BY <1>1 DEF CInv, IInv, Stored
  <2>2. max_view_offset(tty) = 0 /\ tty.view_offset \in Nat
    BY <1>3, MaxView, Sizes DEF CInv, IInv, Typed
  <2> QED BY <2>1, <2>2
<1>5. Mirrors(tty)
  <2> SUFFICES ASSUME 0 >= SCREEN_HEIGHT - 1
               PROVE  /\ oldest(tty) <= 0 - 0 - (SCREEN_HEIGHT - 1)
                      /\ \A r \in Rows :
                           tty.screen[r] = tty.scrollbuf[ring((0 - 0 - (SCREEN_HEIGHT - 1)) + r)]
    BY <1>3, <1>4 DEF Mirrors
  <2>1. SCREEN_HEIGHT = 1  BY Sizes
  <2>2. oldest(tty) = 0
    <3>1. 0 \in 0..MaxTail  BY Sizes
    <3> QED BY <1>3, <3>1, SizeIs DEF oldest
  <2>3. \A r \in Rows : (0 - 0 - (SCREEN_HEIGHT - 1)) + r = 0  BY <2>1 DEF Rows
  <2>4. oldest(tty) <= 0 - 0 - (SCREEN_HEIGHT - 1)  BY <2>1, <2>2
  <2> QED BY <1>3, <2>3, <2>4
<1>6. /\ tty'.tail_line = tty.tail_line /\ tty'.sb_count = tty.sb_count
      /\ tty'.view_offset = tty.view_offset /\ tty'.screen = tty.screen
      /\ tty'.scrollbuf = tty.scrollbuf
  BY <1>1, <1>3 DEF Console
<1> QED BY <1>5, <1>6, MirrorsSame

\* A key between calls, or after a call's last access to the screen, leaves a
\* screen redrawn as a whole.
LEMMA IrqShown ==
  ASSUME CInv, DInv, ScrollIrq
  PROVE  Shown'
<1>1. /\ UNCHANGED <<pc, after>>
      /\ torn' = (pc # "idle" /\ ~(pc = "cursor" /\ spaces < 0)
                             /\ ~(pc = "ports" /\ after = "idle"))
  BY DEF ScrollIrq
<1>2. SUFFICES ASSUME ~torn', pc \in {"idle", "cursor"} \/ (pc = "ports" /\ after = "idle")
               PROVE  Mirrors(tty')
  BY <1>1 DEF Shown, ToBottom
<1>3. PICK n \in 0..max_view_offset(tty) :
        tty' = [blit_view([tty EXCEPT !.view_offset = n])
                  EXCEPT !.cursor = tty.cursor, !.cursor_on = tty.cursor_on]
  BY IrqRedraws DEF CInv, IInv
<1> DEFINE t == [tty EXCEPT !.view_offset = n]
           u == blit_view(t)
           f == [r \in Rows |-> line_source(t, size(start_line(t) + r))]
<1>4. tty \in Console /\ tty.tail_line \in 0..MaxTail /\ max_view_offset(tty) \in Nat
      /\ tty.sb_count = Lesser(tty.tail_line + 1, N)
  <2>1. tty \in Console  BY DEF CInv, Forms, TtyForm
  <2>2. Typed  BY DEF CInv, IInv
  <2>3. tty.tail_line \in 0..MaxTail  BY <2>2 DEF Typed
  <2>4. max_view_offset(tty) \in Nat  BY <2>2, Sizes DEF Typed, max_view_offset
  <2>5. tty.sb_count = Lesser(tty.tail_line + 1, N)  BY <1>2 DEF DInv, Counted
  <2> QED BY <2>1, <2>3, <2>4, <2>5
<1>5. /\ t \in Console /\ t.view_offset = n /\ t.tail_line = tty.tail_line
      /\ t.sb_count = tty.sb_count /\ t.scrollbuf = tty.scrollbuf /\ t.color = tty.color
  BY <1>4 DEF Console
<1> HIDE DEF t
<1>6. /\ u \in Console /\ u.tail_line = t.tail_line /\ u.sb_count = t.sb_count
      /\ u.view_offset = t.view_offset /\ u.scrollbuf = t.scrollbuf /\ u.color = t.color
      /\ u.screen = f
  <2>1. u \in Console  BY <1>5, BlitType
  <2> HIDE DEF f
  <2> DEFINE w == [t EXCEPT !.screen = f, !.cursor_on = (t.view_offset = 0)]
  <2>2. /\ w.tail_line = t.tail_line /\ w.sb_count = t.sb_count
        /\ w.view_offset = t.view_offset /\ w.scrollbuf = t.scrollbuf /\ w.color = t.color
        /\ w.screen = f /\ DOMAIN w = Fields
    BY <1>5 DEF Console, Fields
  <2>3. u = w \/ u = [w EXCEPT !.cursor = <<t.x, cursor_row(t)>>]
    BY DEF blit_view, set_cursor, f
  <2> HIDE DEF w, u
  <2>4. /\ u.tail_line = t.tail_line /\ u.sb_count = t.sb_count
        /\ u.view_offset = t.view_offset /\ u.scrollbuf = t.scrollbuf /\ u.color = t.color
        /\ u.screen = f
    BY <2>2, <2>3 DEF Fields
  <2> QED BY <2>1, <2>4
<1>7. tty' = [u EXCEPT !.cursor = tty.cursor, !.cursor_on = tty.cursor_on]
  BY <1>3 DEF t
<1> HIDE DEF u, f
<1>8. /\ tty'.tail_line = t.tail_line /\ tty'.sb_count = t.sb_count /\ tty'.view_offset = n
      /\ tty'.scrollbuf = t.scrollbuf /\ tty'.color = t.color /\ tty'.screen = f
  BY <1>5, <1>6, <1>7 DEF Console
<1>9. /\ start_line(tty') = start_line(t) /\ max_view_offset(tty') = max_view_offset(tty)
      /\ \A k : line_source(tty', k) = line_source(t, k)
  BY <1>5, <1>8 DEF start_line, max_view_offset, line_source, oldest, BlankLine
<1>10. \A r \in Rows : tty'.screen[r] = line_source(tty', size(start_line(tty') + r))
  BY <1>8, <1>9 DEF f
<1>11. n \in Nat /\ n <= max_view_offset(tty')  BY <1>4, <1>9
<1>12. /\ tty'.tail_line \in 0..MaxTail /\ tty'.view_offset \in Nat
       /\ tty'.sb_count = Lesser(tty'.tail_line + 1, N)
       /\ tty'.view_offset <= max_view_offset(tty')
  BY <1>4, <1>5, <1>8, <1>11
<1> QED BY <1>10, <1>12, RedrawMirrors

\* The steps that neither move the view nor touch the screen or the ring.
LEMMA StayShown ==
  ASSUME DInv, pc \in Quiet, pc' \in Quiet, torn' = torn,
         tty'.tail_line = tty.tail_line, tty'.sb_count = tty.sb_count,
         tty'.view_offset = tty.view_offset, tty'.screen = tty.screen,
         tty'.scrollbuf = tty.scrollbuf,
         ToBottom' => ToBottom \/ tty.view_offset = 0
  PROVE  Shown'
<1>1. "screen" \notin Quiet  BY DEF Quiet
<1>2. ~torn => Mirrors(tty)  BY DEF DInv, Shown
<1>3. ~torn => Mirrors(tty')  BY <1>2, MirrorsSame
<1>4. ~torn' /\ ToBottom' => tty'.view_offset = 0  BY DEF DInv, Shown
<1> QED BY <1>1, <1>3, <1>4 DEF Shown

LEMMA ShownNext ==
  ASSUME CInv, DInv, [IrqNext]_vars
  PROVE  Shown'
<1>0. /\ tty \in Console /\ DOMAIN tty = Fields
      /\ pc \in {"row", "tail", "count", "clear"} => after \in {"fix", "cursor"}
      /\ after \in {"idle", "body", "fix", "cursor", "spaces"}
  BY DEF CInv, Forms, TtyForm, PcForm, IInv, Typed
<1>1. ASSUME pc' \in {"blit", "copy", "show", "tail", "count", "clear", "clear count",
                      "clear offset", "clear line", "fill", "home"}
      PROVE  Shown'
  BY <1>1 DEF Shown, Quiet, ToBottom
<1>2. CASE NextRow
  <2>1. CASE tty.y < SCREEN_HEIGHT - 1
    <3>1. /\ pc = "row" /\ pc' = after /\ torn' = torn /\ tty' = [tty EXCEPT !.y = tty.y + 1]
      BY <1>2, <2>1 DEF NextRow, Goto, screen
    <3>2. pc' \in {"fix", "cursor"}  BY <1>0, <3>1
    <3>3. /\ tty'.tail_line = tty.tail_line /\ tty'.sb_count = tty.sb_count
          /\ tty'.view_offset = tty.view_offset /\ tty'.screen = tty.screen
          /\ tty'.scrollbuf = tty.scrollbuf
      BY <1>0, <3>1 DEF Fields
    <3> QED BY <3>1, <3>2, <3>3, StayShown DEF Quiet, ToBottom
  <2>2. CASE ~(tty.y < SCREEN_HEIGHT - 1)
    <3>1. pc' = "tail"  BY <1>2, <2>2 DEF NextRow, Goto
    <3> QED BY <1>1, <3>1
  <2> QED BY <2>1, <2>2
<1>3. CASE PutNewline \/ PutReturn \/ PutBackspace \/ PutChar \/ Fixup
  <2>1. /\ tty'.tail_line = tty.tail_line /\ tty'.sb_count = tty.sb_count
        /\ tty'.view_offset = tty.view_offset /\ tty'.screen = tty.screen
        /\ tty'.scrollbuf = tty.scrollbuf
    <3>1. CASE PutNewline \/ PutReturn  BY <1>0, <3>1 DEF PutNewline, PutReturn, Fields
    <3>2. CASE PutBackspace  BY <1>0, <3>2 DEF PutBackspace, Fields
    <3>3. CASE PutChar  BY <1>0, <3>3 DEF PutChar, Fields
    <3>4. CASE Fixup  BY <1>0, <3>4 DEF Fixup, Fields
    <3> QED BY <1>3, <3>1, <3>2, <3>3, <3>4
  <2>2. /\ torn' = torn /\ pc \in {"body", "fix"} /\ pc' \in {"row", "fix", "ring", "back", "cursor"}
        /\ pc' = "ring" => pc = "body"
    <3> USE DEF Goto, screen
    <3>1. CASE PutNewline \/ PutReturn  BY <3>1 DEF PutNewline, PutReturn
    <3>2. CASE PutBackspace  BY <3>2 DEF PutBackspace
    <3>3. CASE PutChar  BY <3>3 DEF PutChar
    <3>4. CASE Fixup  BY <3>4 DEF Fixup
    <3> QED BY <1>3, <3>1, <3>2, <3>3, <3>4
  <2> QED BY <2>1, <2>2, StayShown DEF Quiet, ToBottom
<1>4. CASE MoveCaret
  <2>1. /\ tty'.tail_line = tty.tail_line /\ tty'.sb_count = tty.sb_count
        /\ tty'.view_offset = tty.view_offset /\ tty'.screen = tty.screen
        /\ tty'.scrollbuf = tty.scrollbuf
    BY <1>0, <1>4 DEF MoveCaret, Fields
  <2>2. torn' = torn /\ pc = "caret" /\ pc' = "fix"  BY <1>4 DEF MoveCaret, Goto, screen
  <2> QED BY <2>1, <2>2, StayShown DEF Quiet, ToBottom
<1>5. CASE Follow \/ PutTab \/ PutSpaces \/ BackCursor \/ Finish
  <2>1. /\ UNCHANGED <<tty, torn>> /\ pc \in Quiet /\ pc' \in Quiet
        /\ ToBottom' => tty.view_offset = 0
    <3> USE DEF Goto, screen, Access, Quiet, ToBottom
    <3>1. CASE Follow  BY <3>1 DEF Follow
    <3>2. CASE PutTab \/ PutSpaces  BY <3>2 DEF PutTab, PutSpaces
    <3>3. CASE BackCursor \/ Finish  BY <3>3 DEF BackCursor, Finish
    <3> QED BY <1>5, <3>1, <3>2, <3>3
  <2> QED BY <2>1, StayShown
<1>6. ASSUME NEW c \in Chars \cup {" ", NL, CR, TABCHAR, BS}, Call(c) PROVE Shown'
  <2>1. UNCHANGED <<tty, torn>> /\ pc = "idle" /\ pc' = "follow"
    BY <1>6 DEF Call, Goto, screen
  <2> QED BY <2>1, StayShown DEF Quiet, ToBottom
<1>7. CASE Port
  <2>1. /\ UNCHANGED <<tty, torn>> /\ pc = "ports"
        /\ (pc' = after /\ after' = "idle") \/ UNCHANGED <<pc, after>>
    BY <1>7 DEF Port, Goto
  <2>2. pc \in Quiet /\ pc' \in Quiet  BY <1>0, <2>1 DEF Quiet
  <2>3. ToBottom' => ToBottom  BY <1>0, <2>1 DEF ToBottom
  <2> QED BY <2>1, <2>2, <2>3, StayShown
<1>8. CASE UNCHANGED vars
  <2>1. UNCHANGED <<tty, pc, ch, after, torn>>  BY <1>8 DEF vars
  <2>2. cell' = cell /\ ToBottom' = ToBottom  BY <2>1 DEF cell, ToBottom
  <2>3. Mirrors([tty EXCEPT !.screen[tty.y][tty.x] = cell]')
          = Mirrors([tty EXCEPT !.screen[tty.y][tty.x] = cell])
    BY <2>1, <2>2
  <2>4. Mirrors(tty)' = Mirrors(tty)  BY <2>1 DEF Mirrors, oldest
  <2> QED BY <2>1, <2>2, <2>3, <2>4 DEF DInv, Shown
<1> USE <1>1 DEF Goto
<1>9. CASE Bottom \/ Blit \/ CopyRow
  BY <1>9 DEF Bottom, Blit, CopyRow
<1>10. CASE AdvanceTail \/ AdvanceCount \/ AdvanceClear
  BY <1>10 DEF AdvanceTail, AdvanceCount, AdvanceClear
<1>11. CASE ClearTail \/ ClearCount \/ ClearOffset \/ ClearLine
  BY <1>11 DEF ClearTail, ClearCount, ClearOffset, ClearLine, Store
<1>12. CASE FillRow
  BY <1>12 DEF FillRow
<1> QED BY <1>2, <1>3, <1>4, <1>5, <1>6, <1>7, <1>8, <1>9, <1>10, <1>11, <1>12,
           RingShown, ScreenShown, ShowShown, HomeShown, IrqShown
        DEF IrqNext, Putc, ClearScreen

\* What the steps outside advance_lines and terminal_clear_screen leave alone.
LEMMA CountsStay ==
  ASSUME CInv, [IrqNext]_vars, ~AdvanceTail, ~AdvanceCount, ~ClearTail, ~ClearCount
  PROVE  tty'.tail_line = tty.tail_line /\ tty'.sb_count = tty.sb_count
<1>0. DOMAIN tty = Fields /\ DOMAIN tty.scrollbuf = Ring  BY Numbers DEF CInv, IInv
<1>1. CASE UNCHANGED tty  BY <1>1
<1>2. CASE Bottom \/ CopyRow \/ NextRow
  BY <1>0, <1>2 DEF Bottom, CopyRow, NextRow, Fields
<1>3. CASE PutNewline \/ PutReturn \/ PutChar \/ Fixup
  BY <1>0, <1>3 DEF PutNewline, PutReturn, PutChar, Fixup, Fields
<1>4. CASE PutBackspace  BY <1>0, <1>4 DEF PutBackspace, Fields
<1>5. CASE WriteRing \/ WriteScreen \/ MoveCaret
  BY <1>0, <1>5 DEF WriteRing, WriteScreen, MoveCaret, Fields
<1>6. CASE FillRow \/ Home \/ ClearOffset
  BY <1>0, <1>6 DEF FillRow, Home, ClearOffset, Store, Fields
<1>7. CASE AdvanceClear \/ ClearLine
  <2>1. PICK n : tty' = sb_clear_line(tty, n)
    BY <1>7 DEF AdvanceClear, ClearLine, Store
  <2> QED BY <1>0, <2>1, ClearKeeps
<1>8. CASE ScrollIrq  BY <1>8, IrqMoves DEF CInv, IInv
<1>9. CASE Follow \/ PutTab \/ PutSpaces \/ BackCursor \/ Finish \/ Blit
  BY <1>9 DEF Follow, PutTab, PutSpaces, BackCursor, Finish, Blit
<1>10. CASE ShowCursor \/ Port \/ \E k \in Chars \cup {" ", NL, CR, TABCHAR, BS} : Call(k)
  BY <1>10 DEF ShowCursor, Port, Call
<1>11. CASE UNCHANGED vars  BY <1>11 DEF vars
<1> QED BY <1>2, <1>3, <1>4, <1>5, <1>6, <1>7, <1>8, <1>9, <1>10, <1>11
        DEF IrqNext, Putc, ClearScreen

\* Where they lead.
LEMMA WhereTo ==
  ASSUME CInv, [IrqNext]_vars, ~AdvanceTail, ~AdvanceCount, ~ClearTail, ~ClearCount
  PROVE  /\ pc' \in {"count", "clear count"} => pc' = pc
         /\ pc' = "clear offset" => pc = "clear offset"
         /\ pc' = "clear line" => pc \in {"clear offset", "clear line"}
         /\ pc' \in {"fill", "home"} => pc \in {"clear line", "fill", "home"}
         /\ pc \in {"count", "clear count"} => pc' = pc
         /\ pc = "clear offset" => pc' \in {"clear offset", "clear line"}
<1>0. after \in {"idle", "body", "fix", "cursor", "ring", "spaces"}
  BY DEF CInv, IInv, Typed
<1> USE DEF Goto, Access
<1>1. CASE Bottom \/ CopyRow \/ Follow \/ Blit \/ ShowCursor
  BY <1>1 DEF Bottom, CopyRow, Follow, Blit, ShowCursor
<1>2. CASE NextRow
  <2>1. pc = "row" /\ pc' \in {after, "tail"}  BY <1>2 DEF NextRow
  <2> QED BY <1>0, <2>1
<1>3. CASE PutNewline \/ PutReturn \/ PutChar
  BY <1>3 DEF PutNewline, PutReturn, PutChar
<1>4. CASE PutBackspace \/ PutTab \/ PutSpaces \/ Fixup
  BY <1>4 DEF PutBackspace, PutTab, PutSpaces, Fixup
<1>5. CASE WriteRing \/ WriteScreen \/ MoveCaret \/ BackCursor \/ Finish
  BY <1>5 DEF WriteRing, WriteScreen, MoveCaret, BackCursor, Finish
<1>6. CASE FillRow
  <2>1. pc = "fill" /\ pc' \in {"fill", "home"}  BY <1>6 DEF FillRow
  <2> QED BY <2>1
<1>7. CASE Home \/ ClearOffset \/ ClearLine \/ AdvanceClear
  BY <1>7 DEF Home, ClearOffset, ClearLine, AdvanceClear, Store
<1>8. CASE ScrollIrq \/ UNCHANGED vars  BY <1>8 DEF ScrollIrq, vars
<1>9. CASE \E k \in Chars \cup {" ", NL, CR, TABCHAR, BS} : Call(k)
  BY <1>9 DEF Call
<1>10. CASE Port
  <2>1. pc = "ports" /\ pc' \in {after, "ports"}  BY <1>10 DEF Port
  <2> QED BY <1>0, <2>1
<1> QED BY <1>1, <1>2, <1>3, <1>4, <1>5, <1>6, <1>7, <1>8, <1>9, <1>10
        DEF IrqNext, Putc, ClearScreen

LEMMA LesserOne == Lesser(0 + 1, N) = 1
BY Sizes DEF Lesser

LEMMA CountedNext ==
  ASSUME CInv, DInv, [IrqNext]_vars
  PROVE  Counted'
<1>0. /\ DOMAIN tty = Fields /\ tty.tail_line \in Nat /\ tty.sb_count \in Nat
      /\ N \in Nat /\ N >= 1 /\ Counted
  <2>1. tty.tail_line \in 0..MaxTail /\ tty.sb_count \in 1..N /\ DOMAIN tty = Fields
    BY Numbers DEF CInv, IInv
  <2> QED BY <2>1, Sizes DEF DInv
<1>1. CASE AdvanceTail
  <2>1. /\ pc = "tail" /\ pc' = "count" /\ tty' = [tty EXCEPT !.tail_line = tty.tail_line + 1]
    BY <1>1 DEF AdvanceTail, Goto
  <2>2. tty'.tail_line = tty.tail_line + 1 /\ tty'.sb_count = tty.sb_count
    BY <1>0, <2>1 DEF Fields
  <2> QED BY <1>0, <2>1, <2>2 DEF Counted
<1>2. CASE AdvanceCount
  <2>1. /\ pc = "count" /\ pc' = "clear"
        /\ tty' = [tty EXCEPT !.sb_count = IF tty.sb_count < N THEN tty.sb_count + 1
                                                             ELSE tty.sb_count]
    BY <1>2 DEF AdvanceCount, Goto, N
  <2>2. /\ tty'.tail_line = tty.tail_line
        /\ tty'.sb_count = IF tty.sb_count < N THEN tty.sb_count + 1 ELSE tty.sb_count
    BY <1>0, <2>1 DEF Fields
  <2>3. tty.sb_count = IF tty.tail_line < N THEN tty.tail_line ELSE N
    BY <1>0, <2>1 DEF Counted, Lesser
  <2>4. tty'.sb_count = IF tty'.tail_line + 1 < N THEN tty'.tail_line + 1 ELSE N
    BY <1>0, <2>2, <2>3
  <2> QED BY <2>1, <2>4 DEF Counted, Lesser
<1>3. CASE ClearTail
  <2>1. pc' = "clear count" /\ tty' = [tty EXCEPT !.tail_line = 0]
    BY <1>3 DEF ClearTail, Store, Goto
  <2>2. tty'.tail_line = 0  BY <1>0, <2>1 DEF Fields
  <2> QED BY <2>1, <2>2 DEF Counted
<1>4. CASE ClearCount
  <2>1. pc = "clear count" /\ pc' = "clear offset" /\ tty' = [tty EXCEPT !.sb_count = 1]
    BY <1>4 DEF ClearCount, Store, Goto
  <2>2. tty'.tail_line = tty.tail_line  BY <1>0, <2>1 DEF Fields
  <2> QED BY <1>0, <2>1, <2>2 DEF Counted
<1>5. CASE ~AdvanceTail /\ ~AdvanceCount /\ ~ClearTail /\ ~ClearCount
  <2>1. tty'.tail_line = tty.tail_line /\ tty'.sb_count = tty.sb_count
    BY <1>5, CountsStay
  <2>2. /\ pc' \in {"count", "clear count"} => pc' = pc
        /\ pc' = "clear offset" => pc = "clear offset"
        /\ pc' = "clear line" => pc \in {"clear offset", "clear line"}
        /\ pc' \in {"fill", "home"} => pc \in {"clear line", "fill", "home"}
        /\ pc \in {"count", "clear count"} => pc' = pc
        /\ pc = "clear offset" => pc' \in {"clear offset", "clear line"}
    BY <1>5, WhereTo
  <2>3. pc = "clear offset" => tty.sb_count = Lesser(tty.tail_line + 1, N)
    <3> SUFFICES ASSUME pc = "clear offset" PROVE tty.sb_count = Lesser(tty.tail_line + 1, N)
      OBVIOUS
    <3>1. tty.tail_line = 0 /\ tty.sb_count = 1
      BY <1>0 DEF Counted, CInv, IInv, Stored
    <3> QED BY <3>1, LesserOne
  <2>4. pc' \in {"clear count", "clear offset", "clear line", "fill", "home"} =>
          tty'.tail_line = 0
    BY <1>0, <2>1, <2>2 DEF Counted
  <2>5. pc' \notin {"count", "clear count", "clear offset"} =>
          tty'.sb_count = Lesser(tty'.tail_line + 1, N)
    BY <1>0, <2>1, <2>2, <2>3 DEF Counted
  <2>6. pc' = "count" => tty'.sb_count = Lesser(tty'.tail_line, N)
    BY <1>0, <2>1, <2>2 DEF Counted
  <2> QED BY <2>4, <2>5, <2>6 DEF Counted
<1> QED BY <1>1, <1>2, <1>3, <1>4, <1>5

LEMMA CopiedNext ==
  ASSUME CInv, DInv, [IrqNext]_vars
  PROVE  Copied'
<1>0. /\ tty \in Console /\ blit \in [start : Nat, off : Nat, row : Nat, clean : BOOLEAN]
      /\ after \in {"idle", "body", "fix", "cursor", "ring", "spaces"} /\ Copied
      /\ SCREEN_HEIGHT \in Nat \ {0}
  BY Sizes DEF CInv, Forms, TtyForm, IInv, Typed, DInv
<1>1. ASSUME pc' \notin {"copy", "show"} PROVE Copied'
  BY <1>1 DEF Copied
<1>2. CASE Blit
  <2>1. /\ pc' = "copy" /\ tty' = tty /\ blit'.start = start_line(tty) /\ blit'.row = 0
    BY <1>2 DEF Blit, Goto
  <2>2. \A r \in Rows : ~(r < 0)  BY DEF Rows
  <2>3. start_line(tty') = start_line(tty)  BY <2>1
  <2> QED BY <2>1, <2>2, <2>3 DEF Copied
<1>3. CASE CopyRow
  <2> DEFINE k == blit.row
             src == line_source(tty, size(blit.start + k))
  <2>1. /\ pc = "copy" /\ tty' = [tty EXCEPT !.screen[k] = src]
        /\ blit' = [blit EXCEPT !.row = k + 1]
        /\ pc' = IF k = SCREEN_HEIGHT - 1 THEN "show" ELSE "copy"
    BY <1>3 DEF CopyRow, Goto
  <2>2. k \in Nat /\ k < SCREEN_HEIGHT
    BY <1>0, <2>1 DEF CInv, IInv, Redrawing
  <2>3. blit'.row = k + 1 /\ blit'.start = blit.start /\ blit'.clean = blit.clean
    BY <1>0, <2>1
  <2> HIDE DEF src
  <2>4. /\ tty'.tail_line = tty.tail_line /\ tty'.sb_count = tty.sb_count
        /\ tty'.view_offset = tty.view_offset /\ tty'.scrollbuf = tty.scrollbuf
        /\ tty'.color = tty.color /\ tty'.screen = [tty.screen EXCEPT ![k] = src]
    BY <1>0, <2>1 DEF Console
  <2> HIDE DEF k
  <2>5. /\ start_line(tty') = start_line(tty)
        /\ \A n : line_source(tty', n) = line_source(tty, n)
    BY <2>4 DEF start_line, line_source, oldest, BlankLine
  <2>6. ASSUME blit'.clean
        PROVE  /\ blit'.start = start_line(tty')
               /\ \A r \in Rows : r < blit'.row =>
                    tty'.screen[r] = line_source(tty', size(blit'.start + r))
    <3>1. /\ blit.start = start_line(tty)
          /\ \A r \in Rows : r < k => tty.screen[r] = line_source(tty, size(blit.start + r))
      BY <1>0, <2>1, <2>3, <2>6 DEF Copied, k
    <3>2. ASSUME NEW r \in Rows, r < k + 1
          PROVE  tty'.screen[r] = line_source(tty, size(blit.start + r))
      <4>1. tty.screen \in [Rows -> Line]  BY <1>0 DEF Console
      <4>2. CASE r = k
        <5>1. tty'.screen[r] = src  BY <2>4, <4>1, <4>2
        <5> QED BY <4>2, <5>1 DEF src, k
      <4>3. CASE r # k
        <5>1. r < k  BY <2>2, <3>2, <4>3 DEF Rows
        <5>2. tty'.screen[r] = tty.screen[r]  BY <2>4, <4>1, <4>3
        <5> QED BY <3>1, <5>1, <5>2
      <4> QED BY <4>2, <4>3
    <3> QED BY <2>3, <2>5, <3>1, <3>2
  <2>7. pc' = "show" => blit'.row = SCREEN_HEIGHT
    BY <1>0, <2>1, <2>2, <2>3 DEF k
  <2> QED BY <2>6, <2>7 DEF Copied
<1>4. CASE ScrollIrq
  <2>1. /\ pc' = pc
        /\ blit' = [blit EXCEPT !.clean = blit.clean /\ pc \notin {"copy", "show", "fill"}]
    BY <1>4 DEF ScrollIrq
  <2>2. blit'.row = blit.row /\ (pc \in {"copy", "show"} => ~blit'.clean)
    BY <1>0, <2>1
  <2> QED BY <1>0, <2>1, <2>2 DEF Copied
<1>5. CASE UNCHANGED vars
  <2>1. UNCHANGED <<tty, pc, blit>>  BY <1>5 DEF vars
  <2>2. /\ start_line(tty') = start_line(tty)
        /\ \A n : line_source(tty', n) = line_source(tty, n)
    BY <2>1
  <2> QED BY <1>0, <2>1, <2>2 DEF Copied
<1> USE <1>1 DEF Goto, Access
<1>6. CASE Bottom \/ Follow \/ ShowCursor \/ PutNewline \/ PutReturn
  BY <1>6 DEF Bottom, Follow, ShowCursor, PutNewline, PutReturn
<1>7. CASE NextRow
  <2>1. pc' \in {after, "tail"}  BY <1>7 DEF NextRow
  <2> QED BY <1>0, <2>1
<1>8. CASE PutChar
  <2>1. pc' \in {"row", "ring"}  BY <1>8 DEF PutChar
  <2> QED BY <2>1
<1>9. CASE PutBackspace \/ PutTab \/ PutSpaces
  <2>1. pc' \in {"ring", "back", "spaces", "follow", "fix"}
    BY <1>9 DEF PutBackspace, PutTab, PutSpaces
  <2> QED BY <2>1
<1>10. CASE Fixup
  <2>1. pc' \in {"row", "cursor"}  BY <1>10 DEF Fixup
  <2> QED BY <2>1
<1>11. CASE WriteRing \/ WriteScreen \/ MoveCaret \/ BackCursor \/ Finish
  BY <1>11 DEF WriteRing, WriteScreen, MoveCaret, BackCursor, Finish
<1>12. CASE AdvanceTail \/ AdvanceCount \/ AdvanceClear
  BY <1>12 DEF AdvanceTail, AdvanceCount, AdvanceClear
<1>13. CASE ClearTail \/ ClearCount \/ ClearOffset \/ ClearLine \/ Home
  BY <1>13 DEF ClearTail, ClearCount, ClearOffset, ClearLine, Store, Home
<1>14. CASE FillRow
  <2>1. pc' \in {"fill", "home"}  BY <1>14 DEF FillRow
  <2> QED BY <2>1
<1>15. CASE Port
  <2>1. pc' \in {after, "ports"}  BY <1>15 DEF Port
  <2> QED BY <1>0, <2>1
<1>16. ASSUME NEW c \in Chars \cup {" ", NL, CR, TABCHAR, BS}, Call(c) PROVE Copied'
  BY <1>16 DEF Call
<1> QED BY <1>2, <1>3, <1>4, <1>5, <1>6, <1>7, <1>8, <1>9, <1>10, <1>11, <1>12, <1>13, <1>14,
           <1>15, <1>16 DEF IrqNext, Putc, ClearScreen

LEMMA BlankedNext ==
  ASSUME CInv, DInv, [IrqNext]_vars
  PROVE  Blanked'
<1>0. /\ tty \in Console /\ blit \in [start : Nat, off : Nat, row : Nat, clean : BOOLEAN]
      /\ Blanked /\ SCREEN_HEIGHT \in Nat \ {0}
  BY Sizes DEF CInv, Forms, TtyForm, IInv, Typed, DInv
<1>1. CASE ClearLine
  <2>1. pc' = "fill" /\ blit' = blit /\ tty' = sb_clear_line(tty, 0) /\ pc = "clear line"
    BY <1>1 DEF ClearLine, Store, Goto
  <2>2. blit.row = 0  BY <2>1 DEF CInv, IInv, Redrawing
  <2>3. ring(0) \in Ring  BY Sizes, ModRange DEF ring, Ring, N
  <2>4. tty'.scrollbuf[ring(0)] = BlankLine(tty) /\ tty'.color = tty.color
    BY <1>0, <2>1, <2>3 DEF sb_clear_line, Console
  <2>5. BlankLine(tty') = BlankLine(tty)  BY <2>4 DEF BlankLine
  <2>6. \A r \in Rows : ~(r < 0)  BY DEF Rows
  <2> QED BY <2>1, <2>2, <2>4, <2>5, <2>6 DEF Blanked
<1>2. CASE FillRow
  <2> DEFINE k == blit.row
             b == BlankLine(tty)
  <2>1. /\ pc = "fill" /\ tty' = [tty EXCEPT !.screen[k] = b]
        /\ IF k < SCREEN_HEIGHT - 1
             THEN blit' = [blit EXCEPT !.row = k + 1] /\ UNCHANGED <<pc, torn>>
             ELSE blit' = NoBlit /\ torn' = ~blit.clean /\ pc' = "home"
    BY <1>2 DEF FillRow, Goto
  <2>2. k \in Nat /\ k < SCREEN_HEIGHT  BY <1>0, <2>1 DEF CInv, IInv, Redrawing
  <2> HIDE DEF b
  <2>3. /\ tty'.color = tty.color /\ tty'.scrollbuf = tty.scrollbuf
        /\ tty'.screen = [tty.screen EXCEPT ![k] = b] /\ tty.screen \in [Rows -> Line]
    BY <1>0, <2>1 DEF Console
  <2>4. BlankLine(tty') = b  BY <2>3 DEF BlankLine, b
  <2>5. tty'.scrollbuf[ring(0)] = b  BY <1>0, <2>1, <2>3 DEF Blanked, b
  <2>6. ASSUME blit.clean, NEW r \in Rows, r < k + 1 PROVE tty'.screen[r] = b
    <3>1. CASE r = k  BY <2>3, <3>1
    <3>2. CASE r # k
      <4>1. r < k  BY <2>2, <2>6, <3>2 DEF Rows
      <4>2. tty.screen[r] = b  BY <1>0, <2>1, <2>6, <4>1 DEF Blanked, b
      <4> QED BY <2>3, <3>2, <4>2
    <3> QED BY <3>1, <3>2
  <2>7. CASE k < SCREEN_HEIGHT - 1
    <3>1. blit'.row = k + 1 /\ blit'.clean = blit.clean /\ pc' = "fill"
      BY <1>0, <2>1, <2>7
    <3> QED BY <2>4, <2>5, <2>6, <3>1 DEF Blanked
  <2>8. CASE ~(k < SCREEN_HEIGHT - 1)
    <3>1. pc' = "home" /\ torn' = ~blit.clean  BY <2>1, <2>8
    <3>2. \A r \in Rows : r < k + 1  BY <1>0, <2>2, <2>8 DEF Rows
    <3> QED BY <1>0, <2>4, <2>5, <2>6, <3>1, <3>2 DEF Blanked
  <2> QED BY <2>7, <2>8
<1>3. CASE ScrollIrq
  <2>1. /\ pc' = pc /\ (pc \in {"fill", "home"} => torn')
        /\ blit' = [blit EXCEPT !.clean = blit.clean /\ pc \notin {"copy", "show", "fill"}]
    BY <1>3 DEF ScrollIrq
  <2>2. pc = "fill" => ~blit'.clean  BY <1>0, <2>1
  <2>3. tty'.color = tty.color
    <3>1. PICK n \in 0..max_view_offset(tty) :
            tty' = [blit_view([tty EXCEPT !.view_offset = n])
                      EXCEPT !.cursor = tty.cursor, !.cursor_on = tty.cursor_on]
      BY <1>3, IrqRedraws DEF CInv, IInv
    <3> DEFINE t == [tty EXCEPT !.view_offset = n]
               u == blit_view(t)
    <3>2. t.color = tty.color /\ DOMAIN t = Fields  BY <1>0 DEF Console, Fields
    <3> HIDE DEF t
    <3>3. u.color = t.color /\ DOMAIN u = Fields
      BY <3>2 DEF blit_view, set_cursor, Fields
    <3> HIDE DEF u
    <3>4. tty' = [u EXCEPT !.cursor = tty.cursor, !.cursor_on = tty.cursor_on]
      BY <3>1 DEF t, u
    <3> QED BY <3>2, <3>3, <3>4 DEF Fields
  <2>4. tty'.scrollbuf = tty.scrollbuf  BY <1>3, IrqMoves DEF CInv, IInv
  <2>5. BlankLine(tty') = BlankLine(tty)  BY <2>3 DEF BlankLine
  <2> QED BY <1>0, <2>1, <2>2, <2>4, <2>5 DEF Blanked
<1>4. CASE UNCHANGED vars
  <2>1. UNCHANGED <<tty, pc, blit, torn>>  BY <1>4 DEF vars
  <2>2. BlankLine(tty') = BlankLine(tty)  BY <2>1
  <2> QED BY <1>0, <2>1, <2>2 DEF Blanked
<1>5. ASSUME ~ClearLine, ~FillRow, ~ScrollIrq, ~UNCHANGED vars PROVE Blanked'
  <2>1. pc' \notin {"fill", "home"}
    <3>1. after \in {"idle", "body", "fix", "cursor", "ring", "spaces"}
      BY DEF CInv, IInv, Typed
    <3> USE DEF Goto, Access
    <3>2. CASE Bottom \/ CopyRow \/ Follow \/ Blit \/ ShowCursor
      BY <3>2 DEF Bottom, CopyRow, Follow, Blit, ShowCursor
    <3>3. CASE NextRow
      <4>1. pc' \in {after, "tail"}  BY <3>3 DEF NextRow
      <4> QED BY <3>1, <4>1
    <3>4. CASE PutNewline \/ PutReturn \/ PutChar
      BY <3>4 DEF PutNewline, PutReturn, PutChar
    <3>5. CASE PutBackspace \/ PutTab \/ PutSpaces \/ Fixup
      BY <3>5 DEF PutBackspace, PutTab, PutSpaces, Fixup
    <3>6. CASE WriteRing \/ WriteScreen \/ MoveCaret \/ BackCursor \/ Finish
      BY <3>6 DEF WriteRing, WriteScreen, MoveCaret, BackCursor, Finish
    <3>7. CASE AdvanceTail \/ AdvanceCount \/ AdvanceClear
      BY <3>7 DEF AdvanceTail, AdvanceCount, AdvanceClear
    <3>8. CASE ClearTail \/ ClearCount \/ ClearOffset \/ Home
      BY <3>8 DEF ClearTail, ClearCount, ClearOffset, Store, Home
    <3>9. CASE Port
      <4>1. pc' \in {after, "ports"}  BY <3>9 DEF Port
      <4> QED BY <3>1, <4>1
    <3>10. CASE \E k \in Chars \cup {" ", NL, CR, TABCHAR, BS} : Call(k)
      BY <3>10 DEF Call
    <3> QED BY <1>5, <3>2, <3>3, <3>4, <3>5, <3>6, <3>7, <3>8, <3>9, <3>10
            DEF IrqNext, Putc, ClearScreen
  <2> QED BY <2>1 DEF Blanked
<1> QED BY <1>1, <1>2, <1>3, <1>4, <1>5

LEMMA InitDInv == IrqInit => DInv
<1> SUFFICES ASSUME IrqInit PROVE DInv
  OBVIOUS
<1>1. pc = "idle"  BY DEF IrqInit
<1>2. PICK color \in Colors : tty = terminal_clear_screen(Static(color))
  BY DEF IrqInit, Init
<1> DEFINE s == Static(color)
           t == [s EXCEPT !.tail_line = 0, !.sb_count = 1, !.view_offset = 0]
           b == [x \in Cols |-> <<" ", color>>]
           f == [r \in Rows |-> b]
<1>3. /\ DOMAIN t = Fields /\ t.color = color /\ t.tail_line = 0 /\ t.sb_count = 1
      /\ t.view_offset = 0 /\ DOMAIN t.scrollbuf = Ring /\ BlankLine(s) = b
  BY DEF Static, Fields, BlankLine
<1>4. BlankLine(t) = b  BY <1>3 DEF BlankLine
<1>5. tty = set_cursor([sb_clear_line(t, 0) EXCEPT !.screen = f, !.x = 0, !.y = 0,
                                                   !.cursor_on = TRUE], 0, 0)
  BY <1>2, <1>3 DEF terminal_clear_screen
<1> HIDE DEF s, t, b, f
<1>6. sb_clear_line(t, 0) = [t EXCEPT !.scrollbuf[ring(0)] = b]
  BY <1>4 DEF sb_clear_line
<1>7. /\ tty.tail_line = 0 /\ tty.sb_count = 1 /\ tty.view_offset = 0 /\ tty.screen = f
      /\ tty.scrollbuf = [t.scrollbuf EXCEPT ![ring(0)] = b]
  BY <1>3, <1>5, <1>6 DEF set_cursor, Fields
<1>8. Mirrors(tty)
  <2> SUFFICES ASSUME 0 >= SCREEN_HEIGHT - 1
               PROVE  /\ oldest(tty) <= 0 - 0 - (SCREEN_HEIGHT - 1)
                      /\ \A r \in Rows :
                           tty.screen[r] = tty.scrollbuf[ring((0 - 0 - (SCREEN_HEIGHT - 1)) + r)]
    BY <1>7 DEF Mirrors
  <2>1. SCREEN_HEIGHT = 1  BY Sizes
  <2>2. oldest(tty) = 0
    <3>1. 0 \in 0..MaxTail  BY Sizes
    <3> QED BY <1>7, <3>1, SizeIs DEF oldest
  <2>3. \A r \in Rows : (0 - 0 - (SCREEN_HEIGHT - 1)) + r = 0  BY <2>1 DEF Rows
  <2>4. oldest(tty) <= 0 - 0 - (SCREEN_HEIGHT - 1)  BY <2>1, <2>2
  <2>5. ring(0) \in Ring  BY Sizes, ModRange DEF ring, Ring, N
  <2>6. tty.scrollbuf[ring(0)] = b  BY <1>3, <1>7, <2>5
  <2>7. \A r \in Rows : tty.screen[r] = b  BY <1>7 DEF f
  <2> QED BY <2>3, <2>4, <2>6, <2>7
<1>9. Counted
  <2> QED BY <1>1, <1>7, LesserOne DEF Counted
<1> QED BY <1>1, <1>8, <1>9 DEF DInv, Shown, ToBottom, Copied, Blanked

\* Between calls, the screen is the window of the ring that view_offset selects
\* (tty.c:85-98), unless the last redraw that finished was interrupted, or a key
\* came in the call since: whatever mix the handler leaves, a redraw that is
\* left alone repairs it.
THEOREM DamageIsConfined == IrqSpec => []DamageConfined
<1>1. CInv /\ CInv' /\ DInv /\ [IrqNext]_vars => DInv'
  BY CountedNext, ShownNext, CopiedNext, BlankedNext DEF DInv
<1>2. DInv => DamageConfined
  BY DEF DInv, Shown, Quiet, Mirrors, DamageConfined, ScreenMirrors
<1> QED BY <1>1, <1>2, InitDInv, CursorInvariance, PTL DEF IrqSpec
=============================================================================
