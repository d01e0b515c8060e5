--------------------------------- MODULE Tty ---------------------------------
(***************************************************************************)
(* The text console of src/kernel/tty.c: a ring of SCROLLBACK_LINES lines  *)
(* in memory, of which a window of SCREEN_HEIGHT lines is copied to the    *)
(* VGA screen.  Its functions call each other on the same variables, so    *)
(* each is an operator from one console state (a record) to the next.      *)
(* Here every call runs to its end; TtyIrq lets the keyboard's interrupt   *)
(* come in between, Shell composes the console with the line editor.       *)
(***************************************************************************)
EXTENDS Integers

CONSTANTS SCREEN_WIDTH,     \* 80
          SCREEN_HEIGHT,    \* 25
          SCROLLBACK_LINES, \* 1024
          WORD,             \* 2^32, for size_t
          TAB,              \* 4, as in case '\t'
          Chars,            \* printable characters other than the space
          Colors,
          MaxTail           \* bound: lines advanced since the last clear

ASSUME TtyAssumption ==
    /\ SCREEN_WIDTH \in Nat \ {0} /\ SCREEN_HEIGHT \in Nat \ {0}
    /\ SCROLLBACK_LINES \in Nat /\ SCROLLBACK_LINES > SCREEN_HEIGHT
    /\ WORD \in Nat /\ WORD % SCROLLBACK_LINES = 0
    /\ TAB \in 1..4 /\ SCREEN_WIDTH % TAB = 0
    /\ MaxTail \in Nat /\ MaxTail + SCREEN_HEIGHT < WORD \div 2 /\ " " \notin Chars

VARIABLE tty

Cols == 0..(SCREEN_WIDTH - 1)
Rows == 0..(SCREEN_HEIGHT - 1)
Ring == 0..(SCROLLBACK_LINES - 1)
Cell == (Chars \cup {" "}) \X Colors
Line == [Cols -> Cell]

Console ==
    [color : Colors, x : 0..SCREEN_WIDTH, y : Rows,
     scrollbuf : [Ring -> Line], tail_line : Nat, sb_count : Nat,
     view_offset : Nat, screen : [Rows -> Line],
     cursor : (0..SCREEN_WIDTH) \X Rows, cursor_on : BOOLEAN]

BlankLine(t) == [x \in Cols |-> <<" ", t.color>>]

-----------------------------------------------------------------------------
(***************************************************************************)
(* Scrollback helpers.                                                     *)
(***************************************************************************)
size(n) == n % WORD

ring(n) == n % SCROLLBACK_LINES

set_cursor(t, x, y) == [t EXCEPT !.cursor = <<x, y>>]

sb_clear_line(t, n) == [t EXCEPT !.scrollbuf[ring(n)] = BlankLine(t)]

max_view_offset(t) ==
    IF t.sb_count <= SCREEN_HEIGHT THEN 0 ELSE t.sb_count - SCREEN_HEIGHT

start_line(t) ==
    LET end_line == size(t.tail_line - t.view_offset)
    IN  IF end_line >= SCREEN_HEIGHT - 1 THEN end_line - (SCREEN_HEIGHT - 1) ELSE 0

oldest(t) == IF t.sb_count > 0 THEN size(t.tail_line + 1 - t.sb_count) ELSE 0

line_source(t, src) ==
    IF t.sb_count = 0 \/ src < oldest(t) \/ src > t.tail_line
      THEN BlankLine(t) ELSE t.scrollbuf[ring(src)]

\* The row blit_view puts the cursor on.
cursor_row(t) ==
    LET r == IF t.tail_line >= start_line(t) THEN t.tail_line - start_line(t) ELSE 0
    IN  IF r >= SCREEN_HEIGHT THEN SCREEN_HEIGHT - 1 ELSE r

blit_view(t) ==
    LET u == [t EXCEPT !.screen = [r \in Rows |-> line_source(t, size(start_line(t) + r))],
                       !.cursor_on = (t.view_offset = 0)]
    IN  IF t.view_offset = 0 THEN set_cursor(u, t.x, cursor_row(t)) ELSE u

follow_bottom_if_scrolled(t) ==
    IF t.view_offset # 0 THEN blit_view([t EXCEPT !.view_offset = 0]) ELSE t

\* advance_lines(1), the only use.
advance_line(t) ==
    LET u == [t EXCEPT !.tail_line = @ + 1,
                       !.sb_count = IF @ < SCROLLBACK_LINES THEN @ + 1 ELSE @]
    IN  sb_clear_line(u, u.tail_line)

line_for_view_y(t, y) == size(t.tail_line - ((SCREEN_HEIGHT - 1) - y))

putcell(t, x, y, cell) ==
    LET u == IF t.sb_count = 0
               THEN sb_clear_line([t EXCEPT !.sb_count = 1], t.tail_line) ELSE t
    IN  [u EXCEPT !.scrollbuf[ring(line_for_view_y(t, y))][x] = cell,
                  !.screen[y][x] = cell]

putchr(t, ch) == putcell(t, t.x, t.y, <<ch, t.color>>)

-----------------------------------------------------------------------------
(***************************************************************************)
(* _putc.                                                                  *)
(***************************************************************************)
\* The caret goes down a row, or the text goes up one.
next_row(t) ==
    IF t.y < SCREEN_HEIGHT - 1 THEN [t EXCEPT !.y = @ + 1]
                               ELSE blit_view(advance_line(t))

wrap(t) == IF t.x >= SCREEN_WIDTH THEN next_row([t EXCEPT !.x = 0]) ELSE t

\* The post-fixup and the final set_cursor.
finish(t) == LET u == wrap(t) IN set_cursor(u, u.x, u.y)

print(t, ch) ==
    LET u == wrap(follow_bottom_if_scrolled(t))
    IN  finish([putchr(u, ch) EXCEPT !.x = @ + 1])

newline(t) == finish(next_row([follow_bottom_if_scrolled(t) EXCEPT !.x = 0]))

return(t) == finish([follow_bottom_if_scrolled(t) EXCEPT !.x = 0])

tab(t) ==
    LET s0 == follow_bottom_if_scrolled(t)
        s1 == print(s0, " ")
        s2 == print(s1, " ")
        s3 == print(s2, " ")
        n  == TAB - (s0.x % TAB)
    IN  finish(CASE n = 1 -> s1 [] n = 2 -> s2 [] n = 3 -> s3 [] OTHER -> print(s3, " "))

backspace(t) ==
    LET f == follow_bottom_if_scrolled(t)
        u == IF f.x > 0 THEN [f EXCEPT !.x = @ - 1]
                        ELSE [f EXCEPT !.x = SCREEN_WIDTH - 1, !.y = @ - 1]
    IN  finish(IF f.x > 0 \/ f.y > 0 THEN putchr(u, " ") ELSE f)

terminal_clear_screen(t) ==
    LET u == sb_clear_line([t EXCEPT !.tail_line = 0, !.sb_count = 1,
                                     !.view_offset = 0], 0)
    IN  set_cursor([u EXCEPT !.screen = [r \in Rows |-> BlankLine(t)],
                             !.x = 0, !.y = 0, !.cursor_on = TRUE], 0, 0)

(***************************************************************************)
(* The user's scroll keys.                                                 *)
(***************************************************************************)
clamp(n, max) == IF n < 0 THEN 0 ELSE IF n > max THEN max ELSE n

scroll_apply_delta(t, delta) ==
    LET new_off == clamp(t.view_offset + delta, max_view_offset(t))
    IN  IF new_off # t.view_offset THEN blit_view([t EXCEPT !.view_offset = new_off])
                                   ELSE t

terminal_scroll_home(t) == blit_view([t EXCEPT !.view_offset = max_view_offset(t)])

terminal_scroll_end(t) == blit_view([t EXCEPT !.view_offset = 0])

-----------------------------------------------------------------------------
(***************************************************************************)
(* The console as its callers use it, from the terminal_clear_screen that  *)
(* kinit calls before anything is printed.                                 *)
(***************************************************************************)
Static(color) ==
    [color |-> color, x |-> 0, y |-> 0,
     scrollbuf |-> [n \in Ring |-> [x \in Cols |-> <<" ", color>>]],
     tail_line |-> 0, sb_count |-> 0, view_offset |-> 0,
     screen |-> [r \in Rows |-> [x \in Cols |-> <<" ", color>>]],
     cursor |-> <<0, 0>>, cursor_on |-> TRUE]

Init == \E color \in Colors : tty = terminal_clear_screen(Static(color))

\* Bound: a call may advance the text by one line.
Room == tty.tail_line < MaxTail

PrintChar(ch) == Room /\ tty' = print(tty, ch)
Newline    == Room /\ tty' = newline(tty)
Return     == tty' = return(tty)
Tab        == Room /\ tty' = tab(tty)
Backspace  == tty' = backspace(tty)
Clear      == tty' = terminal_clear_screen(tty)
SetColor(color) == tty' = [tty EXCEPT !.color = color]
Scroll     == \E delta \in {-SCREEN_HEIGHT, -1, 1, SCREEN_HEIGHT} :
                tty' = scroll_apply_delta(tty, delta)
ScrollHome == tty' = terminal_scroll_home(tty)
ScrollEnd  == tty' = terminal_scroll_end(tty)

Next ==
    \/ \E ch \in Chars \cup {" "} : PrintChar(ch)
    \/ Newline \/ Return \/ Tab \/ Backspace
    \/ Clear \/ \E color \in Colors : SetColor(color)
    \/ Scroll \/ ScrollHome \/ ScrollEnd

Spec == Init /\ [][Next]_tty

-----------------------------------------------------------------------------
\* The view never leaves the stored lines: view_offset, which is never
\* re-clamped when lines arrive or the screen is cleared, stays within
\* max_view_offset, so that no subtraction of blit_view wraps around.
ViewWindow ==
    /\ tty.sb_count <= SCROLLBACK_LINES
    /\ tty.sb_count <= tty.tail_line + 1
    /\ tty.view_offset <= max_view_offset(tty)
    /\ tty.view_offset <= tty.tail_line

\* Once the text has filled a screen, the screen is exactly the window of the
\* ring that view_offset selects, whatever mix of output and scrolling
\* (putcell writes each cell twice, blit_view copies).
ScreenMirrors ==
    tty.tail_line >= SCREEN_HEIGHT - 1 =>
      LET top == tty.tail_line - tty.view_offset - (SCREEN_HEIGHT - 1)
      IN  /\ oldest(tty) <= top
          /\ \A r \in Rows : tty.screen[r] = tty.scrollbuf[ring(top + r)]

\* The line of the ring the caret stands on.
caret_line(t) == line_for_view_y(t, t.y)

\* tty.c:208 "we need to scroll forward by 1 line (produce a new line at the
\* bottom)": what was on the screen moves up by one row.
ScrollKeepsText ==
    [][tty'.tail_line = tty.tail_line + 1 /\ tty.view_offset = 0 =>
         \A r \in 0..(SCREEN_HEIGHT - 3) : tty'.screen[r] = tty.screen[r + 1]]_tty

=============================================================================
