------------------------------- MODULE TtyIrq -------------------------------
(***************************************************************************)
(* The console of Tty when a navigation key arrives in the middle of a     *)
(* call.  IRQ 1 is enabled while the kernel prints; its handler scrolls    *)
(* and redraws in one step (interrupts are off in it) at any point between *)
(* two accesses of _putc or terminal_clear_screen to what they share, in   *)
(* the order of the -O2 build.  The rows of a redraw are copied one per    *)
(* step, from the tail_line, sb_count and view_offset read at its start.   *)
(*                                                                         *)
(* The cursor is no longer a pair of numbers: it stands in four registers  *)
(* of the CRT controller, behind an index and a data port, and each access *)
(* to a port is a step.  (The fields cursor and cursor_on of tty stay as   *)
(* Init has left them.)                                                    *)
(***************************************************************************)
EXTENDS Tty, Sequences

CONSTANTS BYTE,        \* 256
          CURSOR_OFF,  \* 0x20, the bit of register 0x0A that hides the cursor
          KEEP_START,  \* 0xC0 keeps a byte's part above a multiple of 64
          KEEP_END,    \* 0xE0, of 32
          LAST_SCAN    \* 15

ASSUME CrtcAssumption ==
    /\ BYTE \in Nat \ {0} /\ SCREEN_WIDTH * SCREEN_HEIGHT <= BYTE * BYTE
    /\ CURSOR_OFF \in 1..(BYTE - 1)
    /\ KEEP_START \in Nat \ {0} /\ KEEP_START % (2 * CURSOR_OFF) = 0
    /\ KEEP_END \in Nat \ {0} /\ BYTE % KEEP_END = 0 /\ LAST_SCAN \in 0..(KEEP_END - 1)

VARIABLES pc,     \* the next access of the main program, "idle" between calls
          ch,     \* _putc's argument
          after,  \* where next_row, blit_view and the ports go on to
          spaces, \* of a tab: calls of _putc(' ') left, -1 outside one
          blit,   \* locals of the blit_view or screen fill under way
          crtc,   \* the controller's selected index and its registers
          ports,  \* accesses to its ports that the function under way has left
          heals,  \* what they set right if left alone (not in the code)
          torn,   \* the screen may be a mix with a redraw of the handler's
                  \* (not in the code)
          bad     \* the cursor's "place" or "shape" may be (not in the code)

vars == <<tty, pc, ch, after, spaces, blit, crtc, ports, heals, torn, bad>>

NL == "\n"
CR == "\r"
TABCHAR == "\t"
BS == "\\b"

Goto(label) == pc' = label

-----------------------------------------------------------------------------
(***************************************************************************)
(* The CRT controller: registers "start" 0x0A, "end" 0x0B, "hi" 0x0E and   *)
(* "lo" 0x0F.                                                              *)
(***************************************************************************)
Index(r) == [port |-> "index", val |-> r]
Data(v)  == [port |-> "data", val |-> v]

\* inb(0x3D5) & keep, which the next outb writes back, or-ed with val.
Merge(keep, v) == [port |-> "in", keep |-> keep, val |-> v]

Merged(c, op) == Data(c.reg[c.index] - (c.reg[c.index] % op.keep) + op.val)

Out(c, op) ==
    IF op.port = "index" THEN [c EXCEPT !.index = op.val]
                         ELSE [c EXCEPT !.reg[c.index] = op.val]

\* Mutant: one index for both bytes.
move_cursor_blind(x, y) ==
    LET pos == y * SCREEN_WIDTH + x
    IN  <<Index("lo"), Data(pos % BYTE), Data((pos \div BYTE) % BYTE)>>

move_cursor(x, y) ==
    LET pos == y * SCREEN_WIDTH + x
    IN  <<Index("lo"), Data(pos % BYTE), Index("hi"), Data((pos \div BYTE) % BYTE)>>

enable_cursor == <<Index("start"), Merge(KEEP_START, 0),
                   Index("end"), Merge(KEEP_END, LAST_SCAN)>>

disable_cursor == <<Index("start"), Data(CURSOR_OFF)>>

Obey(c, op) == Out(c, IF op.port = "in" THEN Merged(c, op) ELSE op)

\* A whole sequence, as the handler makes it.
Run(c, ops) ==
    LET obeyed[n \in 0..Len(ops)] == IF n = 0 THEN c ELSE Obey(obeyed[n - 1], ops[n])
    IN  obeyed[Len(ops)]

\* The end of blit_view.
blit_cursor(x, row, off) ==
    IF off = 0 THEN move_cursor(x, row) \o enable_cursor ELSE disable_cursor

\* The main program's accesses, one per step.
Access(ops, fixed, next) ==
    ports' = ops /\ heals' = fixed /\ after' = next /\ Goto("ports")

Port ==
    /\ pc = "ports"
    /\ LET op == Head(ports)
       IN  IF op.port = "in"
             THEN ports' = <<Merged(crtc, op)>> \o Tail(ports) /\ UNCHANGED crtc
             ELSE ports' = Tail(ports) /\ crtc' = Out(crtc, op)
    /\ IF ports' = <<>>
         THEN /\ bad' = bad \ heals /\ Goto(after)
              /\ after' = "idle" /\ heals' = {}
              /\ ch' = IF after = "idle" THEN NL ELSE ch
         ELSE UNCHANGED <<bad, pc, after, heals, ch>>
    /\ UNCHANGED <<tty, spaces, blit, torn>>

-----------------------------------------------------------------------------
(***************************************************************************)
(* blit_view, and what leads to it.                                        *)
(***************************************************************************)
screen == <<crtc, ports, heals, torn, bad>>

NoBlit == [start |-> 0, off |-> 0, row |-> 0, clean |-> TRUE]

Blit ==
    /\ pc = "blit"
    /\ blit' = [start |-> start_line(tty), off |-> tty.view_offset, row |-> 0,
                clean |-> TRUE]
    /\ Goto("copy")
    /\ UNCHANGED <<tty, ch, after, spaces, screen>>

CopyRow ==
    /\ pc = "copy"
    /\ tty' = [tty EXCEPT !.screen[blit.row] = line_source(tty, size(blit.start + blit.row))]
    /\ blit' = [blit EXCEPT !.row = @ + 1]
    /\ Goto(IF blit.row = SCREEN_HEIGHT - 1 THEN "show" ELSE "copy")
    /\ UNCHANGED <<ch, after, spaces, screen>>

\* The cursor, from the view_offset read at the start.  (A key between the
\* reset of follow_bottom_if_scrolled and that read leaves the view scrolled
\* under the characters to come.)
ShowCursor ==
    /\ pc = "show"
    /\ Access(blit_cursor(tty.x, cursor_row([tty EXCEPT !.view_offset = blit.off]), blit.off),
              {"shape"}, after)
    /\ torn' = (~blit.clean \/ (blit.off # 0 /\ after = "body"))
    /\ blit' = NoBlit
    /\ UNCHANGED <<tty, ch, spaces, crtc, bad>>

\* Mutant: the view is not brought back to the bottom.
Follow_never ==
    /\ pc = "follow" /\ Goto("body")
    /\ UNCHANGED <<tty, ch, after, spaces, blit, screen>>

\* The test and the store of follow_bottom_if_scrolled.
Follow ==
    /\ pc = "follow"
    /\ Goto(IF tty.view_offset # 0 THEN "bottom" ELSE "body")
    /\ UNCHANGED <<tty, ch, after, spaces, blit, screen>>

Bottom ==
    /\ pc = "bottom"
    /\ tty' = [tty EXCEPT !.view_offset = 0]
    /\ after' = "body" /\ Goto("blit")
    /\ UNCHANGED <<ch, spaces, blit, screen>>

NextRow ==
    /\ pc = "row"
    /\ IF tty.y < SCREEN_HEIGHT - 1 THEN tty' = [tty EXCEPT !.y = @ + 1] /\ Goto(after)
                                    ELSE Goto("tail") /\ UNCHANGED tty
    /\ UNCHANGED <<ch, after, spaces, blit, screen>>

\* advance_lines(1), three steps.  Bound: MaxTail lines from one clear to the
\* next.
AdvanceTail ==
    /\ pc = "tail" /\ tty.tail_line < MaxTail
    /\ tty' = [tty EXCEPT !.tail_line = @ + 1]
    /\ Goto("count")
    /\ UNCHANGED <<ch, after, spaces, blit, screen>>

\* Mutant: the number of stored lines is not capped.
AdvanceCount_uncapped ==
    /\ pc = "count"
    /\ tty' = [tty EXCEPT !.sb_count = @ + 1]
    /\ Goto("clear")
    /\ UNCHANGED <<ch, after, spaces, blit, screen>>

AdvanceCount ==
    /\ pc = "count"
    /\ tty' = [tty EXCEPT !.sb_count = IF @ < SCROLLBACK_LINES THEN @ + 1 ELSE @]
    /\ Goto("clear")
    /\ UNCHANGED <<ch, after, spaces, blit, screen>>

\* Mutant: the line after the new bottom line is cleared too.
AdvanceClear_ahead ==
    /\ pc = "clear"
    /\ tty' = sb_clear_line(sb_clear_line(tty, tty.tail_line), tty.tail_line + 1)
    /\ Goto("blit")
    /\ UNCHANGED <<ch, after, spaces, blit, screen>>

AdvanceClear ==
    /\ pc = "clear"
    /\ tty' = sb_clear_line(tty, tty.tail_line)
    /\ Goto("blit")
    /\ UNCHANGED <<ch, after, spaces, blit, screen>>

-----------------------------------------------------------------------------
(***************************************************************************)
(* _putc.                                                                  *)
(***************************************************************************)
\* (Bound: a call begins while a line is left.)
Call(c) ==
    /\ pc = "idle" /\ tty.tail_line < MaxTail
    /\ ch' = c /\ Goto("follow")
    /\ UNCHANGED <<tty, after, spaces, blit, screen>>

\* The body of the switch, by character.
PutNewline ==
    /\ pc = "body" /\ ch = NL
    /\ tty' = [tty EXCEPT !.x = 0]
    /\ after' = "fix" /\ Goto("row")
    /\ UNCHANGED <<ch, spaces, blit, screen>>

PutReturn ==
    /\ pc = "body" /\ ch = CR
    /\ tty' = [tty EXCEPT !.x = 0]
    /\ Goto("fix")
    /\ UNCHANGED <<ch, after, spaces, blit, screen>>

PutTab ==
    /\ pc = "body" /\ ch = TABCHAR
    /\ spaces' = TAB - (tty.x % TAB) /\ Goto("spaces")
    /\ UNCHANGED <<tty, ch, after, blit, screen>>

PutSpaces ==
    /\ pc = "spaces"
    /\ spaces' = spaces - 1
    /\ IF spaces > 0 THEN ch' = " " /\ Goto("follow") ELSE UNCHANGED ch /\ Goto("fix")
    /\ UNCHANGED <<tty, after, blit, screen>>

PutBackspace ==
    /\ pc = "body" /\ ch = BS
    /\ tty' = IF tty.x > 0 THEN [tty EXCEPT !.x = @ - 1]
               ELSE IF tty.y > 0 THEN [tty EXCEPT !.x = SCREEN_WIDTH - 1, !.y = @ - 1]
               ELSE tty
    /\ Goto(IF tty.x > 0 \/ tty.y > 0 THEN "ring" ELSE "back")
    /\ UNCHANGED <<ch, after, spaces, blit, screen>>

PutChar ==
    /\ pc = "body" /\ ch \in Chars \cup {" "}
    /\ IF tty.x >= SCREEN_WIDTH
         THEN tty' = [tty EXCEPT !.x = 0] /\ after' = "ring" /\ Goto("row")
         ELSE Goto("ring") /\ UNCHANGED <<tty, after>>
    /\ UNCHANGED <<ch, spaces, blit, screen>>

\* putchr, first the ring, then the screen.
cell == <<IF ch = BS THEN " " ELSE ch, tty.color>>

WriteRing ==
    /\ pc = "ring"
    /\ tty' = [tty EXCEPT !.scrollbuf[ring(line_for_view_y(tty, tty.y))][tty.x] = cell]
    /\ Goto("screen")
    /\ UNCHANGED <<ch, after, spaces, blit, screen>>

WriteScreen ==
    /\ pc = "screen"
    /\ tty' = [tty EXCEPT !.screen[tty.y][tty.x] = cell]
    /\ Goto(IF ch = BS THEN "back" ELSE "caret")
    /\ UNCHANGED <<ch, after, spaces, blit, screen>>

MoveCaret ==
    /\ pc = "caret"
    /\ tty' = [tty EXCEPT !.x = @ + 1]
    /\ Goto("fix")
    /\ UNCHANGED <<ch, after, spaces, blit, screen>>

BackCursor ==
    /\ pc = "back"
    /\ Access(move_cursor(tty.x, tty.y), {"place"}, "fix")
    /\ UNCHANGED <<tty, ch, spaces, blit, crtc, torn, bad>>

\* Mutant: the caret may stand one column past the last.
Fixup_late ==
    /\ pc = "fix"
    /\ IF tty.x > SCREEN_WIDTH
         THEN tty' = [tty EXCEPT !.x = 0] /\ after' = "cursor" /\ Goto("row")
         ELSE Goto("cursor") /\ UNCHANGED <<tty, after>>
    /\ UNCHANGED <<ch, spaces, blit, screen>>

\* The post-fixup.  A caret past the last column goes to the next row.
Fixup ==
    /\ pc = "fix"
    /\ IF tty.x >= SCREEN_WIDTH
         THEN tty' = [tty EXCEPT !.x = 0] /\ after' = "cursor" /\ Goto("row")
         ELSE Goto("cursor") /\ UNCHANGED <<tty, after>>
    /\ UNCHANGED <<ch, spaces, blit, screen>>

Finish ==
    /\ pc = "cursor"
    /\ Access(move_cursor(tty.x, tty.y), {"place"}, IF spaces >= 0 THEN "spaces" ELSE "idle")
    /\ UNCHANGED <<tty, ch, spaces, blit, crtc, torn, bad>>

Putc ==
    \/ \E c \in Chars \cup {" ", NL, CR, TABCHAR, BS} : Call(c)
    \/ Follow \/ Bottom
    \/ PutNewline \/ PutReturn \/ PutTab \/ PutSpaces \/ PutBackspace \/ PutChar
    \/ WriteRing \/ WriteScreen \/ MoveCaret \/ BackCursor \/ Fixup \/ Finish
    \/ NextRow \/ AdvanceTail \/ AdvanceCount \/ AdvanceClear
    \/ Blit \/ CopyRow \/ ShowCursor \/ Port

-----------------------------------------------------------------------------
(***************************************************************************)
(* terminal_clear_screen.  (terminal_set_color is one store, which each    *)
(* call reads once: Tty and Shell have it.)                                *)
(***************************************************************************)
Store(from, to, t) ==
    /\ pc = from /\ Goto(to) /\ tty' = t
    /\ UNCHANGED <<ch, after, spaces, blit, screen>>

ClearTail   == Store("idle", "clear count", [tty EXCEPT !.tail_line = 0])
ClearCount  == Store("clear count", "clear offset", [tty EXCEPT !.sb_count = 1])
ClearOffset == Store("clear offset", "clear line", [tty EXCEPT !.view_offset = 0])
ClearLine   == Store("clear line", "fill", sb_clear_line(tty, 0))

FillRow ==
    /\ pc = "fill"
    /\ tty' = [tty EXCEPT !.screen[blit.row] = BlankLine(tty)]
    /\ IF blit.row < SCREEN_HEIGHT - 1
         THEN blit' = [blit EXCEPT !.row = @ + 1] /\ UNCHANGED <<pc, torn>>
         ELSE blit' = NoBlit /\ torn' = ~blit.clean /\ Goto("home")
    /\ UNCHANGED <<ch, after, spaces, crtc, ports, heals, bad>>

\* screen_x, then screen_y, which the handler does not read, and the cursor.
Home ==
    /\ pc = "home"
    /\ tty' = [tty EXCEPT !.x = 0, !.y = 0]
    /\ Access(enable_cursor \o move_cursor(0, 0), {"shape", "place"}, "idle")
    /\ UNCHANGED <<ch, spaces, blit, crtc, torn, bad>>

ClearScreen ==
    ClearTail \/ ClearCount \/ ClearOffset \/ ClearLine \/ FillRow \/ Home

-----------------------------------------------------------------------------
(***************************************************************************)
(* The interrupt: a scroll key that moves the view or, Home and End,       *)
(* redraws it anyway.  A redraw before the last accesses of a call may be  *)
(* mixed with the call's own.                                              *)
(***************************************************************************)
Scrolled ==
    { [tty EXCEPT !.view_offset = clamp(tty.view_offset + delta, max_view_offset(tty))] :
        delta \in {-SCREEN_HEIGHT, -1, 1, SCREEN_HEIGHT} } \ {tty}

Ended == { [tty EXCEPT !.view_offset = n] : n \in {0, max_view_offset(tty)} }

ScrollIrq ==
    /\ \E t \in Scrolled \cup Ended :
         /\ tty' = [blit_view(t) EXCEPT !.cursor = tty.cursor, !.cursor_on = tty.cursor_on]
         /\ crtc' = Run(crtc, blit_cursor(t.x, cursor_row(t), t.view_offset))
    /\ torn' = (pc # "idle" /\ ~(pc = "cursor" /\ spaces < 0)
                            /\ ~(pc = "ports" /\ after = "idle"))
    /\ IF pc = "ports" THEN heals' = {} /\ bad' = {"place", "shape"}
                       ELSE UNCHANGED heals /\ bad' = {"place"}
    /\ blit' = [blit EXCEPT !.clean = @ /\ pc \notin {"copy", "show", "fill"}]
    /\ UNCHANGED <<pc, ch, after, spaces, ports>>

-----------------------------------------------------------------------------
IrqInit ==
    /\ Init /\ pc = "idle" /\ ch = NL /\ after = "idle" /\ spaces = -1
    /\ blit = NoBlit /\ ports = <<>> /\ heals = {} /\ torn = FALSE /\ bad = {}
    /\ crtc = Run([index |-> "lo", reg |-> [r \in {"start", "end", "hi", "lo"} |-> 0]],
                  enable_cursor \o move_cursor(0, 0))

IrqNext == Putc \/ ClearScreen \/ ScrollIrq

IrqSpec == IrqInit /\ [][IrqNext]_vars

-----------------------------------------------------------------------------
Byte == 0..(BYTE - 1)

IrqTypeOK ==
    /\ tty \in Console
    /\ tty.x = SCREEN_WIDTH => pc = "fix"
    /\ spaces \in -1..TAB
    /\ crtc.index \in DOMAIN crtc.reg /\ \A r \in DOMAIN crtc.reg : crtc.reg[r] \in Byte
    /\ pc = "ports" <=> ports # <<>>

\* With a key between any two steps, the view and the redraw under way stay
\* within the stored lines, though the handler uses tail_line and sb_count
\* between their updates.  Only while a clear has reset tail_line and not yet
\* view_offset may blit_view's differences wrap around.
ViewWindowIrq ==
    /\ pc \in {"clear count", "clear offset"} \/ ViewWindow
    /\ blit.start \in 0..tty.tail_line /\ blit.row \in 0..SCREEN_HEIGHT

\* The damage a key can do is bounded: between calls, the screen is the
\* window of view_offset, or the last redraw that finished was itself
\* interrupted, or a key came in the call since; a redraw left alone repairs it.
DamageConfined == pc = "idle" /\ ~torn => ScreenMirrors

\* So is the damage to the cursor (tty.c:32, :40, index and data in two
\* instructions): the registers hold the caret once a last set_cursor was not
\* interrupted, and the cursor is hidden exactly while the user looks at older
\* lines once the last redraw's accesses were not.
CursorConfined ==
    pc = "idle" =>
      /\ "place" \notin bad =>
           crtc.reg["hi"] * BYTE + crtc.reg["lo"] = tty.y * SCREEN_WIDTH + tty.x
      /\ ~torn /\ "shape" \notin bad =>
           ((crtc.reg["start"] \div CURSOR_OFF) % 2 = 1 <=> tty.view_offset # 0)

\* Stored lines are never altered, except the caret's own line, until they
\* leave the ring or the screen is cleared: the text scrolled to is the text
\* that was printed, whenever the user scrolls.
HistoryKeptIrq ==
    [][pc # "clear line" =>
         \A n \in oldest(tty')..tty.tail_line :
           n \in {caret_line(tty), caret_line(tty')}
             \/ tty'.scrollbuf[ring(n)] = tty.scrollbuf[ring(n)]]_vars
=============================================================================
