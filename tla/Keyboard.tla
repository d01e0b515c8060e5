------------------------------ MODULE Keyboard ------------------------------
(***************************************************************************)
(* The keyboard driver of src/arch/i686/drivers/keyboard.c.                *)
(*                                                                         *)
(* Three parties: the keyboard, whose bytes wait on wire; IRQ 1, whose     *)
(* handler runs to its end (interrupts are off in it); and the main        *)
(* program, whose keyboard_getchar the handler may interrupt between the   *)
(* emptiness test, the read of the slot and the move of kbd_tail.          *)
(*                                                                         *)
(* A byte is a record: its key, whether it is a break code, whether it is  *)
(* the second byte of an E0 pair, and the state of the modifiers when it   *)
(* was sent (held and caps; the driver never looks at these three).        *)
(***************************************************************************)
EXTENDS Integers, Sequences, FiniteSets

CONSTANTS KBD_BUFFER_SIZE, \* 256
          Letters,         \* keys with a..z in kbdus
          Others,          \* keys with any other character in kbdus
          Shifts,          \* the two shift keys
          NavKeys,         \* Up, Down, Page Up, Page Down, Home, End
          MaxWire,         \* bound: bytes sent and not yet read
          None             \* the -1 of keyboard_getchar

ASSUME KeyboardAssumption ==
    /\ KBD_BUFFER_SIZE \in Nat \ {0, 1} /\ MaxWire \in Nat
    /\ IsFiniteSet(Shifts) /\ Cardinality(Shifts) <= 2
    /\ (Letters \cup Others) \cap (Shifts \cup NavKeys \cup {"Caps", "E0"}) = {}
    /\ (Shifts \cup NavKeys) \cap {"Caps", "E0"} = {}
    /\ None \notin (Letters \cup Others) \X BOOLEAN

VARIABLES
    wire, held, caps,                               \* keyboard
    shift_pressed, capslock_enabled, ext_prefix,    \* driver
    kbd_buf, kbd_head, kbd_tail,
    pc, c, out                                      \* keyboard_getchar

devVars  == <<wire, held, caps>>
modVars  == <<shift_pressed, capslock_enabled, ext_prefix>>
ringVars == <<kbd_buf, kbd_head, kbd_tail>>
mainVars == <<pc, c, out>>
vars == <<devVars, modVars, ringVars, mainVars>>

Keys == Letters \cup Others
Char == Keys \X BOOLEAN     \* a key and whether its shifted character is meant
Slot == 0..(KBD_BUFFER_SIZE - 1)

Byte == [key : Keys \cup Shifts \cup NavKeys \cup {"Caps", "E0"},
         brk : BOOLEAN, ext : BOOLEAN, held : SUBSET Shifts, caps : BOOLEAN]

Init ==
    /\ wire = <<>> /\ held = {} /\ caps = FALSE
    /\ shift_pressed = FALSE /\ capslock_enabled = FALSE /\ ext_prefix = FALSE
    /\ kbd_buf = [i \in Slot |-> None]     \* zeroed
    /\ kbd_head = 0 /\ kbd_tail = 0
    /\ pc = "call" /\ c = None /\ out = None

-----------------------------------------------------------------------------
(***************************************************************************)
(* The keyboard.  Around a navigation key pressed with a shift held it     *)
(* sends fake codes of that shift behind an E0; a key held down repeats    *)
(* its make code.                                                          *)
(***************************************************************************)
Code(k, b) == [key |-> k, brk |-> b, ext |-> FALSE, held |-> {}, caps |-> FALSE]

Ext(k, b) == <<Code("E0", FALSE), [Code(k, b) EXCEPT !.ext = TRUE]>>

Send(bytes) ==
    /\ Len(wire) + Len(bytes) <= MaxWire
    /\ wire' = wire \o bytes
    /\ UNCHANGED <<modVars, ringVars, mainVars>>

PressKey(k) ==
    /\ Send(<<[Code(k, FALSE) EXCEPT !.held = held, !.caps = caps]>>)
    /\ UNCHANGED <<held, caps>>

ReleaseKey(k) == Send(<<Code(k, TRUE)>>) /\ UNCHANGED <<held, caps>>

PressShift(s) ==
    /\ Send(<<Code(s, FALSE)>>)
    /\ held' = held \cup {s}
    /\ UNCHANGED caps

ReleaseShift(s) ==
    /\ s \in held
    /\ Send(<<Code(s, TRUE)>>)
    /\ held' = held \ {s}
    /\ UNCHANGED caps

PressCaps ==
    /\ Send(<<Code("Caps", FALSE)>>)
    /\ caps' = ~caps
    /\ UNCHANGED held

NavKey(n, b) == Send(Ext(n, b)) /\ UNCHANGED <<held, caps>>

FakeShift(s, b) == s \in held /\ Send(Ext(s, b)) /\ UNCHANGED <<held, caps>>

Keyboard ==
    \/ \E k \in Keys : PressKey(k) \/ ReleaseKey(k)
    \/ \E s \in Shifts : PressShift(s) \/ ReleaseShift(s)
    \/ PressCaps
    \/ \E n \in NavKeys, b \in BOOLEAN : NavKey(n, b)
    \/ \E s \in Shifts, b \in BOOLEAN : FakeShift(s, b)

-----------------------------------------------------------------------------
\* Mutant: the index is not wrapped around.
after_end(i) == i + 1

after(i) == (i + 1) % KBD_BUFFER_SIZE

kbd_empty == kbd_head = kbd_tail

\* Mutant: the slot before the tail is not kept free.
kbd_full_late == FALSE

\* Mutant: one more slot than needed is kept free.
kbd_full_early == after(kbd_head) = kbd_tail \/ after(after(kbd_head)) = kbd_tail

kbd_full == after(kbd_head) = kbd_tail

kbd_put(ch) ==
    IF kbd_full THEN UNCHANGED ringVars
    ELSE /\ kbd_buf' = [kbd_buf EXCEPT ![kbd_head] = ch]
         /\ kbd_head' = after(kbd_head)
         /\ UNCHANGED kbd_tail

kbd_translate(k) ==
    IF k \in Letters THEN <<k, shift_pressed # capslock_enabled>>
                     ELSE <<k, shift_pressed>>

(***************************************************************************)
(* keyboard_handler, one branch per early return.                          *)
(***************************************************************************)
Prefix(b) ==
    /\ b.key = "E0"
    /\ ext_prefix' = TRUE
    /\ UNCHANGED <<shift_pressed, capslock_enabled, ringVars>>

\* Mutant: the prefix flag survives the break code of an extended key.
Extended_keeps(b) ==
    /\ b.key # "E0" /\ ext_prefix
    /\ ext_prefix' = b.brk
    /\ UNCHANGED <<shift_pressed, capslock_enabled, ringVars>>

\* The second byte of an E0 pair; the scroll call of a navigation key changes
\* only the console (ScrollIrq of TtyIrq).
Extended(b) ==
    /\ b.key # "E0" /\ ext_prefix
    /\ ext_prefix' = FALSE
    /\ UNCHANGED <<shift_pressed, capslock_enabled, ringVars>>

Release(b) ==
    /\ b.key # "E0" /\ ~ext_prefix /\ b.brk
    /\ shift_pressed' = (shift_pressed /\ b.key \notin Shifts)
    /\ UNCHANGED <<capslock_enabled, ext_prefix, ringVars>>

Press(b) ==
    /\ b.key # "E0" /\ ~ext_prefix /\ ~b.brk
    /\ shift_pressed' = (shift_pressed \/ b.key \in Shifts)
    /\ capslock_enabled' = (capslock_enabled # (b.key = "Caps"))
    /\ IF b.key \in Keys THEN kbd_put(kbd_translate(b.key)) ELSE UNCHANGED ringVars
    /\ UNCHANGED ext_prefix

keyboard_handler ==
    /\ wire # <<>>
    /\ wire' = Tail(wire)
    /\ LET b == Head(wire) IN Prefix(b) \/ Extended(b) \/ Release(b) \/ Press(b)
    /\ UNCHANGED <<held, caps, mainVars>>

-----------------------------------------------------------------------------
(***************************************************************************)
(* keyboard_getchar, called again and again by the main program.           *)
(***************************************************************************)
GetEmpty ==
    /\ pc = "call" /\ kbd_empty
    /\ out' = None
    /\ UNCHANGED <<devVars, modVars, ringVars, pc, c>>

GetSome ==
    /\ pc = "call" /\ ~kbd_empty
    /\ pc' = "read"
    /\ UNCHANGED <<devVars, modVars, ringVars, c, out>>

GetRead ==
    /\ pc = "read"
    /\ c' = kbd_buf[kbd_tail]
    /\ pc' = "advance"
    /\ UNCHANGED <<devVars, modVars, ringVars, out>>

GetAdvance ==
    /\ pc = "advance"
    /\ kbd_tail' = after(kbd_tail)
    /\ out' = c
    /\ pc' = "call"
    /\ c' = None
    /\ UNCHANGED <<devVars, modVars, kbd_buf, kbd_head>>

Getchar == GetEmpty \/ GetSome \/ GetRead \/ GetAdvance

Next == Keyboard \/ keyboard_handler \/ Getchar

Spec == Init /\ [][Next]_vars

-----------------------------------------------------------------------------
TypeOK ==
    /\ wire \in Seq(Byte) /\ Len(wire) <= MaxWire
    /\ held \subseteq Shifts /\ caps \in BOOLEAN
    /\ {shift_pressed, capslock_enabled, ext_prefix} \subseteq BOOLEAN
    /\ kbd_buf \in [Slot -> Char \cup {None}] /\ {kbd_head, kbd_tail} \subseteq Slot
    /\ pc \in {"call", "read", "advance"} /\ {c, out} \subseteq Char \cup {None}

\* Whatever waits on the wire, a key is translated with the modifiers in force
\* when it was pressed: unshifted if no shift was held, shifted if both were,
\* caps lock inverting letters only.  (With one shift held the driver may
\* believe neither is: the release of the other clears its single flag.)
CaseAsTyped ==
    [][LET b == Head(wire)
           lock == b.key \in Letters /\ b.caps
       IN kbd_head' # kbd_head =>
            LET ch == kbd_buf'[kbd_head] IN
              /\ ch[1] = b.key
              /\ b.held = {} => ch[2] = lock
              /\ Cardinality(b.held) = 2 => ch[2] # lock]_vars

\* The characters waiting, oldest first.
Waiting ==
    [i \in 1..((kbd_head - kbd_tail) % KBD_BUFFER_SIZE) |->
       kbd_buf[(kbd_tail + i - 1) % KBD_BUFFER_SIZE]]

Queue == INSTANCE BoundedQueue WITH Cap <- KBD_BUFFER_SIZE - 1, q <- Waiting

\* The ring, written by the handler in the middle of keyboard_getchar, is a
\* first-in first-out queue: no character is returned twice, out of order or
\* torn, and -1 is answered only at a moment when nothing waits.
ImplementsQueue == Queue!Spec

\* A pressed key is discarded only when 255 characters wait.
DropsOnlyWhenFull ==
    [][keyboard_handler /\ Head(wire).key \in Keys /\ ~Head(wire).brk
         => kbd_head' # kbd_head \/ Len(Waiting) = KBD_BUFFER_SIZE - 1]_vars
=============================================================================
