------------------------------- MODULE OutBuf -------------------------------
(***************************************************************************)
(* Formatted output, src/libk/stdio/vfprintf_fd.c: the parser of the       *)
(* format, which takes one character per step, and the buffered sink that  *)
(* passes full buffers to write.                                           *)
(*                                                                         *)
(* ap holds the variable arguments as the caller pushed them, in words; a  *)
(* long long is two, the low one first.  A word is the argument of %c and  *)
(* %s through what it stands for, Chr and Text.                            *)
(***************************************************************************)
EXTENDS Integers, Sequences

CONSTANTS OUTBUF_CAP,   \* 512
          WORD,         \* 2^32
          Chr, Text,    \* character and string of a word; Text[0] is "(null)"
          Formats,      \* formats passed
          Args          \* argument lists passed, long enough for each format
                        \* (no directive takes more words than half its length)

ASSUME OutBufAssumption ==
    /\ {OUTBUF_CAP, WORD} \subseteq Nat \ {0}
    /\ Chr \in [0..(WORD - 1) -> STRING]
    /\ Text \in [0..(WORD - 1) -> Seq(STRING)]
    /\ Formats \subseteq Seq(STRING) /\ Args \subseteq Seq(0..(WORD - 1))
    /\ \A f \in Formats, a \in Args : Len(f) <= 2 * Len(a)

VARIABLES
    call,     \* the arguments of vfprintf_fd: fmt, ap, and whether fd can be written
    fmt, ap,  \* what is left of them
    state, len,
    todo,     \* what the current conversion has still to put, by ob_puts and by ob_putc
    ob,       \* the outbuf_t
    out,      \* what write has taken
    pc, ret

vars == <<call, fmt, ap, state, len, todo, ob, out, pc, ret>>

ob_init == [buf |-> <<>>, total |-> 0, err |-> FALSE]
Nothing == [puts |-> <<>>, putc |-> <<>>]

\* A call of vfprintf_fd; calls share nothing.
Init ==
    /\ call \in [fmt : Formats, ap : Args, writable : BOOLEAN]
    /\ fmt = call.fmt /\ ap = call.ap
    /\ state = "NORMAL" /\ len = "DEF" /\ todo = Nothing
    /\ ob = ob_init /\ out = <<>>
    /\ pc = "format" /\ ret = 0

-----------------------------------------------------------------------------
\* The sink.  A store past OUTBUF_CAP makes buf longer than the array.
Flushes(o) == ~o.err /\ o.buf # <<>>

ob_flush(o) ==
    IF ~Flushes(o) THEN o
    ELSE IF call.writable THEN [o EXCEPT !.total = @ + Len(o.buf), !.buf = <<>>]
    ELSE [o EXCEPT !.err = TRUE]

\* What write hands on when o is flushed: a bad descriptor answers -1, the
\* console takes everything.
write(o) == IF Flushes(o) /\ call.writable THEN out \o o.buf ELSE out

\* Mutant: the buffer is flushed one character late.
ob_room_late(o) == Len(o.buf) > OUTBUF_CAP

ob_full(o) == Len(o.buf) = OUTBUF_CAP

ObPutc ==
    /\ pc = "format" /\ todo.puts = <<>> /\ todo.putc # <<>>
    /\ LET o == IF ob_full(ob) THEN ob_flush(ob) ELSE ob
       IN  ob' = [o EXCEPT !.buf = Append(@, Head(todo.putc))]
    /\ out' = IF ob_full(ob) THEN write(ob) ELSE out
    /\ todo' = [todo EXCEPT !.putc = Tail(@)]
    /\ UNCHANGED <<call, fmt, ap, state, len, pc, ret>>

\* One round of ob_write's loop: as much as there is room for; past the end
\* the room, a difference below zero, is taken modulo 2^32 and all of it fits.
\* n goes down by what is stored and s stays: the next round begins at the
\* string's start again.
ObWrite ==
    /\ pc = "format" /\ todo.puts # <<>>
    /\ LET n     == Len(todo.puts)
           space == IF ob_full(ob) THEN OUTBUF_CAP
                    ELSE IF Len(ob.buf) > OUTBUF_CAP THEN n
                    ELSE OUTBUF_CAP - Len(ob.buf)
           chunk == IF n < space THEN n ELSE space
           o     == IF ob_full(ob) THEN ob_flush(ob) ELSE ob
       IN  /\ ob' = [o EXCEPT !.buf = @ \o SubSeq(todo.puts, 1, chunk)]
           /\ todo' = [todo EXCEPT !.puts = SubSeq(@, 1, n - chunk)]
    /\ out' = IF ob_full(ob) THEN write(ob) ELSE out
    /\ UNCHANGED <<call, fmt, ap, state, len, pc, ret>>

-----------------------------------------------------------------------------
\* Numbers.
HEX_LOWER == <<"0", "1", "2", "3", "4", "5", "6", "7", "8", "9",
               "a", "b", "c", "d", "e", "f">>
HEX_UPPER == <<"0", "1", "2", "3", "4", "5", "6", "7", "8", "9",
               "A", "B", "C", "D", "E", "F">>

ob_put_u64(value, radix, hex) ==
    LET digits[v \in Nat] ==
          IF v < radix THEN <<hex[v + 1]>>
          ELSE Append(digits[v \div radix], hex[(v % radix) + 1])
    IN  digits[value]

\* value in two's complement of the given modulus.  The code's -v overflows for
\* the most negative long long and wraps around to its absolute value, -v here.
Signed(value, modulus) == IF 2 * value >= modulus THEN value - modulus ELSE value

ob_put_s64(value, radix, hex) ==
    IF value < 0 THEN <<"-">> \o ob_put_u64(-value, radix, hex)
                 ELSE ob_put_u64(value, radix, hex)

Numbers == {"d", "i", "u", "x", "X", "o"}
radix(c) == CASE c \in {"d", "i", "u"} -> 10 [] c \in {"x", "X"} -> 16 [] c = "o" -> 8

\* Words the conversion takes from ap.
va_words(c) ==
    IF c \in Numbers THEN (IF len = "LL" THEN 2 ELSE 1)
    ELSE IF c \in {"c", "s", "p"} THEN 1 ELSE 0

Number(c) ==
    LET wide  == va_words(c) = 2
        value == IF wide THEN ap[1] + WORD * ap[2] ELSE ap[1]
        hex   == IF c = "X" THEN HEX_UPPER ELSE HEX_LOWER
    IN  IF c \in {"d", "i"}
          THEN ob_put_s64(Signed(value, IF wide THEN WORD * WORD ELSE WORD), radix(c), hex)
          ELSE ob_put_u64(value, radix(c), hex)

\* An unknown character converts to nothing.
Convert(c) ==
    CASE c = "c" -> [Nothing EXCEPT !.putc = <<Chr[ap[1]]>>]
      [] c = "s" -> [Nothing EXCEPT !.puts = Text[ap[1]]]
      [] c = "%" -> [Nothing EXCEPT !.putc = <<"%">>]
      [] c = "p" -> [puts |-> <<"0", "x">>, putc |-> ob_put_u64(ap[1], 16, HEX_LOWER)]
      [] c \in Numbers -> [Nothing EXCEPT !.putc = Number(c)]
      [] OTHER -> Nothing

-----------------------------------------------------------------------------
(***************************************************************************)
(* The switch over state, for the next character of the format.            *)
(***************************************************************************)
Normal(c) ==
    /\ state = "NORMAL"
    /\ IF c = "%" THEN state' = "LENGTH" /\ UNCHANGED todo
                  ELSE todo' = [Nothing EXCEPT !.putc = <<c>>] /\ UNCHANGED state
    /\ UNCHANGED <<ap, len>>

\* A length character moves on to the next state of the prefix.
Length(c, from, char, to, l) ==
    /\ state = from /\ c = char
    /\ state' = to /\ len' = l
    /\ UNCHANGED <<ap, todo>>

\* Mutant: the length is not reset after the conversion.
Specifier_keeps(c) ==
    /\ \/ state = "SPEC"
       \/ state = "LENGTH" /\ c \notin {"h", "l"}
       \/ state = "LENGTH_SHORT" /\ c # "h"
       \/ state = "LENGTH_LONG" /\ c # "l"
    /\ todo' = Convert(c)
    /\ ap' = SubSeq(ap, va_words(c) + 1, Len(ap))
    /\ state' = "NORMAL" /\ UNCHANGED len

Specifier(c) ==
    /\ \/ state = "SPEC"
       \/ state = "LENGTH" /\ c \notin {"h", "l"}
       \/ state = "LENGTH_SHORT" /\ c # "h"
       \/ state = "LENGTH_LONG" /\ c # "l"
    /\ todo' = Convert(c)
    /\ ap' = SubSeq(ap, va_words(c) + 1, Len(ap))
    /\ state' = "NORMAL" /\ len' = "DEF"

Parse ==
    /\ pc = "format" /\ todo = Nothing /\ fmt # <<>>
    /\ LET c == Head(fmt) IN
         \/ Normal(c)
         \/ Length(c, "LENGTH", "h", "LENGTH_SHORT", "H")
         \/ Length(c, "LENGTH", "l", "LENGTH_LONG", "L")
         \/ Length(c, "LENGTH_SHORT", "h", "SPEC", "HH")
         \/ Length(c, "LENGTH_LONG", "l", "SPEC", "LL")
         \/ Specifier(c)
    /\ fmt' = Tail(fmt)
    /\ UNCHANGED <<call, ob, out, pc, ret>>

Return ==
    /\ pc = "format" /\ todo = Nothing /\ fmt = <<>>
    /\ ob' = ob_flush(ob) /\ out' = write(ob)
    /\ ret' = IF ob'.err THEN -1 ELSE ob'.total
    /\ pc' = "returned"
    /\ UNCHANGED <<call, fmt, ap, state, len, todo>>

Returned == pc = "returned" /\ UNCHANGED vars

vfprintf_fd == Parse \/ ObPutc \/ ObWrite \/ Return

Next == vfprintf_fd \/ Returned

Spec == Init /\ [][Next]_vars

-----------------------------------------------------------------------------
\* As long as write succeeds, nothing is stored past the end of buf, and total
\* is what has been flushed.  (After a failed write the buffer stays full and
\* the next character is stored behind it, vfprintf_fd.c:42.)
BufferHolds == ~ob.err => Len(ob.buf) <= OUTBUF_CAP /\ ob.total = Len(out)
=============================================================================
