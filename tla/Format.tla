------------------------------- MODULE Format -------------------------------
(***************************************************************************)
(* What a format means, without states or a buffer, and what is written of *)
(* it: the property of vfprintf_fd as a whole.                             *)
(***************************************************************************)
EXTENDS OutBuf

\* The numeral of v: the fewest digits that denote it.
Numeral(v, r, hex) ==
    LET power[i \in 0..(v + 1)] == IF i = 0 THEN 1 ELSE r * power[i - 1]
        n == CHOOSE n \in 1..(v + 1) : v < power[n] /\ (n = 1 \/ v >= power[n - 1])
    IN  [i \in 1..n |-> hex[((v \div power[n - i]) % r) + 1]]

Long(prefix) == prefix = <<"l", "l">>

\* A text, each character with its place in the string put as a whole, or 0.
Single(s) == [i \in DOMAIN s |-> [char |-> s[i], place |-> 0]]
Whole(s) == [i \in DOMAIN s |-> [char |-> s[i], place |-> i]]

Meaning(c, prefix, a, k) ==
    LET big == Long(prefix)
        v   == a[k] + (IF big THEN WORD * a[k + 1] ELSE 0)
        top == IF big THEN WORD * WORD ELSE WORD
    IN  CASE c = "c" -> Single(<<Chr[a[k]]>>)
          [] c = "s" -> Whole(Text[a[k]])
          [] c = "%" -> Single(<<c>>)
          [] c = "p" -> Whole(<<"0", "x">>) \o Single(Numeral(a[k], 16, HEX_LOWER))
          [] c \in {"d", "i"} /\ 2 * v < top -> Single(Numeral(v, 10, HEX_LOWER))
          [] c \in {"d", "i"} /\ 2 * v >= top ->
               Single(<<"-">> \o Numeral(top - v, 10, HEX_LOWER))
          [] c = "u" -> Single(Numeral(v, 10, HEX_LOWER))
          [] c = "x" -> Single(Numeral(v, 16, HEX_LOWER))
          [] c = "X" -> Single(Numeral(v, 16, HEX_UPPER))
          [] c = "o" -> Single(Numeral(v, 8, HEX_LOWER))
          [] OTHER -> <<>>

Taken(c, prefix) ==
    IF c \in Numbers THEN (IF Long(prefix) THEN 2 ELSE 1)
    ELSE IF c \in {"c", "s", "p"} THEN 1 ELSE 0

\* The longest length prefix that stands at position i of format f.
Prefixes == {<<>>, <<"h">>, <<"l">>, <<"h", "h">>, <<"l", "l">>}
Matches(f, i, p) == \A n \in DOMAIN p : i + n - 1 <= Len(f) /\ p[n] = f[i + n - 1]
LengthPrefix(f, i) ==
    LET here == {p \in Prefixes : Matches(f, i, p)}
    IN  CHOOSE p \in here : \A q \in here : Len(q) <= Len(p)

\* The texts of format f with arguments a, read from position i and argument k:
\* a directive is %, the longest length prefix that follows, and one character.
TextFrom(f, a) ==
    LET text[i \in 1..(Len(f) + 2)] ==
          [k \in 1..(Len(a) + 1) |->
             IF i > Len(f) THEN <<>>
             ELSE IF f[i] # "%" THEN Single(<<f[i]>>) \o text[i + 1][k]
             ELSE LET p == LengthPrefix(f, i + 1)
                      j == i + 1 + Len(p)
                  IN  IF j > Len(f) THEN <<>>
                      ELSE Meaning(f[j], p, a, k) \o text[j + 1][k + Taken(f[j], p)]]
    IN  text

Expected(f, a) == TextFrom(f, a)[1][1]

-----------------------------------------------------------------------------
\* Character i of the text as it is written.  In a string the end of a buffer
\* interrupts, what follows is the string's start again (see ObWrite).
Written(text, i) ==
    LET start == i - text[i].place
        first == OUTBUF_CAP - (start % OUTBUF_CAP)
        again == (text[i].place - first - 1) % OUTBUF_CAP
    IN  IF text[i].place <= first \/ text[i].place = 0
          THEN text[i].char ELSE text[start + again + 1].char

\* The text of a format is written once and in order, whatever part of it each
\* buffer takes, and vfprintf_fd returns its length; with a descriptor that
\* cannot be written it returns -1 exactly if there was something to write.
\* (Only of a string across the end of a buffer the part behind it is wrong,
\* vfprintf_fd.c:53.  Nothing is claimed of a text that does not fit the
\* buffer and cannot be written: BufferHolds.)
Printed ==
    pc = "returned" =>
      LET text == Expected(call.fmt, call.ap) IN
        IF call.writable \/ text = <<>>
          THEN out = [i \in DOMAIN text |-> Written(text, i)] /\ ret = Len(text)
          ELSE Len(text) <= OUTBUF_CAP => out = <<>> /\ ret = -1
=============================================================================
