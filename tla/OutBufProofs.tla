----------------------------- MODULE OutBufProofs -----------------------------
(***************************************************************************)
(* vfprintf_fd, for every format and arguments, and every size of a word   *)
(* and of the buffer: nothing is stored past the buffer's end, what is     *)
(* answered is what was written, and what is written is what the format    *)
(* means.                                                                  *)
(***************************************************************************)
EXTENDS Format, SequenceTheorems, WellFoundedInduction, TLAPS

-----------------------------------------------------------------------------
(***************************************************************************)
(* Numbers, by least elements.                                             *)
(***************************************************************************)
LEMMA LessIsWellFounded == IsWellFoundedOn({ss \in Nat \X Nat : ss[1] < ss[2]}, Nat)
BY NatLessThanWellFounded DEF OpToRel

LEMMA Least ==
  ASSUME NEW T, T \subseteq Nat, T # {}
  PROVE  \E x \in T : \A y \in T : x <= y
<1> DEFINE R == {ss \in Nat \X Nat : ss[1] < ss[2]}
<1>1. IsWellFoundedOn(R, Nat)  BY LessIsWellFounded
<1> HIDE DEF R
<1>2. PICK x \in T : \A y \in T : ~ (<<y, x>> \in R)  BY <1>1, WFMin
<1>3. \A y \in T : ~(y < x)  BY <1>2 DEF R
<1> QED BY <1>3

\* A function whose value at i is made from that at i - 1.
Recurs(f, n, b, c, h) == f = [i \in 0..n |-> IF i <= b THEN c ELSE h[i][f[i - 1]]]

LEMMA StepsExist ==
  ASSUME NEW n \in Nat, NEW b \in Nat, NEW R, NEW c \in R, NEW h,
         \A i \in 1..n : \A x \in R : h[i][x] \in R
  PROVE  \E f : Recurs(f, n, b, c, h) /\ \A i \in 0..n : f[i] \in R
<1> DEFINE Next_(f, i) == IF i <= b THEN c ELSE h[i][f[i - 1]]
           Has(k) == \E f : /\ f = [i \in 0..k |-> f[i]]
                            /\ \A i \in 0..k : f[i] \in R /\ f[i] = Next_(f, i)
           T == {k \in 0..n : ~Has(k)}
<1>1. T = {}
  <2>1. SUFFICES ASSUME T # {} PROVE FALSE
    OBVIOUS
  <2>2. PICK k \in T : \A l \in T : k <= l
    <3>1. T \subseteq Nat  OBVIOUS
    <3> HIDE DEF T
    <3> QED BY <2>1, <3>1, Least
  <2>3. k \in 0..n /\ ~Has(k)
    <3> HIDE DEF Has
    <3> QED BY <2>2
  <2>4. k # 0
    <3> SUFFICES ASSUME k = 0 PROVE Has(k)
      BY <2>3
    <3> DEFINE f == [i \in 0..k |-> c]
    <3>1. \A i \in 0..k : f[i] = c /\ i <= b  OBVIOUS
    <3>2. f = [i \in 0..k |-> f[i]]  OBVIOUS
    <3> HIDE DEF f
    <3>3. \A i \in 0..k : f[i] \in R /\ f[i] = Next_(f, i)  BY <3>1
    <3> QED BY <3>2, <3>3
  <2>5. k - 1 \in 0..n /\ k \in 1..n /\ k \in Nat /\ ~(k <= k - 1)  BY <2>3, <2>4
  <2>6. Has(k - 1)
    <3>1. k - 1 \notin T  BY <2>2, <2>5
    <3> HIDE DEF Has
    <3> QED BY <2>5, <3>1
  <2>7. PICK g : \A i \in 0..(k - 1) : g[i] \in R /\ g[i] = Next_(g, i)
    <3> HIDE DEF Next_
    <3> QED BY <2>6
  <2> DEFINE f == [i \in 0..k |-> IF i = k THEN Next_(g, k) ELSE g[i]]
  <2>8. f[k] = Next_(g, k) /\ \A i \in 0..(k - 1) : f[i] = g[i]
    <3> HIDE DEF Next_
    <3> QED BY <2>5
  <2>9. f = [i \in 0..k |-> f[i]]
    <3> HIDE DEF Next_
    <3> QED OBVIOUS
  <2> HIDE DEF f
  <2>10. \A i \in 1..k : f[i - 1] = g[i - 1]
    <3> TAKE i \in 1..k
    <3>1. i - 1 \in 0..(k - 1)  BY <2>5
    <3> QED BY <2>8, <3>1
  <2>11. ASSUME NEW i \in 0..k PROVE f[i] \in R /\ f[i] = Next_(f, i)
    <3>1. Next_(f, i) = Next_(g, i)
      <4>1. i = 0 => i <= b  OBVIOUS
      <4>2. i # 0 => i \in 1..k  BY <2>5
      <4> QED BY <2>10, <4>1, <4>2
    <3>2. CASE i = k
      <4>1. f[i] = Next_(g, i)
        <5> HIDE DEF Next_
        <5> QED BY <2>8, <3>2
      <4>2. k - 1 \in 0..(k - 1)  BY <2>5
      <4>3. g[k - 1] \in R
        <5> HIDE DEF Next_
        <5> QED BY <2>7, <4>2
      <4>4. h[k][g[k - 1]] \in R  BY <2>5, <4>3
      <4>5. Next_(g, i) \in R  BY <3>2, <4>4
      <4> HIDE DEF Next_
      <4> QED BY <3>1, <4>1, <4>5
    <3>3. CASE i # k
      <4>1. i \in 0..(k - 1)  BY <2>5, <3>3
      <4> HIDE DEF Next_
      <4> QED BY <2>7, <2>8, <3>1, <4>1
    <3> QED BY <3>2, <3>3
  <2>12. Has(k)
    <3> HIDE DEF Next_
    <3> QED BY <2>9, <2>11
  <2> HIDE DEF Has
  <2> QED BY <2>3, <2>12
<1>2. Has(n)
  <2>1. n \in 0..n  OBVIOUS
  <2> HIDE DEF Has
  <2> QED BY <1>1, <2>1
<1>3. PICK f : f = [i \in 0..n |-> f[i]] /\ \A i \in 0..n : f[i] \in R /\ f[i] = Next_(f, i)
  <2> HIDE DEF Next_
  <2> QED BY <1>2
<1>4. [i \in 0..n |-> f[i]] = [i \in 0..n |-> Next_(f, i)]
  <2> HIDE DEF Next_
  <2> QED BY <1>3
<1>5. f = [i \in 0..n |-> Next_(f, i)]
  <2> HIDE DEF Next_
  <2> QED BY <1>3, <1>4
<1>6. Recurs(f, n, b, c, h)  BY <1>5 DEF Recurs
<1>7. \A i \in 0..n : f[i] \in R
  <2> HIDE DEF Next_
  <2> QED BY <1>3
<1> QED BY <1>6, <1>7

-----------------------------------------------------------------------------
(***************************************************************************)
(* vfprintf_fd.                                                            *)
(***************************************************************************)
VaWords == 0..(WORD - 1)

\* Characters of the directive that the parser has already taken.
Depth == CASE state = "NORMAL" -> 0 [] state = "LENGTH" -> 1
           [] state \in {"LENGTH_SHORT", "LENGTH_LONG"} -> 2 [] state = "SPEC" -> 3

\* va_arg always finds a word.
Parsed ==
    /\ fmt \in Seq(STRING) /\ ap \in Seq(VaWords)
    /\ state \in {"NORMAL", "LENGTH", "LENGTH_SHORT", "LENGTH_LONG", "SPEC"}
    /\ len = "LL" => state = "SPEC"
    /\ Len(fmt) + Depth <= 2 * Len(ap)

ToPut(t) == t = [puts |-> t.puts, putc |-> t.putc] /\ \E S : t.puts \in Seq(S)

Sunk ==
    /\ call.writable \in BOOLEAN
    /\ ob = [buf |-> ob.buf, total |-> ob.total, err |-> ob.err]
    /\ ob.total \in Nat /\ ob.err \in BOOLEAN
    /\ \E S : ob.buf \in Seq(S) /\ out \in Seq(S)
    /\ ~ob.err => Len(ob.buf) <= OUTBUF_CAP /\ ob.total = Len(out)
    /\ ob.err => ~call.writable
    /\ ~call.writable => out = <<>>

\* What vfprintf_fd has answered.
HasAnswered ==
    pc = "returned" => IF call.writable THEN ret = Len(out) /\ ob.buf = <<>> ELSE out = <<>>

OInv == Parsed /\ ToPut(todo) /\ Sunk /\ HasAnswered

-----------------------------------------------------------------------------
(***************************************************************************)
(* The sink, one flush at a time.                                          *)
(***************************************************************************)
LEMMA Cap == OUTBUF_CAP \in Nat \ {0} /\ WORD \in Nat \ {0}
BY OutBufAssumption

LEMMA Flushed ==
  ASSUME Sunk
  PROVE  /\ ob_flush(ob) = [buf |-> ob_flush(ob).buf, total |-> ob_flush(ob).total,
                            err |-> ob_flush(ob).err]
         /\ ob_flush(ob).total \in Nat /\ ob_flush(ob).err \in BOOLEAN
         /\ \E S : ob_flush(ob).buf \in Seq(S) /\ write(ob) \in Seq(S)
         /\ ~ob_flush(ob).err => ob_flush(ob).buf = <<>> /\ ob_flush(ob).total = Len(write(ob))
         /\ ob_flush(ob).err => ~call.writable
         /\ ~call.writable => write(ob) = <<>>
         /\ call.writable => write(ob) = out \o ob.buf /\ ob_flush(ob).buf = <<>>
<1>1. PICK S : ob.buf \in Seq(S) /\ out \in Seq(S)
  BY DEF Sunk
<1>2. CASE ~Flushes(ob)
  <2>1. ob_flush(ob) = ob /\ write(ob) = out
    BY <1>2 DEF ob_flush, write
  <2>2. ~ob.err => ob.buf = <<>>
    BY <1>2 DEF Flushes
  <2>3. out \o <<>> = out
    BY <1>1
  <2> QED BY <1>1, <2>1, <2>2, <2>3 DEF Sunk
<1>3. CASE Flushes(ob) /\ call.writable
  <2>1. /\ ob_flush(ob) = [ob EXCEPT !.total = ob.total + Len(ob.buf), !.buf = <<>>]
        /\ write(ob) = out \o ob.buf
    BY <1>3 DEF ob_flush, write
  <2>2. /\ ob_flush(ob).total = ob.total + Len(ob.buf) /\ ob_flush(ob).buf = <<>>
        /\ ob_flush(ob).err = ob.err
        /\ ob_flush(ob) = [buf |-> <<>>, total |-> ob.total + Len(ob.buf), err |-> ob.err]
    BY <2>1 DEF Sunk
  <2>3. ~ob.err /\ ob.total = Len(out)
    BY <1>3 DEF Flushes, Sunk
  <2>4. /\ out \o ob.buf \in Seq(S) /\ Len(out \o ob.buf) = Len(out) + Len(ob.buf)
        /\ Len(ob.buf) \in Nat /\ Len(out) \in Nat /\ <<>> \in Seq(S)
    BY <1>1
  <2> DEFINE F == ob_flush(ob)
             W == write(ob)
  <2>5. F.total \in Nat /\ F.total = Len(W) /\ W \in Seq(S) /\ F.buf \in Seq(S)
    BY <2>1, <2>2, <2>3, <2>4
  <2>6. ~F.err /\ F.buf = <<>> /\ F = [buf |-> F.buf, total |-> F.total, err |-> F.err]
    BY <2>2, <2>3
  <2>7. F.err \in BOOLEAN
    BY <2>2 DEF Sunk
  <2>8. W = out \o ob.buf
    BY <2>1
  <2> HIDE DEF F, W
  <2> QED BY <1>3, <2>5, <2>6, <2>7, <2>8 DEF F, W
<1>4. CASE Flushes(ob) /\ ~call.writable
  <2>1. ob_flush(ob) = [ob EXCEPT !.err = TRUE] /\ write(ob) = out
    BY <1>4 DEF ob_flush, write
  <2>2. /\ ob_flush(ob).total = ob.total /\ ob_flush(ob).buf = ob.buf /\ ob_flush(ob).err
        /\ ob_flush(ob) = [buf |-> ob.buf, total |-> ob.total, err |-> TRUE]
    BY <2>1 DEF Sunk
  <2> QED BY <1>1, <1>4, <2>1, <2>2 DEF Sunk
<1> QED BY <1>2, <1>3, <1>4

\* The buffer before a character or a chunk is stored: it has room.
Room == IF ob_full(ob) THEN ob_flush(ob) ELSE ob
Taken_ == IF ob_full(ob) THEN write(ob) ELSE out

LEMMA RoomIs ==
  ASSUME Sunk
  PROVE  /\ Room = [buf |-> Room.buf, total |-> Room.total, err |-> Room.err]
         /\ Room.total \in Nat /\ Room.err \in BOOLEAN
         /\ \E S : Room.buf \in Seq(S) /\ Taken_ \in Seq(S)
         /\ ~Room.err => Len(Room.buf) < OUTBUF_CAP /\ Room.total = Len(Taken_)
         /\ Room.err => ~call.writable
         /\ ~call.writable => Taken_ = <<>>
         /\ call.writable => Taken_ \o Room.buf = out \o ob.buf
<1>1. PICK S : ob.buf \in Seq(S) /\ out \in Seq(S)
  BY DEF Sunk
<1>2. CASE ob_full(ob)
  <2>1. Room = ob_flush(ob) /\ Taken_ = write(ob)
    BY <1>2 DEF Room, Taken_
  <2>2. Len(<<>>) = 0 /\ 0 < OUTBUF_CAP
    BY Cap
  <2>3. (out \o ob.buf) \o <<>> = out \o ob.buf
    BY <1>1
  <2> QED BY <2>1, <2>2, <2>3, Flushed
<1>3. CASE ~ob_full(ob)
  <2>1. Room = ob /\ Taken_ = out
    BY <1>3 DEF Room, Taken_
  <2>2. Len(ob.buf) \in Nat /\ Len(ob.buf) # OUTBUF_CAP
    BY <1>1, <1>3 DEF ob_full
  <2>3. ~ob.err => Len(ob.buf) < OUTBUF_CAP
    BY <2>2, Cap DEF Sunk
  <2> QED BY <1>1, <2>1, <2>3 DEF Sunk
<1> QED BY <1>2, <1>3

-----------------------------------------------------------------------------
(***************************************************************************)
(* The invariant is inductive.                                             *)
(***************************************************************************)
LEMMA InitOInv == Init => OInv
<1> SUFFICES ASSUME Init PROVE OInv
  OBVIOUS
<1>1. /\ call.fmt \in Formats /\ call.ap \in Args /\ call.writable \in BOOLEAN
      /\ fmt = call.fmt /\ ap = call.ap /\ state = "NORMAL" /\ len = "DEF" /\ todo = Nothing
      /\ ob = ob_init /\ out = <<>> /\ pc = "format"
  BY DEF Init
<1>2. /\ fmt \in Seq(STRING) /\ ap \in Seq(VaWords) /\ Len(fmt) <= 2 * Len(ap)
  BY <1>1, OutBufAssumption DEF VaWords
<1>3. Parsed
  <2>1. Depth = 0  BY <1>1 DEF Depth
  <2> QED BY <1>1, <1>2, <2>1 DEF Parsed
<1>4. ToPut(todo)
  BY <1>1 DEF ToPut, Nothing
<1>5. Sunk
  <2>1. <<>> \in Seq(STRING) /\ Len(<<>>) = 0  OBVIOUS
  <2>2. /\ ob.buf = <<>> /\ ob.total = 0 /\ ob.err = FALSE
        /\ ob = [buf |-> <<>>, total |-> 0, err |-> FALSE]
    BY <1>1 DEF ob_init
  <2> QED BY <1>1, <2>1, <2>2, Cap DEF Sunk
<1> QED BY <1>1, <1>3, <1>4, <1>5 DEF OInv, HasAnswered

LEMMA PutcInv ==
  ASSUME OInv, ObPutc
  PROVE  /\ OInv'
         /\ call.writable => out' \o ob'.buf = Append(out \o ob.buf, Head(todo.putc))
<1> DEFINE e == Head(todo.putc)
<1>1. /\ pc = "format" /\ ob' = [Room EXCEPT !.buf = Append(Room.buf, e)] /\ out' = Taken_
      /\ todo' = [todo EXCEPT !.putc = Tail(todo.putc)]
      /\ UNCHANGED <<call, fmt, ap, state, len, pc, ret>>
  BY DEF ObPutc, Room, Taken_
<1> HIDE DEF e
<1> DEFINE R == Room
           T == Taken_
<1>2. /\ R = [buf |-> R.buf, total |-> R.total, err |-> R.err]
      /\ R.total \in Nat /\ R.err \in BOOLEAN
      /\ \E S : R.buf \in Seq(S) /\ T \in Seq(S)
      /\ ~R.err => Len(R.buf) < OUTBUF_CAP /\ R.total = Len(T)
      /\ R.err => ~call.writable
      /\ ~call.writable => T = <<>>
      /\ call.writable => T \o R.buf = out \o ob.buf
  BY RoomIs DEF OInv
<1>3. ob' = [R EXCEPT !.buf = Append(R.buf, e)] /\ out' = T
  BY <1>1
<1> HIDE DEF R, T
<1>4. PICK S : R.buf \in Seq(S) /\ T \in Seq(S)
  BY <1>2
<1>5. /\ ob'.buf = Append(R.buf, e) /\ ob'.total = R.total /\ ob'.err = R.err
      /\ ob' = [buf |-> Append(R.buf, e), total |-> R.total, err |-> R.err]
  BY <1>2, <1>3
<1>6. /\ Append(R.buf, e) \in Seq(S \cup {e}) /\ T \in Seq(S \cup {e})
      /\ Len(Append(R.buf, e)) = Len(R.buf) + 1 /\ Len(R.buf) \in Nat
  BY <1>4
<1>7. call.writable => out' \o ob'.buf = Append(out \o ob.buf, e)
  <2>1. T \o Append(R.buf, e) = Append(T \o R.buf, e)
    BY <1>4
  <2> QED BY <1>2, <1>3, <1>5, <2>1
<1>8. Sunk'
  <2>1. \E U : ob'.buf \in Seq(U) /\ out' \in Seq(U)
    BY <1>3, <1>5, <1>6
  <2>2. ~ob'.err => Len(ob'.buf) <= OUTBUF_CAP /\ ob'.total = Len(out')
    BY <1>2, <1>3, <1>5, <1>6, Cap
  <2>3. call'.writable \in BOOLEAN /\ call' = call
    BY <1>1 DEF OInv, Sunk
  <2>4. ob' = [buf |-> ob'.buf, total |-> ob'.total, err |-> ob'.err]
    BY <1>5
  <2> QED BY <1>2, <1>3, <1>5, <2>1, <2>2, <2>3, <2>4 DEF Sunk
<1>9. Parsed'
  BY <1>1 DEF OInv, Parsed, Depth
<1>10. ToPut(todo)'
  BY <1>1 DEF OInv, ToPut
<1> QED BY <1>1, <1>7, <1>8, <1>9, <1>10 DEF OInv, HasAnswered, e

\* The front and the back of a sequence.
LEMMA Cut ==
  ASSUME NEW S, NEW p \in Seq(S), NEW k \in 0..Len(p)
  PROVE  /\ SubSeq(p, 1, k) \in Seq(S) /\ Len(SubSeq(p, 1, k)) = k
         /\ SubSeq(p, k + 1, Len(p)) \in Seq(S) /\ Len(SubSeq(p, k + 1, Len(p))) = Len(p) - k
<1> DEFINE n == Len(p)
<1>1. n \in Nat /\ k \in Int /\ k <= n /\ 0 <= k /\ \A i \in 1..n : p[i] \in S
  BY LenProperties, ElementOfSeq
<1> HIDE DEF n
<1>2. SubSeq(p, 1, k) \in Seq(S) /\ Len(SubSeq(p, 1, k)) = IF 1 <= k THEN k - 1 + 1 ELSE 0
  <2>1. \A i \in 1..k : p[i] \in S  BY <1>1
  <2> QED BY <1>1, <2>1, SubSeqProperties
<1>3. /\ SubSeq(p, k + 1, n) \in Seq(S)
      /\ Len(SubSeq(p, k + 1, n)) = IF k + 1 <= n THEN n - (k + 1) + 1 ELSE 0
  <2>1. (\A i \in (k + 1)..n : p[i] \in S) /\ k + 1 \in Int /\ n \in Int  BY <1>1
  <2> QED BY <2>1, SubSeqProperties
<1>4. Len(SubSeq(p, 1, k)) = k /\ Len(SubSeq(p, k + 1, n)) = n - k
  BY <1>1, <1>2, <1>3
<1> QED BY <1>2, <1>3, <1>4 DEF n

\* Places left in the buffer, after a flush if it is full.
Left == IF ob_full(ob) THEN OUTBUF_CAP ELSE OUTBUF_CAP - Len(ob.buf)

\* The room ob_write finds, and how much of n characters it takes.
LEMMA Chunk ==
  ASSUME NEW n \in Nat, NEW l \in Nat, NEW cap \in Nat
  PROVE  LET space == IF l = cap THEN cap ELSE IF l > cap THEN n ELSE cap - l
             chunk == IF n < space THEN n ELSE space
         IN  /\ chunk \in 0..n
             /\ l = cap => chunk <= cap
             /\ l < cap => chunk <= cap - l
             /\ l <= cap /\ n <= (IF l = cap THEN cap ELSE cap - l) => chunk = n
OBVIOUS

LEMMA WriteInv ==
  ASSUME OInv, ObWrite
  PROVE  /\ OInv'
         /\ call.writable =>
              /\ \E k \in 0..Len(todo.puts) :
                   /\ out' \o ob'.buf = (out \o ob.buf) \o SubSeq(todo.puts, 1, k)
                   /\ Len(todo'.puts) = Len(todo.puts) - k
              /\ Len(todo.puts) <= Left =>
                   out' \o ob'.buf = (out \o ob.buf) \o todo.puts /\ todo'.puts = <<>>
<1> DEFINE p == todo.puts
           n == Len(p)
           R == Room
           T == Taken_
           space == IF ob_full(ob) THEN OUTBUF_CAP
                    ELSE IF Len(ob.buf) > OUTBUF_CAP THEN n ELSE OUTBUF_CAP - Len(ob.buf)
           chunk == IF n < space THEN n ELSE space
           a == SubSeq(p, 1, chunk)
           b == SubSeq(p, 1, n - chunk)
<1>1. /\ pc = "format" /\ ob' = [R EXCEPT !.buf = R.buf \o a] /\ out' = T
      /\ todo' = [todo EXCEPT !.puts = b]
      /\ UNCHANGED <<call, fmt, ap, state, len, pc, ret>>
  BY DEF ObWrite, Room, Taken_
<1>2. /\ R = [buf |-> R.buf, total |-> R.total, err |-> R.err]
      /\ R.total \in Nat /\ R.err \in BOOLEAN
      /\ \E S : R.buf \in Seq(S) /\ T \in Seq(S)
      /\ ~R.err => Len(R.buf) < OUTBUF_CAP /\ R.total = Len(T)
      /\ R.err => ~call.writable
      /\ ~call.writable => T = <<>>
      /\ call.writable => T \o R.buf = out \o ob.buf
  BY RoomIs DEF OInv
<1>3. PICK S0 : p \in Seq(S0) /\ n \in Nat
  <2>1. PICK S0 : p \in Seq(S0)
    BY DEF OInv, ToPut
  <2> QED BY <2>1
<1>4. Len(ob.buf) \in Nat
  BY DEF OInv, Sunk
\* The chunk fits the room.
<1>5. /\ chunk \in 0..n
      /\ ob_full(ob) => chunk <= OUTBUF_CAP
      /\ Len(ob.buf) < OUTBUF_CAP => chunk <= OUTBUF_CAP - Len(ob.buf)
      /\ Len(ob.buf) <= OUTBUF_CAP /\ n <= Left => chunk = n
  <2> DEFINE l == Len(ob.buf)
  <2>1. n \in Nat /\ l \in Nat /\ OUTBUF_CAP \in Nat
    BY <1>3, <1>4, Cap
  <2>2. ob_full(ob) <=> l = OUTBUF_CAP
    BY DEF ob_full
  <2> HIDE DEF l, n
  <2> QED BY <2>1, <2>2, Chunk, Zenon DEF l, Left
<1>6. ~R.err => chunk <= OUTBUF_CAP - Len(R.buf)
  <2>1. CASE ob_full(ob)
    <3>1. ~R.err => R.buf = <<>>
      BY <2>1, Flushed DEF OInv, Room
    <3>2. Len(<<>>) = 0
      OBVIOUS
    <3>3. chunk <= OUTBUF_CAP
      BY <1>5, <2>1
    <3> HIDE DEF chunk, R
    <3> QED BY <3>1, <3>2, <3>3, Cap
  <2>2. CASE ~ob_full(ob)
    <3>1. R = ob  BY <2>2 DEF Room
    <3>2. ~R.err => Len(ob.buf) < OUTBUF_CAP  BY <1>2, <3>1
    <3> QED BY <1>5, <3>1, <3>2
  <2> QED BY <2>1, <2>2
<1> HIDE DEF chunk, space, R, T
<1>7. PICK S : R.buf \in Seq(S) /\ T \in Seq(S)
  BY <1>2
<1>8. /\ a \in Seq(S0) /\ Len(a) = chunk /\ b \in Seq(S0) /\ Len(b) = n - chunk
      /\ chunk = n => a = p /\ b = <<>>
  <2>1. a \in Seq(S0) /\ Len(a) = chunk
    <3> HIDE DEF p
    <3> QED BY <1>3, <1>5, Cut
  <2>2. b \in Seq(S0) /\ Len(b) = n - chunk
    <3> DEFINE k == n - chunk
    <3>1. k \in 0..Len(p)
      BY <1>3, <1>5
    <3> HIDE DEF k, p
    <3>2. SubSeq(p, 1, k) \in Seq(S0) /\ Len(SubSeq(p, 1, k)) = k
      BY <1>3, <3>1, Cut
    <3> QED BY <3>2 DEF k
  <2>3. ASSUME chunk = n PROVE a = p /\ b = <<>>
    <3>1. SubSeq(p, 1, Len(p)) = p
      BY <1>3, SubSeqFull
    <3>2. n - chunk = 0
      BY <1>3, <2>3
    <3>3. SubSeq(p, 1, 0) = <<>>
      BY SubSeqEmpty
    <3> QED BY <2>3, <3>1, <3>2, <3>3
  <2> QED BY <2>1, <2>2, <2>3
<1> HIDE DEF a, b, p, n
<1> DEFINE U == S \cup S0
<1>9. R.buf \in Seq(U) /\ T \in Seq(U) /\ a \in Seq(U) /\ b \in Seq(U)
  BY <1>7, <1>8
<1> HIDE DEF U
<1>10. /\ R.buf \o a \in Seq(U) /\ Len(R.buf \o a) = Len(R.buf) + chunk
       /\ Len(R.buf) \in Nat /\ chunk \in Nat
  <2>1. Len(a) = chunk  BY <1>8
  <2> QED BY <1>9, <2>1, ConcatProperties, LenProperties
<1>11. /\ ob'.buf = R.buf \o a /\ ob'.total = R.total /\ ob'.err = R.err
       /\ ob' = [buf |-> R.buf \o a, total |-> R.total, err |-> R.err]
  BY <1>1, <1>2
<1>12. todo' = [puts |-> b, putc |-> todo.putc] /\ todo'.puts = b /\ todo'.putc = todo.putc
  BY <1>1 DEF OInv, ToPut
<1>13. call.writable => /\ out' \o ob'.buf = (out \o ob.buf) \o a
                        /\ n <= Left => a = p /\ todo'.puts = <<>>
  <2>1. T \o (R.buf \o a) = (T \o R.buf) \o a
    <3> DEFINE r == R.buf
    <3>1. T \in Seq(U) /\ r \in Seq(U) /\ a \in Seq(U)
      BY <1>9
    <3> HIDE DEF r
    <3>2. T \o (r \o a) = (T \o r) \o a
      BY <3>1
    <3> QED BY <3>2 DEF r
  <2>2. call.writable => Len(ob.buf) <= OUTBUF_CAP
    BY DEF OInv, Sunk
  <2> QED BY <1>1, <1>2, <1>5, <1>8, <1>11, <1>12, <2>1, <2>2
<1>14. Sunk'
  <2>1. \E V : ob'.buf \in Seq(V) /\ out' \in Seq(V)
    BY <1>1, <1>9, <1>10, <1>11
  <2>2. ~ob'.err => Len(ob'.buf) <= OUTBUF_CAP /\ ob'.total = Len(out')
    BY <1>1, <1>2, <1>6, <1>10, <1>11, Cap
  <2>3. call'.writable \in BOOLEAN /\ call' = call
    BY <1>1 DEF OInv, Sunk
  <2>4. ob' = [buf |-> ob'.buf, total |-> ob'.total, err |-> ob'.err]
    BY <1>11
  <2> QED BY <1>1, <1>2, <1>11, <2>1, <2>2, <2>3, <2>4 DEF Sunk
<1>15. Parsed'
  BY <1>1 DEF OInv, Parsed, Depth
<1>16. ToPut(todo)'
  BY <1>8, <1>12 DEF ToPut
<1>17. OInv'
  BY <1>1, <1>14, <1>15, <1>16 DEF OInv, HasAnswered
<1>18. call.writable =>
         \E k \in 0..n : /\ out' \o ob'.buf = (out \o ob.buf) \o SubSeq(p, 1, k)
                         /\ Len(todo'.puts) = n - k
  BY <1>5, <1>8, <1>12, <1>13 DEF a
<1> QED BY <1>13, <1>17, <1>18 DEF n, p

\* A directive is at least twice as long as the arguments it takes.
LEMMA Directive ==
  ASSUME Parsed, fmt # <<>>, NEW c, Specifier(c)
  PROVE  /\ va_words(c) \in 0..Len(ap)
         /\ (Len(fmt) - 1) <= 2 * (Len(ap) - va_words(c))
<1>1. Len(fmt) \in Nat /\ Len(fmt) >= 1 /\ Len(ap) \in Nat
  BY DEF Parsed
<1>2. Depth \in 1..3 /\ (len = "LL" => Depth = 3)
  BY DEF Specifier, Depth, Parsed
<1>3. Len(fmt) + Depth <= 2 * Len(ap)
  BY DEF Parsed
<1>4. va_words(c) \in {0, 1} \/ (va_words(c) = 2 /\ len = "LL")
  BY DEF va_words
<1> DEFINE n == Len(fmt)
           m == Len(ap)
           w == va_words(c)
           d == Depth
<1>5. /\ n \in Nat /\ n >= 1 /\ m \in Nat /\ d \in 1..3 /\ n + d <= 2 * m
      /\ w \in {0, 1} \/ (w = 2 /\ d = 3)
  BY <1>1, <1>2, <1>3, <1>4
<1> HIDE DEF n, m, w, d
<1>6. w \in 0..m /\ n - 1 <= 2 * (m - w)
  BY <1>5
<1> QED BY <1>6 DEF n, m, w

LEMMA Converted ==
  ASSUME ap \in Seq(VaWords), NEW c, va_words(c) \in 0..Len(ap)
  PROVE  ToPut(Convert(c))
<1>1. Nothing = [puts |-> <<>>, putc |-> <<>>] /\ <<>> \in Seq(STRING)
  BY DEF Nothing
<1>2. CASE c = "s"
  <2>1. va_words(c) = 1
    BY <1>2 DEF va_words, Numbers
  <2>2. ap[1] \in VaWords
    BY <2>1
  <2>3. Text[ap[1]] \in Seq(STRING)
    BY <2>2, OutBufAssumption DEF VaWords
  <2>4. Convert(c) = [Nothing EXCEPT !.puts = Text[ap[1]]]
    BY <1>2 DEF Convert, Numbers
  <2>5. Convert(c) = [puts |-> Text[ap[1]], putc |-> <<>>]
    BY <1>1, <2>4
  <2> QED BY <2>3, <2>5 DEF ToPut
<1>3. CASE c = "p"
  <2>1. Convert(c) = [puts |-> <<"0", "x">>, putc |-> ob_put_u64(ap[1], 16, HEX_LOWER)]
    BY <1>3 DEF Convert, Numbers
  <2>2. <<"0", "x">> \in Seq({"0", "x"})
    <3>1. \A a, b : <<a, b>> \in Seq({a, b})
      OBVIOUS
    <3> QED BY <3>1
  <2>3. Convert(c) = [puts |-> Convert(c).puts, putc |-> Convert(c).putc]
    BY <2>1
  <2>4. Convert(c).puts = <<"0", "x">>
    BY <2>1
  <2> QED BY <2>2, <2>3, <2>4 DEF ToPut
<1>4. CASE c \notin {"s", "p"}
  <2>1. CASE c = "c"
    <3>1. Convert(c) = [Nothing EXCEPT !.putc = <<Chr[ap[1]]>>]
      BY <2>1 DEF Convert, Numbers
    <3> QED BY <1>1, <3>1 DEF ToPut
  <2>2. CASE c = "%"
    <3>1. Convert(c) = [Nothing EXCEPT !.putc = <<"%">>]
      BY <2>2 DEF Convert, Numbers
    <3> QED BY <1>1, <3>1 DEF ToPut
  <2>3. CASE c \in Numbers
    <3>1. c \notin {"c", "s", "%", "p"}
      BY <2>3 DEF Numbers
    <3>2. Convert(c) = [Nothing EXCEPT !.putc = Number(c)]
      BY <2>3, <3>1 DEF Convert
    <3> QED BY <1>1, <3>2 DEF ToPut
  <2>4. CASE c \notin Numbers \cup {"c", "%"}
    <3>1. Convert(c) = Nothing
      BY <1>4, <2>4 DEF Convert
    <3> QED BY <1>1, <3>1 DEF ToPut
  <2> QED BY <2>1, <2>2, <2>3, <2>4
<1> QED BY <1>2, <1>3, <1>4

LEMMA ParseInv ==
  ASSUME OInv, Parse
  PROVE  OInv'
<1> DEFINE c == Head(fmt)
<1>1. /\ pc = "format" /\ todo = Nothing /\ fmt # <<>> /\ fmt' = Tail(fmt)
      /\ UNCHANGED <<call, ob, out, pc, ret>>
  BY DEF Parse
<1>2. /\ fmt \in Seq(STRING) /\ ap \in Seq(VaWords) /\ Parsed
      /\ Len(fmt) + Depth <= 2 * Len(ap) /\ Len(fmt) \in Nat /\ Len(ap) \in Nat
  BY DEF OInv, Parsed
<1>3. fmt' \in Seq(STRING) /\ Len(fmt') = Len(fmt) - 1
  BY <1>1, <1>2
<1>4. /\ Nothing = [puts |-> <<>>, putc |-> <<>>] /\ <<>> \in Seq(STRING) /\ ToPut(todo)
  BY DEF OInv, Nothing
<1>5. Parsed' /\ ToPut(todo')
  <2>1. CASE Normal(c)
    <3>1. state = "NORMAL" /\ ap' = ap /\ len' = len /\ Depth = 0 /\ len # "LL"
      BY <1>2, <2>1 DEF Normal, Depth, Parsed
    <3>2. CASE c = "%"
      <4>1. state' = "LENGTH" /\ todo' = todo /\ Depth' = 1
        BY <2>1, <3>2 DEF Normal, Depth
      <4> QED BY <1>2, <1>3, <1>4, <3>1, <4>1 DEF Parsed
    <3>3. CASE c # "%"
      <4>1. state' = "NORMAL" /\ todo' = [Nothing EXCEPT !.putc = <<c>>] /\ Depth' = 0
        BY <2>1, <3>1, <3>3 DEF Normal, Depth
      <4>2. ToPut(todo')
        BY <1>4, <4>1 DEF ToPut
      <4> QED BY <1>2, <1>3, <3>1, <4>1, <4>2 DEF Parsed
    <3> QED BY <3>2, <3>3
  <2>2. CASE \/ Length(c, "LENGTH", "h", "LENGTH_SHORT", "H")
             \/ Length(c, "LENGTH", "l", "LENGTH_LONG", "L")
             \/ Length(c, "LENGTH_SHORT", "h", "SPEC", "HH")
             \/ Length(c, "LENGTH_LONG", "l", "SPEC", "LL")
    <3>1. ap' = ap /\ todo' = todo
      BY <2>2 DEF Length
    <3>2. /\ state' \in {"LENGTH_SHORT", "LENGTH_LONG", "SPEC"}
          /\ len' = "LL" => state' = "SPEC"
      BY <2>2 DEF Length
    <3>3. Depth' = Depth + 1 /\ Depth \in Nat
      BY <2>2 DEF Length, Depth
    <3> QED BY <1>2, <1>3, <1>4, <3>1, <3>2, <3>3 DEF Parsed
  <2>3. CASE Specifier(c)
    <3> DEFINE w == va_words(c)
    <3>1. w \in 0..Len(ap) /\ (Len(fmt) - 1) <= 2 * (Len(ap) - w)
      BY <1>1, <1>2, <2>3, Directive
    <3>2. /\ todo' = Convert(c) /\ ap' = SubSeq(ap, w + 1, Len(ap))
          /\ state' = "NORMAL" /\ len' = "DEF" /\ Depth' = 0
      BY <2>3 DEF Specifier, Depth
    <3>3. ToPut(todo')
      BY <1>2, <3>1, <3>2, Converted
    <3> HIDE DEF w
    <3>4. ap' \in Seq(VaWords) /\ Len(ap') = Len(ap) - w
      BY <1>2, <3>1, <3>2, Cut
    <3>5. Len(fmt') + Depth' <= 2 * Len(ap')
      BY <1>2, <1>3, <3>1, <3>2, <3>4
    <3> QED BY <1>3, <3>2, <3>3, <3>4, <3>5 DEF Parsed
  <2> QED BY <2>1, <2>2, <2>3 DEF Parse
<1>6. Sunk' /\ HasAnswered'
  BY <1>1 DEF OInv, Sunk, HasAnswered
<1>7. ToPut(todo)'
  BY <1>5 DEF ToPut
<1> QED BY <1>5, <1>6, <1>7 DEF OInv

LEMMA ReturnInv ==
  ASSUME OInv, Return
  PROVE  /\ OInv'
         /\ call.writable => out' = out \o ob.buf /\ ret' = Len(out')
         /\ ~call.writable => out' = <<>>
<1> DEFINE F == ob_flush(ob)
           W == write(ob)
<1>1. /\ ob' = F /\ out' = W /\ ret' = IF ob'.err THEN -1 ELSE ob'.total
      /\ pc' = "returned" /\ UNCHANGED <<call, fmt, ap, state, len, todo>>
  BY DEF Return
<1>2. /\ F = [buf |-> F.buf, total |-> F.total, err |-> F.err]
      /\ F.total \in Nat /\ F.err \in BOOLEAN
      /\ \E S : F.buf \in Seq(S) /\ W \in Seq(S)
      /\ ~F.err => F.buf = <<>> /\ F.total = Len(W)
      /\ F.err => ~call.writable
      /\ ~call.writable => W = <<>>
      /\ call.writable => W = out \o ob.buf /\ F.buf = <<>>
  BY Flushed DEF OInv
<1> HIDE DEF F, W
<1>3. Sunk'
  <2>1. Len(<<>>) = 0 /\ 0 <= OUTBUF_CAP
    BY Cap
  <2>2. call'.writable \in BOOLEAN /\ call' = call
    BY <1>1 DEF OInv, Sunk
  <2>3. ~F.err => Len(F.buf) <= OUTBUF_CAP /\ F.total = Len(W)
    BY <1>2, <2>1
  <2> QED BY <1>1, <1>2, <2>2, <2>3 DEF Sunk
<1>4. call.writable => ret' = Len(out') /\ ob'.buf = <<>>
  BY <1>1, <1>2
<1>5. HasAnswered'
  BY <1>1, <1>2, <1>4 DEF HasAnswered
<1>6. Parsed' /\ ToPut(todo)'
  BY <1>1 DEF OInv, Parsed, Depth, ToPut
<1> QED BY <1>1, <1>2, <1>3, <1>4, <1>5, <1>6 DEF OInv

LEMMA StepInv == OInv /\ [Next]_vars => OInv'
<1> SUFFICES ASSUME OInv, [Next]_vars PROVE OInv'
  OBVIOUS
<1>1. CASE Parse      BY <1>1, ParseInv
<1>2. CASE ObPutc     BY <1>2, PutcInv
<1>3. CASE ObWrite    BY <1>3, WriteInv
<1>4. CASE Return     BY <1>4, ReturnInv
<1>5. CASE UNCHANGED vars
  BY <1>5 DEF vars, OInv, Parsed, Depth, ToPut, Sunk, HasAnswered
<1> QED BY <1>1, <1>2, <1>3, <1>4, <1>5 DEF Next, vfprintf_fd, Returned

-----------------------------------------------------------------------------
(***************************************************************************)
(* The theorems.                                                           *)
(***************************************************************************)
THEOREM SinkInvariance == Spec => []OInv
<1>1. Init => OInv
  BY InitOInv
<1>2. OInv /\ [Next]_vars => OInv'
  BY StepInv
<1> QED BY <1>1, <1>2, PTL DEF Spec

\* Until a write fails no character is stored past the end of the buffer, and
\* total counts exactly the characters write has taken, for any size of the
\* buffer (vfprintf_fd.c:28-73).
THEOREM NothingPastTheEnd == Spec => []BufferHolds
<1>1. OInv => BufferHolds
  BY DEF OInv, Sunk, BufferHolds
<1> QED BY <1>1, SinkInvariance, PTL

\* vfprintf_fd answers the number of characters write has taken and leaves
\* nothing in the buffer; to a descriptor that cannot be written no character
\* gets through (vfprintf_fd.c:255-256).
THEOREM AnswersWhatItWrote ==
  Spec => [](pc = "returned" =>
               IF call.writable THEN ret = Len(out) /\ ob.buf = <<>> ELSE out = <<>>)
<1>1. OInv => HasAnswered
  BY DEF OInv
<1> QED BY <1>1, SinkInvariance, PTL DEF HasAnswered

\* What write has taken and the buffer holds is, character for character and
\* in order, what has been put: one ob_putc adds its character at the end; a
\* round of ob_write adds the front of its string, all of it if that fits, and
\* counts right what it still owes; a flush in between moves nothing; and at
\* the end all of it has been written (vfprintf_fd.c:28-61).
SinkKeeps ==
    call.writable =>
      /\ ObPutc => out' \o ob'.buf = Append(out \o ob.buf, Head(todo.putc))
      /\ ObWrite =>
           /\ \E k \in 0..Len(todo.puts) :
                /\ out' \o ob'.buf = (out \o ob.buf) \o SubSeq(todo.puts, 1, k)
                /\ Len(todo'.puts) = Len(todo.puts) - k
           /\ Len(todo.puts) <= Left =>
                out' \o ob'.buf = (out \o ob.buf) \o todo.puts /\ todo'.puts = <<>>
      /\ Parse => out' \o ob'.buf = out \o ob.buf
      /\ Return => out' = out \o ob.buf /\ ret' = Len(out')

THEOREM PutInOrder == Spec => [][SinkKeeps]_vars
<1>1. OInv => [SinkKeeps]_vars
  <2> SUFFICES ASSUME OInv PROVE SinkKeeps
    OBVIOUS
  <2>1. call.writable /\ ObPutc => out' \o ob'.buf = Append(out \o ob.buf, Head(todo.putc))
    BY PutcInv
  <2>2. call.writable /\ ObWrite =>
          /\ \E k \in 0..Len(todo.puts) :
               /\ out' \o ob'.buf = (out \o ob.buf) \o SubSeq(todo.puts, 1, k)
               /\ Len(todo'.puts) = Len(todo.puts) - k
          /\ Len(todo.puts) <= Left =>
               out' \o ob'.buf = (out \o ob.buf) \o todo.puts /\ todo'.puts = <<>>
    BY WriteInv
  <2>3. Parse => out' \o ob'.buf = out \o ob.buf
    BY DEF Parse
  <2>4. call.writable /\ Return => out' = out \o ob.buf /\ ret' = Len(out')
    BY ReturnInv
  <2> QED BY <2>1, <2>2, <2>3, <2>4 DEF SinkKeeps
<1> QED BY <1>1, SinkInvariance, PTL DEF Spec

-----------------------------------------------------------------------------
(***************************************************************************)
(* Quotients and remainders.                                               *)
(***************************************************************************)
LEMMA Quotient ==
  ASSUME NEW a \in Nat, NEW n \in Nat \ {0}
  PROVE  /\ a \div n \in Nat /\ a % n \in 0..(n - 1)
         /\ a = n * (a \div n) + (a % n)
<1>1. /\ a % n \in 0..(n - 1) /\ a \div n \in Int
      /\ a = n * (a \div n) + (a % n)
  OBVIOUS
<1>2. a \div n <= -1 => n * (a \div n) <= - n
  BY <1>1
<1> QED BY <1>1, <1>2

\* They are the only such numbers.
LEMMA QuotientUnique ==
  ASSUME NEW n \in Nat \ {0}, NEW q \in Nat, NEW r \in 0..(n - 1),
         NEW a \in Nat, a = n * q + r
  PROVE  a \div n = q /\ a % n = r
<1> DEFINE d == (a \div n) - q
<1>1. d \in Int /\ a \div n \in Nat /\ a % n \in 0..(n - 1) /\ a = n * (a \div n) + (a % n)
  <2>1. a \div n \in Nat /\ a % n \in 0..(n - 1) /\ a = n * (a \div n) + (a % n)
    BY Quotient
  <2>2. d \in Int  BY <2>1
  <2> HIDE DEF d
  <2> QED BY ONLY <2>1, <2>2
<1>2. n * d = n * (a \div n) - n * q
  BY <1>1
<1>3. n * d = r - (a % n)
  BY <1>1, <1>2
<1>4. d = 0
  <2> HIDE DEF d
  <2>1. n * d < n /\ - n < n * d  BY <1>1, <1>3
  <2>2. d >= 1 => n * d >= n  BY <1>1
  <2>3. d <= -1 => n * d <= - n  BY <1>1
  <2> QED BY <1>1, <2>1, <2>2, <2>3
<1>5. a \div n = q
  BY <1>1, <1>4
<1> QED BY <1>1, <1>5

LEMMA QuotientTwice ==
  ASSUME NEW a \in Nat, NEW m \in Nat \ {0}, NEW n \in Nat \ {0}
  PROVE  /\ (a \div m) \div n = a \div (m * n)
         /\ a < m * n <=> a \div m < n
<1> DEFINE q == a \div m
           r == a % m
           p == q \div n
           s == q % n
<1>1. q \in Nat /\ r \in 0..(m - 1) /\ a = m * q + r
  BY Quotient
<1>2. p \in Nat /\ s \in 0..(n - 1) /\ q = n * p + s
  BY <1>1, Quotient
<1> HIDE DEF q, r, p, s
<1>3. m * n \in Nat \ {0} /\ m * s \in Nat
  BY <1>2
<1>4. a = (m * n) * p + (m * s + r)
  BY <1>1, <1>2
<1>5. m * s <= m * (n - 1)
  BY <1>2
<1>6. m * s + r \in 0..(m * n - 1)
  BY <1>1, <1>3, <1>5
<1>7. a \div (m * n) = p
  <2> DEFINE N == m * n
             x == m * s + r
  <2>1. N \in Nat \ {0} /\ p \in Nat /\ x \in 0..(N - 1) /\ a = N * p + x
    BY ONLY <1>2, <1>3, <1>4, <1>6
  <2> HIDE DEF N, x
  <2>2. a \div N = p  BY ONLY <2>1, a \in Nat, QuotientUnique
  <2> QED BY <2>2 DEF N
<1>8. q < n => m * q <= m * (n - 1)
  BY <1>1
<1>9. q >= n => m * q >= m * n
  BY <1>1
<1>10. a < m * n <=> q < n
  BY <1>1, <1>3, <1>8, <1>9
<1> QED BY <1>7, <1>10 DEF q, p

-----------------------------------------------------------------------------
(***************************************************************************)
(* Numerals.                                                               *)
(***************************************************************************)
\* The powers of r up to the m-th.
Powers(f, r, m) == f = [i \in 0..m |-> IF i = 0 THEN 1 ELSE r * f[i - 1]]

LEMMA PowersExist ==
  ASSUME NEW r \in Nat \ {0, 1}, NEW m \in Nat
  PROVE  \E f : Powers(f, r, m)
<1> DEFINE h == [i \in 1..m |-> [x \in Nat |-> r * x]]
<1>1. \A i \in 1..m : \A x \in Nat : h[i][x] = r * x  OBVIOUS
<1>2. \A x \in Nat : r * x \in Nat  OBVIOUS
<1> HIDE DEF h
<1>3. \A i \in 1..m : \A x \in Nat : h[i][x] \in Nat  BY <1>1, <1>2
<1>4. PICK f : Recurs(f, m, 0, 1, h) /\ \A i \in 0..m : f[i] \in Nat
  <2>1. 0 \in Nat /\ 1 \in Nat  OBVIOUS
  <2> QED BY ONLY <1>3, <2>1, m \in Nat, StepsExist
<1>5. f = [i \in 0..m |-> IF i <= 0 THEN 1 ELSE h[i][f[i - 1]]]  BY <1>4 DEF Recurs
<1>6. ASSUME NEW i \in 0..m
      PROVE  (IF i <= 0 THEN 1 ELSE h[i][f[i - 1]]) = IF i = 0 THEN 1 ELSE r * f[i - 1]
  <2>1. CASE i = 0  BY <2>1
  <2>2. CASE i # 0
    <3>1. i \in 1..m /\ i - 1 \in 0..m /\ ~(i <= 0)  BY <2>2
    <3>2. f[i - 1] \in Nat  BY <1>4, <3>1
    <3>3. h[i][f[i - 1]] = r * f[i - 1]  BY <1>1, <3>1, <3>2
    <3> QED BY <2>2, <3>1, <3>3
  <2> QED BY <2>1, <2>2
<1>7. [i \in 0..m |-> IF i <= 0 THEN 1 ELSE h[i][f[i - 1]]]
      = [i \in 0..m |-> IF i = 0 THEN 1 ELSE r * f[i - 1]]
  BY <1>6
<1> QED BY <1>5, <1>7 DEF Powers

\* Powers are above their exponents.
LEMMA PowersGrow ==
  ASSUME NEW r \in Nat \ {0, 1}, NEW m \in Nat, NEW f, Powers(f, r, m)
  PROVE  /\ f[0] = 1
         /\ \A i \in 1..m : f[i] = r * f[i - 1]
         /\ \A i \in 0..m : f[i] \in Nat \ {0} /\ i < f[i]
<1>1. \A i \in 0..m : f[i] = IF i = 0 THEN 1 ELSE r * f[i - 1]
  <2>1. f = [i \in 0..m |-> IF i = 0 THEN 1 ELSE r * f[i - 1]]  BY DEF Powers
  <2> QED BY <2>1
<1>2. f[0] = 1 /\ \A i \in 1..m : f[i] = r * f[i - 1]
  <2>1. 0 \in 0..m /\ \A i \in 1..m : i \in 0..m /\ i # 0  OBVIOUS
  <2> QED BY <1>1, <2>1
<1> DEFINE Good_(i) == f[i] \in Nat \ {0} /\ i < f[i]
           T == {i \in 0..m : ~Good_(i)}
<1>3. T = {}
  <2>1. SUFFICES ASSUME T # {} PROVE FALSE
    OBVIOUS
  <2>2. PICK k \in T : \A l \in T : k <= l
    <3>1. T \subseteq Nat  OBVIOUS
    <3> HIDE DEF T
    <3> QED BY <2>1, <3>1, Least
  <2>3. k \in 0..m /\ ~Good_(k)  BY <2>2
  <2>4. k # 0  BY <1>2, <2>3
  <2>5. k - 1 \in 0..m /\ k \in 1..m /\ ~(k <= k - 1)  BY <2>3, <2>4
  <2>6. Good_(k - 1)  BY <2>2, <2>5
  <2> DEFINE x == f[k - 1]
  <2>7. x \in Nat \ {0} /\ k - 1 < x /\ f[k] = r * x  BY <1>2, <2>5, <2>6
  <2> HIDE DEF x
  <2>8. r * x >= 2 * x /\ r * x \in Nat  BY <2>7
  <2>9. r * x > k  BY <2>5, <2>7, <2>8
  <2> QED BY <2>3, <2>7, <2>8, <2>9
<1> QED BY <1>2, <1>3

LEMMA PowersUnique ==
  ASSUME NEW r \in Nat \ {0, 1}, NEW m \in Nat, NEW n \in Nat, n <= m,
         NEW f, Powers(f, r, m), NEW g, Powers(g, r, n)
  PROVE  \A i \in 0..n : f[i] = g[i]
<1>1. f[0] = 1 /\ \A i \in 1..m : f[i] = r * f[i - 1]  BY PowersGrow
<1>2. g[0] = 1 /\ \A i \in 1..n : g[i] = r * g[i - 1]  BY PowersGrow
<1> DEFINE T == {i \in 0..n : f[i] # g[i]}
<1>3. SUFFICES ASSUME T # {} PROVE FALSE
  OBVIOUS
<1>4. PICK k \in T : \A l \in T : k <= l
  <2>1. T \subseteq Nat  OBVIOUS
  <2> HIDE DEF T
  <2> QED BY <1>3, <2>1, Least
<1>5. k \in 0..n /\ f[k] # g[k]  BY <1>4
<1>6. k # 0  BY <1>1, <1>2, <1>5
<1>7. k - 1 \in 0..n /\ k \in 1..n /\ k \in 1..m /\ ~(k <= k - 1)  BY <1>5, <1>6
<1>8. f[k - 1] = g[k - 1]  BY <1>4, <1>7
<1> QED BY <1>1, <1>2, <1>5, <1>7, <1>8

LEMMA PowersRise ==
  ASSUME NEW r \in Nat \ {0, 1}, NEW m \in Nat, NEW f, Powers(f, r, m)
  PROVE  \A i, j \in 0..m : i <= j => f[i] <= f[j]
<1>1. /\ \A i \in 1..m : f[i] = r * f[i - 1]
      /\ \A i \in 0..m : f[i] \in Nat \ {0}
  BY PowersGrow
<1>2. SUFFICES ASSUME NEW i \in 0..m PROVE \A j \in 0..m : i <= j => f[i] <= f[j]
  OBVIOUS
<1> DEFINE T == {j \in 0..m : i <= j /\ ~(f[i] <= f[j])}
<1>3. SUFFICES ASSUME T # {} PROVE FALSE
  OBVIOUS
<1>4. PICK k \in T : \A l \in T : k <= l
  <2>1. T \subseteq Nat  OBVIOUS
  <2> HIDE DEF T
  <2> QED BY <1>3, <2>1, Least
<1>5. k \in 0..m /\ i <= k /\ ~(f[i] <= f[k])  BY <1>4
<1>6. k # i  BY <1>1, <1>5
<1>7. k - 1 \in 0..m /\ k \in 1..m /\ i <= k - 1 /\ ~(k <= k - 1)  BY <1>5, <1>6
<1>8. f[i] <= f[k - 1]  BY <1>4, <1>7
<1> DEFINE x == f[k - 1]
           y == f[i]
<1>9. x \in Nat /\ f[k] = r * x /\ y \in Nat /\ y <= x  BY <1>1, <1>7, <1>8
<1> HIDE DEF x
<1>10. r * x >= 2 * x /\ r * x \in Nat  BY <1>9
<1> QED BY <1>5, <1>9, <1>10

\* v has n digits.
HasDigits(v, n, f) == v < f[n] /\ (n = 1 \/ v >= f[n - 1])

LEMMA DigitsCounted ==
  ASSUME NEW r \in Nat \ {0, 1}, NEW v \in Nat, NEW f, Powers(f, r, v + 1)
  PROVE  \E n \in 1..(v + 1) : HasDigits(v, n, f)
<1> DEFINE T == {n \in 1..(v + 1) : v < f[n]}
<1>0. v + 1 \in Nat /\ v + 1 \in 0..(v + 1) /\ v + 1 \in 1..(v + 1)  OBVIOUS
<1>1. \A i \in 0..(v + 1) : f[i] \in Nat \ {0} /\ i < f[i]
  BY ONLY <1>0, PowersGrow, r \in Nat \ {0, 1}, Powers(f, r, v + 1)
<1>2. v + 1 \in T
  <2>1. v + 1 < f[v + 1] /\ f[v + 1] \in Nat  BY <1>0, <1>1
  <2> QED BY <1>0, <2>1
<1>3. PICK n \in T : \A l \in T : n <= l
  <2>1. T \subseteq Nat  OBVIOUS
  <2> HIDE DEF T
  <2> QED BY <1>2, <2>1, Least
<1>4. n \in 1..(v + 1) /\ v < f[n]  BY <1>3
<1>5. ASSUME n # 1 PROVE v >= f[n - 1]
  <2>1. n - 1 \in 1..(v + 1) /\ n - 1 \in 0..(v + 1) /\ ~(n <= n - 1)  BY <1>4, <1>5
  <2>2. n - 1 \notin T  BY <1>3, <2>1
  <2>3. f[n - 1] \in Nat  BY <1>1, <2>1
  <2> QED BY <2>1, <2>2, <2>3
<1> QED BY <1>4, <1>5 DEF HasDigits

LEMMA DigitsUnique ==
  ASSUME NEW r \in Nat \ {0, 1}, NEW m \in Nat, NEW f, Powers(f, r, m), NEW v \in Nat,
         NEW n \in 1..m, NEW k \in 1..m, HasDigits(v, n, f), HasDigits(v, k, f)
  PROVE  n = k
<1>1. \A i \in 0..m : f[i] \in Nat  BY PowersGrow
<1>2. \A i, j \in 0..m : i <= j => f[i] <= f[j]  BY PowersRise
<1>3. v < f[n] /\ (n = 1 \/ v >= f[n - 1]) /\ v < f[k] /\ (k = 1 \/ v >= f[k - 1])
  BY DEF HasDigits
<1>4. ~(n < k)
  <2> SUFFICES ASSUME n < k PROVE FALSE  OBVIOUS
  <2>1. n \in 0..m /\ k - 1 \in 0..m /\ n <= k - 1 /\ k # 1  OBVIOUS
  <2>2. f[n] <= f[k - 1] /\ f[n] \in Nat /\ f[k - 1] \in Nat  BY <1>1, <1>2, <2>1
  <2> QED BY <1>3, <2>1, <2>2
<1>5. ~(k < n)
  <2> SUFFICES ASSUME k < n PROVE FALSE  OBVIOUS
  <2>1. k \in 0..m /\ n - 1 \in 0..m /\ k <= n - 1 /\ n # 1  OBVIOUS
  <2>2. f[k] <= f[n - 1] /\ f[k] \in Nat /\ f[n - 1] \in Nat  BY <1>1, <1>2, <2>1
  <2> QED BY <1>3, <2>1, <2>2
<1> QED BY <1>4, <1>5

\* The n digits of v.
DigitsOf(v, r, hex, f, n) == [i \in 1..n |-> hex[((v \div f[n - i]) % r) + 1]]

\* Numeral, with any powers that reach far enough.
LEMMA NumeralOf ==
  ASSUME NEW r \in Nat \ {0, 1}, NEW hex, NEW v \in Nat, NEW m \in Nat, v + 1 <= m,
         NEW f, Powers(f, r, m), NEW n \in 1..(v + 1), HasDigits(v, n, f)
  PROVE  Numeral(v, r, hex) = DigitsOf(v, r, hex, f, n)
<1> DEFINE power[i \in 0..(v + 1)] == IF i = 0 THEN 1 ELSE r * power[i - 1]
           Has(k) == v < power[k] /\ (k = 1 \/ v >= power[k - 1])
           c == CHOOSE k \in 1..(v + 1) : Has(k)
<1>1. Numeral(v, r, hex) = [i \in 1..c |-> hex[((v \div power[c - i]) % r) + 1]]
  BY DEF Numeral
<1>2. Powers(power, r, v + 1)
  <2>1. \E g : Powers(g, r, v + 1)
    <3>1. v + 1 \in Nat  OBVIOUS
    <3> QED BY ONLY <3>1, PowersExist, r \in Nat \ {0, 1}
  <2>2. \E g : g = [i \in 0..(v + 1) |-> IF i = 0 THEN 1 ELSE r * g[i - 1]]
    BY <2>1 DEF Powers
  <2>3. power = [i \in 0..(v + 1) |-> IF i = 0 THEN 1 ELSE r * power[i - 1]]
    BY <2>2
  <2> HIDE DEF power
  <2> QED BY <2>3 DEF Powers
<1> HIDE DEF power
<1>3. \A i \in 0..(v + 1) : f[i] = power[i]
  <2>1. v + 1 \in Nat  OBVIOUS
  <2> QED BY ONLY <1>2, <2>1, PowersUnique, r \in Nat \ {0, 1}, m \in Nat, v + 1 <= m,
                  Powers(f, r, m)
<1>4. \A k \in 1..(v + 1) : Has(k) <=> HasDigits(v, k, f)
  <2> TAKE k \in 1..(v + 1)
  <2>1. k \in 0..(v + 1) /\ k - 1 \in 0..(v + 1)  OBVIOUS
  <2>2. f[k] = power[k] /\ f[k - 1] = power[k - 1]  BY <1>3, <2>1
  <2> QED BY <2>2 DEF HasDigits
<1>5. Has(n)  BY <1>4
<1>6. c \in 1..(v + 1) /\ HasDigits(v, c, f)
  <2> HIDE DEF Has
  <2> QED BY <1>4, <1>5
<1> HIDE DEF c, Has
<1>7. c = n
  <2>1. c \in 1..m /\ n \in 1..m  BY <1>6
  <2> QED BY ONLY <1>6, <2>1, DigitsUnique, r \in Nat \ {0, 1}, m \in Nat, Powers(f, r, m),
                  v \in Nat, HasDigits(v, n, f)
<1>8. \A i \in 1..n : power[n - i] = f[n - i]
  <2> TAKE i \in 1..n
  <2>1. n - i \in 0..(v + 1)  OBVIOUS
  <2> QED BY <1>3, <2>1
<1>9. Numeral(v, r, hex) = [i \in 1..n |-> hex[((v \div power[n - i]) % r) + 1]]
  BY <1>1, <1>7
<1>10. [i \in 1..n |-> hex[((v \div power[n - i]) % r) + 1]]
       = [i \in 1..n |-> hex[((v \div f[n - i]) % r) + 1]]
  BY <1>8
<1> QED BY <1>9, <1>10 DEF DigitsOf

Same(s, g, k) == \A i \in 1..k : s[i] = g[i]

LEMMA AppendIs ==
  ASSUME NEW S, NEW g \in Seq(S), NEW s \in Seq(S), NEW e \in S,
         NEW k \in Nat, Len(s) = k, Len(g) = k + 1,
         Same(s, g, k), g[k + 1] = e
  PROVE  g = Append(s, e)
<1> DEFINE a == Append(s, e)
<1>1. a \in Seq(S) /\ Len(a) = Len(s) + 1 /\ a[Len(s) + 1] = e /\ \A i \in 1..Len(s) : a[i] = s[i]
  BY AppendProperties
<1> HIDE DEF a
<1>2. Len(a) = k + 1 /\ a[k + 1] = e /\ \A i \in 1..k : a[i] = s[i]
  BY <1>1
<1>3. \A i \in 1..(k + 1) : g[i] = a[i]
  <2> TAKE i \in 1..(k + 1)
  <2>1. i = k + 1 \/ i \in 1..k  OBVIOUS
  <2> QED BY <1>2, <2>1 DEF Same
<1>4. g = a  BY <1>1, <1>2, <1>3, SeqEqual
<1> QED BY <1>4 DEF a

\* The characters of a table of digits.
Glyphs(hex) == {hex[i] : i \in 1..16}

\* A numeral is that of the number without its last digit, and that digit.
LEMMA NumeralEnds ==
  ASSUME NEW r \in 2..16, NEW hex, NEW v \in Nat
  PROVE  /\ Numeral(v, r, hex) \in Seq(Glyphs(hex))
         /\ v < r => Numeral(v, r, hex) = <<hex[v + 1]>>
         /\ v >= r => Numeral(v, r, hex) = Append(Numeral(v \div r, r, hex), hex[(v % r) + 1])
<1> DEFINE m == v + 1
           C == Glyphs(hex)
<1>1. m \in Nat /\ v + 1 <= m /\ r \in Nat \ {0, 1}  OBVIOUS
<1>2. PICK f : Powers(f, r, m)
  BY ONLY <1>1, PowersExist
<1>3. /\ f[0] = 1 /\ \A i \in 1..m : f[i] = r * f[i - 1]
      /\ \A i \in 0..m : f[i] \in Nat \ {0} /\ i < f[i]
  <2> HIDE DEF m
  <2> QED BY ONLY <1>1, <1>2, PowersGrow
<1>4. PICK n \in 1..(v + 1) : HasDigits(v, n, f)
  BY <1>1, <1>2, DigitsCounted
<1>5. Numeral(v, r, hex) = DigitsOf(v, r, hex, f, n)
  <2> HIDE DEF m
  <2> QED BY <1>1, <1>2, <1>4, NumeralOf
<1>6. n \in 1..m /\ v < f[n] /\ (n = 1 \/ v >= f[n - 1])  BY <1>4 DEF HasDigits
<1> HIDE DEF m
<1>6a. n \in Nat /\ n >= 1 /\ n <= m  BY <1>1, <1>6
<1> DEFINE d(i) == hex[((v \div f[n - i]) % r) + 1]
<1>7. ASSUME NEW i \in 1..n PROVE d(i) \in C
  <2>1. n - i \in 0..m  BY <1>6a, <1>1
  <2> DEFINE x == f[n - i]
             y == v \div x
             z == y % r
  <2>2. x \in Nat \ {0}  BY <1>3, <2>1
  <2> HIDE DEF x
  <2>3. y \in Nat  BY <2>2, Quotient
  <2> HIDE DEF y
  <2>4. z \in 0..(r - 1)  BY <1>1, <2>3, Quotient
  <2> HIDE DEF z
  <2>5. z + 1 \in 1..16  BY <2>4
  <2>6. hex[z + 1] \in C  BY <2>5 DEF Glyphs
  <2> QED BY <2>6 DEF x, y, z
<1>8. Numeral(v, r, hex) = [i \in 1..n |-> d(i)]  BY <1>5 DEF DigitsOf
<1> HIDE DEF d
<1>9. Numeral(v, r, hex) \in Seq(C)  BY <1>6a, <1>7, <1>8
<1>10. 1 \in 1..m /\ 0 \in 0..m /\ 1 - 1 = 0  BY <1>1, <1>6
<1>11. f[1] = r  BY <1>1, <1>3, <1>10
<1>12. ASSUME v < r PROVE Numeral(v, r, hex) = <<hex[v + 1]>>
  <2>1. n = 1
    <3> SUFFICES ASSUME n # 1 PROVE FALSE
      OBVIOUS
    <3>1. v >= f[n - 1] /\ n - 1 \in 0..m /\ 1 <= n - 1 /\ 1 \in 0..m  BY <1>6, <1>6a, <1>1
    <3>2. f[1] <= f[n - 1] /\ f[n - 1] \in Nat  BY <1>1, <1>2, <1>3, <3>1, PowersRise
    <3> QED BY <1>11, <1>12, <3>1, <3>2
  <2>2. n - 1 = 0 /\ v \div 1 = v /\ v % r = v
    <3>1. v = 1 * v + 0 /\ 0 \in 0..(1 - 1) /\ 1 \in Nat \ {0}  OBVIOUS
    <3>2. v = r * 0 + v /\ v \in 0..(r - 1) /\ 0 \in Nat  BY <1>12
    <3> QED BY <1>1, <2>1, <3>1, <3>2, QuotientUnique
  <2>3. d(1) = hex[v + 1]  BY <1>3, <2>1, <2>2 DEF d
  <2>4. [i \in 1..1 |-> d(i)] = <<d(1)>>  OBVIOUS
  <2> QED BY <1>8, <2>1, <2>3, <2>4
<1>13. ASSUME v >= r PROVE Numeral(v, r, hex) = Append(Numeral(v \div r, r, hex), hex[(v % r) + 1])
  <2> DEFINE q == v \div r
  <2>1. q \in Nat /\ v % r \in 0..(r - 1) /\ v = r * q + (v % r)  BY <1>1, Quotient
  <2>2. n # 1  BY <1>6, <1>11, <1>13
  <2> DEFINE k == n - 1
  <2>3. k \in 1..m /\ k \in 0..m /\ k - 1 \in 0..m /\ k \in Nat /\ n = k + 1 /\ n \in 1..m
    BY <1>1, <1>6a, <2>2
  <2>4. v >= f[k] /\ f[k] \in Nat \ {0} /\ f[n] = r * f[k] /\ v < f[n]
    BY <1>3, <1>6, <2>2, <2>3
  <2>5. ASSUME k # 1 PROVE f[k] = r * f[k - 1] /\ f[k - 1] \in Nat \ {0} /\ k - 1 < f[k - 1]
    BY <1>3, <2>3
  <2> HIDE DEF k, q
  <2>6. q < f[k]
    <3>1. v < r * f[k]  BY <2>4
    <3> QED BY <1>1, <2>4, <3>1, QuotientTwice DEF q
  <2>7. k = 1 \/ q >= f[k - 1]
    <3> SUFFICES ASSUME k # 1 PROVE q >= f[k - 1]
      OBVIOUS
    <3>1. ~(v < r * f[k - 1]) /\ f[k - 1] \in Nat \ {0}
      <4> DEFINE x == f[k - 1]
      <4>1. f[k] = r * x /\ x \in Nat \ {0} /\ v >= f[k]  BY <2>4, <2>5
      <4> HIDE DEF x
      <4>2. r * x \in Nat  BY <4>1
      <4>3. ~(v < r * x)  BY <4>1, <4>2
      <4> QED BY <4>1, <4>3 DEF x
    <3>2. ~(q < f[k - 1])
      BY ONLY <1>1, <3>1, QuotientTwice, v \in Nat DEF q
    <3> QED BY <2>1, <3>1, <3>2
  <2>8. k \in 1..(q + 1) /\ q + 1 <= m
    <3>1. k = 1 \/ q > k - 1
      <4>1. k # 1 => q >= f[k - 1] /\ f[k - 1] \in Nat /\ k - 1 < f[k - 1]  BY <2>5, <2>7
      <4> QED BY <2>1, <2>3, <4>1
    <3>2. q <= v
      <4>1. r * q >= q  BY <2>1
      <4> QED BY <2>1, <4>1
    <3> QED BY <1>1, <2>1, <2>3, <3>1, <3>2 DEF m
  <2>9. Numeral(q, r, hex) = DigitsOf(q, r, hex, f, k)
    <3>1. HasDigits(q, k, f)  BY <2>6, <2>7 DEF HasDigits
    <3> QED BY ONLY <1>1, <1>2, <2>1, <2>8, <3>1, NumeralOf
  <2>10. ASSUME NEW i \in 1..k PROVE (v \div f[n - i]) % r = (q \div f[k - i]) % r
    <3>1. n - i \in 1..m /\ (n - i) - 1 = k - i /\ k - i \in 0..m  BY <1>1, <2>3
    <3> DEFINE x == f[k - i]
    <3>2. f[n - i] = r * x /\ x \in Nat \ {0}  BY <1>3, <3>1
    <3> HIDE DEF x
    <3>2a. v \in Nat /\ r \in Nat \ {0} /\ x \in Nat \ {0}  BY <1>1, <3>2
    <3>3. v \div (r * x) = q \div x
      <4>1. (v \div r) \div x = v \div (r * x)  BY ONLY <3>2a, QuotientTwice
      <4> QED BY <4>1 DEF q
    <3> QED BY <3>2, <3>3 DEF x
  <2>11. n - n = 0 /\ v \div f[0] = v
    <3>1. v = 1 * v + 0 /\ 0 \in 0..(1 - 1) /\ 1 \in Nat \ {0} /\ 0 \in Nat  OBVIOUS
    <3> QED BY <1>3, <1>6a, <3>1, QuotientUnique
  <2> DEFINE s == Numeral(q, r, hex)
             e == hex[(v % r) + 1]
  <2>12. d(n) = e  BY <2>11 DEF d
  <2>13. ASSUME NEW i \in 1..k PROVE d(i) = s[i]
    BY <2>9, <2>10, <2>13 DEF d, DigitsOf
  <2>14. s \in Seq(C) /\ Len(s) = k
    <3>1. s = [i \in 1..k |-> d(i)]
      <4>1. s = [i \in 1..k |-> hex[((q \div f[k - i]) % r) + 1]]  BY <2>9 DEF DigitsOf
      <4>2. \A i \in 1..k : d(i) = hex[((q \div f[k - i]) % r) + 1]  BY <2>10 DEF d
      <4> QED BY <4>1, <4>2
    <3>2. \A i \in 1..k : d(i) \in C  BY <1>7, <2>3
    <3> HIDE DEF s
    <3> QED BY <2>3, <3>1, <3>2
  <2> HIDE DEF s, e
  <2>15. e \in C
    <3>1. n \in 1..n  BY <2>3
    <3> QED BY <1>7, <2>12, <3>1
  <2> DEFINE g == Numeral(v, r, hex)
  <2>16. g \in Seq(C) /\ Len(g) = n /\ \A i \in 1..n : g[i] = d(i)
    <3>1. g \in Seq(C) /\ g = [i \in 1..n |-> d(i)]  BY <1>8, <1>9
    <3> HIDE DEF g
    <3>2. DOMAIN g = 1..n  BY <3>1
    <3>3. Len(g) = n  BY <1>6a, <3>1, <3>2
    <3> QED BY <3>1, <3>3
  <2> HIDE DEF g
  <2>17. g = Append(s, e)
    <3>1. Len(g) = k + 1 /\ g[k + 1] = e
      <4>1. n \in 1..n  BY <2>3
      <4> QED BY <2>3, <2>12, <2>16, <4>1
    <3>2. Same(s, g, k)
      <4> SUFFICES ASSUME NEW i \in 1..k PROVE s[i] = g[i]
        BY DEF Same
      <4>1. i \in 1..n  BY <2>3
      <4> QED BY <2>13, <2>16, <4>1
    <3>3. g \in Seq(C) /\ s \in Seq(C) /\ e \in C /\ k \in Nat /\ Len(s) = k
      BY <2>3, <2>14, <2>15, <2>16
    <3> HIDE DEF C
    <3> QED BY ONLY <3>1, <3>2, <3>3, AppendIs
  <2> QED BY <2>17 DEF g, s, e, q
<1> QED BY <1>9, <1>12, <1>13

\* ob_put_u64's digits, for some way to find them.
PutsDigits(f, r, hex) ==
    f = [v \in Nat |-> IF v < r THEN <<hex[v + 1]>>
                       ELSE Append(f[v \div r], hex[(v % r) + 1])]

LEMMA NumeralsPut ==
  ASSUME NEW r \in 2..16, NEW hex
  PROVE  PutsDigits([v \in Nat |-> Numeral(v, r, hex)], r, hex)
<1> DEFINE f == [v \in Nat |-> Numeral(v, r, hex)]
           g == [v \in Nat |-> IF v < r THEN <<hex[v + 1]>>
                               ELSE Append(f[v \div r], hex[(v % r) + 1])]
<1>1. ASSUME NEW v \in Nat
      PROVE  Numeral(v, r, hex) = IF v < r THEN <<hex[v + 1]>>
                                  ELSE Append(f[v \div r], hex[(v % r) + 1])
  <2>1. v \div r \in Nat  BY Quotient
  <2>2. f[v \div r] = Numeral(v \div r, r, hex)  BY <2>1
  <2> HIDE DEF f
  <2>3. CASE v < r  BY <2>3, NumeralEnds
  <2>4. CASE ~(v < r)
    <3>1. v >= r  BY <2>4
    <3>2. Numeral(v, r, hex) = Append(Numeral(v \div r, r, hex), hex[(v % r) + 1])
      BY <3>1, NumeralEnds
    <3> QED BY <2>2, <2>4, <3>2
  <2> QED BY <2>3, <2>4
<1>2. f = g
  <2> DEFINE G(v) == IF v < r THEN <<hex[v + 1]>>
                     ELSE Append(f[v \div r], hex[(v % r) + 1])
  <2>1. \A v \in Nat : Numeral(v, r, hex) = G(v)  BY <1>1
  <2>2. f = [v \in Nat |-> G(v)]
    <3> HIDE DEF G
    <3> QED BY <2>1
  <2> QED BY <2>2
<1> HIDE DEF f
<1> QED BY <1>2 DEF PutsDigits, f

LEMMA NumeralIs ==
  ASSUME NEW v \in Nat, NEW r \in 2..16, NEW hex
  PROVE  ob_put_u64(v, r, hex) = Numeral(v, r, hex)
<1> DEFINE digits[w \in Nat] == IF w < r THEN <<hex[w + 1]>>
                                ELSE Append(digits[w \div r], hex[(w % r) + 1])
<1>1. ob_put_u64(v, r, hex) = digits[v]
  BY DEF ob_put_u64
<1>2. PutsDigits(digits, r, hex)
  <2>1. \E f : PutsDigits(f, r, hex)  BY NumeralsPut
  <2>2. \E f : f = [w \in Nat |-> IF w < r THEN <<hex[w + 1]>>
                                  ELSE Append(f[w \div r], hex[(w % r) + 1])]
    BY <2>1, Zenon DEF PutsDigits
  <2>3. digits = [w \in Nat |-> IF w < r THEN <<hex[w + 1]>>
                                ELSE Append(digits[w \div r], hex[(w % r) + 1])]
    BY <2>2, Zenon
  <2> HIDE DEF digits
  <2> QED BY <2>3 DEF PutsDigits
<1> HIDE DEF digits
<1>3. \A w \in Nat : digits[w] = IF w < r THEN <<hex[w + 1]>>
                                 ELSE Append(digits[w \div r], hex[(w % r) + 1])
  <2>1. digits = [w \in Nat |-> IF w < r THEN <<hex[w + 1]>>
                                ELSE Append(digits[w \div r], hex[(w % r) + 1])]
    BY <1>2 DEF PutsDigits
  <2> QED BY <2>1
<1> DEFINE T == {w \in Nat : digits[w] # Numeral(w, r, hex)}
<1>4. T = {}
  <2> SUFFICES ASSUME T # {} PROVE FALSE
    OBVIOUS
  <2>1. PICK w \in T : \A x \in T : w <= x
    <3>1. T \subseteq Nat  OBVIOUS
    <3> HIDE DEF T
    <3> QED BY <3>1, Least
  <2>2. w \in Nat /\ digits[w] # Numeral(w, r, hex)  BY <2>1
  <2>3. w < r => Numeral(w, r, hex) = <<hex[w + 1]>>
    BY <2>2, NumeralEnds
  <2>4. w >= r => Numeral(w, r, hex) = Append(Numeral(w \div r, r, hex), hex[(w % r) + 1])
    BY <2>2, NumeralEnds
  <2>5. w >= r  BY <1>3, <2>2, <2>3
  <2> DEFINE q == w \div r
  <2>6. q \in Nat /\ w % r \in 0..(r - 1) /\ w = r * q + (w % r)  BY <2>2, Quotient
  <2> HIDE DEF q
  <2>7. r * q >= 2 * q  BY <2>6
  <2>8. q < w
    <3>1. r * q \in Nat  BY <2>6
    <3>2. q > 0 => q < w  BY <2>6, <2>7, <3>1
    <3> QED BY <2>2, <2>5, <2>6, <3>2
  <2>9. q \notin T  BY <2>1, <2>2, <2>6, <2>8
  <2>10. digits[q] = Numeral(q, r, hex)  BY <2>6, <2>9
  <2>11. digits[w] = Append(digits[q], hex[(w % r) + 1])
    <3>1. ~(w < r)  BY <2>2, <2>5
    <3>2. digits[w] = IF w < r THEN <<hex[w + 1]>> ELSE Append(digits[q], hex[(w % r) + 1])
      BY <1>3, <2>2 DEF q
    <3> QED BY ONLY <3>1, <3>2, Zenon
  <2>12. Numeral(w, r, hex) = Append(Numeral(q, r, hex), hex[(w % r) + 1])
    BY <2>4, <2>5 DEF q
  <2> QED BY <2>2, <2>10, <2>11, <2>12
<1> QED BY <1>1, <1>4

-----------------------------------------------------------------------------
(***************************************************************************)
(* What a format means: the longest prefix, and the texts.                 *)
(***************************************************************************)
LEMMA Longest ==
  ASSUME NEW H, NEW x \in H, \A q \in H : Len(q) \in Nat,
         \A q \in H : q = x \/ Len(q) < Len(x)
  PROVE  (CHOOSE p \in H : \A q \in H : Len(q) <= Len(p)) = x
<1>1. \A q \in H : Len(q) <= Len(x)  OBVIOUS
<1> DEFINE c == CHOOSE p \in H : \A q \in H : Len(q) <= Len(p)
<1>2. c \in H /\ \A q \in H : Len(q) <= Len(c)  BY <1>1
<1> HIDE DEF c
<1>3. Len(x) <= Len(c) /\ Len(x) \in Nat /\ Len(c) \in Nat  BY <1>2
<1>4. ~(Len(c) < Len(x))  BY <1>3
<1> QED BY <1>2, <1>4 DEF c

Stands(f, i, c) == i <= Len(f) /\ f[i] = c

PrefixAt(f, i) ==
    IF Stands(f, i, "h") THEN (IF Stands(f, i + 1, "h") THEN <<"h", "h">> ELSE <<"h">>)
    ELSE IF Stands(f, i, "l") THEN (IF Stands(f, i + 1, "l") THEN <<"l", "l">> ELSE <<"l">>)
    ELSE <<>>

LEMMA MatchesAre ==
  ASSUME NEW f, NEW i \in Nat
  PROVE  /\ Matches(f, i, <<>>)
         /\ \A c : Matches(f, i, <<c>>) <=> Stands(f, i, c)
         /\ \A c : Matches(f, i, <<c, c>>) <=> Stands(f, i, c) /\ Stands(f, i + 1, c)
<1>1. Matches(f, i, <<>>)  BY DEF Matches
<1>2. ASSUME NEW c PROVE Matches(f, i, <<c>>) <=> Stands(f, i, c)
  <2>1. DOMAIN <<c>> = {1} /\ <<c>>[1] = c /\ i + 1 - 1 = i  OBVIOUS
  <2> QED BY <2>1 DEF Matches, Stands
<1>3. ASSUME NEW c PROVE Matches(f, i, <<c, c>>) <=> Stands(f, i, c) /\ Stands(f, i + 1, c)
  <2>1. DOMAIN <<c, c>> = {1, 2} /\ <<c, c>>[1] = c /\ <<c, c>>[2] = c
        /\ i + 1 - 1 = i /\ i + 2 - 1 = i + 1
    OBVIOUS
  <2> QED BY <2>1 DEF Matches, Stands
<1> QED BY <1>1, <1>2, <1>3

LEMMA PrefixIs ==
  ASSUME NEW f, NEW i \in Nat
  PROVE  LengthPrefix(f, i) = PrefixAt(f, i)
<1> DEFINE H == {p \in Prefixes : Matches(f, i, p)}
           x == PrefixAt(f, i)
<1>1. LengthPrefix(f, i) = CHOOSE p \in H : \A q \in H : Len(q) <= Len(p)
  BY DEF LengthPrefix
<1>2. /\ Len(<<>>) = 0 /\ Len(<<"h">>) = 1 /\ Len(<<"l">>) = 1
      /\ Len(<<"h", "h">>) = 2 /\ Len(<<"l", "l">>) = 2
  OBVIOUS
<1>3. Prefixes = {<<>>, <<"h">>, <<"l">>, <<"h", "h">>, <<"l", "l">>}
  BY DEF Prefixes
<1>4. \A q \in H : Len(q) \in Nat  BY <1>2, <1>3
<1>5. "h" # "l"  OBVIOUS
<1>6. ~(Stands(f, i, "h") /\ Stands(f, i, "l"))  BY <1>5 DEF Stands
<1>7. /\ Matches(f, i, <<>>)
      /\ Matches(f, i, <<"h">>) <=> Stands(f, i, "h")
      /\ Matches(f, i, <<"l">>) <=> Stands(f, i, "l")
      /\ Matches(f, i, <<"h", "h">>) <=> Stands(f, i, "h") /\ Stands(f, i + 1, "h")
      /\ Matches(f, i, <<"l", "l">>) <=> Stands(f, i, "l") /\ Stands(f, i + 1, "l")
  BY MatchesAre
<1>8. x \in H
  BY <1>3, <1>7 DEF PrefixAt
<1>9. ASSUME NEW q \in H PROVE q = x \/ Len(q) < Len(x)
  <2>1. q \in Prefixes /\ Matches(f, i, q)  OBVIOUS
  <2>2. CASE Stands(f, i, "h") /\ Stands(f, i + 1, "h")
    <3>1. x = <<"h", "h">>  BY <2>2 DEF PrefixAt
    <3>2. q \in {<<>>, <<"h">>, <<"h", "h">>}
      BY ONLY <1>3, <1>6, <1>7, <2>1, <2>2
    <3> HIDE DEF x, H
    <3> QED BY ONLY <1>2, <3>1, <3>2
  <2>3. CASE Stands(f, i, "h") /\ ~Stands(f, i + 1, "h")
    <3>1. x = <<"h">>  BY <2>3 DEF PrefixAt
    <3>2. q \in {<<>>, <<"h">>}
      BY ONLY <1>3, <1>6, <1>7, <2>1, <2>3
    <3> HIDE DEF x, H
    <3> QED BY ONLY <1>2, <3>1, <3>2
  <2>4. CASE Stands(f, i, "l") /\ Stands(f, i + 1, "l")
    <3>1. x = <<"l", "l">>  BY <1>6, <2>4 DEF PrefixAt
    <3>2. q \in {<<>>, <<"l">>, <<"l", "l">>}
      BY ONLY <1>3, <1>6, <1>7, <2>1, <2>4
    <3> HIDE DEF x, H
    <3> QED BY ONLY <1>2, <3>1, <3>2
  <2>5. CASE Stands(f, i, "l") /\ ~Stands(f, i + 1, "l")
    <3>1. x = <<"l">>  BY <1>6, <2>5 DEF PrefixAt
    <3>2. q \in {<<>>, <<"l">>}
      BY ONLY <1>3, <1>6, <1>7, <2>1, <2>5
    <3> HIDE DEF x, H
    <3> QED BY ONLY <1>2, <3>1, <3>2
  <2>6. CASE ~Stands(f, i, "h") /\ ~Stands(f, i, "l")
    <3>1. x = <<>>  BY <2>6 DEF PrefixAt
    <3>2. q = <<>>
      BY ONLY <1>3, <1>7, <2>1, <2>6
    <3> QED BY <3>1, <3>2
  <2> QED BY <2>2, <2>3, <2>4, <2>5, <2>6
<1> HIDE DEF H, x
<1>10. (CHOOSE p \in H : \A q \in H : Len(q) <= Len(p)) = x
  BY ONLY <1>4, <1>8, <1>9, Longest
<1> QED BY <1>1, <1>10 DEF x

LEMMA PrefixLen == \A f, i : Len(PrefixAt(f, i)) \in 0..2
<1>1. /\ Len(<<>>) = 0 /\ Len(<<"h">>) = 1 /\ Len(<<"l">>) = 1
      /\ Len(<<"h", "h">>) = 2 /\ Len(<<"l", "l">>) = 2
  OBVIOUS
<1> QED BY <1>1 DEF PrefixAt

\* The text from position i and argument k, given the texts from later ones.
TextAt(f, a, g, i, k) ==
    IF i > Len(f) THEN <<>>
    ELSE IF f[i] # "%" THEN Single(<<f[i]>>) \o g[i + 1][k]
    ELSE LET p == LengthPrefix(f, i + 1)
             j == i + 1 + Len(p)
         IN  IF j > Len(f) THEN <<>>
             ELSE Meaning(f[j], p, a, k) \o g[j + 1][k + Taken(f[j], p)]

TextsAt(f, a, g, i) == [k \in 1..(Len(a) + 1) |-> TextAt(f, a, g, i, k)]

\* Only later texts matter.
LEMMA TextLooksAhead ==
  ASSUME NEW f, Len(f) \in Nat, NEW a, NEW i \in 1..(Len(f) + 2), NEW g, NEW h,
         \A m \in (i + 1)..(Len(f) + 2) : g[m] = h[m]
  PROVE  TextsAt(f, a, g, i) = TextsAt(f, a, h, i)
<1> DEFINE p == LengthPrefix(f, i + 1)
           j == i + 1 + Len(p)
<1>1. Len(p) \in 0..2
  <2>1. i + 1 \in Nat  OBVIOUS
  <2> QED BY <2>1, PrefixIs, PrefixLen
<1> HIDE DEF p
<1>2. i <= Len(f) => g[i + 1] = h[i + 1]
  <2>1. i <= Len(f) => i + 1 \in (i + 1)..(Len(f) + 2)  OBVIOUS
  <2> QED BY <2>1
<1>3. j <= Len(f) => g[j + 1] = h[j + 1]
  <2>1. j <= Len(f) => j + 1 \in (i + 1)..(Len(f) + 2)  BY <1>1
  <2> QED BY <2>1
<1>4. j \in Nat  BY <1>1
<1> HIDE DEF j
<1>5. ASSUME NEW k \in 1..(Len(a) + 1) PROVE TextAt(f, a, g, i, k) = TextAt(f, a, h, i, k)
  <2> DEFINE U(x) == IF i > Len(f) THEN <<>>
                     ELSE IF f[i] # "%" THEN Single(<<f[i]>>) \o x[i + 1][k]
                     ELSE IF j > Len(f) THEN <<>>
                     ELSE Meaning(f[j], p, a, k) \o x[j + 1][k + Taken(f[j], p)]
  <2>1. TextAt(f, a, g, i, k) = U(g) /\ TextAt(f, a, h, i, k) = U(h)
    BY DEF TextAt, p, j
  <2>2. U(g) = U(h)
    <3>1. CASE i > Len(f)  BY <3>1
    <3>2. CASE ~(i > Len(f)) /\ f[i] # "%"
      <4>1. g[i + 1] = h[i + 1]  BY <1>2, <3>2
      <4> QED BY <3>2, <4>1
    <3>3. CASE ~(i > Len(f)) /\ ~(f[i] # "%") /\ j > Len(f)  BY <3>3
    <3>4. CASE ~(i > Len(f)) /\ ~(f[i] # "%") /\ ~(j > Len(f))
      <4>1. g[j + 1] = h[j + 1]  BY <1>3, <1>4, <3>4
      <4> QED BY <3>4, <4>1
    <3> QED BY <3>1, <3>2, <3>3, <3>4
  <2> HIDE DEF U
  <2> QED BY <2>1, <2>2
<1> QED BY <1>5 DEF TextsAt

TextsSolve(f, a, g) == g = [i \in 1..(Len(f) + 2) |-> TextsAt(f, a, g, i)]

LEMMA TextsExist ==
  ASSUME NEW f, Len(f) \in Nat, NEW a
  PROVE  \E g : TextsSolve(f, a, g)
<1> DEFINE n == Len(f) + 2
           TextsOf(d) == (n - d + 1)..n
           Has(d) == \E g : \A i \in TextsOf(d) : g[i] = TextsAt(f, a, g, i)
           T == {d \in 0..n : ~Has(d)}
<1>0. n \in Nat  OBVIOUS
<1>1. T = {}
  <2>1. SUFFICES ASSUME T # {} PROVE FALSE
    OBVIOUS
  <2>2. PICK k \in T : \A l \in T : k <= l
    <3>1. T \subseteq Nat  OBVIOUS
    <3> HIDE DEF T
    <3> QED BY <2>1, <3>1, Least
  <2>3. k \in 0..n /\ ~Has(k)
    <3> HIDE DEF Has
    <3> QED BY <2>2
  <2> HIDE DEF n
  <2>4. k # 0
    <3> SUFFICES ASSUME k = 0 PROVE Has(k)
      BY <2>3
    <3>1. TextsOf(k) = {}  BY <1>0
    <3> QED BY <3>1
  <2>5. k - 1 \in 0..n /\ k \in Nat /\ ~(k <= k - 1)  BY <2>3, <2>4, <1>0
  <2>6. Has(k - 1)
    <3>1. k - 1 \notin T  BY <2>2, <2>5
    <3> HIDE DEF Has
    <3> QED BY <2>5, <3>1
  <2>7. PICK g : \A i \in TextsOf(k - 1) : g[i] = TextsAt(f, a, g, i)
    BY <2>6
  <2> DEFINE b == n - k + 1
             h == [i \in TextsOf(k) |-> IF i = b THEN TextsAt(f, a, g, b) ELSE g[i]]
  <2>8. b \in TextsOf(k) /\ b \in 1..n /\ TextsOf(k) = {b} \cup TextsOf(k - 1) /\ b \notin TextsOf(k - 1)
        /\ TextsOf(k - 1) = (b + 1)..n
    BY <1>0, <2>3, <2>5
  <2> HIDE DEF b, TextsOf
  <2>9. h[b] = TextsAt(f, a, g, b) /\ \A i \in TextsOf(k - 1) : h[i] = g[i]
    BY <2>8
  <2> HIDE DEF h
  <2>10. ASSUME NEW i \in TextsOf(k) PROVE TextsAt(f, a, h, i) = TextsAt(f, a, g, i)
    <3>1. i \in 1..(Len(f) + 2) /\ \A m \in (i + 1)..(Len(f) + 2) : m \in (b + 1)..n
      BY <1>0, <2>8 DEF n
    <3>2. \A m \in (i + 1)..(Len(f) + 2) : h[m] = g[m]
      BY <2>8, <2>9, <3>1
    <3> QED BY ONLY <3>1, <3>2, Len(f) \in Nat, TextLooksAhead
  <2>11. \A i \in TextsOf(k) : h[i] = TextsAt(f, a, h, i)
    BY <2>7, <2>8, <2>9, <2>10
  <2> QED BY <2>3, <2>11
<1>2. PICK g : \A i \in 1..n : g[i] = TextsAt(f, a, g, i)
  <2>1. n \in 0..n /\ TextsOf(n) = 1..n  BY <1>0
  <2>2. Has(n)
    <3> HIDE DEF Has
    <3> QED BY <1>1, <2>1
  <2> QED BY <2>1, <2>2
<1> DEFINE h == [i \in 1..n |-> g[i]]
<1>3. \A i \in 1..n : h[i] = g[i]  OBVIOUS
<1>4. h = [i \in 1..n |-> h[i]]  OBVIOUS
<1> HIDE DEF h
<1>5. ASSUME NEW i \in 1..n PROVE h[i] = TextsAt(f, a, h, i)
  <2>1. i \in 1..(Len(f) + 2) /\ \A m \in (i + 1)..(Len(f) + 2) : m \in 1..n
    BY <1>0
  <2> HIDE DEF n
  <2>2. \A m \in (i + 1)..(Len(f) + 2) : h[m] = g[m]
    BY <1>3, <2>1
  <2>3. TextsAt(f, a, h, i) = TextsAt(f, a, g, i)
    BY ONLY <2>1, <2>2, Len(f) \in Nat, TextLooksAhead
  <2> QED BY <1>2, <1>3, <2>3
<1> QED BY <1>4, <1>5 DEF TextsSolve

LEMMA TextsFollow ==
  ASSUME NEW f, Len(f) \in Nat, NEW a
  PROVE  \A i \in 1..(Len(f) + 2) : \A k \in 1..(Len(a) + 1) :
           TextFrom(f, a)[i][k] = TextAt(f, a, TextFrom(f, a), i, k)
<1> DEFINE text[i \in 1..(Len(f) + 2)] ==
             [k \in 1..(Len(a) + 1) |->
                IF i > Len(f) THEN <<>>
                ELSE IF f[i] # "%" THEN Single(<<f[i]>>) \o text[i + 1][k]
                ELSE LET p == LengthPrefix(f, i + 1)
                         j == i + 1 + Len(p)
                     IN  IF j > Len(f) THEN <<>>
                         ELSE Meaning(f[j], p, a, k) \o text[j + 1][k + Taken(f[j], p)]]
<1>1. TextFrom(f, a) = text  BY Zenon DEF TextFrom
<1>2. TextsSolve(f, a, text)
  <2>1. \E g : TextsSolve(f, a, g)  BY TextsExist
  <2>2. \E g : g = [i \in 1..(Len(f) + 2) |->
             [k \in 1..(Len(a) + 1) |->
                IF i > Len(f) THEN <<>>
                ELSE IF f[i] # "%" THEN Single(<<f[i]>>) \o g[i + 1][k]
                ELSE LET p == LengthPrefix(f, i + 1)
                         j == i + 1 + Len(p)
                     IN  IF j > Len(f) THEN <<>>
                         ELSE Meaning(f[j], p, a, k) \o g[j + 1][k + Taken(f[j], p)]]]
    BY <2>1, Zenon DEF TextsSolve, TextsAt, TextAt
  <2>3. text = [i \in 1..(Len(f) + 2) |->
             [k \in 1..(Len(a) + 1) |->
                IF i > Len(f) THEN <<>>
                ELSE IF f[i] # "%" THEN Single(<<f[i]>>) \o text[i + 1][k]
                ELSE LET p == LengthPrefix(f, i + 1)
                         j == i + 1 + Len(p)
                     IN  IF j > Len(f) THEN <<>>
                         ELSE Meaning(f[j], p, a, k) \o text[j + 1][k + Taken(f[j], p)]]]
    BY <2>2, Zenon
  <2> HIDE DEF text
  <2> QED BY <2>3 DEF TextsSolve, TextsAt, TextAt
<1> HIDE DEF text
<1>3. text = [i \in 1..(Len(f) + 2) |-> TextsAt(f, a, text, i)]  BY <1>2 DEF TextsSolve
<1>4. \A i \in 1..(Len(f) + 2) : text[i] = TextsAt(f, a, text, i)  BY <1>3
<1>5. ASSUME NEW i \in 1..(Len(f) + 2), NEW k \in 1..(Len(a) + 1)
      PROVE  text[i][k] = TextAt(f, a, text, i, k)
  <2>1. text[i] = [m \in 1..(Len(a) + 1) |-> TextAt(f, a, text, i, m)]
    BY <1>4 DEF TextsAt
  <2> QED BY <2>1
<1> QED BY <1>1, <1>5

\* Characters that are put, and marked characters.
Characters == STRING \cup {"0", "x", "-", "%"} \cup Glyphs(HEX_LOWER) \cup Glyphs(HEX_UPPER)
Marks == [char : Characters, place : Nat]

LEMMA Marked ==
  ASSUME NEW s \in Seq(Characters)
  PROVE  /\ Single(s) \in Seq(Marks) /\ Len(Single(s)) = Len(s)
         /\ \A n \in 1..Len(s) : Single(s)[n] = [char |-> s[n], place |-> 0]
         /\ Whole(s) \in Seq(Marks) /\ Len(Whole(s)) = Len(s)
         /\ \A n \in 1..Len(s) : Whole(s)[n] = [char |-> s[n], place |-> n]
<1> DEFINE l == Len(s)
<1>1. DOMAIN s = 1..l /\ l \in Nat /\ \A n \in 1..l : s[n] \in Characters  OBVIOUS
<1> HIDE DEF l
<1>2. Single(s) = [n \in 1..l |-> [char |-> s[n], place |-> 0]]  BY <1>1 DEF Single
<1>3. Whole(s) = [n \in 1..l |-> [char |-> s[n], place |-> n]]  BY <1>1 DEF Whole
<1>4. \A n \in 1..l : /\ [char |-> s[n], place |-> 0] \in Marks
                      /\ [char |-> s[n], place |-> n] \in Marks
  <2> TAKE n \in 1..l
  <2>1. s[n] \in Characters /\ n \in Nat /\ 0 \in Nat  BY <1>1
  <2> HIDE DEF Characters
  <2> QED BY <2>1 DEF Marks
<1>5. Single(s) \in Seq(Marks) /\ Len(Single(s)) = l
  <2>1. Single(s) \in [1..l -> Marks]  BY <1>2, <1>4
  <2> QED BY <1>1, <2>1
<1>6. Whole(s) \in Seq(Marks) /\ Len(Whole(s)) = l
  <2>1. Whole(s) \in [1..l -> Marks]  BY <1>3, <1>4
  <2> QED BY <1>1, <2>1
<1> QED BY <1>2, <1>3, <1>5, <1>6 DEF l

\* What the code puts for a directive, of the arguments from k on.
Value(prefix, a, k) == a[k] + (IF Long(prefix) THEN WORD * a[k + 1] ELSE 0)
Modulus(prefix) == IF Long(prefix) THEN WORD * WORD ELSE WORD

Figures(c, prefix, a, k) ==
    LET v == Value(prefix, a, k)
        hex == IF c = "X" THEN HEX_UPPER ELSE HEX_LOWER
    IN  IF c \in {"d", "i"}
          THEN (IF 2 * v < Modulus(prefix) THEN Numeral(v, 10, hex)
                ELSE <<"-">> \o Numeral(Modulus(prefix) - v, 10, hex))
          ELSE Numeral(v, radix(c), hex)

Puts(c, a, k) == IF c = "s" THEN Text[a[k]] ELSE IF c = "p" THEN <<"0", "x">> ELSE <<>>
Putcs(c, prefix, a, k) ==
    CASE c = "c" -> <<Chr[a[k]]>>
      [] c = "%" -> <<"%">>
      [] c = "p" -> Numeral(a[k], 16, HEX_LOWER)
      [] c \in Numbers -> Figures(c, prefix, a, k)
      [] OTHER -> <<>>

\* There are enough arguments.
Enough(c, prefix, a, k) ==
    a \in Seq(VaWords) /\ k \in Nat \ {0} /\ k + Taken(c, prefix) <= Len(a) + 1

LEMMA ArgumentsAre ==
  ASSUME NEW c, NEW prefix, NEW a, NEW k, Enough(c, prefix, a, k)
  PROVE  /\ c \in {"c", "s", "p"} => a[k] \in VaWords
         /\ c \in Numbers => /\ Value(prefix, a, k) \in Nat
                             /\ Modulus(prefix) \in Nat
                             /\ Value(prefix, a, k) < Modulus(prefix)
<1>1. a \in Seq(VaWords) /\ k \in Nat \ {0} /\ k + Taken(c, prefix) <= Len(a) + 1
      /\ Len(a) \in Nat
  BY DEF Enough
<1>2. \A n \in 1..Len(a) : a[n] \in VaWords  BY <1>1
<1>3. ASSUME c \in {"c", "s", "p"} PROVE a[k] \in VaWords
  <2>1. c \notin Numbers  BY <1>3 DEF Numbers
  <2>2. Taken(c, prefix) = 1  BY <1>3, <2>1 DEF Taken
  <2> QED BY <1>1, <1>2, <2>2
<1>4. ASSUME c \in Numbers
      PROVE  /\ Value(prefix, a, k) \in Nat /\ Modulus(prefix) \in Nat
             /\ Value(prefix, a, k) < Modulus(prefix)
  <2>1. CASE Long(prefix)
    <3>1. Taken(c, prefix) = 2  BY <1>4, <2>1 DEF Taken
    <3>2. k \in 1..Len(a) /\ k + 1 \in 1..Len(a)  BY <1>1, <3>1
    <3> DEFINE x == a[k]
               y == a[k + 1]
    <3>3. x \in 0..(WORD - 1) /\ y \in 0..(WORD - 1) /\ WORD \in Nat \ {0}
      BY <1>2, <3>2, Cap DEF VaWords
    <3>4. Value(prefix, a, k) = x + WORD * y /\ Modulus(prefix) = WORD * WORD
      BY <2>1 DEF Value, Modulus
    <3> HIDE DEF x, y
    <3>5. WORD * y \in Nat /\ WORD * WORD \in Nat  BY <3>3
    <3>6. WORD * y <= WORD * (WORD - 1) /\ WORD * (WORD - 1) = WORD * WORD - WORD  BY <3>3
    <3>7. x + WORD * y < WORD * WORD  BY <3>3, <3>5, <3>6
    <3> QED BY <3>3, <3>4, <3>5, <3>7
  <2>2. CASE ~Long(prefix)
    <3>1. Taken(c, prefix) = 1  BY <1>4, <2>2 DEF Taken
    <3>2. k \in 1..Len(a)  BY <1>1, <3>1
    <3>3. a[k] \in 0..(WORD - 1) /\ WORD \in Nat \ {0}  BY <1>2, <3>2, Cap DEF VaWords
    <3>4. Value(prefix, a, k) = a[k] + 0 /\ Modulus(prefix) = WORD
      BY <2>2 DEF Value, Modulus
    <3> QED BY <3>3, <3>4
  <2> QED BY <2>1, <2>2
<1> QED BY <1>3, <1>4

LEMMA NumeralTyped ==
  ASSUME NEW v \in Nat, NEW r \in 2..16, NEW hex \in {HEX_LOWER, HEX_UPPER}
  PROVE  Numeral(v, r, hex) \in Seq(Characters) /\ ob_put_u64(v, r, hex) = Numeral(v, r, hex)
<1>1. Numeral(v, r, hex) \in Seq(Glyphs(hex))  BY NumeralEnds
<1>2. Glyphs(hex) \subseteq Characters
  <2> HIDE DEF Glyphs, HEX_LOWER, HEX_UPPER
  <2> QED BY DEF Characters
<1>3. Numeral(v, r, hex) \in Seq(Characters)
  <2> HIDE DEF Characters, Glyphs
  <2> QED BY <1>1, <1>2
<1> QED BY <1>3, NumeralIs

LEMMA RadixIs == \A c \in Numbers : radix(c) \in 2..16
BY DEF Numbers, radix

LEMMA FiguresTyped ==
  ASSUME NEW c \in Numbers, NEW prefix, NEW a, NEW k, Enough(c, prefix, a, k)
  PROVE  Figures(c, prefix, a, k) \in Seq(Characters)
<1> DEFINE v == Value(prefix, a, k)
           top == Modulus(prefix)
           hex == IF c = "X" THEN HEX_UPPER ELSE HEX_LOWER
<1>1. v \in Nat /\ top \in Nat /\ v < top  BY ArgumentsAre
<1>2. hex \in {HEX_LOWER, HEX_UPPER}  OBVIOUS
<1>3. Figures(c, prefix, a, k) = IF c \in {"d", "i"}
          THEN (IF 2 * v < top THEN Numeral(v, 10, hex)
                ELSE <<"-">> \o Numeral(top - v, 10, hex))
          ELSE Numeral(v, radix(c), hex)
  BY DEF Figures
<1> HIDE DEF v, top, hex
<1>4. top - v \in Nat /\ 10 \in 2..16 /\ radix(c) \in 2..16  BY <1>1, RadixIs
<1>5. /\ Numeral(v, 10, hex) \in Seq(Characters) /\ Numeral(top - v, 10, hex) \in Seq(Characters)
      /\ Numeral(v, radix(c), hex) \in Seq(Characters)
  BY <1>1, <1>2, <1>4, NumeralTyped
<1>6. <<"-">> \in Seq(Characters)
  <2>1. "-" \in Characters  BY DEF Characters
  <2> HIDE DEF Characters
  <2> QED BY <2>1
<1> HIDE DEF Characters
<1>7. <<"-">> \o Numeral(top - v, 10, hex) \in Seq(Characters)  BY <1>5, <1>6, ConcatProperties
<1> QED BY <1>3, <1>5, <1>7

LEMMA PutsTyped ==
  ASSUME NEW c, NEW prefix, NEW a, NEW k, Enough(c, prefix, a, k)
  PROVE  Puts(c, a, k) \in Seq(Characters) /\ Putcs(c, prefix, a, k) \in Seq(Characters)
<1>1. c \in {"c", "s", "p"} => a[k] \in 0..(WORD - 1)  BY ArgumentsAre DEF VaWords
<1>2. c \in {"c", "s", "p"} => Chr[a[k]] \in STRING /\ Text[a[k]] \in Seq(STRING)
  BY <1>1, OutBufAssumption
<1>3. STRING \subseteq Characters /\ {"0", "x", "-", "%"} \subseteq Characters  BY DEF Characters
<1> HIDE DEF Characters
<1>4. <<>> \in Seq(Characters) /\ <<"0", "x">> \in Seq(Characters) /\ <<"%">> \in Seq(Characters)  BY <1>3
<1> DEFINE u == Text[a[k]]
           w == Chr[a[k]]
<1>5. c = "s" => u \in Seq(Characters)
  <2>1. PICK S : S = STRING  OBVIOUS
  <2>2. c = "s" => u \in Seq(S)  BY <1>2, <2>1
  <2>3. S \subseteq Characters  BY <1>3, <2>1
  <2> HIDE DEF u
  <2> QED BY ONLY <2>2, <2>3
<1>6. c = "c" => <<w>> \in Seq(Characters)
  <2>1. c = "c" => w \in Characters  BY <1>2, <1>3
  <2> HIDE DEF w
  <2> QED BY <2>1
<1>7. Puts(c, a, k) \in Seq(Characters)  BY <1>4, <1>5 DEF Puts
<1>8. ASSUME c = "p" PROVE Numeral(a[k], 16, HEX_LOWER) \in Seq(Characters)
  <2>1. a[k] \in Nat /\ 16 \in 2..16  BY <1>1, <1>8
  <2> QED BY <2>1, NumeralTyped
<1>9. c \in Numbers => Figures(c, prefix, a, k) \in Seq(Characters)  BY FiguresTyped
<1>10. Putcs(c, prefix, a, k) \in Seq(Characters)  BY <1>4, <1>6, <1>8, <1>9 DEF Putcs
<1> QED BY <1>7, <1>10

\* The meaning of a directive is what is put as a whole and then by character.
LEMMA MeaningIs ==
  ASSUME NEW c, NEW prefix, NEW a, NEW k, Enough(c, prefix, a, k)
  PROVE  Meaning(c, prefix, a, k) = Whole(Puts(c, a, k)) \o Single(Putcs(c, prefix, a, k))
<1> DEFINE s == Puts(c, a, k)
           t == Putcs(c, prefix, a, k)
<1>1. s \in Seq(Characters) /\ t \in Seq(Characters)  BY PutsTyped
<1>2. /\ Whole(s) \in Seq(Marks) /\ Single(t) \in Seq(Marks)
      /\ s = <<>> => Whole(s) = <<>>
      /\ t = <<>> => Single(t) = <<>>
  <2> HIDE DEF s, t
  <2>1. /\ Whole(s) \in Seq(Marks) /\ Single(t) \in Seq(Marks)
        /\ Len(Whole(s)) = Len(s) /\ Len(Single(t)) = Len(t)
    BY <1>1, Marked
  <2>2. s = <<>> => Whole(s) = <<>>  BY <2>1, EmptySeq
  <2>3. t = <<>> => Single(t) = <<>>  BY <2>1, EmptySeq
  <2> QED BY <2>1, <2>2, <2>3
<1>3. s = <<>> => Whole(s) \o Single(t) = Single(t)
  <2> HIDE DEF s, t, Marks
  <2> QED BY <1>2, ConcatEmptySeq
<1>4. t = <<>> => Whole(s) \o Single(t) = Whole(s)
  <2> HIDE DEF s, t, Marks
  <2> QED BY <1>2, ConcatEmptySeq
<1>5. ASSUME c = "c" PROVE Meaning(c, prefix, a, k) = Single(t) /\ s = <<>>
  <2>1. t = <<Chr[a[k]]>> /\ s = <<>>  BY <1>5 DEF Putcs, Puts, Numbers
  <2> HIDE DEF s, t
  <2> QED BY <1>5, <2>1 DEF Meaning
<1>6. ASSUME c = "s" PROVE Meaning(c, prefix, a, k) = Whole(s) /\ t = <<>>
  <2>1. s = Text[a[k]] /\ t = <<>>  BY <1>6 DEF Putcs, Puts, Numbers
  <2> HIDE DEF s, t
  <2> QED BY <1>6, <2>1 DEF Meaning
<1>7. ASSUME c = "%" PROVE Meaning(c, prefix, a, k) = Single(t) /\ s = <<>>
  <2>1. t = <<"%">> /\ s = <<>>  BY <1>7 DEF Putcs, Puts, Numbers
  <2> HIDE DEF s, t
  <2> QED BY <1>7, <2>1 DEF Meaning
<1>8. ASSUME c = "p" PROVE Meaning(c, prefix, a, k) = Whole(s) \o Single(t)
  <2>1. s = <<"0", "x">> /\ t = Numeral(a[k], 16, HEX_LOWER)  BY <1>8 DEF Putcs, Puts, Numbers
  <2> HIDE DEF s, t
  <2> QED BY <1>8, <2>1 DEF Meaning
<1>9. ASSUME c \in Numbers PROVE Meaning(c, prefix, a, k) = Single(t) /\ s = <<>>
  <2> DEFINE v == Value(prefix, a, k)
             top == Modulus(prefix)
  <2>1. t = Figures(c, prefix, a, k) /\ s = <<>>  BY <1>9 DEF Putcs, Puts, Numbers
  <2>2. v \in Nat /\ top \in Nat  BY <1>9, ArgumentsAre
  <2>3. /\ v = a[k] + (IF Long(prefix) THEN WORD * a[k + 1] ELSE 0)
        /\ top = IF Long(prefix) THEN WORD * WORD ELSE WORD
    BY DEF Value, Modulus
  <2>4. Figures(c, prefix, a, k) =
          IF c \in {"d", "i"}
            THEN (IF 2 * v < top THEN Numeral(v, 10, HEX_LOWER)
                  ELSE <<"-">> \o Numeral(top - v, 10, HEX_LOWER))
            ELSE Numeral(v, radix(c), IF c = "X" THEN HEX_UPPER ELSE HEX_LOWER)
    BY DEF Figures
  <2> HIDE DEF v, top, s, t
  <2>5. Meaning(c, prefix, a, k) =
          CASE c = "c" -> Single(<<Chr[a[k]]>>)
            [] c = "s" -> Whole(Text[a[k]])
            [] c = "%" -> Single(<<c>>)
            [] c = "p" -> Whole(<<"0", "x">>) \o Single(Numeral(a[k], 16, HEX_LOWER))
            [] c \in {"d", "i"} /\ 2 * v < top -> Single(Numeral(v, 10, HEX_LOWER))
            [] c \in {"d", "i"} /\ 2 * v >= top ->
                 Single(<<"-">> \o Numeral(top - v, 10, HEX_LOWER))
            [] c = "u" -> Single(Numeral(v, 10, HEX_LOWER))
            [] c = "x" -> Single(Numeral(v, 16, HEX_LOWER))
            [] c = "X" -> Single(Numeral(v, 16, HEX_UPPER))
            [] c = "o" -> Single(Numeral(v, 8, HEX_LOWER))
            [] OTHER -> <<>>
    BY <2>3 DEF Meaning
  <2>6. CASE c \in {"d", "i"}
    <3>1. CASE 2 * v < top
      <4>1. Meaning(c, prefix, a, k) = Single(Numeral(v, 10, HEX_LOWER))
        BY <2>2, <2>5, <2>6, <3>1
      <4> QED BY <2>1, <2>4, <2>6, <3>1, <4>1
    <3>2. CASE ~(2 * v < top)
      <4>1. 2 * v >= top  BY <2>2, <3>2
      <4>2. Meaning(c, prefix, a, k) = Single(<<"-">> \o Numeral(top - v, 10, HEX_LOWER))
        BY <2>2, <2>5, <2>6, <3>2, <4>1
      <4> QED BY <2>1, <2>4, <2>6, <3>2, <4>2
    <3> QED BY <3>1, <3>2
  <2>7. CASE c = "u"
    <3>1. radix(c) = 10  BY <2>7 DEF radix
    <3> QED BY <2>1, <2>4, <2>5, <2>7, <3>1
  <2>8. CASE c = "x"
    <3>1. radix(c) = 16  BY <2>8 DEF radix
    <3> QED BY <2>1, <2>4, <2>5, <2>8, <3>1
  <2>9. CASE c = "X"
    <3>1. radix(c) = 16  BY <2>9 DEF radix
    <3> QED BY <2>1, <2>4, <2>5, <2>9, <3>1
  <2>10. CASE c = "o"
    <3>1. radix(c) = 8  BY <2>10 DEF radix
    <3> QED BY <2>1, <2>4, <2>5, <2>10, <3>1
  <2> QED BY <1>9, <2>6, <2>7, <2>8, <2>9, <2>10 DEF Numbers
<1>10. ASSUME c \notin {"c", "s", "%", "p"}, c \notin Numbers
       PROVE  Meaning(c, prefix, a, k) = <<>> /\ s = <<>> /\ t = <<>>
  <2>1. s = <<>> /\ t = <<>>  BY <1>10 DEF Puts, Putcs
  <2>2. c \notin {"d", "i", "u", "x", "X", "o"}  BY <1>10 DEF Numbers
  <2> HIDE DEF s, t
  <2>3. Meaning(c, prefix, a, k) = <<>>  BY <1>10, <2>2 DEF Meaning
  <2> QED BY <2>1, <2>3
<1> HIDE DEF s, t
<1>11. <<>> \o <<>> = <<>>  OBVIOUS
<1>12. Meaning(c, prefix, a, k) = Whole(s) \o Single(t)
  BY <1>2, <1>3, <1>4, <1>5, <1>6, <1>7, <1>8, <1>9, <1>10, <1>11
<1> QED BY <1>12 DEF s, t

\* There are arguments for what is left of the format.
Affords(f, a, i, k) ==
    /\ f \in Seq(STRING) /\ a \in Seq(VaWords)
    /\ i \in 1..(Len(f) + 1) /\ k \in 1..(Len(a) + 1)
    /\ Len(f) - i + 1 <= 2 * (Len(a) - k + 1)

LEMMA LongIs == \A f, i : Long(PrefixAt(f, i)) => Len(PrefixAt(f, i)) = 2
<1>1. Len(<<"l", "l">>) = 2  OBVIOUS
<1> QED BY <1>1 DEF Long

LEMMA DirectiveAt ==
  ASSUME NEW f, NEW a, NEW i, NEW k, Affords(f, a, i, k), NEW p, p = PrefixAt(f, i + 1),
         NEW j, j = i + 1 + Len(p), j <= Len(f)
  PROVE  /\ j \in 1..Len(f)
         /\ Enough(f[j], p, a, k) /\ Affords(f, a, j + 1, k + Taken(f[j], p))
<1> DEFINE w == Taken(f[j], p)
           l == Len(f)
           m == Len(a)
           n == Len(p)
<1>1. /\ f \in Seq(STRING) /\ a \in Seq(VaWords)
      /\ i \in 1..(l + 1) /\ k \in 1..(m + 1) /\ l - i + 1 <= 2 * (m - k + 1)
      /\ l \in Nat /\ m \in Nat
  BY DEF Affords
<1>2. n \in 0..2 /\ (Long(p) => n = 2)  BY PrefixLen, LongIs
<1>3. w \in 0..2 /\ (w = 2 => Long(p))  BY DEF Taken
<1>4. j = i + 1 + n /\ j <= l  OBVIOUS
<1> HIDE DEF w, l, m, n
<1>5. /\ j \in 1..l /\ k \in Nat \ {0} /\ k + w <= m + 1
      /\ j + 1 \in 1..(l + 1) /\ k + w \in 1..(m + 1)
      /\ l - (j + 1) + 1 <= 2 * (m - (k + w) + 1)
  BY <1>1, <1>2, <1>3, <1>4
<1> QED BY <1>1, <1>5 DEF Enough, Affords, w, l, m

LEMMA TextTyped ==
  ASSUME NEW f, NEW a
  PROVE  \A i, k : Affords(f, a, i, k) => TextFrom(f, a)[i][k] \in Seq(Marks)
<1> SUFFICES ASSUME f \in Seq(STRING), a \in Seq(VaWords)
             PROVE  \A i, k : Affords(f, a, i, k) => TextFrom(f, a)[i][k] \in Seq(Marks)
  BY DEF Affords
<1> DEFINE g == TextFrom(f, a)
           l == Len(f)
           Good_(i) == \A k : Affords(f, a, i, k) => g[i][k] \in Seq(Marks)
           T == {d \in 0..l : ~Good_(l + 1 - d)}
<1>1. l \in Nat /\ Len(a) \in Nat /\ \A n \in 1..l : f[n] \in STRING  OBVIOUS
<1>2. \A i \in 1..(l + 2) : \A k \in 1..(Len(a) + 1) : g[i][k] = TextAt(f, a, g, i, k)
  BY TextsFollow
<1> HIDE DEF g, l
<1>3. T = {}
  <2>1. SUFFICES ASSUME T # {} PROVE FALSE
    OBVIOUS
  <2>2. PICK d \in T : \A e \in T : d <= e
    <3>1. T \subseteq Nat  OBVIOUS
    <3> HIDE DEF T
    <3> QED BY <2>1, <3>1, Least
  <2> DEFINE i == l + 1 - d
  <2>3. d \in 0..l /\ i \in 1..(l + 1) /\ ~Good_(i)  BY <1>1, <2>2
  <2>4. ASSUME NEW n \in (i + 1)..(l + 1) PROVE Good_(n)
    <3>1. l + 1 - n \in 0..l /\ ~(d <= l + 1 - n) /\ l + 1 - (l + 1 - n) = n  BY <1>1, <2>3
    <3>2. l + 1 - n \notin T  BY <2>2, <3>1
    <3> QED BY <3>1, <3>2
  <2> HIDE DEF i
  <2>5. PICK k : Affords(f, a, i, k) /\ ~(g[i][k] \in Seq(Marks))  BY <2>3
  <2>6. /\ k \in 1..(Len(a) + 1) /\ i \in 1..(l + 2)
        /\ l - i + 1 <= 2 * (Len(a) - k + 1)
    BY <1>1, <2>3, <2>5 DEF Affords, l
  <2>7. g[i][k] = TextAt(f, a, g, i, k)  BY <1>2, <2>6
  <2> DEFINE p == LengthPrefix(f, i + 1)
             j == i + 1 + Len(p)
  <2>8. TextAt(f, a, g, i, k) =
          IF i > l THEN <<>>
          ELSE IF f[i] # "%" THEN Single(<<f[i]>>) \o g[i + 1][k]
          ELSE IF j > l THEN <<>>
          ELSE Meaning(f[j], p, a, k) \o g[j + 1][k + Taken(f[j], p)]
    BY DEF TextAt, l
  <2>9. p = PrefixAt(f, i + 1) /\ Len(p) \in 0..2
    <3>1. i + 1 \in Nat  BY <2>3
    <3> QED BY <3>1, PrefixIs, PrefixLen
  <2>10. j = i + 1 + Len(p) /\ j \in Nat  BY <2>3, <2>9
  <2>11. p = PrefixAt(f, i + 1) /\ j = i + 1 + Len(p)  BY <2>9
  <2> HIDE DEF p, j
  <2>12. <<>> \in Seq(Marks)  OBVIOUS
  <2>13. CASE i > l  BY <2>5, <2>7, <2>8, <2>12, <2>13
  <2>14. CASE ~(i > l) /\ f[i] # "%"
    <3>1. i \in 1..l /\ i + 1 \in (i + 1)..(l + 1)  BY <1>1, <2>3, <2>14
    <3>2. Affords(f, a, i + 1, k)  BY <1>1, <2>5, <2>6, <3>1 DEF Affords, l
    <3>3. g[i + 1][k] \in Seq(Marks)  BY <2>4, <3>1, <3>2
    <3>4. <<f[i]>> \in Seq(Characters)
      <4>1. f[i] \in Characters  BY <1>1, <3>1 DEF Characters
      <4> HIDE DEF Characters
      <4> QED BY <4>1
    <3>5. Single(<<f[i]>>) \in Seq(Marks)  BY <3>4, Marked
    <3>6. g[i][k] = Single(<<f[i]>>) \o g[i + 1][k]  BY <2>7, <2>8, <2>14
    <3> HIDE DEF Marks
    <3>7. Single(<<f[i]>>) \o g[i + 1][k] \in Seq(Marks)  BY <3>3, <3>5, ConcatProperties
    <3> QED BY <2>5, <3>6, <3>7
  <2>15. CASE ~(i > l) /\ ~(f[i] # "%") /\ j > l  BY <2>5, <2>7, <2>8, <2>12, <2>15
  <2>16. CASE ~(i > l) /\ ~(f[i] # "%") /\ ~(j > l)
    <3> DEFINE c == f[j]
               w == Taken(f[j], p)
    <3>1. j <= Len(f)  BY <1>1, <2>10, <2>16 DEF l
    <3>2. /\ j \in 1..Len(f)
          /\ Enough(c, p, a, k) /\ Affords(f, a, j + 1, k + w)
      BY <2>5, <2>11, <3>1, DirectiveAt
    <3> HIDE DEF w
    <3>3. j + 1 \in (i + 1)..(l + 1)  BY <1>1, <2>3, <2>9, <2>10, <3>2 DEF l
    <3>4. g[j + 1][k + w] \in Seq(Marks)  BY <2>4, <3>2, <3>3
    <3> HIDE DEF c
    <3>5. Meaning(c, p, a, k) \in Seq(Marks)
      <4> DEFINE s == Puts(c, a, k)
                 t == Putcs(c, p, a, k)
      <4>1. Meaning(c, p, a, k) = Whole(s) \o Single(t)  BY <3>2, MeaningIs
      <4>2. s \in Seq(Characters) /\ t \in Seq(Characters)  BY <3>2, PutsTyped
      <4> HIDE DEF s, t
      <4>3. Whole(s) \in Seq(Marks) /\ Single(t) \in Seq(Marks)  BY <4>2, Marked
      <4> HIDE DEF Marks
      <4>4. Whole(s) \o Single(t) \in Seq(Marks)  BY <4>3, ConcatProperties
      <4> QED BY <4>1, <4>4
    <3>6. g[i][k] = Meaning(c, p, a, k) \o g[j + 1][k + w]
      BY <2>7, <2>8, <2>16 DEF c, w
    <3> HIDE DEF Marks
    <3>7. Meaning(c, p, a, k) \o g[j + 1][k + w] \in Seq(Marks)  BY <3>4, <3>5, ConcatProperties
    <3> QED BY <2>5, <3>6, <3>7
  <2> QED BY <2>13, <2>14, <2>15, <2>16
<1>4. ASSUME NEW i, NEW k, Affords(f, a, i, k) PROVE g[i][k] \in Seq(Marks)
  <2>1. i \in 1..(l + 1)  BY <1>4 DEF Affords, l
  <2>2. l + 1 - i \in 0..l /\ l + 1 - (l + 1 - i) = i  BY <1>1, <2>1
  <2>3. l + 1 - i \notin T  BY <1>3
  <2>4. Good_(i)  BY <2>2, <2>3
  <2> QED BY <1>4, <2>4
<1> QED BY <1>4 DEF g

-----------------------------------------------------------------------------
(***************************************************************************)
(* Where the parser is in the format, and what is left to be read there.   *)
(***************************************************************************)
EndOf(q, s) == Len(q) <= Len(s) /\ \A n \in 1..Len(q) : q[n] = s[Len(s) - Len(q) + n]

\* The position at which what is being read begins, and its first argument.
PosI == Len(call.fmt) - Len(fmt) - Depth + 1
PosK == Len(call.ap) - Len(ap) + 1

Placed ==
    /\ call.fmt \in Seq(STRING) /\ call.ap \in Seq(VaWords)
    /\ EndOf(fmt, call.fmt) /\ EndOf(ap, call.ap)
    /\ PosI \in 1..(Len(call.fmt) + 1)
    /\ state # "NORMAL" => call.fmt[PosI] = "%"
    /\ state = "LENGTH_SHORT" => call.fmt[PosI + 1] = "h"
    /\ state = "LENGTH_LONG" => call.fmt[PosI + 1] = "l"
    /\ state = "SPEC" =>
         \/ len = "HH" /\ call.fmt[PosI + 1] = "h" /\ call.fmt[PosI + 2] = "h"
         \/ len = "LL" /\ call.fmt[PosI + 1] = "l" /\ call.fmt[PosI + 2] = "l"

\* The text of what is left to be read.
Remaining == TextFrom(call.fmt, call.ap)[PosI][PosK]

\* The guard of Specifier.
Converts(c) == \/ state = "SPEC"
               \/ state = "LENGTH" /\ c \notin {"h", "l"}
               \/ state = "LENGTH_SHORT" /\ c # "h"
               \/ state = "LENGTH_LONG" /\ c # "l"

LEMMA DepthIs ==
  ASSUME Parsed
  PROVE  /\ Depth \in 0..3 /\ (Depth = 0 <=> state = "NORMAL")
         /\ (Depth = 1 <=> state = "LENGTH") /\ (Depth = 3 <=> state = "SPEC")
         /\ (Depth = 2 <=> state \in {"LENGTH_SHORT", "LENGTH_LONG"})
<1>1. state \in {"NORMAL", "LENGTH", "LENGTH_SHORT", "LENGTH_LONG", "SPEC"}  BY DEF Parsed
<1> QED BY <1>1 DEF Depth

LEMMA PositionIs ==
  ASSUME Parsed, Placed
  PROVE  /\ Affords(call.fmt, call.ap, PosI, PosK)
         /\ Len(call.fmt) \in Nat /\ Len(call.ap) \in Nat /\ Len(fmt) \in Nat /\ Len(ap) \in Nat
         /\ PosI + Depth = Len(call.fmt) - Len(fmt) + 1
         /\ fmt # <<>> => PosI + Depth <= Len(call.fmt) /\ call.fmt[PosI + Depth] = Head(fmt)
         /\ fmt = <<>> => PosI + Depth = Len(call.fmt) + 1
         /\ \A n \in 1..Len(ap) : ap[n] = call.ap[PosK - 1 + n]
<1> DEFINE f == call.fmt
           a == call.ap
<1>1. /\ fmt \in Seq(STRING) /\ ap \in Seq(VaWords) /\ f \in Seq(STRING) /\ a \in Seq(VaWords)
      /\ Len(fmt) \in Nat /\ Len(ap) \in Nat /\ Len(f) \in Nat /\ Len(a) \in Nat
      /\ Len(fmt) + Depth <= 2 * Len(ap)
      /\ Len(fmt) <= Len(f) /\ Len(ap) <= Len(a)
  BY DEF Parsed, Placed, EndOf
<1>2. Depth \in 0..3  BY DepthIs
<1>3. PosI = Len(f) - Len(fmt) - Depth + 1 /\ PosK = Len(a) - Len(ap) + 1
  BY DEF PosI, PosK
<1>4. PosI \in 1..(Len(f) + 1)  BY DEF Placed
<1>5. /\ \A n \in 1..Len(fmt) : fmt[n] = f[Len(f) - Len(fmt) + n]
      /\ \A n \in 1..Len(ap) : ap[n] = a[Len(a) - Len(ap) + n]
  BY DEF Placed, EndOf
<1> HIDE DEF f, a
<1>6. Affords(f, a, PosI, PosK)
  <2>1. Len(f) - PosI + 1 <= 2 * (Len(a) - PosK + 1)  BY <1>1, <1>2, <1>3
  <2>2. PosK \in 1..(Len(a) + 1)  BY <1>1, <1>3
  <2> QED BY <1>1, <1>4, <2>1, <2>2 DEF Affords
<1>7. PosI + Depth = Len(f) - Len(fmt) + 1  BY <1>1, <1>2, <1>3
<1>8. ASSUME fmt # <<>> PROVE PosI + Depth <= Len(f) /\ f[PosI + Depth] = Head(fmt)
  <2>1. Len(fmt) >= 1 /\ Head(fmt) = fmt[1]  BY <1>1, <1>8
  <2>2. 1 \in 1..Len(fmt)  BY <1>1, <2>1
  <2>3. fmt[1] = f[Len(f) - Len(fmt) + 1]  BY <1>5, <2>2
  <2> QED BY <1>1, <1>7, <2>1, <2>3
<1>9. fmt = <<>> => PosI + Depth = Len(f) + 1
  <2>1. Len(<<>>) = 0  OBVIOUS
  <2> QED BY <1>1, <1>7, <2>1
<1>10. \A n \in 1..Len(ap) : ap[n] = a[PosK - 1 + n]
  <2> TAKE n \in 1..Len(ap)
  <2>1. PosK - 1 + n = Len(a) - Len(ap) + n  BY <1>1, <1>3
  <2> QED BY <1>5, <2>1
<1> QED BY <1>1, <1>6, <1>7, <1>8, <1>9, <1>10 DEF f, a

\* The prefix the parser has seen is the longest one, when a directive ends
\* or the format does.
LEMMA PrefixSeen ==
  ASSUME Parsed, Placed, state # "NORMAL", fmt = <<>> \/ Converts(Head(fmt)),
         NEW p, p = PrefixAt(call.fmt, PosI + 1)
  PROVE  Len(p) = Depth - 1 /\ (Long(p) <=> len = "LL")
<1> DEFINE f == call.fmt
           i == PosI
           l == Len(f)
           c == Head(fmt)
<1>1. /\ i \in 1..(l + 1) /\ l \in Nat /\ Depth \in 0..3
      /\ fmt # <<>> => i + Depth <= l /\ f[i + Depth] = c
      /\ fmt = <<>> => i + Depth = l + 1
      /\ i + Depth <= l + 1
  <2>1. i \in 1..(l + 1)  BY DEF Placed
  <2>2. /\ l \in Nat /\ Depth \in 0..3
        /\ fmt # <<>> => i + Depth <= l /\ f[i + Depth] = c
        /\ fmt = <<>> => i + Depth = l + 1
    BY PositionIs, DepthIs
  <2>3. i + Depth <= l + 1
    <3> HIDE DEF i, l, f
    <3> QED BY <2>1, <2>2
  <2> QED BY <2>1, <2>2, <2>3
<1>2. fmt = <<>> \/ Converts(c)  OBVIOUS
<1>3. state = "LENGTH_SHORT" => f[i + 1] = "h"  BY DEF Placed
<1>4. state = "LENGTH_LONG" => f[i + 1] = "l"  BY DEF Placed
<1>5. state = "SPEC" => \/ len = "HH" /\ f[i + 1] = "h" /\ f[i + 2] = "h"
                        \/ len = "LL" /\ f[i + 1] = "l" /\ f[i + 2] = "l"
  BY DEF Placed
<1>6. len = "LL" => state = "SPEC"  BY DEF Parsed
<1>7. p = PrefixAt(f, i + 1)  OBVIOUS
<1> HIDE DEF f, i, l, c
<1>8. i \in Nat /\ (i + 1) + 1 = i + 2  BY <1>1
<1>9. p = IF Stands(f, i + 1, "h")
            THEN (IF Stands(f, i + 2, "h") THEN <<"h", "h">> ELSE <<"h">>)
          ELSE IF Stands(f, i + 1, "l")
            THEN (IF Stands(f, i + 2, "l") THEN <<"l", "l">> ELSE <<"l">>)
          ELSE <<>>
  BY <1>7, <1>8 DEF PrefixAt
<1>10. /\ Len(<<>>) = 0 /\ Len(<<"h">>) = 1 /\ Len(<<"l">>) = 1
       /\ Len(<<"h", "h">>) = 2 /\ Len(<<"l", "l">>) = 2
  OBVIOUS
<1>10a. Long(p) => Len(p) = 2  BY <1>10 DEF Long
<1>11. CASE state = "LENGTH"
  <2>1. Depth = 1  BY <1>11, DepthIs
  <2>2. ~Stands(f, i + 1, "h") /\ ~Stands(f, i + 1, "l")
    <3>1. CASE fmt = <<>>  BY <1>1, <1>8, <2>1, <3>1 DEF Stands, l
    <3>2. CASE fmt # <<>>
      <4>1. c \notin {"h", "l"}  BY <1>2, <1>11, <3>2 DEF Converts
      <4> QED BY <1>1, <2>1, <3>2, <4>1 DEF Stands, l
    <3> QED BY <3>1, <3>2
  <2>3. p = <<>>  BY <1>9, <2>2
  <2>4. Len(p) = 0 /\ ~Long(p)  BY <1>10, <1>10a, <2>3
  <2> QED BY <1>6, <1>11, <2>1, <2>4
<1>12. CASE state = "LENGTH_SHORT"
  <2>1. Depth = 2  BY <1>12, DepthIs
  <2>2. Stands(f, i + 1, "h")  BY <1>1, <1>3, <1>8, <1>12, <2>1 DEF Stands, l
  <2>3. ~Stands(f, i + 2, "h")
    <3>1. CASE fmt = <<>>  BY <1>1, <1>8, <2>1, <3>1 DEF Stands, l
    <3>2. CASE fmt # <<>>
      <4>1. c # "h"  BY <1>2, <1>12, <3>2 DEF Converts
      <4> QED BY <1>1, <2>1, <3>2, <4>1 DEF Stands, l
    <3> QED BY <3>1, <3>2
  <2>4. p = <<"h">>  BY <1>9, <2>2, <2>3
  <2>5. Len(p) = 1 /\ ~Long(p)  BY <1>10, <1>10a, <2>4
  <2> QED BY <1>6, <1>12, <2>1, <2>5
<1>13. CASE state = "LENGTH_LONG"
  <2>1. Depth = 2  BY <1>13, DepthIs
  <2>2. Stands(f, i + 1, "l") /\ ~Stands(f, i + 1, "h")
    BY <1>1, <1>4, <1>8, <1>13, <2>1 DEF Stands, l
  <2>3. ~Stands(f, i + 2, "l")
    <3>1. CASE fmt = <<>>  BY <1>1, <1>8, <2>1, <3>1 DEF Stands, l
    <3>2. CASE fmt # <<>>
      <4>1. c # "l"  BY <1>2, <1>13, <3>2 DEF Converts
      <4> QED BY <1>1, <2>1, <3>2, <4>1 DEF Stands, l
    <3> QED BY <3>1, <3>2
  <2>4. p = <<"l">>  BY <1>9, <2>2, <2>3
  <2>5. Len(p) = 1 /\ ~Long(p)  BY <1>10, <1>10a, <2>4
  <2> QED BY <1>6, <1>13, <2>1, <2>5
<1>14. CASE state = "SPEC"
  <2>1. Depth = 3  BY <1>14, DepthIs
  <2>2. i + 1 <= l /\ i + 2 <= l  BY <1>1, <1>8, <2>1
  <2>3. CASE len = "HH" /\ f[i + 1] = "h" /\ f[i + 2] = "h"
    <3>1. Stands(f, i + 1, "h") /\ Stands(f, i + 2, "h")  BY <2>2, <2>3 DEF Stands, l
    <3>2. p = <<"h", "h">>  BY <1>9, <3>1
    <3>3. Len(p) = 2 /\ ~Long(p)  BY <1>10, <3>2 DEF Long
    <3> QED BY <2>1, <2>3, <3>3
  <2>4. CASE len = "LL" /\ f[i + 1] = "l" /\ f[i + 2] = "l"
    <3>1. Stands(f, i + 1, "l") /\ Stands(f, i + 2, "l") /\ ~Stands(f, i + 1, "h")
      BY <2>2, <2>4 DEF Stands, l
    <3>2. p = <<"l", "l">>  BY <1>9, <3>1
    <3>3. Len(p) = 2 /\ Long(p)  BY <1>10, <3>2 DEF Long
    <3> QED BY <2>1, <2>4, <3>3
  <2> QED BY <1>5, <1>14, <2>3, <2>4
<1>15. state \in {"LENGTH", "LENGTH_SHORT", "LENGTH_LONG", "SPEC"}  BY DEF Parsed
<1> QED BY <1>11, <1>12, <1>13, <1>14, <1>15

\* At the character that ends a directive: what is read, and what remains.
LEMMA DirectiveRead ==
  ASSUME Parsed, Placed, state # "NORMAL", fmt # <<>>, Converts(Head(fmt)),
         NEW p, p = PrefixAt(call.fmt, PosI + 1), NEW c, c = Head(fmt)
  PROVE  /\ Enough(c, p, call.ap, PosK)
         /\ va_words(c) = Taken(c, p)
         /\ Affords(call.fmt, call.ap, PosI + Depth + 1, PosK + Taken(c, p))
         /\ Remaining = Meaning(c, p, call.ap, PosK)
                        \o TextFrom(call.fmt, call.ap)[PosI + Depth + 1][PosK + Taken(c, p)]
<1> DEFINE f == call.fmt
           a == call.ap
           i == PosI
           k == PosK
           j == i + Depth
           g == TextFrom(f, a)
<1>1. Len(p) = Depth - 1 /\ (Long(p) <=> len = "LL")  BY PrefixSeen
<1>2. Depth \in 0..3  BY DepthIs
<1>3. /\ Affords(f, a, i, k) /\ Len(f) \in Nat /\ j <= Len(f) /\ f[j] = c
  BY PositionIs
<1>4. i \in 1..(Len(f) + 1) /\ k \in 1..(Len(a) + 1)  BY <1>3 DEF Affords
<1>5. f[i] = "%"  BY DEF Placed
<1>6. p = PrefixAt(f, i + 1)  OBVIOUS
<1>7. Remaining = g[i][k]  BY DEF Remaining
<1>8. \A x \in 1..(Len(f) + 2) : \A y \in 1..(Len(a) + 1) : g[x][y] = TextAt(f, a, g, x, y)
  BY <1>3, TextsFollow
<1> HIDE DEF f, a, i, k, g
<1>9. j = i + 1 + Len(p)  BY <1>1, <1>2, <1>4
<1> HIDE DEF j
<1>10. j \in 1..Len(f) /\ Enough(c, p, a, k) /\ Affords(f, a, j + 1, k + Taken(c, p))
  <2>1. Enough(f[j], p, a, k) /\ Affords(f, a, j + 1, k + Taken(f[j], p)) /\ j \in 1..Len(f)
    BY ONLY <1>3, <1>6, <1>9, DirectiveAt
  <2> QED BY <1>3, <2>1
<1>11. va_words(c) = Taken(c, p)  BY <1>1 DEF va_words, Taken
<1>12. g[i][k] = Meaning(c, p, a, k) \o g[j + 1][k + Taken(c, p)]
  <2>1. g[i][k] = TextAt(f, a, g, i, k)
    <3>1. i \in 1..(Len(f) + 2)  BY <1>3, <1>4
    <3> QED BY <1>4, <1>8, <3>1
  <2>2. p = LengthPrefix(f, i + 1)
    <3>1. i + 1 \in Nat  BY <1>4
    <3> QED BY <1>6, <3>1, PrefixIs
  <2>3. ~(i > Len(f)) /\ ~(j > Len(f))  BY <1>1, <1>2, <1>3, <1>4, <1>9, <1>10
  <2>4. TextAt(f, a, g, i, k) =
          IF i > Len(f) THEN <<>>
          ELSE IF f[i] # "%" THEN Single(<<f[i]>>) \o g[i + 1][k]
          ELSE IF j > Len(f) THEN <<>>
          ELSE Meaning(f[j], p, a, k) \o g[j + 1][k + Taken(f[j], p)]
    BY <1>9, <2>2 DEF TextAt
  <2> QED BY <1>3, <1>5, <2>1, <2>3, <2>4
<1> QED BY <1>7, <1>10, <1>11, <1>12 DEF f, a, i, k, j, g

\* What the code converts is what the directive means.
LEMMA ConvertIs ==
  ASSUME Parsed, NEW a, NEW k, NEW p, NEW c,
         Enough(c, p, a, k), va_words(c) = Taken(c, p), Long(p) <=> len = "LL",
         Len(ap) = Len(a) - k + 1, \A n \in 1..Len(ap) : ap[n] = a[k - 1 + n]
  PROVE  Convert(c) = [puts |-> Puts(c, a, k), putc |-> Putcs(c, p, a, k)]
<1> DEFINE w == Taken(c, p)
           l == Len(ap)
<1>1. a \in Seq(VaWords) /\ k \in Nat \ {0} /\ k + w <= Len(a) + 1 /\ Len(a) \in Nat
      /\ l \in Nat
  BY DEF Enough, Parsed
<1>2. w \in 0..2  BY DEF Taken
<1>3. w <= l /\ \A n \in 1..l : ap[n] = a[k - 1 + n]
  <2>1. l = Len(a) - k + 1 /\ \A n \in 1..l : ap[n] = a[k - 1 + n]  OBVIOUS
  <2> HIDE DEF w, l
  <2> QED BY <1>1, <1>2, <2>1
<1>4. w = Taken(c, p) /\ va_words(c) = w  OBVIOUS
<1> HIDE DEF w, l
<1>5. w >= 1 => ap[1] = a[k]
  <2>1. w >= 1 => 1 \in 1..l  BY <1>1, <1>2, <1>3
  <2>2. k - 1 + 1 = k  BY <1>1
  <2> QED BY <1>3, <2>1, <2>2
<1>6. w = 2 => ap[1] = a[k] /\ ap[2] = a[k + 1]
  <2>1. w = 2 => 2 \in 1..l  BY <1>1, <1>2, <1>3
  <2>2. k - 1 + 2 = k + 1  BY <1>1
  <2>3. w = 2 => ap[2] = a[k + 1]  BY <1>3, <2>1, <2>2
  <2> QED BY <1>5, <2>3
<1>7. c \in {"c", "s", "p"} => w = 1
  <2>1. c \in {"c", "s", "p"} => c \notin Numbers  BY DEF Numbers
  <2> QED BY <1>4, <2>1 DEF Taken
<1>8. c \in {"c", "s", "p"} => ap[1] = a[k] /\ a[k] \in VaWords
  BY <1>5, <1>7, ArgumentsAre
<1>9. Nothing = [puts |-> <<>>, putc |-> <<>>]  BY DEF Nothing
<1>10. CASE c = "c"
  <2>1. Convert(c) = [Nothing EXCEPT !.putc = <<Chr[ap[1]]>>]  BY <1>10 DEF Convert, Numbers
  <2>2. Puts(c, a, k) = <<>> /\ Putcs(c, p, a, k) = <<Chr[a[k]]>>
    BY <1>10 DEF Puts, Putcs, Numbers
  <2> QED BY <1>8, <1>9, <1>10, <2>1, <2>2
<1>11. CASE c = "s"
  <2>1. Convert(c) = [Nothing EXCEPT !.puts = Text[ap[1]]]  BY <1>11 DEF Convert, Numbers
  <2>2. Puts(c, a, k) = Text[a[k]] /\ Putcs(c, p, a, k) = <<>>
    BY <1>11 DEF Puts, Putcs, Numbers
  <2> QED BY <1>8, <1>9, <1>11, <2>1, <2>2
<1>12. CASE c = "%"
  <2>1. Convert(c) = [Nothing EXCEPT !.putc = <<"%">>]  BY <1>12 DEF Convert, Numbers
  <2>2. Puts(c, a, k) = <<>> /\ Putcs(c, p, a, k) = <<"%">>
    BY <1>12 DEF Puts, Putcs, Numbers
  <2> QED BY <1>9, <2>1, <2>2
<1>13. CASE c = "p"
  <2>1. Convert(c) = [puts |-> <<"0", "x">>, putc |-> ob_put_u64(ap[1], 16, HEX_LOWER)]
    BY <1>13 DEF Convert, Numbers
  <2>2. Puts(c, a, k) = <<"0", "x">> /\ Putcs(c, p, a, k) = Numeral(a[k], 16, HEX_LOWER)
    BY <1>13 DEF Puts, Putcs, Numbers
  <2>3. ap[1] = a[k] /\ a[k] \in Nat /\ 16 \in 2..16
    <3>1. a[k] \in 0..(WORD - 1)  BY <1>8, <1>13 DEF VaWords
    <3> QED BY <1>8, <1>13, <3>1, Cap
  <2>4. ob_put_u64(a[k], 16, HEX_LOWER) = Numeral(a[k], 16, HEX_LOWER)
    BY <2>3, NumeralTyped
  <2> QED BY <2>1, <2>2, <2>3, <2>4
<1>14. CASE c \in Numbers
  <2>1. Convert(c) = [Nothing EXCEPT !.putc = Number(c)]  BY <1>14 DEF Convert, Numbers
  <2>2. Puts(c, a, k) = <<>> /\ Putcs(c, p, a, k) = Figures(c, p, a, k)
    BY <1>14 DEF Puts, Putcs, Numbers
  <2> DEFINE v == Value(p, a, k)
             top == Modulus(p)
             hex == IF c = "X" THEN HEX_UPPER ELSE HEX_LOWER
             s == Signed(v, top)
  <2>3. v \in Nat /\ top \in Nat /\ v < top  BY <1>14, ArgumentsAre
  <2>4. w = IF len = "LL" THEN 2 ELSE 1
    BY <1>4, <1>14 DEF Taken
  <2>5. /\ (w = 2) => (ap[1] + WORD * ap[2] = v /\ top = WORD * WORD)
        /\ (w # 2) => (ap[1] = v /\ top = WORD)
    <3>1. CASE len = "LL"
      <4>1. v = a[k] + WORD * a[k + 1] /\ top = WORD * WORD  BY <3>1 DEF Value, Modulus
      <4> QED BY <1>6, <2>4, <3>1, <4>1
    <3>2. CASE len # "LL"
      <4>1. v = a[k] + 0 /\ top = WORD  BY <3>2 DEF Value, Modulus
      <4>2. w = 1 /\ ap[1] = a[k]  BY <1>5, <2>4, <3>2
      <4>3. a[k] \in VaWords
        <5>1. k \in 1..Len(a)  BY <1>1, <4>2
        <5> QED BY <1>1, <5>1
      <4>4. a[k] \in Nat  BY <4>3, Cap DEF VaWords
      <4> HIDE DEF v, top
      <4> QED BY <4>1, <4>2, <4>4
    <3> QED BY <3>1, <3>2
  <2>6. hex \in {HEX_LOWER, HEX_UPPER} /\ (c \in {"d", "i"} => hex = HEX_LOWER)  OBVIOUS
  <2>7. Number(c) = IF c \in {"d", "i"} THEN ob_put_s64(s, radix(c), hex)
                    ELSE ob_put_u64(v, radix(c), hex)
    <3> DEFINE wide == va_words(c) = 2
               value == IF wide THEN ap[1] + WORD * ap[2] ELSE ap[1]
               modulus == IF wide THEN WORD * WORD ELSE WORD
    <3>1. Number(c) = IF c \in {"d", "i"} THEN ob_put_s64(Signed(value, modulus), radix(c), hex)
                      ELSE ob_put_u64(value, radix(c), hex)
      BY DEF Number
    <3>2. value = v /\ modulus = top
      <4> HIDE DEF v, top
      <4> QED BY <1>4, <2>5
    <3> HIDE DEF value, modulus, v, top, hex
    <3> QED BY <3>1, <3>2
  <2>8. Figures(c, p, a, k) = IF c \in {"d", "i"}
          THEN (IF 2 * v < top THEN Numeral(v, 10, hex)
                ELSE <<"-">> \o Numeral(top - v, 10, hex))
          ELSE Numeral(v, radix(c), hex)
    BY DEF Figures
  <2>9. s = IF 2 * v >= top THEN v - top ELSE v  BY DEF Signed
  <2> HIDE DEF v, top, hex, s
  <2>10. radix(c) \in 2..16 /\ 10 \in 2..16  BY <1>14, RadixIs
  <2>11. CASE c \notin {"d", "i"}
    <3>1. ob_put_u64(v, radix(c), hex) = Numeral(v, radix(c), hex)
      BY <2>3, <2>6, <2>10, NumeralTyped
    <3> QED BY <1>9, <2>1, <2>2, <2>7, <2>8, <2>11, <3>1
  <2>12. CASE c \in {"d", "i"}
    <3>1. radix(c) = 10  BY <2>12 DEF radix
    <3>2. CASE 2 * v < top
      <4>1. s = v /\ ~(s < 0)  BY <2>3, <2>9, <3>2
      <4>2. ob_put_s64(s, 10, hex) = ob_put_u64(v, 10, hex)  BY <4>1 DEF ob_put_s64
      <4>3. ob_put_u64(v, 10, hex) = Numeral(v, 10, hex)
        BY <2>3, <2>6, <2>10, NumeralTyped
      <4>4. Number(c) = Figures(c, p, a, k)
        BY ONLY <2>7, <2>8, <2>12, <3>1, <3>2, <4>2, <4>3
      <4> QED BY ONLY <1>9, <2>1, <2>2, <4>4
    <3>3. CASE ~(2 * v < top)
      <4> DEFINE m == top - v
      <4>1. s = v - top /\ s < 0 /\ m \in Nat  BY <2>3, <2>9, <3>3
      <4>2. m = -s  BY <2>3, <4>1
      <4> HIDE DEF m
      <4>3. ob_put_s64(s, 10, hex) = <<"-">> \o ob_put_u64(m, 10, hex)
        BY <4>1, <4>2 DEF ob_put_s64
      <4>4. ob_put_u64(m, 10, hex) = Numeral(m, 10, hex)
        BY <2>6, <2>10, <4>1, NumeralTyped
      <4>5. Figures(c, p, a, k) = <<"-">> \o Numeral(m, 10, hex)
        BY <2>8, <2>12, <3>3 DEF m
      <4>6. Number(c) = Figures(c, p, a, k)
        BY ONLY <2>7, <2>12, <3>1, <4>3, <4>4, <4>5
      <4> QED BY ONLY <1>9, <2>1, <2>2, <4>6
    <3> QED BY <3>2, <3>3
  <2> QED BY <2>11, <2>12
<1>15. CASE c \notin {"c", "s", "%", "p"} /\ c \notin Numbers
  <2>1. Convert(c) = Nothing  BY <1>15 DEF Convert
  <2>2. Puts(c, a, k) = <<>> /\ Putcs(c, p, a, k) = <<>>  BY <1>15 DEF Puts, Putcs
  <2> QED BY <1>9, <2>1, <2>2
<1> QED BY <1>10, <1>11, <1>12, <1>13, <1>14, <1>15

-----------------------------------------------------------------------------
(***************************************************************************)
(* What is owed of a text t of which the first P characters have been put: *)
(* what is left of a string s put as a whole, the characters u, and R.     *)
(***************************************************************************)
\* s is the string of which b characters have been put: what is left of it is
\* counted from its start.
LeftOf(t, P, s, b) ==
    \A n \in 1..Len(s) : t[P + n].place = b + n /\ s[n] = t[P - b + n].char
Alone(t, P, u) == \A n \in 1..Len(u) : t[P + n] = [char |-> u[n], place |-> 0]
Ahead(t, P, R) == \A n \in 1..Len(R) : t[P + n] = R[n]

Owes(t, P, s, u, R) ==
    /\ t \in Seq(Marks) /\ R \in Seq(Marks) /\ s \in Seq(Characters) /\ u \in Seq(Characters)
    /\ P \in Nat /\ Len(t) = P + Len(s) + Len(u) + Len(R)
    /\ \E b \in 0..P : (b = 0 \/ P % OUTBUF_CAP = 0) /\ LeftOf(t, P, s, b)
    /\ Alone(t, P + Len(s), u)
    /\ Ahead(t, P + Len(s) + Len(u), R)

LEMMA NoneIsLeft == \A t, P, b, s : s = <<>> => LeftOf(t, P, s, b) /\ Alone(t, P, s)
<1>1. Len(<<>>) = 0 /\ 1..0 = {}  OBVIOUS
<1> QED BY <1>1 DEF LeftOf, Alone

LEMMA OwesAll ==
  ASSUME NEW t \in Seq(Marks)
  PROVE  Owes(t, 0, <<>>, <<>>, t)
<1>1. Len(<<>>) = 0 /\ Len(t) \in Nat /\ <<>> \in Seq(Characters)  OBVIOUS
<1>2. 0 \in 0..0 /\ LeftOf(t, 0, <<>>, 0)  BY NoneIsLeft
<1>3. Alone(t, 0 + Len(<<>>), <<>>)  BY NoneIsLeft
<1>4. Ahead(t, 0 + Len(<<>>) + Len(<<>>), t)
  <2>1. \A n \in 1..Len(t) : 0 + 0 + 0 + n = n  OBVIOUS
  <2> QED BY <1>1, <2>1 DEF Ahead
<1>5. Len(t) = 0 + Len(<<>>) + Len(<<>>) + Len(t)  BY <1>1
<1> HIDE DEF Marks, Characters
<1> QED BY <1>1, <1>2, <1>3, <1>4, <1>5 DEF Owes

LEMMA Joined ==
  ASSUME NEW S, NEW x \in Seq(S), NEW y \in Seq(S), NEW l, NEW m, Len(x) = l, Len(y) = m
  PROVE  /\ x \o y \in Seq(S) /\ Len(x \o y) = l + m
         /\ \A n \in 1..l : (x \o y)[n] = x[n]
         /\ \A n \in 1..m : (x \o y)[l + n] = y[n]
<1>1. /\ x \o y \in Seq(S) /\ Len(x \o y) = Len(x) + Len(y)
      /\ \A i \in 1..(Len(x) + Len(y)) :
           (x \o y)[i] = IF i <= Len(x) THEN x[i] ELSE y[i - Len(x)]
  BY ConcatProperties
<1>2. l \in Nat /\ m \in Nat  OBVIOUS
<1> DEFINE z == x \o y
<1>3. /\ z \in Seq(S) /\ Len(z) = l + m
      /\ \A i \in 1..(l + m) : z[i] = IF i <= l THEN x[i] ELSE y[i - l]
  BY <1>1
<1> HIDE DEF z
<1>4. ASSUME NEW n \in 1..l PROVE z[n] = x[n]
  BY <1>2, <1>3
<1>5. ASSUME NEW n \in 1..m PROVE z[l + n] = y[n]
  <2>1. l + n \in 1..(l + m) /\ ~(l + n <= l) /\ (l + n) - l = n  BY <1>2
  <2> QED BY <1>3, <2>1
<1> QED BY <1>3, <1>4, <1>5 DEF z

\* A directive is read: its characters are owed before the rest.
LEMMA OwesRead ==
  ASSUME NEW t, NEW P, NEW R, Owes(t, P, <<>>, <<>>, R),
         NEW s \in Seq(Characters), NEW u \in Seq(Characters), NEW Q \in Seq(Marks),
         R = (Whole(s) \o Single(u)) \o Q
  PROVE  Owes(t, P, s, u, Q)
<1> DEFINE l == Len(s)
           m == Len(u)
           k == Len(Q)
<1>0. l \in Nat /\ m \in Nat /\ k \in Nat /\ Len(<<>>) = 0  OBVIOUS
<1>1. /\ t \in Seq(Marks) /\ R \in Seq(Marks) /\ P \in Nat
      /\ Len(t) = P + Len(R) /\ \A n \in 1..Len(R) : t[P + n] = R[n] /\ Len(R) \in Nat
  <2>1. /\ t \in Seq(Marks) /\ R \in Seq(Marks) /\ P \in Nat
        /\ Len(t) = P + 0 + 0 + Len(R) /\ Ahead(t, P + 0 + 0, R)
    BY <1>0 DEF Owes
  <2>2. P \in Nat  BY ONLY <2>1
  <2>3. P + 0 + 0 = P  BY ONLY <2>2
  <2>4. Len(t) = P + Len(R) /\ Ahead(t, P, R)  BY ONLY <2>1, <2>3
  <2>5. \A n \in 1..Len(R) : t[P + n] = R[n]  BY ONLY <2>4, Zenon DEF Ahead
  <2>6. Len(R) \in Nat  BY ONLY <2>1
  <2> QED BY ONLY <2>1, <2>4, <2>5, <2>6, Zenon
<1>2. /\ Single(u) \in Seq(Marks) /\ Len(Single(u)) = m
      /\ \A n \in 1..m : Single(u)[n] = [char |-> u[n], place |-> 0]
      /\ Whole(s) \in Seq(Marks) /\ Len(Whole(s)) = l
      /\ \A n \in 1..l : Whole(s)[n] = [char |-> s[n], place |-> n]
  BY Marked
<1> DEFINE x == Whole(s)
           y == Single(u)
<1>3. R = (x \o y) \o Q  OBVIOUS
<1>3a. /\ x \in Seq(Marks) /\ y \in Seq(Marks) /\ Len(x) = l /\ Len(y) = m /\ Q \in Seq(Marks)
       /\ Len(Q) = k
  BY <1>2
<1> HIDE DEF l, m, k, x, y, Marks, Characters
<1>4. /\ x \o y \in Seq(Marks) /\ Len(x \o y) = l + m
      /\ \A n \in 1..l : (x \o y)[n] = x[n]
      /\ \A n \in 1..m : (x \o y)[l + n] = y[n]
  BY ONLY <1>3a, Joined
<1> DEFINE z == x \o y
<1>5. /\ z \in Seq(Marks) /\ Len(z) = l + m
      /\ \A n \in 1..l : z[n] = x[n]
      /\ \A n \in 1..m : z[l + n] = y[n]
  BY <1>4
<1>6. R = z \o Q  BY <1>3
<1> HIDE DEF z
<1>7. /\ Len(R) = l + m + k
      /\ \A n \in 1..(l + m) : R[n] = z[n]
      /\ \A n \in 1..k : R[(l + m) + n] = Q[n]
  <2>1. /\ Len(z \o Q) = (l + m) + k
        /\ \A n \in 1..(l + m) : (z \o Q)[n] = z[n]
        /\ \A n \in 1..k : (z \o Q)[(l + m) + n] = Q[n]
    <3> DEFINE e == l + m
    <3>1. z \in Seq(Marks) /\ Len(z) = e  BY <1>5
    <3> HIDE DEF e
    <3>1a. Q \in Seq(Marks) /\ Len(Q) = k  BY <1>3a
    <3>2. /\ Len(z \o Q) = e + k
          /\ \A n \in 1..e : (z \o Q)[n] = z[n]
          /\ \A n \in 1..k : (z \o Q)[e + n] = Q[n]
      BY ONLY <3>1, <3>1a, Joined
    <3> QED BY <3>2 DEF e
  <2> QED BY ONLY <1>6, <2>1
<1>7a. P \in Nat /\ Len(R) = l + m + k /\ Len(t) = P + Len(R)  BY ONLY <1>1, <1>7
<1>8. LeftOf(t, P, s, 0)
  <2> SUFFICES ASSUME NEW n \in 1..l PROVE t[P + n].place = 0 + n /\ s[n] = t[P - 0 + n].char
    BY DEF LeftOf, l
  <2>1. n \in 1..(l + m) /\ n \in 1..Len(R) /\ P - 0 + n = P + n /\ 0 + n = n
    BY ONLY <1>0, <1>7a, n \in 1..l
  <2>2. t[P + n] = R[n]  BY ONLY <1>1, <2>1
  <2>3. R[n] = z[n] /\ z[n] = x[n]  BY ONLY <1>5, <1>7, <2>1, n \in 1..l
  <2>4. t[P + n] = [char |-> s[n], place |-> n]
    BY ONLY <1>2, <2>2, <2>3, n \in 1..l DEF x
  <2> QED BY ONLY <2>1, <2>4
<1>9. Alone(t, P + l, u)
  <2> SUFFICES ASSUME NEW n \in 1..m PROVE t[(P + l) + n] = [char |-> u[n], place |-> 0]
    BY DEF Alone, m
  <2>1. l + n \in 1..(l + m) /\ l + n \in 1..Len(R) /\ (P + l) + n = P + (l + n)
    BY ONLY <1>0, <1>7a, n \in 1..m
  <2>2. z[l + n] = y[n] /\ R[l + n] = z[l + n]  BY <1>5, <1>7, <2>1
  <2>3. t[P + (l + n)] = R[l + n]  BY ONLY <1>1, <2>1
  <2>4. t[(P + l) + n] = y[n]  BY ONLY <2>1, <2>2, <2>3
  <2> QED BY ONLY <1>2, <2>4, n \in 1..m DEF y
<1>10. Ahead(t, P + l + m, Q)
  <2> SUFFICES ASSUME NEW n \in 1..k PROVE t[(P + l + m) + n] = Q[n]
    BY DEF Ahead, k
  <2>1. (l + m) + n \in 1..Len(R) /\ (P + l + m) + n = P + ((l + m) + n)
    BY ONLY <1>0, <1>7a, n \in 1..k
  <2>2. R[(l + m) + n] = Q[n]  BY ONLY <1>7, n \in 1..k
  <2>3. t[P + ((l + m) + n)] = R[(l + m) + n]  BY ONLY <1>1, <2>1
  <2> QED BY ONLY <2>1, <2>2, <2>3
<1>11. 0 \in 0..P /\ Len(t) = P + l + m + k  BY ONLY <1>0, <1>7a
<1> QED BY <1>1, <1>8, <1>9, <1>10, <1>11 DEF Owes, l, m, k

\* One character is put.
LEMMA OwesPutc ==
  ASSUME NEW t, NEW P, NEW u, NEW R, Owes(t, P, <<>>, u, R), u # <<>>
  PROVE  /\ Owes(t, P + 1, <<>>, Tail(u), R) /\ P + 1 <= Len(t)
         /\ Written(t, P + 1) = Head(u)
<1> DEFINE m == Len(u)
           v == Tail(u)
<1>1. /\ t \in Seq(Marks) /\ R \in Seq(Marks) /\ u \in Seq(Characters) /\ P \in Nat
      /\ Len(t) = P + m + Len(R) /\ m \in Nat /\ Len(R) \in Nat
      /\ Alone(t, P, u) /\ Ahead(t, P + m, R) /\ Len(<<>>) = 0 /\ <<>> \in Seq(Characters)
  <2>1. Len(<<>>) = 0 /\ <<>> \in Seq(Characters)  OBVIOUS
  <2>2. /\ t \in Seq(Marks) /\ R \in Seq(Marks) /\ u \in Seq(Characters) /\ P \in Nat
        /\ Len(t) = P + 0 + m + Len(R)
        /\ Alone(t, P + 0, u) /\ Ahead(t, P + 0 + m, R)
    BY <2>1 DEF Owes
  <2>3. m \in Nat /\ Len(R) \in Nat  BY <2>2
  <2>4. P + 0 = P  BY <2>2
  <2> QED BY <2>1, <2>2, <2>3, <2>4
<1> HIDE DEF Marks, Characters
<1>2. /\ v \in Seq(Characters) /\ Len(v) = m - 1 /\ m >= 1 /\ Head(u) = u[1]
      /\ \A n \in 1..Len(v) : v[n] = u[n + 1]
  BY <1>1
<1>3. \A n \in 1..m : t[P + n] = [char |-> u[n], place |-> 0]  BY <1>1 DEF Alone
<1>4. \A n \in 1..Len(R) : t[(P + m) + n] = R[n]  BY <1>1 DEF Ahead
<1> HIDE DEF m, v
<1>5. Alone(t, (P + 1) + 0, v)
  <2> SUFFICES ASSUME NEW n \in 1..Len(v)
               PROVE  t[((P + 1) + 0) + n] = [char |-> v[n], place |-> 0]
    BY DEF Alone
  <2>1. n + 1 \in 1..m /\ ((P + 1) + 0) + n = P + (n + 1)  BY <1>1, <1>2
  <2> QED BY <1>2, <1>3, <2>1
<1>6. Ahead(t, (P + 1) + 0 + Len(v), R)
  <2> SUFFICES ASSUME NEW n \in 1..Len(R) PROVE t[((P + 1) + 0 + Len(v)) + n] = R[n]
    BY DEF Ahead
  <2>1. ((P + 1) + 0 + Len(v)) + n = (P + m) + n  BY <1>1, <1>2
  <2> QED BY <1>4, <2>1
<1>7. 0 \in 0..(P + 1) /\ Len(t) = (P + 1) + 0 + Len(v) + Len(R) /\ P + 1 \in Nat
      /\ P + 1 <= Len(t)
  BY <1>1, <1>2
<1>8. LeftOf(t, P + 1, <<>>, 0)  BY NoneIsLeft
<1>9. Owes(t, P + 1, <<>>, v, R)
  BY <1>1, <1>2, <1>5, <1>6, <1>7, <1>8 DEF Owes
<1>10. Written(t, P + 1) = Head(u)
  <2>1. 1 \in 1..m  BY <1>1, <1>2
  <2>2. t[P + 1] = [char |-> u[1], place |-> 0]  BY <1>3, <2>1
  <2>3. t[P + 1].place = 0 /\ t[P + 1].char = u[1]  BY <2>2
  <2> QED BY <1>2, <2>3 DEF Written
<1> QED BY <1>7, <1>9, <1>10 DEF v

\* The buffers are whole: where the next one begins.
LEMMA NextBuffer ==
  ASSUME NEW P \in Nat
  PROVE  /\ P % OUTBUF_CAP \in 0..(OUTBUF_CAP - 1)
         /\ (P + (OUTBUF_CAP - (P % OUTBUF_CAP))) % OUTBUF_CAP = 0
<1> DEFINE c == OUTBUF_CAP
           q == P \div c
           r == P % c
<1>1. c \in Nat \ {0} /\ q \in Nat /\ r \in 0..(c - 1) /\ P = c * q + r
  BY Cap, Quotient
<1> HIDE DEF c, q, r
<1>2. P + (c - r) = c * (q + 1) + 0
  <2>1. c * q \in Nat /\ c * (q + 1) = c * q + c  BY <1>1
  <2> QED BY <1>1, <2>1
<1>3. P + (c - r) \in Nat /\ q + 1 \in Nat /\ 0 \in 0..(c - 1)  BY <1>1
<1>4. (P + (c - r)) % c = 0  BY ONLY <1>1, <1>2, <1>3, QuotientUnique
<1> QED BY <1>1, <1>4 DEF c, r

\* A string that goes on in a new buffer goes on with its start.
LEMMA GoesOn ==
  ASSUME NEW P \in Nat, NEW b \in 1..P, P % OUTBUF_CAP = 0
  PROVE  LET first == OUTBUF_CAP - ((P - b) % OUTBUF_CAP)
         IN  /\ first \in Nat /\ first <= b
             /\ \A m \in 1..OUTBUF_CAP : (b + m - first - 1) % OUTBUF_CAP = m - 1
<1> DEFINE c == OUTBUF_CAP
           x == P - b
           q == x \div c
           r == x % c
           p == P \div c
           first == c - r
<1>1. c \in Nat \ {0} /\ x \in Nat  BY Cap
<1>2. /\ q \in Nat /\ r \in 0..(c - 1) /\ x = c * q + r
      /\ p \in Nat /\ P = c * p + 0
  BY <1>1, Quotient
<1>3. P = x + b  OBVIOUS
<1> HIDE DEF x, q, r, p, c
<1>4. c * p \in Nat /\ c * q \in Nat  BY <1>1, <1>2
<1>5. b = c * p - c * q - r  BY <1>2, <1>3, <1>4
<1>6. p > q
  <2>1. p <= q => c * p <= c * q  BY <1>1, <1>2
  <2> QED BY <1>2, <1>4, <1>5, <2>1
<1> DEFINE k == p - q - 1
<1>7. k \in Nat /\ p = q + k + 1  BY <1>2, <1>6
<1> HIDE DEF k
<1>8. c * p = c * q + c * k + c /\ c * k \in Nat  BY <1>1, <1>2, <1>7
<1>9. b = c * k + first /\ first \in Nat
  <2> DEFINE A == c * p
             B == c * q
             C == c * k
  <2>1. A \in Nat /\ B \in Nat /\ C \in Nat /\ b = A - B - r /\ A = B + C + c
    BY <1>4, <1>5, <1>8
  <2> HIDE DEF A, B, C
  <2>2. b = C + first /\ first \in Nat  BY <1>1, <1>2, <2>1
  <2> QED BY <2>2 DEF C
<1> HIDE DEF first
<1>10. first <= b  BY <1>8, <1>9
<1>11. ASSUME NEW m \in 1..c PROVE (b + m - first - 1) % c = m - 1
  <2> DEFINE y == b + m - first - 1
             z == m - 1
  <2>1. z \in 0..(c - 1) /\ y = c * k + z /\ y \in Nat  BY <1>1, <1>8, <1>9
  <2> HIDE DEF y, z
  <2>2. y % c = z  BY <1>1, <1>7, <2>1, QuotientUnique
  <2> QED BY <2>2 DEF y, z
<1> QED BY <1>9, <1>10, <1>11 DEF first, r, x, c

\* A round of ob_write: as much of the string as there is room for.
LEMMA OwesWrite ==
  ASSUME NEW t, NEW P, NEW s, NEW u, NEW R, Owes(t, P, s, u, R), s # <<>>,
         NEW room, room = OUTBUF_CAP - (P % OUTBUF_CAP),
         NEW chunk, chunk = IF Len(s) < room THEN Len(s) ELSE room
  PROVE  /\ chunk \in 1..Len(s) /\ P + chunk <= Len(t)
         /\ Owes(t, P + chunk, SubSeq(s, 1, Len(s) - chunk), u, R)
         /\ \A m \in 1..chunk : Written(t, P + m) = s[m]
<1> DEFINE l == Len(s)
           d == l - chunk
           v == SubSeq(s, 1, d)
           c == OUTBUF_CAP
<1>1. /\ t \in Seq(Marks) /\ R \in Seq(Marks) /\ s \in Seq(Characters) /\ u \in Seq(Characters) /\ P \in Nat
      /\ Len(t) = P + l + Len(u) + Len(R) /\ l \in Nat /\ Len(u) \in Nat /\ Len(R) \in Nat
      /\ Alone(t, P + l, u) /\ Ahead(t, P + l + Len(u), R)
  BY DEF Owes
<1>2. PICK b \in 0..P : (b = 0 \/ P % c = 0) /\ LeftOf(t, P, s, b)
  BY DEF Owes
<1>3. \A n \in 1..l : t[P + n].place = b + n /\ s[n] = t[P - b + n].char
  BY <1>2 DEF LeftOf
<1> HIDE DEF Marks, Characters
<1>4. l >= 1  BY <1>1, EmptySeq
<1>5. c \in Nat \ {0} /\ P % c \in 0..(c - 1) /\ (P + room) % c = 0
  BY <1>1, Cap, NextBuffer
<1>6. room = c - (P % c)  OBVIOUS
<1>7. room \in 1..c  BY <1>5, <1>6
<1>8. chunk = IF l < room THEN l ELSE room  OBVIOUS
<1> HIDE DEF c, l
<1>9. chunk \in 1..l /\ chunk <= room /\ (chunk # l => chunk = room)  BY <1>1, <1>4, <1>7, <1>8
<1>10. v \in Seq(Characters) /\ Len(v) = d /\ d \in 0..l /\ \A n \in 1..d : v[n] = s[n]
  <2>1. d \in 0..l  BY <1>1, <1>9
  <2> HIDE DEF d
  <2>2. v \in Seq(Characters) /\ Len(v) = d
    <3>1. d \in 0..Len(s)  BY <2>1 DEF l
    <3> HIDE DEF v
    <3>2. SubSeq(s, 1, d) \in Seq(Characters) /\ Len(SubSeq(s, 1, d)) = d
      BY ONLY <1>1, <3>1, Cut
    <3> QED BY <3>2 DEF v
  <2>3. \A n \in 1..d : v[n] = s[n]
    <3> TAKE n \in 1..d
    <3>1. 1 + n - 1 = n  OBVIOUS
    <3> QED BY <1>1, <2>1, <2>2, <3>1
  <2> QED BY <2>1, <2>2, <2>3
<1> HIDE DEF v
<1>11. d = l - chunk  OBVIOUS
<1> HIDE DEF d
<1>11a. /\ chunk \in Nat /\ l \in Nat /\ d \in Nat /\ P \in Nat /\ c \in Nat /\ room \in Nat
        /\ d = l - chunk /\ 1 <= chunk /\ chunk <= l /\ chunk <= room /\ room <= c
  <2>1. l \in Nat /\ P \in Nat  BY ONLY <1>1
  <2>2. c \in Nat  BY ONLY <1>5
  <2>3. room \in Nat /\ room <= c  BY ONLY <1>7, <2>2
  <2>4. chunk \in 1..l /\ chunk <= room  BY ONLY <1>9
  <2>5. chunk \in Nat /\ 1 <= chunk /\ chunk <= l  BY ONLY <2>1, <2>4
  <2>6. d \in Nat  BY ONLY <1>10, <2>1
  <2> QED BY ONLY <2>1, <2>2, <2>3, <2>4, <2>5, <2>6, <1>11
\* What it writes.
<1>12. ASSUME NEW m \in 1..chunk PROVE Written(t, P + m) = s[m]
  <2> DEFINE i == P + m
             e == t[i].place
             first == c - ((i - e) % c)
             again == (e - first - 1) % c
  <2>1. m \in 1..l /\ m \in 1..c /\ m <= room  BY ONLY <1>11a, m \in 1..chunk
  <2>2. e = b + m /\ s[m] = t[P - b + m].char  BY <1>3, <2>1
  <2>3. Written(t, i) = IF e <= first \/ e = 0 THEN t[i].char ELSE t[(i - e) + again + 1].char
    BY DEF Written, c
  <2> HIDE DEF e
  <2>4. i - e = P - b /\ b \in Nat /\ m \in Nat  BY <1>1, <1>2, <2>1, <2>2
  <2>5. CASE b = 0
    <3>1. i - e = P /\ P - b + m = i  BY <1>1, <2>4, <2>5
    <3>2. first = room  BY <1>6, <3>1
    <3>3. e <= first
      <4> HIDE DEF first
      <4> QED BY <2>1, <2>2, <2>5, <3>2, <1>7
    <3> QED BY <2>2, <2>3, <3>1, <3>3
  <2>6. CASE b # 0
    <3>1. b \in 1..P /\ P % c = 0  BY <1>1, <1>2, <2>6
    <3> DEFINE start == c - ((P - b) % c)
    <3>2. /\ start \in Nat /\ start <= b
          /\ \A n \in 1..c : (b + n - start - 1) % c = n - 1
      BY <1>1, <3>1, GoesOn DEF c
    <3>3. first = start  BY <2>4
    <3> HIDE DEF start, first
    <3>4. again = m - 1  BY <2>1, <2>2, <3>2, <3>3
    <3> HIDE DEF again
    <3>5. P \in Nat /\ b \in Nat /\ m \in Nat /\ first \in Nat /\ first <= b
      BY ONLY <1>11a, <2>4, <3>2, <3>3
    <3>6. m >= 1  BY ONLY <1>11a, m \in 1..chunk
    <3>7. e = b + m  BY <2>2
    <3>8. ~(e <= first) /\ e # 0  BY ONLY <3>5, <3>6, <3>7
    <3>9. (i - e) + again + 1 = P - b + m  BY ONLY <2>4, <3>4, <3>5
    <3> QED BY <2>2, <2>3, <3>8, <3>9
  <2> QED BY <2>5, <2>6
\* What is left.
<1>13. \E x \in 0..(P + chunk) : (x = 0 \/ (P + chunk) % c = 0) /\ LeftOf(t, P + chunk, v, x)
  <2>1. CASE chunk = l
    <3>1. Len(v) = 0  BY <1>1, <1>10, <1>11, <2>1
    <3>2. LeftOf(t, P + chunk, v, 0)  BY <3>1 DEF LeftOf
    <3>3. 0 \in 0..(P + chunk)  BY <1>1, <1>9
    <3> QED BY <3>2, <3>3
  <2>2. CASE chunk # l
    <3> DEFINE x == b + chunk
    <3>1. (P + chunk) % c = 0  BY <1>5, <1>9, <2>2
    <3>2. x \in 0..(P + chunk)  BY <1>1, <1>2, <1>9
    <3>3. LeftOf(t, P + chunk, v, x)
      <4> SUFFICES ASSUME NEW n \in 1..d
                   PROVE  /\ t[(P + chunk) + n].place = x + n
                          /\ v[n] = t[(P + chunk) - x + n].char
        BY <1>10 DEF LeftOf
      <4>1. chunk + n \in 1..l /\ n \in 1..l  BY ONLY <1>11a, n \in 1..d
      <4>2. (P + chunk) + n = P + (chunk + n) /\ x + n = b + (chunk + n)
            /\ (P + chunk) - x + n = P - b + n
        <5>1. P \in Nat /\ chunk \in Nat /\ n \in Nat  BY ONLY <1>11a, n \in 1..d
        <5>2. b \in Nat  BY ONLY <5>1, b \in 0..P
        <5>3. x = b + chunk  OBVIOUS
        <5> QED BY ONLY <5>1, <5>2, <5>3
      <4> QED BY <1>3, <1>10, <4>1, <4>2
    <3> QED BY <3>1, <3>2, <3>3
  <2> QED BY <2>1, <2>2
<1>14. (P + chunk) + Len(v) = P + l /\ P + chunk \in Nat
  <2>1. Len(v) = d  BY <1>10
  <2> QED BY ONLY <1>11a, <2>1
<1>15. Owes(t, P + chunk, v, u, R)
  <2>1. Len(t) = (P + chunk) + Len(v) + Len(u) + Len(R)  BY <1>1, <1>14
  <2>2. Alone(t, (P + chunk) + Len(v), u) /\ Ahead(t, (P + chunk) + Len(v) + Len(u), R)
    BY <1>1, <1>14
  <2> QED BY <1>1, <1>10, <1>13, <1>14, <2>1, <2>2 DEF Owes, c
<1>16. P + chunk <= Len(t)  BY <1>1, <1>9
<1> QED BY <1>9, <1>12, <1>15, <1>16 DEF v, d, l

-----------------------------------------------------------------------------
(***************************************************************************)
(* The sink has put the first characters of a text.                        *)
(***************************************************************************)
PutSoFar == Len(out) + Len(ob.buf)

\* o and w are the buffer and what write has taken.
Begun(t, o, w) ==
    /\ ~o.err /\ Len(w) % OUTBUF_CAP = 0
    /\ \A n \in 1..(Len(w) + Len(o.buf)) : (w \o o.buf)[n] = Written(t, n)

\* There is no need to write, or there is someone to write to.
Fits(t) == call.writable \/ Len(t) <= OUTBUF_CAP
More(t) == Len(t) \in Nat /\ PutSoFar < Len(t)

\* Before something is stored: every buffer that was passed on was full.
LEMMA RoomFor ==
  ASSUME Sunk, NEW t, Begun(t, ob, out), More(t), Fits(t)
  PROVE  /\ ~Room.err /\ Taken_ \o Room.buf = out \o ob.buf
         /\ Len(Taken_) % OUTBUF_CAP = 0 /\ Len(Room.buf) = PutSoFar % OUTBUF_CAP
         /\ Len(Taken_) + Len(Room.buf) = PutSoFar /\ PutSoFar \in Nat
         /\ ob_full(ob) <=> Len(ob.buf) = OUTBUF_CAP
         /\ Len(ob.buf) \in 0..OUTBUF_CAP
<1> DEFINE c == OUTBUF_CAP
           q == Len(out) \div c
           x == Len(out)
           b == Len(ob.buf)
           D == PutSoFar
           l == Len(t)
<1>1. PICK S : ob.buf \in Seq(S) /\ out \in Seq(S)
  BY DEF Sunk
<1>2. x \in Nat /\ b \in Nat /\ D = x + b /\ c \in Nat \ {0} /\ b <= c /\ ~ob.err
  BY <1>1, Cap DEF Sunk, Begun, PutSoFar
<1>3. x = c * q + 0 /\ q \in Nat
  <2>1. x % c = 0  BY DEF Begun
  <2> QED BY <1>2, <2>1, Quotient
<1>4. ob_full(ob) <=> b = c  BY DEF ob_full
<1>5. D < l /\ (call.writable \/ l <= c) /\ x % c = 0 /\ l \in Nat
  BY DEF Fits, More, Begun
<1>6. ~call.writable => out = <<>>  BY DEF Sunk
<1>7. Len(<<>>) = 0  OBVIOUS
<1>8. call.writable \/ x = 0
  BY <1>6, <1>7
<1> HIDE DEF c, q, x, b, D, l
<1>9. b = c => call.writable
  BY <1>2, <1>5, <1>8
<1>10. ASSUME b = c
      PROVE  /\ ~Room.err /\ Taken_ \o Room.buf = out \o ob.buf
             /\ Len(Taken_) % c = 0 /\ Len(Room.buf) = D % c
             /\ Len(Taken_) + Len(Room.buf) = D
  <2>1. Room = ob_flush(ob) /\ Taken_ = write(ob)  BY <1>4, <1>10 DEF Room, Taken_
  <2>2. /\ Taken_ = out \o ob.buf /\ Room.buf = <<>>
        /\ Room.err => ~call.writable
    BY <1>9, <1>10, <2>1, Flushed
  <2>3. ~Room.err  BY <1>9, <1>10, <2>2
  <2>4. Len(Taken_) = x + b  BY <1>1, <2>2, ConcatProperties DEF x, b
  <2>5. Taken_ \o Room.buf = out \o ob.buf
    <3>1. out \o ob.buf \in Seq(S)  BY <1>1, ConcatProperties
    <3> QED BY <2>2, <3>1, ConcatEmptySeq
  <2>6. (x + b) % c = 0
    <3>1. x + b = c * (q + 1) + 0 /\ x + b \in Nat /\ q + 1 \in Nat /\ 0 \in 0..(c - 1)
      <4>1. c * (q + 1) = c * q + c /\ c * q \in Nat  BY <1>2, <1>3
      <4> QED BY <1>2, <1>3, <1>10, <4>1
    <3> QED BY ONLY <1>2, <3>1, QuotientUnique
  <2>7. Len(Room.buf) = 0 /\ D % c = 0  BY <1>2, <1>7, <2>2, <2>6
  <2>8. Len(Taken_) + Len(Room.buf) = D /\ D \in Nat  BY <1>2, <2>4, <2>7
  <2>9. Len(Taken_) % c = 0  BY <2>4, <2>6
  <2>10. Len(Room.buf) = D % c  BY <2>7
  <2> QED BY ONLY <2>3, <2>5, <2>8, <2>9, <2>10, Zenon
<1>11. ASSUME b # c
      PROVE  /\ ~Room.err /\ Taken_ \o Room.buf = out \o ob.buf
             /\ Len(Taken_) % c = 0 /\ Len(Room.buf) = D % c
             /\ Len(Taken_) + Len(Room.buf) = D
  <2>1. Room = ob /\ Taken_ = out  BY <1>4, <1>11 DEF Room, Taken_
  <2>2. D % c = b
    <3>1. D = c * q + b /\ D \in Nat /\ b \in 0..(c - 1)
      BY <1>2, <1>3, <1>11
    <3> QED BY ONLY <1>2, <1>3, <3>1, QuotientUnique
  <2>3. ~Room.err  BY <1>2, <2>1, Zenon
  <2>4. Len(Taken_) % c = 0  BY <1>5, <2>1 DEF x
  <2>5. Len(Room.buf) = D % c  BY <2>1, <2>2 DEF b
  <2>6. Len(Taken_) + Len(Room.buf) = D  BY <1>2, <2>1 DEF x, b
  <2>7. Taken_ \o Room.buf = out \o ob.buf  BY <2>1
  <2> QED BY ONLY <2>3, <2>4, <2>5, <2>6, <2>7, Zenon
<1>12. D \in Nat /\ b \in 0..c  BY <1>2
<1>13. /\ ~Room.err /\ Taken_ \o Room.buf = out \o ob.buf
       /\ Len(Taken_) % c = 0 /\ Len(Room.buf) = D % c
       /\ Len(Taken_) + Len(Room.buf) = D
  BY <1>10, <1>11
<1> QED BY ONLY <1>4, <1>12, <1>13, Zenon DEF c, D, b

\* What is stored is the next characters of the text.
Follow(t, z, m) == Len(z) = m /\ \A n \in 1..m : Written(t, PutSoFar + n) = z[n]
Stores(o, w, z) == o.buf = Room.buf \o z /\ o.err = Room.err /\ w = Taken_

LEMMA StoredNext ==
  ASSUME Sunk, NEW t, Begun(t, ob, out), More(t), Fits(t),
         NEW S, NEW z \in Seq(S), NEW m, Follow(t, z, m),
         NEW o, NEW w, Stores(o, w, z)
  PROVE  Begun(t, o, w) /\ Len(w) + Len(o.buf) = PutSoFar + m
<1> DEFINE D == PutSoFar
           r == Room.buf
<1>0. /\ o.buf = Room.buf \o z /\ o.err = Room.err /\ w = Taken_
      /\ Len(z) = m /\ \A n \in 1..m : Written(t, D + n) = z[n]
  BY DEF Follow, Stores
<1>1. /\ ~Room.err /\ w \o r = out \o ob.buf /\ Len(w) % OUTBUF_CAP = 0
      /\ Len(w) + Len(r) = D /\ D \in Nat
  BY <1>0, RoomFor
<1>2. PICK T : r \in Seq(T) /\ w \in Seq(T)
  BY <1>0, RoomIs
<1>3. \A n \in 1..D : (out \o ob.buf)[n] = Written(t, n)
  BY DEF Begun, PutSoFar
<1>4. o.buf = r \o z /\ ~o.err  BY <1>0, <1>1
<1>5. \A n \in 1..m : Written(t, D + n) = z[n]  BY <1>0
<1>6. m \in Nat /\ Len(z) = m  BY <1>0
<1> HIDE DEF D, r
<1> DEFINE U == T \cup S
           y == w \o r
           k == Len(w)
           j == Len(r)
<1>7. w \in Seq(U) /\ r \in Seq(U) /\ z \in Seq(U)
  BY <1>2
<1>8. k \in Nat /\ j \in Nat /\ k + j = D  BY <1>1, <1>2
<1>8a. D \in Nat  BY <1>1, Zenon
<1> HIDE DEF U
<1>9. y \in Seq(U) /\ Len(y) = D
  BY <1>7, <1>8, ConcatProperties
<1>10. w \o (r \o z) = y \o z
  BY <1>7
<1>11. Len(r \o z) = j + m
  BY <1>6, <1>7, ConcatProperties
<1> HIDE DEF y, k, j
<1>12. /\ \A n \in 1..D : (y \o z)[n] = y[n]
       /\ \A n \in 1..m : (y \o z)[D + n] = z[n]
  BY ONLY <1>6, <1>7, <1>9, Joined
<1>13. k + Len(o.buf) = D + m  BY <1>4, <1>6, <1>8, <1>11
<1>14. ASSUME NEW n \in 1..(D + m) PROVE (w \o o.buf)[n] = Written(t, n)
  <2>1. (w \o o.buf)[n] = (y \o z)[n]  BY <1>4, <1>10
  <2>2. CASE n <= D
    <3>1. n \in 1..D  BY <1>1, <1>6, <2>2
    <3> QED BY <1>1, <1>3, <1>12, <2>1, <3>1 DEF y
  <2>3. CASE ~(n <= D)
    <3> DEFINE i == n - D
    <3>1. i \in 1..m /\ D + i = n  BY ONLY <1>6, <1>8a, <2>3, n \in 1..(D + m)
    <3> HIDE DEF i
    <3> QED BY <1>5, <1>12, <2>1, <3>1
  <2> QED BY <2>2, <2>3
<1>15. Len(w) % OUTBUF_CAP = 0 /\ ~o.err  BY <1>1, <1>4, Zenon
<1>16. k + Len(o.buf) = D + m  BY <1>13
<1>17. \A n \in 1..(k + Len(o.buf)) : (w \o o.buf)[n] = Written(t, n)  BY <1>14, <1>16
<1>18. Begun(t, o, w)  BY ONLY <1>15, <1>17, Zenon DEF Begun, k
<1> QED BY ONLY <1>16, <1>18, Zenon DEF k, D

-----------------------------------------------------------------------------
(***************************************************************************)
(* The parser moves through the format, and what it reads is put.          *)
(***************************************************************************)
LEMMA EndOfRest ==
  ASSUME NEW S, NEW q \in Seq(S), NEW s, Len(s) \in Nat, EndOf(q, s),
         NEW k \in Nat, NEW r \in Seq(S), Len(r) = Len(q) - k,
         \A n \in 1..Len(r) : r[n] = q[n + k]
  PROVE  EndOf(r, s)
<1> DEFINE l == Len(s)
           m == Len(q)
           j == Len(r)
<1>1. m \in Nat /\ j \in Nat /\ l \in Nat /\ j = m - k /\ m <= l /\ k \in Nat
  BY DEF EndOf
<1>2. \A n \in 1..m : q[n] = s[l - m + n]  BY DEF EndOf
<1>3. \A n \in 1..j : r[n] = q[n + k]  OBVIOUS
<1> HIDE DEF l, m, j
<1>4. j <= l  BY <1>1
<1>5. ASSUME NEW n \in 1..j PROVE r[n] = s[l - j + n]
  <2>1. n + k \in 1..m /\ l - m + (n + k) = l - j + n  BY ONLY <1>1, n \in 1..j
  <2>2. q[n + k] = s[l - m + (n + k)]  BY <1>2, <2>1
  <2> QED BY <1>3, <2>1, <2>2
<1> QED BY <1>4, <1>5 DEF EndOf, l, j

LEMMA EndOfTail ==
  ASSUME NEW S, NEW q \in Seq(S), NEW s, Len(s) \in Nat, EndOf(q, s), q # <<>>
  PROVE  Tail(q) \in Seq(S) /\ Len(Tail(q)) = Len(q) - 1 /\ EndOf(Tail(q), s)
<1> DEFINE r == Tail(q)
<1>1. r \in Seq(S) /\ Len(r) = Len(q) - 1 /\ \A n \in 1..Len(r) : r[n] = q[n + 1]
  OBVIOUS
<1>2. 1 \in Nat  OBVIOUS
<1> HIDE DEF r
<1>3. EndOf(r, s)  BY <1>1, <1>2, EndOfRest
<1> QED BY <1>1, <1>3 DEF r

LEMMA EndOfCut ==
  ASSUME NEW S, NEW q \in Seq(S), NEW s, Len(s) \in Nat, EndOf(q, s), NEW k \in 0..Len(q)
  PROVE  /\ SubSeq(q, k + 1, Len(q)) \in Seq(S) /\ Len(SubSeq(q, k + 1, Len(q))) = Len(q) - k
         /\ EndOf(SubSeq(q, k + 1, Len(q)), s)
<1> DEFINE r == SubSeq(q, k + 1, Len(q))
           m == Len(q)
<1>1. r \in Seq(S) /\ Len(r) = Len(q) - k  BY Cut
<1>2. k \in Nat /\ m \in Nat /\ k <= m  OBVIOUS
<1>3. r = [n \in 1..(m - (k + 1) + 1) |-> q[(k + 1) + n - 1]]
  BY DEF SubSeq
<1> HIDE DEF r
<1>4. ASSUME NEW n \in 1..Len(r) PROVE r[n] = q[n + k]
  <2>1. n \in 1..(m - k)  BY <1>1
  <2> HIDE DEF m
  <2>2. n \in 1..(m - (k + 1) + 1) /\ (k + 1) + n - 1 = n + k
    BY ONLY <1>2, <2>1
  <2> QED BY <1>3, <2>2
<1>5. EndOf(r, s)  BY <1>1, <1>2, <1>4, EndOfRest
<1> QED BY <1>1, <1>5 DEF r

LEMMA InitPlaced ==
  ASSUME Init, Parsed
  PROVE  Placed /\ PosI = 1 /\ PosK = 1
<1>1. /\ call.fmt \in Formats /\ call.ap \in Args /\ fmt = call.fmt /\ ap = call.ap
      /\ state = "NORMAL"
  BY DEF Init
<1>2. fmt \in Seq(STRING) /\ ap \in Seq(VaWords) /\ Len(fmt) \in Nat /\ Len(ap) \in Nat
  BY DEF Parsed
<1>3. Depth = 0  BY <1>1 DEF Depth
<1>4. PosI = 1  BY <1>1, <1>2, <1>3 DEF PosI
<1>5. PosK = 1  BY <1>1, <1>2 DEF PosK
<1>6. \A q : Len(q) \in Nat => EndOf(q, q)
  <2> SUFFICES ASSUME NEW q, Len(q) \in Nat PROVE EndOf(q, q)
    OBVIOUS
  <2> DEFINE l == Len(q)
  <2> HIDE DEF l
  <2>1. l \in Nat  BY DEF l
  <2>2. l <= l /\ \A n \in 1..l : l - l + n = n  BY <2>1
  <2> QED BY <2>2 DEF EndOf, l
<1>7. 1 \in 1..(Len(fmt) + 1)  BY <1>2
<1> QED BY <1>1, <1>2, <1>4, <1>5, <1>6, <1>7 DEF Placed

\* The characters of the text that a step of the parser owes the sink, and what
\* remains after it.
Reads(R, s, u, Q) ==
    s \in Seq(Characters) /\ u \in Seq(Characters) /\ Q \in Seq(Marks) /\ R = (Whole(s) \o Single(u)) \o Q

\* A step that puts nothing goes on with the directive.
GoesOnReading == Placed' /\ todo' = Nothing /\ Remaining' = Remaining
IsRead == Placed' /\ \E s, u, Q : /\ Reads(Remaining, s, u, Q) /\ Remaining' = Q
                                  /\ todo' = [puts |-> s, putc |-> u]

LEMMA ParserMoves ==
  ASSUME Parsed, Placed, Parse, Parsed'
  PROVE  /\ call' = call /\ todo = Nothing /\ fmt # <<>>
         /\ fmt' \in Seq(STRING) /\ Len(fmt') = Len(fmt) - 1 /\ EndOf(fmt', call.fmt)
         /\ PosI' = PosI + Depth + 1 - Depth' /\ Depth' \in 0..3
         /\ PosK' = Len(call.ap) - Len(ap') + 1
         /\ Remaining' = TextFrom(call.fmt, call.ap)[PosI'][PosK']
         /\ (Depth' = 0 <=> state' = "NORMAL")
<1>1. call' = call /\ todo = Nothing /\ fmt # <<>> /\ fmt' = Tail(fmt)  BY DEF Parse
<1>2. Len(call.fmt) \in Nat /\ Len(fmt) \in Nat  BY PositionIs
<1>3. fmt \in Seq(STRING) /\ EndOf(fmt, call.fmt)  BY DEF Parsed, Placed
<1>4. Tail(fmt) \in Seq(STRING) /\ Len(Tail(fmt)) = Len(fmt) - 1 /\ EndOf(Tail(fmt), call.fmt)
  <2>1. PICK S : S = STRING  OBVIOUS
  <2>2. fmt \in Seq(S)  BY <1>3, <2>1
  <2>3. Tail(fmt) \in Seq(S) /\ Len(Tail(fmt)) = Len(fmt) - 1 /\ EndOf(Tail(fmt), call.fmt)
    BY ONLY <1>1, <1>2, <1>3, <2>2, EndOfTail
  <2> QED BY <2>1, <2>3
<1>5. Depth \in 0..3  BY DepthIs
<1>6. Depth' \in 0..3 /\ (Depth' = 0 <=> state' = "NORMAL")
  <2>1. state' \in {"NORMAL", "LENGTH", "LENGTH_SHORT", "LENGTH_LONG", "SPEC"}  BY DEF Parsed
  <2> QED BY <2>1 DEF Depth
<1>7. PosI' = PosI + Depth + 1 - Depth'
  <2>1. PosI' = Len(call.fmt) - Len(fmt') - Depth' + 1  BY <1>1 DEF PosI
  <2>2. PosI = Len(call.fmt) - Len(fmt) - Depth + 1  BY DEF PosI
  <2>3. Len(fmt') = Len(fmt) - 1  BY <1>1, <1>4
  <2> QED BY ONLY <1>2, <1>5, <1>6, <2>1, <2>2, <2>3
<1>8. PosK' = Len(call.ap) - Len(ap') + 1  BY <1>1 DEF PosK
<1>9. Remaining' = TextFrom(call.fmt, call.ap)[PosI'][PosK']  BY <1>1 DEF Remaining
<1> QED BY <1>1, <1>4, <1>6, <1>7, <1>8, <1>9

LEMMA PercentRead ==
  ASSUME Parsed, Placed, Parse, Parsed', Normal(Head(fmt)), Head(fmt) = "%"
  PROVE  GoesOnReading
<1> DEFINE i == PosI
<1>1. state = "NORMAL" /\ state' = "LENGTH" /\ todo' = todo /\ ap' = ap /\ len' = len
  BY DEF Normal
<1>2. /\ call' = call /\ todo = Nothing /\ fmt # <<>>
      /\ fmt' \in Seq(STRING) /\ EndOf(fmt', call.fmt)
      /\ PosI' = i + Depth + 1 - Depth' /\ PosK' = Len(call.ap) - Len(ap') + 1
      /\ Remaining' = TextFrom(call.fmt, call.ap)[PosI'][PosK']
  BY ParserMoves
<1>3. Depth = 0 /\ Depth' = 1  BY <1>1 DEF Depth
<1>4. i \in 1..(Len(call.fmt) + 1) /\ i + Depth <= Len(call.fmt) /\ call.fmt[i + Depth] = "%"
      /\ Len(call.fmt) \in Nat
  <2>1. i \in 1..(Len(call.fmt) + 1)  BY DEF Placed
  <2> QED BY <1>2, <2>1, PositionIs
<1>5. PosK' = PosK  BY <1>1, <1>2 DEF PosK
<1> HIDE DEF i
<1>6. PosI' = i /\ i + Depth = i  BY <1>2, <1>3, <1>4
<1>7. Placed'
  <2>1. call.fmt \in Seq(STRING) /\ call.ap \in Seq(VaWords) /\ EndOf(ap, call.ap)
    BY DEF Placed
  <2> QED BY <1>1, <1>2, <1>4, <1>6, <2>1 DEF Placed
<1> QED BY <1>1, <1>2, <1>5, <1>6, <1>7 DEF GoesOnReading, Remaining, i

LEMMA LengthRead ==
  ASSUME Parsed, Placed, Parse, Parsed', NEW c, c = Head(fmt),
         \/ Length(c, "LENGTH", "h", "LENGTH_SHORT", "H")
         \/ Length(c, "LENGTH", "l", "LENGTH_LONG", "L")
         \/ Length(c, "LENGTH_SHORT", "h", "SPEC", "HH")
         \/ Length(c, "LENGTH_LONG", "l", "SPEC", "LL")
  PROVE  GoesOnReading
<1> DEFINE i == PosI
<1>1. todo' = todo /\ ap' = ap  BY DEF Length
<1>2. /\ call' = call /\ todo = Nothing /\ fmt # <<>>
      /\ fmt' \in Seq(STRING) /\ EndOf(fmt', call.fmt)
      /\ PosI' = i + Depth + 1 - Depth' /\ PosK' = Len(call.ap) - Len(ap') + 1
      /\ Remaining' = TextFrom(call.fmt, call.ap)[PosI'][PosK']
  BY ParserMoves
<1>3. /\ i \in 1..(Len(call.fmt) + 1) /\ i + Depth <= Len(call.fmt) /\ call.fmt[i + Depth] = c
      /\ Len(call.fmt) \in Nat /\ call.fmt[i] = "%"
  <2>1. i \in 1..(Len(call.fmt) + 1)  BY DEF Placed
  <2>2. call.fmt[i] = "%"  BY DEF Placed, Length
  <2> QED BY <1>2, <2>1, <2>2, PositionIs
<1>4. /\ state = "LENGTH_SHORT" => call.fmt[i + 1] = "h"
      /\ state = "LENGTH_LONG" => call.fmt[i + 1] = "l"
  BY DEF Placed
<1>5. call.fmt \in Seq(STRING) /\ call.ap \in Seq(VaWords) /\ EndOf(ap, call.ap)
  BY DEF Placed
<1>6. PosK' = PosK  BY <1>1, <1>2 DEF PosK
<1> HIDE DEF i
<1>7. Depth' = Depth + 1 /\ PosI' = i /\ Placed'
  <2>1. CASE Length(c, "LENGTH", "h", "LENGTH_SHORT", "H")
    <3>1. state = "LENGTH" /\ c = "h" /\ state' = "LENGTH_SHORT"  BY <2>1 DEF Length
    <3>2. Depth = 1 /\ Depth' = 2  BY <3>1 DEF Depth
    <3>3. PosI' = i  BY <1>2, <1>3, <3>2
    <3> QED BY <1>1, <1>2, <1>3, <1>5, <3>1, <3>2, <3>3 DEF Placed
  <2>2. CASE Length(c, "LENGTH", "l", "LENGTH_LONG", "L")
    <3>1. state = "LENGTH" /\ c = "l" /\ state' = "LENGTH_LONG"  BY <2>2 DEF Length
    <3>2. Depth = 1 /\ Depth' = 2  BY <3>1 DEF Depth
    <3>3. PosI' = i  BY <1>2, <1>3, <3>2
    <3> QED BY <1>1, <1>2, <1>3, <1>5, <3>1, <3>2, <3>3 DEF Placed
  <2>3. CASE Length(c, "LENGTH_SHORT", "h", "SPEC", "HH")
    <3>1. state = "LENGTH_SHORT" /\ c = "h" /\ state' = "SPEC" /\ len' = "HH"
      BY <2>3 DEF Length
    <3>2. Depth = 2 /\ Depth' = 3  BY <3>1 DEF Depth
    <3>3. PosI' = i  BY <1>2, <1>3, <3>2
    <3> QED BY <1>1, <1>2, <1>3, <1>4, <1>5, <3>1, <3>2, <3>3 DEF Placed
  <2>4. CASE Length(c, "LENGTH_LONG", "l", "SPEC", "LL")
    <3>1. state = "LENGTH_LONG" /\ c = "l" /\ state' = "SPEC" /\ len' = "LL"
      BY <2>4 DEF Length
    <3>2. Depth = 2 /\ Depth' = 3  BY <3>1 DEF Depth
    <3>3. PosI' = i  BY <1>2, <1>3, <3>2
    <3> QED BY <1>1, <1>2, <1>3, <1>4, <1>5, <3>1, <3>2, <3>3 DEF Placed
  <2> QED BY <2>1, <2>2, <2>3, <2>4
<1> QED BY <1>1, <1>2, <1>6, <1>7 DEF GoesOnReading, Remaining, i

LEMMA CharRead ==
  ASSUME Parsed, Placed, Parse, Parsed', NEW c, c = Head(fmt), Normal(c), c # "%"
  PROVE  IsRead
<1> DEFINE i == PosI
           k == PosK
           f == call.fmt
           a == call.ap
           g == TextFrom(f, a)
<1>1. state = "NORMAL" /\ state' = "NORMAL" /\ todo' = [Nothing EXCEPT !.putc = <<c>>] /\ ap' = ap
  BY DEF Normal
<1>2. /\ call' = call /\ todo = Nothing /\ fmt # <<>>
      /\ fmt' \in Seq(STRING) /\ EndOf(fmt', f)
      /\ PosI' = i + Depth + 1 - Depth' /\ PosK' = Len(a) - Len(ap') + 1
      /\ Remaining' = g[PosI'][PosK']
  BY ParserMoves
<1>3. Depth = 0 /\ Depth' = 0  BY <1>1 DEF Depth
<1>4. /\ i \in 1..(Len(f) + 1) /\ i + Depth <= Len(f) /\ f[i + Depth] = c /\ Len(f) \in Nat
      /\ Affords(f, a, i, k)
  <2>1. i \in 1..(Len(f) + 1)  BY DEF Placed
  <2> QED BY <1>2, <2>1, PositionIs
<1>5. PosK' = k  BY <1>1, <1>2 DEF PosK
<1>6. Remaining = g[i][k]  BY DEF Remaining
<1>7. \A x \in 1..(Len(f) + 2) : \A y \in 1..(Len(a) + 1) : g[x][y] = TextAt(f, a, g, x, y)
  <2>1. f \in Seq(STRING)  BY DEF Placed
  <2> QED BY <1>4, <2>1, TextsFollow, Zenon
<1>8. f \in Seq(STRING) /\ a \in Seq(VaWords) /\ EndOf(ap, a)  BY DEF Placed
<1>9. \A x, y : Affords(f, a, x, y) => g[x][y] \in Seq(Marks)  BY TextTyped
<1> HIDE DEF i, k, g
<1>11. PosI' = i + 1 /\ i + Depth = i  BY <1>2, <1>3, <1>4
<1>12. i + 1 \in 1..(Len(f) + 1)  BY <1>4, <1>11
<1>13. Placed'  BY <1>1, <1>2, <1>8, <1>11, <1>12 DEF Placed
<1> HIDE DEF f, a
<1> DEFINE Q == g[i + 1][k]
<1>14. Q \in Seq(Marks)
  <2>1. Affords(f, a, i + 1, k)
    <3> DEFINE l == Len(f)
               m == Len(a)
    <3>1. i \in 1..(l + 1) /\ k \in 1..(m + 1) /\ l - i + 1 <= 2 * (m - k + 1)
          /\ i + 1 \in 1..(l + 1) /\ l \in Nat /\ m \in Nat
      BY <1>4, <1>8, <1>12 DEF Affords
    <3> HIDE DEF l, m
    <3>2. l - (i + 1) + 1 <= 2 * (m - k + 1)  BY <3>1
    <3> QED BY <1>8, <3>1, <3>2 DEF Affords, l, m
  <2> QED BY <1>9, <2>1
<1>15. Remaining = Single(<<c>>) \o Q
  <2>1. i \in 1..(Len(f) + 2) /\ k \in 1..(Len(a) + 1) /\ ~(i > Len(f)) /\ f[i] = c
    <3>1. k \in 1..(Len(a) + 1)  BY <1>4 DEF Affords
    <3> QED BY <1>4, <1>11, <3>1
  <2>2. g[i][k] = TextAt(f, a, g, i, k)  BY <1>7, <2>1
  <2>3. TextAt(f, a, g, i, k) = Single(<<c>>) \o Q  BY <2>1 DEF TextAt
  <2> QED BY <1>6, <2>2, <2>3
<1>16. Remaining' = Q  BY <1>2, <1>5, <1>11
<1> HIDE DEF Q
<1>17. <<c>> \in Seq(Characters) /\ <<>> \in Seq(Characters)
  <2>1. PICK S : S = STRING  OBVIOUS
  <2>2. fmt \in Seq(S)  BY <2>1 DEF Parsed
  <2>3. c \in S  BY <1>2, <2>2
  <2>4. S \subseteq Characters  BY <2>1 DEF Characters
  <2> HIDE DEF Characters
  <2>5. c \in Characters  BY <2>3, <2>4
  <2> QED BY <2>5
<1>18. Whole(<<>>) \o Single(<<c>>) = Single(<<c>>)
  <2>1. Whole(<<>>) \in Seq(Marks) /\ Len(Whole(<<>>)) = Len(<<>>) /\ Single(<<c>>) \in Seq(Marks)
    BY ONLY <1>17, Marked
  <2>2. Whole(<<>>) = <<>>  BY <2>1, EmptySeq
  <2> HIDE DEF Marks
  <2> QED BY <2>1, <2>2, ConcatEmptySeq
<1>19. Reads(Remaining, <<>>, <<c>>, Q)  BY <1>14, <1>15, <1>17, <1>18 DEF Reads
<1>20. todo' = [puts |-> <<>>, putc |-> <<c>>]  BY <1>1 DEF Nothing
<1> QED BY <1>13, <1>16, <1>19, <1>20 DEF IsRead

LEMMA ConversionRead ==
  ASSUME Parsed, Placed, Parse, Parsed', NEW c, c = Head(fmt), Specifier(c)
  PROVE  IsRead
<1> DEFINE i == PosI
           k == PosK
           f == call.fmt
           a == call.ap
           g == TextFrom(f, a)
           p == PrefixAt(f, i + 1)
           w == va_words(c)
           s == Puts(c, a, k)
           u == Putcs(c, p, a, k)
           Q == g[i + Depth + 1][k + w]
<1>1. /\ todo' = Convert(c) /\ ap' = SubSeq(ap, w + 1, Len(ap)) /\ state' = "NORMAL"
      /\ Converts(c)
  BY DEF Specifier, Converts
<1>2. /\ call' = call /\ todo = Nothing /\ fmt # <<>>
      /\ fmt' \in Seq(STRING) /\ EndOf(fmt', f)
      /\ PosI' = i + Depth + 1 - Depth' /\ PosK' = Len(a) - Len(ap') + 1
      /\ Remaining' = g[PosI'][PosK'] /\ Depth' = 0
  BY <1>1, ParserMoves
<1>3. state # "NORMAL"  BY <1>1 DEF Converts
<1>4. /\ Enough(c, p, a, k) /\ w = Taken(c, p) /\ Affords(f, a, i + Depth + 1, k + w)
      /\ Remaining = Meaning(c, p, a, k) \o Q
  <2>1. /\ Enough(c, p, a, k) /\ w = Taken(c, p)
        /\ Affords(f, a, i + Depth + 1, k + Taken(c, p))
        /\ Remaining = Meaning(c, p, a, k) \o g[i + Depth + 1][k + Taken(c, p)]
    BY <1>1, <1>2, <1>3, DirectiveRead
  <2> QED BY <2>1
<1>5. Long(p) <=> len = "LL"
  BY <1>1, <1>2, <1>3, PrefixSeen
<1>6. Len(ap) = Len(a) - k + 1 /\ \A n \in 1..Len(ap) : ap[n] = a[k - 1 + n]
  <2>1. Len(a) \in Nat /\ Len(ap) \in Nat /\ \A n \in 1..Len(ap) : ap[n] = a[k - 1 + n]
    BY PositionIs
  <2>2. k = Len(a) - Len(ap) + 1  BY DEF PosK
  <2> HIDE DEF k, a
  <2> QED BY <2>1, <2>2
<1>7. Convert(c) = [puts |-> s, putc |-> u]
  <2> HIDE DEF a, k, p
  <2> QED BY <1>4, <1>5, <1>6, ConvertIs
<1>8. Meaning(c, p, a, k) = Whole(s) \o Single(u) /\ s \in Seq(Characters) /\ u \in Seq(Characters)
  <2> HIDE DEF a, k, p
  <2> QED BY <1>4, MeaningIs, PutsTyped
<1>9. Q \in Seq(Marks)
  <2> HIDE DEF f, a, i, k, w
  <2> QED BY <1>4, TextTyped
<1>10. w \in 0..Len(ap) /\ ap \in Seq(VaWords) /\ Len(a) \in Nat /\ EndOf(ap, a) /\ Depth \in 0..3
  <2>1. ap \in Seq(VaWords)  BY DEF Parsed
  <2>2. w \in 0..Len(ap)  BY <1>2, Directive
  <2>3. Len(a) \in Nat  BY PositionIs
  <2>4. EndOf(ap, a)  BY DEF Placed
  <2> QED BY <2>1, <2>2, <2>3, <2>4, DepthIs
<1>11. f \in Seq(STRING) /\ a \in Seq(VaWords)  BY DEF Placed
<1>12. k = Len(a) - Len(ap) + 1 /\ i \in 1..(Len(f) + 1)  BY DEF PosK, Placed
<1>13. Len(ap') = Len(ap) - w /\ EndOf(ap', a)
  <2> HIDE DEF a, w
  <2> QED BY <1>1, <1>10, EndOfCut
<1>14. i + Depth + 1 \in 1..(Len(f) + 1)
  <2> HIDE DEF i, f, w, k
  <2> QED BY <1>4 DEF Affords
<1> HIDE DEF i, k, g, p, w, s, u
<1>15. PosI' = i + Depth + 1 /\ PosK' = k + w
  <2>1. Len(ap) \in Nat  BY <1>10
  <2>2. i \in Nat  BY <1>12
  <2>3. PosI' = i + Depth + 1  BY <1>2, <1>10, <2>2
  <2>4. PosK' = Len(a) - (Len(ap) - w) + 1  BY <1>2, <1>13
  <2> HIDE DEF a
  <2> QED BY <1>10, <1>12, <2>1, <2>3, <2>4
<1>16. Placed'  BY <1>1, <1>2, <1>11, <1>13, <1>14, <1>15 DEF Placed
<1>17. Remaining' = Q  BY <1>2, <1>15
<1> HIDE DEF Q, f, a
<1>18. Reads(Remaining, s, u, Q)  BY <1>4, <1>8, <1>9 DEF Reads
<1> QED BY <1>1, <1>7, <1>16, <1>17, <1>18 DEF IsRead

LEMMA ParserReads ==
  ASSUME Parsed, Placed, Parse, Parsed'
  PROVE  GoesOnReading \/ IsRead
<1> DEFINE c == Head(fmt)
<1>1. \/ Normal(c)
      \/ \/ Length(c, "LENGTH", "h", "LENGTH_SHORT", "H")
         \/ Length(c, "LENGTH", "l", "LENGTH_LONG", "L")
         \/ Length(c, "LENGTH_SHORT", "h", "SPEC", "HH")
         \/ Length(c, "LENGTH_LONG", "l", "SPEC", "LL")
      \/ Specifier(c)
  BY DEF Parse
<1>2. CASE Normal(c) /\ c = "%"  BY <1>2, PercentRead
<1>3. CASE Normal(c) /\ c # "%"  BY <1>3, CharRead
<1>4. CASE \/ Length(c, "LENGTH", "h", "LENGTH_SHORT", "H")
           \/ Length(c, "LENGTH", "l", "LENGTH_LONG", "L")
           \/ Length(c, "LENGTH_SHORT", "h", "SPEC", "HH")
           \/ Length(c, "LENGTH_LONG", "l", "SPEC", "LL")
  BY <1>4, LengthRead
<1>5. CASE Specifier(c)  BY <1>5, ConversionRead
<1> QED BY <1>1, <1>2, <1>3, <1>4, <1>5

-----------------------------------------------------------------------------
(***************************************************************************)
(* The text of the whole call: what is put, what is owed, what remains.    *)
(***************************************************************************)
TheText == Expected(call.fmt, call.ap)

Underway == Begun(TheText, ob, out) /\ Owes(TheText, PutSoFar, todo.puts, todo.putc, Remaining)

FInv ==
    /\ Placed
    /\ pc = "format" /\ Fits(TheText) => Underway
    /\ Printed

LEMMA InitFInv == Init /\ OInv => FInv
<1> SUFFICES ASSUME Init, OInv PROVE FInv
  OBVIOUS
<1>1. todo = [puts |-> <<>>, putc |-> <<>>] /\ ob = ob_init /\ out = <<>> /\ pc = "format"
  BY DEF Init, Nothing
<1>2. Parsed /\ Sunk  BY DEF OInv
<1>3. Placed /\ PosI = 1 /\ PosK = 1  BY <1>2, InitPlaced
<1>4. Remaining = TheText  BY <1>3 DEF Remaining, TheText, Expected
<1>5. TheText \in Seq(Marks)
  <2>1. Affords(call.fmt, call.ap, PosI, PosK)  BY <1>2, <1>3, PositionIs
  <2> QED BY <1>4, <2>1, TextTyped DEF Remaining
<1>6. ob.buf = <<>> /\ ob.err = FALSE  BY <1>1 DEF ob_init
<1>7. PutSoFar = 0 /\ Len(out) = 0 /\ Len(ob.buf) = 0
  <2>1. Len(<<>>) = 0  OBVIOUS
  <2> QED BY <1>1, <1>6, <2>1 DEF PutSoFar
<1>8. Begun(TheText, ob, out)
  <2>1. 0 % OUTBUF_CAP = 0
    <3>1. 0 = OUTBUF_CAP * 0 + 0 /\ 0 \in 0..(OUTBUF_CAP - 1) /\ OUTBUF_CAP \in Nat \ {0}  BY Cap
    <3> QED BY ONLY <3>1, QuotientUnique
  <2>2. 1..(Len(out) + Len(ob.buf)) = {}  BY <1>7
  <2> QED BY <1>6, <1>7, <2>1, <2>2, Zenon DEF Begun
<1>9. Owes(TheText, PutSoFar, todo.puts, todo.putc, Remaining)
  <2>1. Owes(TheText, 0, <<>>, <<>>, TheText)  BY <1>5, OwesAll
  <2> QED BY <1>1, <1>4, <1>7, <2>1
<1> QED BY <1>1, <1>3, <1>8, <1>9 DEF FInv, Underway, Printed

\* When the format has been read nothing remains.
LEMMA NothingRemains ==
  ASSUME Parsed, Placed, fmt = <<>>
  PROVE  Remaining = <<>>
<1> DEFINE f == call.fmt
           a == call.ap
           i == PosI
           k == PosK
           g == TextFrom(f, a)
           l == Len(f)
<1>1. l \in Nat /\ i + Depth = l + 1 /\ Affords(f, a, i, k) /\ Depth \in 0..3
  BY PositionIs, DepthIs
<1>2. f \in Seq(STRING) /\ (state # "NORMAL" => f[i] = "%")  BY DEF Placed
<1>3. i \in 1..(l + 1) /\ k \in 1..(Len(a) + 1)  BY <1>1 DEF Affords
<1>4. \A x \in 1..(l + 2) : \A y \in 1..(Len(a) + 1) : g[x][y] = TextAt(f, a, g, x, y)
  BY <1>2, TextsFollow
<1>5. state # "NORMAL" => Len(PrefixAt(f, i + 1)) = Depth - 1
  BY PrefixSeen
<1>6. Remaining = g[i][k]  BY DEF Remaining
<1>7. Depth = 0 <=> state = "NORMAL"  BY DepthIs
<1> HIDE DEF i, k, g
<1>8. PrefixAt(f, i + 1) = LengthPrefix(f, i + 1)
  <2>1. i + 1 \in Nat  BY <1>1, <1>3
  <2> QED BY <2>1, PrefixIs
<1>9. g[i][k] = TextAt(f, a, g, i, k)
  <2>1. i \in 1..(l + 2)  BY <1>1, <1>3
  <2> QED BY <1>3, <1>4, <2>1
<1>10. CASE state = "NORMAL"
  <2>1. i > l  BY <1>1, <1>3, <1>7, <1>10
  <2>2. TextAt(f, a, g, i, k) = <<>>  BY <2>1 DEF TextAt
  <2> QED BY <1>6, <1>9, <2>2
<1>11. CASE state # "NORMAL"
  <2> DEFINE n == Len(LengthPrefix(f, i + 1))
  <2>1. n = Depth - 1  BY <1>5, <1>8, <1>11
  <2> HIDE DEF n
  <2>2. i + 1 + n > l  BY <1>1, <1>3, <2>1
  <2>3. TextAt(f, a, g, i, k) = <<>>  BY <1>2, <1>11, <2>2 DEF TextAt, n
  <2> QED BY <1>6, <1>9, <2>3
<1> QED BY <1>10, <1>11

LEMMA ParseFInv ==
  ASSUME OInv, FInv, Parse, OInv'
  PROVE  FInv'
<1>1. /\ pc = "format" /\ todo = Nothing /\ UNCHANGED <<call, ob, out, pc, ret>>
  BY DEF Parse
<1>2. Parsed /\ Placed /\ Parsed'  BY DEF OInv, FInv
<1>3. GoesOnReading \/ IsRead  BY <1>2, ParserReads
<1>4. Placed'  BY <1>3 DEF GoesOnReading, IsRead
<1>5. TheText' = TheText /\ Fits(TheText)' = Fits(TheText) /\ PutSoFar' = PutSoFar
  BY <1>1 DEF TheText, Fits, PutSoFar
<1>6. ASSUME Fits(TheText) PROVE Underway'
  <2>1. Begun(TheText, ob, out) /\ Owes(TheText, PutSoFar, todo.puts, todo.putc, Remaining)
    BY <1>1, <1>6 DEF FInv, Underway
  <2>2. Begun(TheText, ob, out)'  BY <1>1, <1>5, <2>1 DEF Begun, Written
  <2>3. todo.puts = <<>> /\ todo.putc = <<>>  BY <1>1 DEF Nothing
  <2>4. Owes(TheText, PutSoFar, <<>>, <<>>, Remaining)  BY <2>1, <2>3
  <2>5. Owes(TheText, PutSoFar, todo'.puts, todo'.putc, Remaining')
    <3>1. CASE GoesOnReading
      BY <1>1, <2>1, <3>1 DEF GoesOnReading
    <3>2. CASE IsRead
      <4>1. PICK s, u, Q : /\ Reads(Remaining, s, u, Q) /\ Remaining' = Q
                           /\ todo' = [puts |-> s, putc |-> u]
        BY <3>2 DEF IsRead
      <4>2. /\ s \in Seq(Characters) /\ u \in Seq(Characters) /\ Q \in Seq(Marks)
            /\ Remaining = (Whole(s) \o Single(u)) \o Q
        BY <4>1 DEF Reads
      <4>3. Owes(TheText, PutSoFar, s, u, Q)  BY ONLY <2>4, <4>2, OwesRead
      <4>4. todo'.puts = s /\ todo'.putc = u  BY <4>1
      <4> QED BY <4>1, <4>3, <4>4
    <3> QED BY <1>3, <3>1, <3>2
  <2>6. Owes(TheText, PutSoFar, todo.puts, todo.putc, Remaining)'
    BY <1>5, <2>5 DEF Owes, LeftOf, Alone, Ahead
  <2> QED BY <2>2, <2>6 DEF Underway
<1>7. Printed'  BY <1>1 DEF Printed
<1> QED BY <1>4, <1>5, <1>6, <1>7 DEF FInv

\* A step of the sink leaves the parser where it is.
LEMMA SinkMoves ==
  ASSUME FInv, UNCHANGED <<call, fmt, ap, state, len, pc, ret>>, pc = "format",
         NEW t, t = TheText, Fits(t) => Begun(t, ob', out')
                                       /\ Owes(t, PutSoFar', todo'.puts, todo'.putc, Remaining)
  PROVE  FInv'
<1>1. Placed'
  <2>1. Placed  BY DEF FInv
  <2> QED BY <2>1 DEF Placed, PosI, Depth
<1>2. TheText' = TheText  BY DEF TheText
<1>3. Remaining' = Remaining  BY DEF Remaining, PosI, PosK, Depth
<1>4. Fits(TheText)' <=> Fits(t)  BY <1>2 DEF Fits
<1>5. ASSUME Fits(t) PROVE Underway'
  <2>1. Begun(TheText, ob', out') /\ Owes(TheText, PutSoFar', todo'.puts, todo'.putc, Remaining')
    BY <1>3, <1>5
  <2>2. Begun(TheText', ob', out') /\ Owes(TheText', PutSoFar', todo'.puts, todo'.putc, Remaining')
    BY <1>2, <2>1
  <2> QED BY <2>2 DEF Underway
<1>6. Printed'  BY DEF Printed
<1> QED BY <1>1, <1>4, <1>5, <1>6 DEF FInv

LEMMA OwesMore ==
  ASSUME Sunk, NEW t, NEW s, NEW u, NEW R, Owes(t, PutSoFar, s, u, R), s # <<>> \/ u # <<>>
  PROVE  More(t)
<1> DEFINE l == Len(s)
           m == Len(u)
           D == PutSoFar
           k == Len(R)
<1>1. /\ t \in Seq(Marks) /\ R \in Seq(Marks) /\ s \in Seq(Characters) /\ u \in Seq(Characters)
      /\ D \in Nat /\ Len(t) = D + l + m + k
  BY DEF Owes
<1>2. l \in Nat /\ m \in Nat /\ k \in Nat /\ Len(t) \in Nat  BY <1>1
<1>3. l # 0 \/ m # 0  BY <1>1, EmptySeq
<1>4. D \in Nat /\ Len(t) = D + l + m + k  BY <1>1
<1> HIDE DEF l, m, k, D
<1>5. D < Len(t)  BY ONLY <1>2, <1>3, <1>4
<1> QED BY <1>2, <1>5 DEF More, D

LEMMA PutcFInv ==
  ASSUME OInv, FInv, ObPutc
  PROVE  FInv'
<1> DEFINE u == todo.putc
           e == Head(u)
           D == PutSoFar
<1>1. /\ pc = "format" /\ todo.puts = <<>> /\ u # <<>>
      /\ ob' = [Room EXCEPT !.buf = Append(Room.buf, e)] /\ out' = Taken_
      /\ todo' = [todo EXCEPT !.putc = Tail(u)]
      /\ UNCHANGED <<call, fmt, ap, state, len, pc, ret>>
  BY DEF ObPutc, Room, Taken_
<1>2. Sunk /\ todo = [puts |-> todo.puts, putc |-> todo.putc]  BY DEF OInv, ToPut
<1>3. todo'.puts = <<>> /\ todo'.putc = Tail(u)  BY <1>1, <1>2
<1>4. /\ Room = [buf |-> Room.buf, total |-> Room.total, err |-> Room.err]
      /\ \E S : Room.buf \in Seq(S)
  BY <1>2, RoomIs
<1> SUFFICES ASSUME NEW t, t = TheText, Fits(t)
             PROVE  /\ Begun(t, ob', out')
                    /\ Owes(t, PutSoFar', todo'.puts, todo'.putc, Remaining)
  BY <1>1, SinkMoves
<1>5. Begun(t, ob, out) /\ Owes(t, D, <<>>, u, Remaining)
  BY <1>1 DEF FInv, Underway
<1>6. More(t)  BY <1>1, <1>2, <1>5, OwesMore
<1>7. /\ Owes(t, D + 1, <<>>, Tail(u), Remaining)
      /\ Written(t, D + 1) = e
  BY ONLY <1>1, <1>5, OwesPutc
<1> HIDE DEF u, e
<1>8. ob'.buf = Room.buf \o <<e>> /\ ob'.err = Room.err
  <2>1. ob'.buf = Append(Room.buf, e) /\ ob'.err = Room.err
    <3> DEFINE r == Room
    <3>1. r = [buf |-> r.buf, total |-> r.total, err |-> r.err]
          /\ ob' = [r EXCEPT !.buf = Append(r.buf, e)]
      BY <1>1, <1>4
    <3> HIDE DEF r
    <3>2. ob'.buf = Append(r.buf, e) /\ ob'.err = r.err  BY <3>1
    <3> QED BY <3>2 DEF r
  <2>2. Append(Room.buf, e) = Room.buf \o <<e>>
    <3> DEFINE r == Room.buf
    <3>1. \E S : r \in Seq(S)  BY <1>4
    <3> HIDE DEF r
    <3>2. Append(r, e) = r \o <<e>>  BY <3>1
    <3> QED BY <3>2 DEF r
  <2> QED BY <2>1, <2>2
<1>9. Begun(t, ob', out') /\ Len(out') + Len(ob'.buf) = D + 1
  <2> DEFINE S == {e}
             z == <<e>>
  <2>1. z \in Seq(S) /\ Len(z) = 1 /\ z[1] = e  OBVIOUS
  <2> HIDE DEF S, z
  <2>2. \A n \in 1..1 : Written(t, D + n) = z[n]
    <3>1. \A n \in 1..1 : n = 1  OBVIOUS
    <3> QED BY <1>7, <2>1, <3>1
  <2>3. ob'.buf = Room.buf \o z  BY <1>8 DEF z
  <2>4. Follow(t, z, 1)  BY <2>1, <2>2 DEF Follow
  <2>5. Stores(ob', out', z)  BY <1>1, <1>8, <2>3 DEF Stores
  <2>6. Sunk /\ Begun(t, ob, out) /\ More(t) /\ Fits(t) /\ z \in Seq(S)
    BY <1>2, <1>5, <1>6, <2>1
  <2>7. Begun(t, ob', out') /\ Len(out') + Len(ob'.buf) = PutSoFar + 1
    BY ONLY <2>4, <2>5, <2>6, StoredNext
  <2> QED BY <2>7
<1>10. PutSoFar' = D + 1  BY <1>9 DEF PutSoFar
<1> QED BY <1>3, <1>7, <1>9, <1>10

LEMMA WriteFInv ==
  ASSUME OInv, FInv, ObWrite
  PROVE  FInv'
<1> DEFINE s == todo.puts
           n == Len(s)
           b == Len(ob.buf)
           space == IF ob_full(ob) THEN OUTBUF_CAP
                    ELSE IF b > OUTBUF_CAP THEN n ELSE OUTBUF_CAP - b
           chunk == IF n < space THEN n ELSE space
           z == SubSeq(s, 1, chunk)
           D == PutSoFar
<1>1. /\ pc = "format" /\ s # <<>>
      /\ ob' = [Room EXCEPT !.buf = Room.buf \o z] /\ out' = Taken_
      /\ todo' = [todo EXCEPT !.puts = SubSeq(s, 1, n - chunk)]
      /\ UNCHANGED <<call, fmt, ap, state, len, pc, ret>>
  BY DEF ObWrite, Room, Taken_
<1>2. Sunk /\ todo = [puts |-> todo.puts, putc |-> todo.putc]  BY DEF OInv, ToPut
<1>3. todo'.puts = SubSeq(s, 1, n - chunk) /\ todo'.putc = todo.putc
  <2> HIDE DEF s, n, chunk
  <2> QED BY <1>1, <1>2
<1>4. Room = [buf |-> Room.buf, total |-> Room.total, err |-> Room.err]
  BY <1>2, RoomIs
<1> SUFFICES ASSUME NEW t, t = TheText, Fits(t)
             PROVE  /\ Begun(t, ob', out')
                    /\ Owes(t, PutSoFar', todo'.puts, todo'.putc, Remaining)
  BY <1>1, SinkMoves
<1>5. Begun(t, ob, out) /\ Owes(t, D, s, todo.putc, Remaining)
  BY <1>1 DEF FInv, Underway
<1>6. More(t)  BY <1>1, <1>2, <1>5, OwesMore
<1> DEFINE room == OUTBUF_CAP - (D % OUTBUF_CAP)
<1>7. space = room
  <2>1. /\ ~Room.err /\ Len(Room.buf) = D % OUTBUF_CAP
        /\ ob_full(ob) <=> b = OUTBUF_CAP
        /\ b \in 0..OUTBUF_CAP
    BY <1>2, <1>5, <1>6, RoomFor
  <2>2. CASE ob_full(ob)
    <3>1. Room = ob_flush(ob)  BY <2>2 DEF Room
    <3>2. Room.buf = <<>>  BY <1>2, <2>1, <3>1, Flushed
    <3>3. Len(<<>>) = 0  OBVIOUS
    <3>4. D % OUTBUF_CAP = 0  BY <2>1, <3>2, <3>3
    <3> HIDE DEF D
    <3> QED BY <2>2, <3>4, Cap
  <2>3. CASE ~ob_full(ob)
    <3>1. Room = ob  BY <2>3 DEF Room
    <3>2. b = D % OUTBUF_CAP  BY <2>1, <3>1
    <3> HIDE DEF D, b
    <3>3. ~(b > OUTBUF_CAP)  BY <2>1, Cap
    <3> QED BY <2>3, <3>2, <3>3
  <2> QED BY <2>2, <2>3
<1> HIDE DEF space
<1>8. chunk = IF n < room THEN n ELSE room  BY <1>7
<1> HIDE DEF chunk
<1>9. /\ chunk \in 1..n
      /\ Owes(t, D + chunk, SubSeq(s, 1, n - chunk), todo.putc, Remaining)
      /\ \A m \in 1..chunk : Written(t, D + m) = s[m]
  <2> HIDE DEF D, room, s
  <2>1. room = OUTBUF_CAP - (D % OUTBUF_CAP)  BY DEF room
  <2> QED BY ONLY <1>1, <1>5, <1>8, <2>1, OwesWrite
<1>10. s \in Seq(Characters) /\ n \in Nat  BY <1>5 DEF Owes
<1>11. z \in Seq(Characters) /\ Len(z) = chunk /\ \A m \in 1..chunk : z[m] = s[m]
  <2>1. chunk \in 0..n  BY <1>9, <1>10
  <2>2. z \in Seq(Characters) /\ Len(z) = chunk
    <3> HIDE DEF Characters, s
    <3> QED BY ONLY <1>10, <2>1, Cut
  <2>3. \A m \in 1..chunk : z[m] = s[m]
    <3> TAKE m \in 1..chunk
    <3>1. 1 + m - 1 = m  OBVIOUS
    <3> HIDE DEF Characters, s, n
    <3> QED BY <1>10, <2>1, <2>2, <3>1
  <2> QED BY <2>2, <2>3
<1> HIDE DEF z, s
<1>12. ob'.buf = Room.buf \o z /\ ob'.err = Room.err
  <2> DEFINE r == Room
  <2>1. r = [buf |-> r.buf, total |-> r.total, err |-> r.err]
        /\ ob' = [r EXCEPT !.buf = r.buf \o z]
    BY <1>1, <1>4
  <2> HIDE DEF r
  <2>2. ob'.buf = r.buf \o z /\ ob'.err = r.err  BY <2>1
  <2> QED BY <2>2 DEF r
<1>13. Begun(t, ob', out') /\ Len(out') + Len(ob'.buf) = D + chunk
  <2>1. Follow(t, z, chunk)  BY <1>9, <1>11 DEF Follow
  <2>2. Stores(ob', out', z)  BY <1>1, <1>12 DEF Stores
  <2> HIDE DEF Characters
  <2>3. Sunk /\ Begun(t, ob, out) /\ More(t) /\ Fits(t) /\ z \in Seq(Characters)
    BY <1>2, <1>5, <1>6, <1>11
  <2>4. Begun(t, ob', out') /\ Len(out') + Len(ob'.buf) = PutSoFar + chunk
    BY ONLY <2>1, <2>2, <2>3, StoredNext
  <2> QED BY <2>4
<1>14. PutSoFar' = D + chunk  BY <1>13 DEF PutSoFar
<1> QED BY <1>3, <1>9, <1>13, <1>14

LEMMA ReturnFInv ==
  ASSUME OInv, FInv, Return
  PROVE  FInv'
<1> DEFINE t == TheText
           l == Len(t)
           b == Len(ob.buf)
           W == [i \in DOMAIN t |-> Written(t, i)]
<1>1. /\ pc = "format" /\ todo = Nothing /\ fmt = <<>> /\ pc' = "returned"
      /\ ob' = ob_flush(ob) /\ out' = write(ob)
      /\ ret' = IF ob'.err THEN -1 ELSE ob'.total
      /\ UNCHANGED <<call, fmt, ap, state, len, todo>>
  BY DEF Return
<1>2. Sunk /\ Parsed /\ Placed  BY DEF OInv, FInv
<1>3. Placed'  BY <1>1, <1>2 DEF Placed, PosI, Depth
<1>4. /\ call.writable => out' = out \o ob.buf /\ ret' = Len(out')
      /\ ~call.writable => out' = <<>>
  BY ReturnInv
<1>5. Remaining = <<>> /\ todo.puts = <<>> /\ todo.putc = <<>>
  BY <1>1, <1>2, NothingRemains DEF Nothing
<1>6. PICK S : ob.buf \in Seq(S) /\ out \in Seq(S)
  BY <1>2 DEF Sunk
<1>7. ASSUME Fits(t)
      PROVE  /\ t \in Seq(Marks) /\ l = Len(out) + b /\ b \in Nat /\ Len(out) \in Nat /\ ~ob.err
             /\ out \o ob.buf = W
  <2>1. Begun(t, ob, out) /\ Owes(t, PutSoFar, <<>>, <<>>, <<>>)
    BY <1>1, <1>5, <1>7 DEF FInv, Underway
  <2>2. b \in Nat /\ Len(out) \in Nat  BY <1>6
  <2>3. t \in Seq(Marks) /\ l = Len(out) + b
    <3>1. t \in Seq(Marks) /\ l = PutSoFar + Len(<<>>) + Len(<<>>) + Len(<<>>)  BY <2>1 DEF Owes
    <3>2. Len(<<>>) = 0 /\ PutSoFar = Len(out) + b  BY DEF PutSoFar
    <3> HIDE DEF l, b
    <3>3. l = Len(out) + b  BY <2>2, <3>1, <3>2
    <3> QED BY <3>1, <3>3
  <2>4. ~ob.err /\ \A n \in 1..(Len(out) + b) : (out \o ob.buf)[n] = Written(t, n)
    BY <2>1 DEF Begun
  <2> DEFINE x == out \o ob.buf
  <2>5. x \in Seq(S) /\ Len(x) = Len(out) + b  BY <1>6, ConcatProperties
  <2>6. x = W
    <3>1. DOMAIN t = 1..l /\ l \in Nat  BY <2>3
    <3>2. W = [i \in 1..l |-> Written(t, i)]  BY <3>1
    <3>3. Len(x) = l /\ \A n \in 1..l : x[n] = Written(t, n)  BY <2>3, <2>4, <2>5
    <3> HIDE DEF x, W, l, t
    <3>4. x = [i \in 1..Len(x) |-> x[i]]  BY <2>5
    <3> QED BY <3>2, <3>3, <3>4
  <2> QED BY <2>2, <2>3, <2>4, <2>6
<1>8. CASE call.writable
  <2>1. Fits(t)  BY <1>8 DEF Fits
  <2>2. out' = W  BY <1>4, <1>7, <1>8, <2>1
  <2>3. ret' = l
    <3>1. Len(out \o ob.buf) = Len(out) + b  BY <1>6, ConcatProperties
    <3> QED BY <1>4, <1>7, <1>8, <2>1, <3>1
  <2>4. call'.writable /\ Expected(call'.fmt, call'.ap) = t  BY <1>1, <1>8 DEF TheText
  <2> HIDE DEF t
  <2>5. Printed'  BY <2>2, <2>3, <2>4 DEF Printed, Written, W
  <2> QED BY <1>1, <1>3, <2>5 DEF FInv
<1>9. CASE ~call.writable
  <2>1. ~call'.writable /\ Expected(call'.fmt, call'.ap) = t  BY <1>1, <1>9 DEF TheText
  <2>2. out = <<>> /\ out' = <<>> /\ Len(<<>>) = 0  BY <1>2, <1>4, <1>9 DEF Sunk
  <2>3. ASSUME t = <<>> PROVE out' = W /\ ret' = l
    <3>1. Fits(t)  BY <2>2, <2>3, Cap DEF Fits
    <3>2. b = 0 /\ l = 0  BY <1>7, <2>2, <2>3, <3>1
    <3>3. ob.buf = <<>>  BY <1>6, <3>2, EmptySeq
    <3>4. ob' = ob  BY <1>1, <3>3 DEF ob_flush, Flushes
    <3>5. ret' = ob.total /\ ob.total = Len(out)
      <4>1. ~ob.err  BY <1>7, <3>1
      <4> QED BY <1>1, <1>2, <3>4, <4>1 DEF Sunk
    <3>6. out' = W
      <4>1. out \o ob.buf = <<>>  BY <2>2, <3>3
      <4> QED BY <1>7, <2>2, <3>1, <4>1
    <3> QED BY <2>2, <3>2, <3>5, <3>6
  <2>4. ASSUME t # <<>>, l <= OUTBUF_CAP PROVE out' = <<>> /\ ret' = -1
    <3>1. Fits(t)  BY <2>4 DEF Fits
    <3>2. ob.buf # <<>>
      <4>1. l # 0  BY <1>7, <2>4, <3>1, EmptySeq
      <4> QED BY <1>7, <2>2, <3>1, <4>1
    <3>3. Flushes(ob)  BY <1>7, <3>1, <3>2 DEF Flushes
    <3>4. ob' = [ob EXCEPT !.err = TRUE]  BY <1>1, <1>9, <3>3 DEF ob_flush
    <3>5. ob'.err  BY <1>2, <3>4 DEF Sunk
    <3> QED BY <1>1, <2>2, <3>5
  <2> HIDE DEF t
  <2>5. Printed'  BY <2>1, <2>3, <2>4 DEF Printed, Written, W, l
  <2> QED BY <1>1, <1>3, <2>5 DEF FInv
<1> QED BY <1>8, <1>9

LEMMA StepFInv == OInv /\ FInv /\ [Next]_vars /\ OInv' => FInv'
<1> SUFFICES ASSUME OInv, FInv, [Next]_vars, OInv' PROVE FInv'
  OBVIOUS
<1>1. CASE Parse      BY <1>1, ParseFInv
<1>2. CASE ObPutc     BY <1>2, PutcFInv
<1>3. CASE ObWrite    BY <1>3, WriteFInv
<1>4. CASE Return     BY <1>4, ReturnFInv
<1>5. CASE UNCHANGED vars
  <2>1. UNCHANGED <<call, fmt, ap, state, len, pc, ret, todo, ob, out>>  BY <1>5 DEF vars
  <2>2. CASE pc = "format"
    <3>1. Fits(TheText) => /\ Begun(TheText, ob', out')
                          /\ Owes(TheText, PutSoFar', todo'.puts, todo'.putc, Remaining)
      BY <2>1, <2>2 DEF FInv, Underway, PutSoFar
    <3> QED BY <2>1, <2>2, <3>1, SinkMoves
  <2>3. CASE pc # "format"
    <3>1. Placed'  BY <2>1 DEF FInv, Placed, PosI, Depth
    <3>2. Printed'  BY <2>1 DEF FInv, Printed, Written
    <3> QED BY <2>1, <2>3, <3>1, <3>2 DEF FInv
  <2> QED BY <2>2, <2>3
<1> QED BY <1>1, <1>2, <1>3, <1>4, <1>5 DEF Next, vfprintf_fd, Returned

\* What vfprintf_fd writes is the text its format and arguments mean, each
\* character once and in order, whatever the size of the buffer and wherever
\* its ends fall, and it answers the text's length; of a string across the end
\* of a buffer the part behind it is the string's start again, as the code has
\* it.  A descriptor that cannot be written is answered -1 exactly if there is
\* something to write (vfprintf_fd.c:28-256).
THEOREM FormatPrinted == Spec => []Printed
<1>1. Init /\ OInv => FInv
  BY InitFInv
<1>2. OInv /\ FInv /\ [Next]_vars /\ OInv' => FInv'
  BY StepFInv
<1>3. FInv => Printed
  BY DEF FInv
<1> QED BY <1>1, <1>2, <1>3, SinkInvariance, PTL DEF Spec
=============================================================================
