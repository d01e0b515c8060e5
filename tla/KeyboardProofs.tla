--------------------------- MODULE KeyboardProofs ---------------------------
(***************************************************************************)
(* The keyboard's ring is a bounded queue, for every size of the ring,     *)
(* any keys and any number of bytes in flight.                             *)
(*                                                                         *)
(* The argument is about slots: writing one moves the head and adds a last *)
(* waiting character, and never touches the slots that wait; advancing the *)
(* tail removes the first, whose slot keyboard_getchar has read before and *)
(* the handler has left alone since.                                       *)
(*                                                                         *)
(* The modifiers the driver translates with lag behind the keyboard by the *)
(* bytes in flight; that they are the right ones is said by a history of   *)
(* the modifiers along the wire, which the keyboard extends at one end and *)
(* the handler shortens at the other.                                      *)
(***************************************************************************)
EXTENDS Keyboard, SequenceTheorems, FiniteSetTheorems, TLAPS

N == KBD_BUFFER_SIZE

\* Between the emptiness test and the move of the tail a character waits, and
\* once read it is still the one in the slot.
Getting ==
    /\ pc \in {"read", "advance"} => kbd_head # kbd_tail
    /\ pc = "advance" => c = kbd_buf[kbd_tail]

IInv == TypeOK /\ Getting

\* The number of characters waiting, and the slot of the i-th.
Count(h, t) == (h - t) % N
SlotOf(t, i) == (t + i - 1) % N

-----------------------------------------------------------------------------
LEMMA NType == N \in Nat /\ N >= 2
  BY KeyboardAssumption DEF N

LEMMA ModN ==
  ASSUME NEW x \in Int, -N <= x, x < 2 * N
  PROVE  /\ x < 0 => x % N = x + N
         /\ 0 <= x /\ x < N => x % N = x
         /\ N <= x => x % N = x - N
<1> USE NType
<1>1. ASSUME NEW y \in 0..(N - 1) PROVE y % N = y /\ (y + N) % N = y /\ (y - N) % N = y
  OBVIOUS
<1>2. x < 0 => x + N \in 0..(N - 1) /\ x = (x + N) - N  OBVIOUS
<1>3. N <= x => x - N \in 0..(N - 1) /\ x = (x - N) + N  OBVIOUS
<1> QED BY <1>1, <1>2, <1>3

LEMMA CountIs ==
  ASSUME NEW h \in Slot, NEW t \in Slot
  PROVE  /\ Count(h, t) \in 0..(N - 1)
         /\ t <= h => Count(h, t) = h - t
         /\ h < t => Count(h, t) = h - t + N
         /\ Count(h, t) = 0 <=> h = t
<1>1. h - t \in Int /\ -N <= h - t /\ h - t < N /\ h \in Int /\ t \in Int
      /\ h >= 0 /\ t >= 0 /\ h < N /\ t < N
  BY NType DEF Slot, N
<1>2. (h - t < 0 => (h - t) % N = h - t + N) /\ (0 <= h - t => (h - t) % N = h - t)
  BY <1>1, NType, ModN
<1> QED BY <1>1, <1>2, NType DEF Count

LEMMA SlotOfIs ==
  ASSUME NEW t \in Slot, NEW i \in 1..N
  PROVE  /\ SlotOf(t, i) \in Slot
         /\ t + i - 1 < N => SlotOf(t, i) = t + i - 1
         /\ N <= t + i - 1 => SlotOf(t, i) = t + i - 1 - N
<1>1. t + i - 1 \in Int /\ 0 <= t + i - 1 /\ t + i - 1 < 2 * N /\ t \in Int /\ i \in Int
  BY NType DEF Slot, N
<1>2. /\ t + i - 1 < N => (t + i - 1) % N = t + i - 1
      /\ N <= t + i - 1 => (t + i - 1) % N = t + i - 1 - N
  BY <1>1, NType, ModN
<1> QED BY <1>1, <1>2, NType DEF SlotOf, Slot, N

LEMMA AfterIs ==
  ASSUME NEW h \in Slot
  PROVE  after(h) \in Slot /\ after(h) = IF h = N - 1 THEN 0 ELSE h + 1
<1>1. h \in Int /\ 0 <= h /\ h < N  BY NType DEF Slot, N
<1>2. /\ h + 1 < N => (h + 1) % N = h + 1
      /\ N <= h + 1 => (h + 1) % N = h + 1 - N
  BY <1>1, NType, ModN
<1> QED BY <1>1, <1>2, NType DEF after, Slot, N

\* Writing at h: one more waits, in a slot that none of the others has.
LEMMA PutSlots ==
  ASSUME NEW h \in Slot, NEW t \in Slot, after(h) # t
  PROVE  /\ Count(after(h), t) = Count(h, t) + 1
         /\ Count(h, t) < N - 1
         /\ SlotOf(t, Count(h, t) + 1) = h
         /\ \A i \in 1..Count(h, t) : SlotOf(t, i) # h
<1>1. h \in Int /\ 0 <= h /\ h < N /\ t \in Int /\ 0 <= t /\ t < N  BY NType DEF Slot, N
<1>2. after(h) \in Slot /\ after(h) = IF h = N - 1 THEN 0 ELSE h + 1  BY AfterIs
<1>3. /\ t <= h => Count(h, t) = h - t
      /\ h < t => Count(h, t) = h - t + N
      /\ Count(h, t) \in 0..(N - 1)
  BY CountIs
<1>4. /\ t <= after(h) => Count(after(h), t) = after(h) - t
      /\ after(h) < t => Count(after(h), t) = after(h) - t + N
  BY <1>2, CountIs
<1>5. Count(after(h), t) = Count(h, t) + 1 /\ Count(h, t) < N - 1
  BY <1>1, <1>2, <1>3, <1>4, NType
<1>6. \A i \in 1..N : /\ t + i - 1 < N => SlotOf(t, i) = t + i - 1
                      /\ N <= t + i - 1 => SlotOf(t, i) = t + i - 1 - N
  BY SlotOfIs
<1>7. Count(h, t) + 1 \in 1..N  BY <1>3, <1>5, NType
<1>8. SlotOf(t, Count(h, t) + 1) = h  BY <1>1, <1>3, <1>6, <1>7, NType
<1>9. ASSUME NEW i \in 1..Count(h, t) PROVE SlotOf(t, i) # h
  <2>1. i \in 1..N  BY <1>3, <1>5, NType
  <2> QED BY <1>1, <1>3, <1>6, <2>1, NType
<1> QED BY <1>5, <1>8, <1>9

\* Moving the tail: the first is gone, the others move up by one.
LEMMA GetSlots ==
  ASSUME NEW h \in Slot, NEW t \in Slot, h # t
  PROVE  /\ Count(h, after(t)) = Count(h, t) - 1
         /\ SlotOf(t, 1) = t
         /\ \A i \in 1..(Count(h, t) - 1) : SlotOf(after(t), i) = SlotOf(t, i + 1)
<1>1. h \in Int /\ 0 <= h /\ h < N /\ t \in Int /\ 0 <= t /\ t < N  BY NType DEF Slot, N
<1>2. after(t) \in Slot /\ after(t) = IF t = N - 1 THEN 0 ELSE t + 1  BY AfterIs
<1>3. /\ t <= h => Count(h, t) = h - t
      /\ h < t => Count(h, t) = h - t + N
      /\ Count(h, t) \in 0..(N - 1)
  BY CountIs
<1>4. /\ after(t) <= h => Count(h, after(t)) = h - after(t)
      /\ h < after(t) => Count(h, after(t)) = h - after(t) + N
  BY <1>2, CountIs
<1>5. Count(h, after(t)) = Count(h, t) - 1
  BY <1>1, <1>2, <1>3, <1>4, NType
<1>6. \A i \in 1..N : /\ t + i - 1 < N => SlotOf(t, i) = t + i - 1
                      /\ N <= t + i - 1 => SlotOf(t, i) = t + i - 1 - N
  BY SlotOfIs
<1>7. \A i \in 1..N : /\ after(t) + i - 1 < N => SlotOf(after(t), i) = after(t) + i - 1
                      /\ N <= after(t) + i - 1 => SlotOf(after(t), i) = after(t) + i - 1 - N
  BY <1>2, SlotOfIs
<1>8. SlotOf(t, 1) = t  BY <1>1, <1>6, NType
<1>9. ASSUME NEW i \in 1..(Count(h, t) - 1) PROVE SlotOf(after(t), i) = SlotOf(t, i + 1)
  <2>1. i \in 1..N /\ i + 1 \in 1..N /\ i <= N - 2  BY <1>3, NType
  <2> QED BY <1>1, <1>2, <1>6, <1>7, <2>1, NType
<1> QED BY <1>5, <1>8, <1>9

-----------------------------------------------------------------------------
LEMMA InitInv == Init => IInv
<1> SUFFICES ASSUME Init PROVE IInv  OBVIOUS
<1>1. 0 \in Slot  BY NType DEF Slot, N
<1>2. wire \in Seq(Byte) /\ Len(wire) <= MaxWire  BY KeyboardAssumption DEF Init
<1> QED BY <1>1, <1>2 DEF Init, IInv, TypeOK, Getting

LEMMA SendType ==
  ASSUME TypeOK, NEW bytes \in Seq(Byte), Send(bytes)
  PROVE  wire' \in Seq(Byte) /\ Len(wire') <= MaxWire
<1>1. wire \in Seq(Byte) /\ MaxWire \in Nat  BY KeyboardAssumption DEF TypeOK
<1> QED BY <1>1 DEF Send

LEMMA KeyboardInv == ASSUME IInv, Keyboard PROVE IInv'
<1> USE DEF IInv
<1>1. ASSUME NEW bytes \in Seq(Byte), Send(bytes),
             held' \subseteq Shifts, caps' \in BOOLEAN
      PROVE  IInv'
  BY <1>1, SendType DEF Send, TypeOK, Getting, modVars, ringVars, mainVars
<1>2. \A k \in Keys \cup Shifts \cup NavKeys \cup {"Caps", "E0"}, b \in BOOLEAN :
        Code(k, b) \in Byte /\ <<Code(k, b)>> \in Seq(Byte)
  BY DEF Code, Byte
<1>3. \A k \in Shifts \cup NavKeys, b \in BOOLEAN : Ext(k, b) \in Seq(Byte)
  <2> SUFFICES ASSUME NEW k \in Shifts \cup NavKeys, NEW b \in BOOLEAN
               PROVE  Ext(k, b) \in Seq(Byte)
    OBVIOUS
  <2>1. Code("E0", FALSE) \in Byte  BY <1>2
  <2>2. [Code(k, b) EXCEPT !.ext = TRUE] \in Byte  BY DEF Code, Byte
  <2>3. ASSUME NEW x \in Byte, NEW y \in Byte PROVE <<x, y>> \in Seq(Byte)  BY <2>3
  <2>4. <<Code("E0", FALSE), [Code(k, b) EXCEPT !.ext = TRUE]>> \in Seq(Byte)
    BY <2>1, <2>2, <2>3
  <2> QED BY <2>4 DEF Ext
<1>4. held \subseteq Shifts /\ caps \in BOOLEAN  BY DEF TypeOK
<1>5. ASSUME NEW k \in Keys, PressKey(k) PROVE IInv'
  <2>1. [Code(k, FALSE) EXCEPT !.held = held, !.caps = caps] \in Byte
    BY <1>4 DEF Code, Byte
  <2>2. <<[Code(k, FALSE) EXCEPT !.held = held, !.caps = caps]>> \in Seq(Byte)  BY <2>1
  <2> QED BY <1>1, <1>4, <1>5, <2>2 DEF PressKey
<1>6. ASSUME NEW k \in Keys, ReleaseKey(k) PROVE IInv'
  BY <1>1, <1>2, <1>4, <1>6 DEF ReleaseKey
<1>7. ASSUME NEW s \in Shifts, PressShift(s) \/ ReleaseShift(s) PROVE IInv'
  BY <1>1, <1>2, <1>4, <1>7 DEF PressShift, ReleaseShift
<1>8. CASE PressCaps  BY <1>1, <1>2, <1>4, <1>8 DEF PressCaps
<1>9. ASSUME NEW n \in NavKeys, NEW b \in BOOLEAN, NavKey(n, b) PROVE IInv'
  BY <1>1, <1>3, <1>4, <1>9 DEF NavKey
<1>10. ASSUME NEW s \in Shifts, NEW b \in BOOLEAN, FakeShift(s, b) PROVE IInv'
  BY <1>1, <1>3, <1>4, <1>10 DEF FakeShift
<1> QED BY <1>5, <1>6, <1>7, <1>8, <1>9, <1>10 DEF Keyboard

LEMMA TranslateType == ASSUME TypeOK, NEW k \in Keys PROVE kbd_translate(k) \in Char
  BY DEF kbd_translate, Char, TypeOK

\* What kbd_put does to the ring, and that it leaves the slot being read alone.
LEMMA PutInv ==
  ASSUME IInv, NEW ch \in Char, kbd_put(ch)
  PROVE  /\ kbd_buf' \in [Slot -> Char \cup {None}] /\ kbd_head' \in Slot
         /\ kbd_tail' = kbd_tail
         /\ kbd_head # kbd_tail => kbd_head' # kbd_tail /\ kbd_buf'[kbd_tail] = kbd_buf[kbd_tail]
<1>1. kbd_head \in Slot /\ kbd_tail \in Slot /\ kbd_buf \in [Slot -> Char \cup {None}]
  BY DEF IInv, TypeOK
<1>2. after(kbd_head) \in Slot  BY <1>1, AfterIs
<1> QED BY <1>1, <1>2 DEF kbd_put, kbd_full, ringVars

LEMMA HandlerInv == ASSUME IInv, keyboard_handler PROVE IInv'
<1>1. wire \in Seq(Byte) /\ wire # <<>> /\ Len(wire) <= MaxWire /\ MaxWire \in Nat
  BY KeyboardAssumption DEF IInv, TypeOK, keyboard_handler
<1>2. wire' \in Seq(Byte) /\ Len(wire') <= MaxWire /\ Head(wire) \in Byte
  BY <1>1 DEF keyboard_handler
<1> DEFINE b == Head(wire)
<1>3. CASE Prefix(b) \/ Extended(b) \/ Release(b)
  BY <1>2, <1>3 DEF keyboard_handler, Prefix, Extended, Release, IInv, TypeOK, Getting,
                    ringVars, mainVars
<1>4. CASE Press(b)
  <2>1. {shift_pressed', capslock_enabled', ext_prefix'} \subseteq BOOLEAN
    BY <1>4 DEF Press, IInv, TypeOK
  <2>2. CASE b.key \in Keys
    <3>1. kbd_put(kbd_translate(b.key)) /\ kbd_translate(b.key) \in Char
      BY <1>4, <2>2, TranslateType DEF Press, IInv
    <3>2. /\ kbd_buf' \in [Slot -> Char \cup {None}] /\ kbd_head' \in Slot
          /\ kbd_tail' = kbd_tail
          /\ kbd_head # kbd_tail => kbd_head' # kbd_tail /\ kbd_buf'[kbd_tail] = kbd_buf[kbd_tail]
      BY <3>1, PutInv
    <3> QED BY <1>2, <2>1, <3>2 DEF keyboard_handler, IInv, TypeOK, Getting, mainVars
  <2>3. CASE b.key \notin Keys
    BY <1>2, <1>4, <2>1, <2>3 DEF Press, keyboard_handler, IInv, TypeOK, Getting,
                                  ringVars, mainVars
  <2> QED BY <2>2, <2>3
<1> QED BY <1>3, <1>4 DEF keyboard_handler

LEMMA GetcharInv == ASSUME IInv, Getchar PROVE IInv'
<1> USE DEF IInv, TypeOK, Getting, devVars, modVars, ringVars
<1>1. CASE GetEmpty  BY <1>1 DEF GetEmpty
<1>2. CASE GetSome  BY <1>2 DEF GetSome, kbd_empty
<1>3. CASE GetRead  BY <1>3 DEF GetRead
<1>4. CASE GetAdvance
  <2>1. after(kbd_tail) \in Slot  BY AfterIs
  <2> QED BY <1>4, <2>1 DEF GetAdvance
<1> QED BY <1>1, <1>2, <1>3, <1>4 DEF Getchar

LEMMA Invariance == Spec => []IInv
<1>1. IInv /\ [Next]_vars => IInv'
  <2> SUFFICES ASSUME IInv, [Next]_vars PROVE IInv'  OBVIOUS
  <2>1. CASE UNCHANGED vars
    BY <2>1 DEF vars, devVars, modVars, ringVars, mainVars, IInv, TypeOK, Getting
  <2> QED BY <2>1, KeyboardInv, HandlerInv, GetcharInv DEF Next
<1> QED BY InitInv, <1>1, PTL DEF Spec

-----------------------------------------------------------------------------
\* The waiting characters as a sequence.
Wait(buf, h, t) == [i \in 1..Count(h, t) |-> buf[SlotOf(t, i)]]

LEMMA WaitIs ==
  ASSUME NEW buf \in [Slot -> Char \cup {None}], NEW h \in Slot, NEW t \in Slot
  PROVE  /\ Wait(buf, h, t) \in Seq(Char \cup {None})
         /\ Len(Wait(buf, h, t)) = Count(h, t)
         /\ \A i \in 1..Count(h, t) : Wait(buf, h, t)[i] = buf[SlotOf(t, i)]
<1> DEFINE n == Count(h, t)
           w == [i \in 1..n |-> buf[SlotOf(t, i)]]
<1>1. n \in 0..(N - 1) /\ n \in Nat  BY CountIs, NType
<1>2. ASSUME NEW i \in 1..n PROVE buf[SlotOf(t, i)] \in Char \cup {None}
  <2>1. i \in 1..N  BY <1>1, NType
  <2>2. SlotOf(t, i) \in Slot  BY <2>1, SlotOfIs
  <2> QED BY <2>2
<1>3. n \in Nat  BY <1>1
<1> HIDE DEF n
<1>4. w \in Seq(Char \cup {None}) /\ Len(w) = n  BY <1>2, <1>3
<1>5. \A i \in 1..n : w[i] = buf[SlotOf(t, i)]  OBVIOUS
<1>6. Wait(buf, h, t) = w  BY DEF Wait, n
<1> QED BY <1>4, <1>5, <1>6 DEF n

LEMMA WaitingIs ==
  /\ Waiting = Wait(kbd_buf, kbd_head, kbd_tail)
  /\ Waiting' = Wait(kbd_buf', kbd_head', kbd_tail')
  BY DEF Waiting, Wait, Count, SlotOf, N

LEMMA AppendIs ==
  ASSUME NEW S, NEW s \in Seq(S), NEW t \in Seq(S), Len(t) = Len(s) + 1,
         \A i \in 1..Len(s) : t[i] = s[i]
  PROVE  t = Append(s, t[Len(s) + 1])
<1>1. t[Len(s) + 1] \in S  BY LenProperties, ElementOfSeq
<1> DEFINE x == t[Len(s) + 1]
           u == Append(s, x)
<1>2. u \in Seq(S) /\ Len(u) = Len(s) + 1 /\ \A i \in 1..Len(s) : u[i] = s[i]
  BY <1>1, AppendProperties
<1>3. u[Len(s) + 1] = x  BY <1>1, AppendProperties
<1>4. ASSUME NEW i \in 1..Len(t) PROVE t[i] = u[i]
  BY <1>2, <1>3, LenProperties
<1> QED BY <1>2, <1>4, SeqEqual

LEMMA TailIs ==
  ASSUME NEW S, NEW s \in Seq(S), NEW t \in Seq(S), Len(s) = Len(t) + 1,
         \A i \in 1..Len(t) : t[i] = s[i + 1]
  PROVE  s # <<>> /\ t = Tail(s) /\ Head(s) = s[1]
<1>1. s # <<>>  BY LenProperties, EmptySeq
<1>2. Tail(s) \in Seq(S) /\ Len(Tail(s)) = Len(t)
      /\ \A i \in 1..Len(t) : Tail(s)[i] = s[i + 1]
  BY <1>1, HeadTailProperties, LenProperties
<1>3. t = Tail(s)  BY <1>2, SeqEqual
<1> QED BY <1>1, <1>3

-----------------------------------------------------------------------------
\* One step of the driver, seen by the queue.
LEMMA PutQueue ==
  ASSUME IInv, IInv', NEW ch \in Char, kbd_put(ch), UNCHANGED out
  PROVE  Queue!Put(ch) \/ UNCHANGED <<Waiting, out>>
<1> DEFINE n == Count(kbd_head, kbd_tail)
<1>0. /\ kbd_head \in Slot /\ kbd_tail \in Slot /\ kbd_buf \in [Slot -> Char \cup {None}]
      /\ kbd_head' \in Slot /\ kbd_tail' \in Slot /\ kbd_buf' \in [Slot -> Char \cup {None}]
  BY DEF IInv, TypeOK
<1>1. CASE kbd_full  BY <1>1 DEF kbd_put, ringVars, Waiting
<1>2. CASE ~kbd_full
  <2>1. /\ kbd_buf' = [kbd_buf EXCEPT ![kbd_head] = ch]
        /\ kbd_head' = after(kbd_head) /\ kbd_tail' = kbd_tail
    BY <1>2 DEF kbd_put
  <2>2. /\ Count(after(kbd_head), kbd_tail) = n + 1 /\ n < N - 1
        /\ SlotOf(kbd_tail, n + 1) = kbd_head
        /\ \A i \in 1..n : SlotOf(kbd_tail, i) # kbd_head
    BY <1>0, <1>2, PutSlots DEF kbd_full
  <2>3. n \in Nat /\ n < N - 1  BY <1>0, <2>2, CountIs, NType
  <2>4. /\ Waiting \in Seq(Char \cup {None}) /\ Len(Waiting) = n
        /\ \A i \in 1..n : Waiting[i] = kbd_buf[SlotOf(kbd_tail, i)]
    BY <1>0, WaitIs, WaitingIs
  <2>5. /\ Waiting' \in Seq(Char \cup {None}) /\ Len(Waiting') = n + 1
        /\ \A i \in 1..(n + 1) : Waiting'[i] = kbd_buf'[SlotOf(kbd_tail, i)]
    <3>1. Count(kbd_head', kbd_tail') = n + 1  BY <2>1, <2>2
    <3>2. Waiting' = Wait(kbd_buf', kbd_head', kbd_tail')  BY WaitingIs
    <3> HIDE DEF n
    <3>3. /\ Waiting' \in Seq(Char \cup {None}) /\ Len(Waiting') = Count(kbd_head', kbd_tail')
          /\ \A i \in 1..Count(kbd_head', kbd_tail') : Waiting'[i] = kbd_buf'[SlotOf(kbd_tail', i)]
      BY <1>0, <3>2, WaitIs
    <3> QED BY <2>1, <3>1, <3>3
  <2>6. kbd_buf'[kbd_head] = ch /\ \A j \in Slot : j # kbd_head => kbd_buf'[j] = kbd_buf[j]
    BY <1>0, <2>1
  <2>7. \A i \in 1..n : SlotOf(kbd_tail, i) \in Slot
    <3>1. \A i \in 1..n : i \in 1..N  BY <2>3, NType
    <3> QED BY <1>0, <3>1, SlotOfIs
  <2> HIDE DEF n
  <2>8. Waiting'[n + 1] = ch  BY <2>2, <2>3, <2>5, <2>6
  <2>9. \A i \in 1..n : Waiting'[i] = Waiting[i]
    <3>1. \A i \in 1..n : i \in 1..(n + 1)  BY <2>3
    <3> QED BY <2>2, <2>4, <2>5, <2>6, <2>7, <3>1
  <2>10. Waiting' = Append(Waiting, ch)
    <3>1. Len(Waiting') = Len(Waiting) + 1 /\ \A i \in 1..Len(Waiting) : Waiting'[i] = Waiting[i]
      BY <2>4, <2>5, <2>9
    <3>2. Waiting' = Append(Waiting, Waiting'[Len(Waiting) + 1])
      BY <2>4, <2>5, <3>1, AppendIs
    <3> QED BY <2>4, <2>8, <3>2
  <2>11. Len(Waiting) < KBD_BUFFER_SIZE - 1  BY <2>3, <2>4 DEF N
  <2> QED BY <2>10, <2>11 DEF Queue!Put
<1> QED BY <1>1, <1>2

LEMMA GetQueue ==
  ASSUME IInv, IInv', GetAdvance
  PROVE  Queue!Get
<1> DEFINE n == Count(kbd_head, kbd_tail)
<1>0. /\ kbd_head \in Slot /\ kbd_tail \in Slot /\ kbd_head # kbd_tail
      /\ kbd_buf \in [Slot -> Char \cup {None}] /\ kbd_tail' \in Slot
  BY DEF IInv, TypeOK, Getting, GetAdvance
<1>1. /\ kbd_tail' = after(kbd_tail) /\ kbd_head' = kbd_head /\ kbd_buf' = kbd_buf
      /\ out' = kbd_buf[kbd_tail]
  BY DEF GetAdvance, IInv, Getting
<1>2. /\ Count(kbd_head, kbd_tail') = n - 1
      /\ SlotOf(kbd_tail, 1) = kbd_tail
      /\ \A i \in 1..(n - 1) : SlotOf(kbd_tail', i) = SlotOf(kbd_tail, i + 1)
  BY <1>0, <1>1, GetSlots
<1>3. n \in Nat /\ n # 0  BY <1>0, CountIs, NType
<1>4. /\ Waiting \in Seq(Char \cup {None}) /\ Len(Waiting) = n
      /\ \A i \in 1..n : Waiting[i] = kbd_buf[SlotOf(kbd_tail, i)]
  BY <1>0, WaitIs, WaitingIs
<1>5. /\ Waiting' \in Seq(Char \cup {None}) /\ Len(Waiting') = n - 1
      /\ \A i \in 1..(n - 1) : Waiting'[i] = kbd_buf[SlotOf(kbd_tail', i)]
  <2>1. Waiting' = Wait(kbd_buf, kbd_head, kbd_tail')  BY <1>1, WaitingIs
  <2> HIDE DEF n
  <2>2. /\ Waiting' \in Seq(Char \cup {None}) /\ Len(Waiting') = Count(kbd_head, kbd_tail')
        /\ \A i \in 1..Count(kbd_head, kbd_tail') : Waiting'[i] = kbd_buf[SlotOf(kbd_tail', i)]
    BY <1>0, <2>1, WaitIs
  <2> QED BY <1>2, <2>2
<1> HIDE DEF n
<1>6. Waiting[1] = out'  BY <1>1, <1>2, <1>3, <1>4
<1>7. \A i \in 1..(n - 1) : Waiting'[i] = Waiting[i + 1]
  <2>1. \A i \in 1..(n - 1) : i + 1 \in 1..n  BY <1>3
  <2> QED BY <1>2, <1>4, <1>5, <2>1
<1>8. Waiting # <<>> /\ Waiting' = Tail(Waiting) /\ Head(Waiting) = Waiting[1]
  <2>1. Len(Waiting) = Len(Waiting') + 1 /\ \A i \in 1..Len(Waiting') : Waiting'[i] = Waiting[i + 1]
    BY <1>3, <1>4, <1>5, <1>7
  <2> QED BY <1>4, <1>5, <2>1, TailIs
<1> QED BY <1>6, <1>8 DEF Queue!Get

LEMMA EmptyQueue == ASSUME IInv, GetEmpty PROVE Queue!GetNothing
<1>1. kbd_head \in Slot /\ kbd_head = kbd_tail  BY DEF IInv, TypeOK, GetEmpty, kbd_empty
<1>2. Count(kbd_head, kbd_tail) = 0  BY <1>1, CountIs
<1>3. Waiting \in Seq(Char \cup {None}) /\ Len(Waiting) = 0  BY <1>1, <1>2, WaitIs, WaitingIs DEF IInv, TypeOK
<1>4. Waiting = <<>>  BY <1>3
<1>5. UNCHANGED Waiting  BY DEF GetEmpty, ringVars, Waiting
<1> QED BY <1>4, <1>5 DEF Queue!GetNothing, GetEmpty

\* The ring is a bounded first-in first-out queue: every step of the handler
\* and of keyboard_getchar, wherever one interrupts the other, is a step of
\* BoundedQueue or leaves the queue alone.
THEOREM Refinement == Spec => ImplementsQueue
<1>1. Init => Queue!Init
  <2> SUFFICES ASSUME Init PROVE Queue!Init  OBVIOUS
  <2>1. IInv /\ kbd_head = kbd_tail /\ kbd_head \in Slot
    BY InitInv DEF Init, IInv, TypeOK
  <2>2. Count(kbd_head, kbd_tail) = 0  BY <2>1, CountIs
  <2>3. Waiting \in Seq(Char \cup {None}) /\ Len(Waiting) = 0  BY <2>1, <2>2, WaitIs, WaitingIs DEF IInv, TypeOK
  <2>4. Waiting = <<>>  BY <2>3
  <2> QED BY <2>4 DEF Init, Queue!Init
<1>2. IInv /\ IInv' /\ [Next]_vars => [Queue!Next]_<<Waiting, out>>
  <2> SUFFICES ASSUME IInv, IInv', [Next]_vars
               PROVE  Queue!Next \/ UNCHANGED <<Waiting, out>>
    OBVIOUS
  <2>1. CASE Keyboard
    BY <2>1 DEF Keyboard, PressKey, ReleaseKey, PressShift, ReleaseShift, PressCaps, NavKey,
                FakeShift, Send, ringVars, mainVars, Waiting
  <2>2. CASE keyboard_handler
    <3> DEFINE b == Head(wire)
    <3>1. UNCHANGED out  BY <2>2 DEF keyboard_handler, mainVars
    <3>2. CASE Prefix(b) \/ Extended(b) \/ Release(b)
      BY <3>1, <3>2 DEF Prefix, Extended, Release, ringVars, Waiting
    <3>3. CASE Press(b) /\ b.key \in Keys
      <4>1. kbd_put(kbd_translate(b.key)) /\ kbd_translate(b.key) \in Char
        BY <3>3, TranslateType DEF Press, IInv
      <4>2. Queue!Put(kbd_translate(b.key)) \/ UNCHANGED <<Waiting, out>>
        BY <3>1, <4>1, PutQueue
      <4> QED BY <4>1, <4>2 DEF Queue!Next
    <3>4. CASE Press(b) /\ b.key \notin Keys
      BY <3>1, <3>4 DEF Press, ringVars, Waiting
    <3> QED BY <2>2, <3>2, <3>3, <3>4 DEF keyboard_handler
  <2>3. CASE GetEmpty  BY <2>3, EmptyQueue DEF Queue!Next
  <2>4. CASE GetSome \/ GetRead  BY <2>4 DEF GetSome, GetRead, ringVars, Waiting
  <2>5. CASE GetAdvance  BY <2>5, GetQueue DEF Queue!Next
  <2>6. CASE UNCHANGED vars
    BY <2>6 DEF vars, ringVars, mainVars, Waiting
  <2> QED BY <2>1, <2>2, <2>3, <2>4, <2>5, <2>6 DEF Next, Getchar
<1> QED BY Invariance, <1>1, <1>2, PTL DEF Spec, ImplementsQueue, Queue!Spec

\* The types of the driver and of the bytes in flight.
THEOREM TypeCorrect == Spec => []TypeOK
  BY Invariance, PTL DEF IInv

-----------------------------------------------------------------------------
(***************************************************************************)
(* The modifiers along the wire.  A history h says, for each byte in       *)
(* flight and for the end, what the keyboard's and the driver's modifiers  *)
(* are when all bytes before it have been read: it begins with the         *)
(* driver's variables and ends with the keyboard's.                        *)
(***************************************************************************)
Mods == [held : SUBSET Shifts, shift : BOOLEAN, caps : BOOLEAN, ext : BOOLEAN]

Step(m, b) ==
    [held  |-> IF m.ext \/ b.key \notin Shifts THEN m.held
               ELSE IF b.brk THEN m.held \ {b.key} ELSE m.held \cup {b.key},
     shift |-> IF m.ext THEN m.shift
               ELSE IF b.brk THEN m.shift /\ b.key \notin Shifts
               ELSE m.shift \/ b.key \in Shifts,
     caps  |-> IF m.ext \/ b.brk THEN m.caps ELSE m.caps # (b.key = "Caps"),
     ext   |-> b.key = "E0"]

\* A byte follows an E0 only as the second of a pair, and a key's make code
\* tells the modifiers.
Fits(m, b) ==
    /\ m.ext => b.key \in Shifts \cup NavKeys
    /\ b.key = "E0" => ~b.brk
    /\ b.key \in Keys /\ ~b.brk => b.held = m.held /\ b.caps = m.caps

\* The driver's single flag for two shift keys.
Believes(m) ==
    /\ m.held = {} => ~m.shift
    /\ Cardinality(m.held) = 2 => m.shift

Along(h, w) ==
    /\ \A i \in 1..(Len(w) + 1) : Believes(h[i])
    /\ \A i \in 1..Len(w) : Fits(h[i], w[i]) /\ h[i + 1] = Step(h[i], w[i])

keyVars == <<held, caps>>
Begins(m, mods) == <<m.shift, m.caps, m.ext>> = mods
Ends(m, keys)   == <<m.held, m.caps>> = keys /\ m.ext = FALSE

History ==
    \E h \in [1..(Len(wire) + 1) -> Mods] :
      Along(h, wire) /\ Begins(h[1], modVars) /\ Ends(h[Len(wire) + 1], keyVars)

LEMMA KeySets ==
  /\ \A k \in Keys : k \notin Shifts /\ k \notin NavKeys /\ k # "Caps" /\ k # "E0"
  /\ \A k \in Shifts \cup NavKeys : k # "Caps" /\ k # "E0" /\ k \notin Keys
  /\ "E0" \notin Shifts /\ "Caps" \notin Shifts /\ "E0" \notin Keys
BY KeyboardAssumption DEF Keys

LEMMA StepType ==
  ASSUME NEW m \in Mods, NEW b \in Byte
  PROVE  Step(m, b) \in Mods
<1>1. b.brk \in BOOLEAN  BY DEF Byte
<1>2. (IF m.ext \/ b.key \notin Shifts THEN m.held
       ELSE IF b.brk THEN m.held \ {b.key} ELSE m.held \cup {b.key}) \in SUBSET Shifts
  BY DEF Mods
<1>3. (IF m.ext THEN m.shift
       ELSE IF b.brk THEN m.shift /\ b.key \notin Shifts
       ELSE m.shift \/ b.key \in Shifts) \in BOOLEAN
  BY DEF Mods
<1>4. (IF m.ext \/ b.brk THEN m.caps ELSE m.caps # (b.key = "Caps")) \in BOOLEAN
  BY DEF Mods
<1> QED BY <1>2, <1>3, <1>4 DEF Step, Mods

\* Without one shift key no more than one is left.
LEMMA OneShift ==
  ASSUME NEW k \in Shifts, NEW H \in SUBSET Shifts
  PROVE  Cardinality(H \ {k}) # 2
<1>1. IsFiniteSet(Shifts) /\ Cardinality(Shifts) <= 2  BY KeyboardAssumption
<1>2. /\ IsFiniteSet(Shifts \ {k}) /\ Cardinality(Shifts \ {k}) = Cardinality(Shifts) - 1
      /\ Cardinality(Shifts) \in Nat
  BY <1>1, FS_RemoveElement, FS_CardinalityType
<1>3. H \ {k} \in SUBSET (Shifts \ {k})  OBVIOUS
<1>4. Cardinality(H \ {k}) <= Cardinality(Shifts \ {k}) /\ Cardinality(H \ {k}) \in Nat
  BY <1>2, <1>3, FS_Subset, FS_CardinalityType
<1> QED BY <1>1, <1>2, <1>4

LEMMA StepBelieves ==
  ASSUME NEW m \in Mods, NEW b \in Byte, Believes(m)
  PROVE  Believes(Step(m, b))
<1>1. m.held \in SUBSET Shifts  BY DEF Mods
<1>2. CASE m.ext \/ b.key \notin Shifts
  BY <1>2 DEF Step, Believes
<1>3. CASE ~m.ext /\ b.key \in Shifts /\ b.brk
  <2>1. Step(m, b).held = m.held \ {b.key} /\ ~Step(m, b).shift  BY <1>3 DEF Step
  <2>2. Cardinality(m.held \ {b.key}) # 2  BY <1>1, <1>3, OneShift
  <2> QED BY <2>1, <2>2 DEF Believes
<1>4. CASE ~m.ext /\ b.key \in Shifts /\ ~b.brk
  <2>1. Step(m, b).held = m.held \cup {b.key} /\ Step(m, b).shift  BY <1>4 DEF Step
  <2> QED BY <2>1 DEF Believes
<1> QED BY <1>2, <1>3, <1>4

LEMMA AlongAppend ==
  ASSUME NEW w \in Seq(Byte), NEW h \in [1..(Len(w) + 1) -> Mods], Along(h, w),
         NEW b \in Byte, Fits(h[Len(w) + 1], b)
  PROVE  \E g \in [1..(Len(w) + 2) -> Mods] :
           /\ Along(g, Append(w, b)) /\ g[1] = h[1]
           /\ g[Len(w) + 2] = Step(h[Len(w) + 1], b)
<1> DEFINE n == Len(w)
           v == Append(w, b)
           g == [i \in 1..(n + 2) |-> IF i <= n + 1 THEN h[i] ELSE Step(h[n + 1], b)]
<1>1. n \in Nat /\ v \in Seq(Byte) /\ Len(v) = n + 1 /\ v[n + 1] = b
      /\ \A i \in 1..n : v[i] = w[i]
  OBVIOUS
<1>2. h[n + 1] \in Mods /\ \A i \in 1..(n + 1) : h[i] \in Mods  BY <1>1
<1>3. Step(h[n + 1], b) \in Mods  BY <1>2, StepType
<1>4. g \in [1..(n + 2) -> Mods]  BY <1>2, <1>3
<1>5. /\ \A i \in 1..(n + 1) : g[i] = h[i]
      /\ g[n + 2] = Step(h[n + 1], b)
  BY <1>1
<1> HIDE DEF g, v, n
<1>6. ASSUME NEW i \in 1..(Len(v) + 1) PROVE Believes(g[i])
  <2>1. CASE i \in 1..(n + 1)  BY <1>5, <2>1 DEF Along, n
  <2>2. CASE i = n + 2
    <3>1. Believes(h[n + 1])  BY <1>1 DEF Along, n
    <3> QED BY <1>2, <1>5, <2>2, <3>1, StepBelieves
  <2> QED BY <1>1, <2>1, <2>2
<1>7. ASSUME NEW i \in 1..Len(v) PROVE Fits(g[i], v[i]) /\ g[i + 1] = Step(g[i], v[i])
  <2>1. CASE i \in 1..n
    <3>1. g[i] = h[i] /\ g[i + 1] = h[i + 1] /\ v[i] = w[i]  BY <1>1, <1>5, <2>1
    <3> QED BY <2>1, <3>1 DEF Along, n
  <2>2. CASE i = n + 1
    <3>1. g[i] = h[n + 1] /\ g[i + 1] = Step(h[n + 1], b) /\ v[i] = b
      <4>1. i + 1 = n + 2 /\ i \in 1..(n + 1)  BY <1>1, <2>2
      <4> QED BY <1>1, <1>5, <2>2, <4>1
    <3> QED BY <3>1 DEF n
  <2> QED BY <1>1, <2>1, <2>2
<1>8. Along(g, v) /\ g[1] = h[1]
  <2>1. 1 \in 1..(n + 1)  BY <1>1
  <2> QED BY <1>5, <1>6, <1>7, <2>1 DEF Along
<1> QED BY <1>4, <1>5, <1>8 DEF n, v

LEMMA AlongTail ==
  ASSUME NEW w \in Seq(Byte), w # <<>>, NEW h \in [1..(Len(w) + 1) -> Mods], Along(h, w)
  PROVE  \E g \in [1..(Len(Tail(w)) + 1) -> Mods] :
           /\ Along(g, Tail(w)) /\ g[1] = Step(h[1], Head(w))
           /\ g[Len(Tail(w)) + 1] = h[Len(w) + 1]
<1> DEFINE n == Len(w)
           v == Tail(w)
           g == [i \in 1..n |-> h[i + 1]]
<1>1. n \in Nat /\ n # 0 /\ v \in Seq(Byte) /\ Len(v) = n - 1 /\ Head(w) = w[1]
      /\ \A i \in 1..(n - 1) : v[i] = w[i + 1]
  OBVIOUS
<1>2. g \in [1..n -> Mods]  BY <1>1
<1>3. \A i \in 1..n : g[i] = h[i + 1]  OBVIOUS
<1> HIDE DEF g, v, n
<1>4. ASSUME NEW i \in 1..(Len(v) + 1) PROVE Believes(g[i])
  <2>1. i \in 1..n /\ i + 1 \in 1..(n + 1)  BY <1>1
  <2> QED BY <1>3, <2>1 DEF Along, n
<1>5. ASSUME NEW i \in 1..Len(v) PROVE Fits(g[i], v[i]) /\ g[i + 1] = Step(g[i], v[i])
  <2>1. i \in 1..(n - 1) /\ i \in 1..n /\ i + 1 \in 1..n  BY <1>1
  <2>2. g[i] = h[i + 1] /\ g[i + 1] = h[(i + 1) + 1] /\ v[i] = w[i + 1]  BY <1>1, <1>3, <2>1
  <2> QED BY <2>1, <2>2 DEF Along, n
<1>6. Along(g, v)  BY <1>4, <1>5 DEF Along
<1>7. g[1] = Step(h[1], Head(w)) /\ g[Len(v) + 1] = h[n + 1]
  <2>1. 1 \in 1..n /\ n \in 1..n /\ Len(v) + 1 = n  BY <1>1
  <2>2. h[2] = Step(h[1], w[1])
    <3>1. h[1 + 1] = Step(h[1], w[1])  BY <2>1 DEF Along, n
    <3> QED BY <3>1
  <2> QED BY <1>1, <1>3, <2>1, <2>2
<1>8. Len(v) + 1 = n  BY <1>1
<1> QED BY <1>2, <1>6, <1>7, <1>8 DEF n, v

LEMMA HistoryInit == Init => History
<1> SUFFICES ASSUME Init PROVE History  OBVIOUS
<1> DEFINE m == [held |-> {}, shift |-> FALSE, caps |-> FALSE, ext |-> FALSE]
           h == [i \in 1..1 |-> m]
<1>1. m \in Mods  BY DEF Mods
<1>2. Len(wire) = 0  BY DEF Init
<1>3. h \in [1..(Len(wire) + 1) -> Mods] /\ \A i \in 1..(Len(wire) + 1) : h[i] = m
  BY <1>1, <1>2
<1>4. Cardinality({}) = 0  BY FS_EmptySet
<1>5. Believes(m)  BY <1>4 DEF Believes
<1> HIDE DEF h
<1>6. Along(h, wire)
  <2>1. 1..Len(wire) = {}  BY <1>2
  <2> QED BY <1>3, <1>5, <2>1 DEF Along
<1>7. h[1] = m /\ h[Len(wire) + 1] = m  BY <1>2, <1>3
<1>8. Begins(m, modVars) /\ Ends(m, keyVars)  BY DEF Init, Begins, Ends, modVars, keyVars
<1> QED BY <1>3, <1>6, <1>7, <1>8 DEF History

\* A byte more in flight, as the end of the history allows.
LEMMA HistorySend ==
  ASSUME TypeOK, History, NEW b \in Byte, wire' = Append(wire, b), UNCHANGED modVars,
         \A m \in Mods : Ends(m, keyVars) => Fits(m, b) /\ Ends(Step(m, b), keyVars')
  PROVE  History'
<1>1. PICK h \in [1..(Len(wire) + 1) -> Mods] :
        Along(h, wire) /\ Begins(h[1], modVars) /\ Ends(h[Len(wire) + 1], keyVars)
  BY DEF History
<1>2. wire \in Seq(Byte) /\ Len(wire) \in Nat  BY DEF TypeOK
<1>3. h[Len(wire) + 1] \in Mods  BY <1>2
<1>4. Fits(h[Len(wire) + 1], b) /\ Ends(Step(h[Len(wire) + 1], b), keyVars')  BY <1>1, <1>3
<1>5. PICK g \in [1..(Len(wire) + 2) -> Mods] :
        /\ Along(g, Append(wire, b)) /\ g[1] = h[1]
        /\ g[Len(wire) + 2] = Step(h[Len(wire) + 1], b)
  BY <1>1, <1>2, <1>4, AlongAppend
<1>6. Len(wire') + 1 = Len(wire) + 2  BY <1>2
<1>7. Begins(g[1], modVars')  BY <1>1, <1>5 DEF Begins, modVars
<1>8. Ends(g[Len(wire) + 2], keyVars')  BY <1>4, <1>5 DEF Ends, keyVars
<1>9. g \in [1..(Len(wire') + 1) -> Mods] /\ Along(g, wire')  BY <1>5, <1>6
<1> QED BY <1>6, <1>7, <1>8, <1>9 DEF History

\* An E0 pair changes no modifier.
LEMMA HistoryPair ==
  ASSUME TypeOK, History, NEW k \in Shifts \cup NavKeys, NEW b \in BOOLEAN,
         wire' = wire \o Ext(k, b), UNCHANGED <<held, caps, modVars>>
  PROVE  History'
<1> DEFINE e == Code("E0", FALSE)
           x == [Code(k, b) EXCEPT !.ext = TRUE]
           n == Len(wire)
<1>1. /\ e \in Byte /\ e.key = "E0" /\ e.brk = FALSE
      /\ x \in Byte /\ x.key = k /\ x.brk = b
  BY DEF Code, Byte
<1>2. wire \in Seq(Byte) /\ n \in Nat  BY DEF TypeOK
<1> HIDE DEF e, x
<1>3. /\ wire' = Append(Append(wire, e), x)
      /\ Append(wire, e) \in Seq(Byte) /\ Len(Append(wire, e)) = n + 1
      /\ Len(wire') = n + 2
  <2>1. wire' = wire \o <<e, x>>  BY DEF Ext, e, x
  <2>2. wire \o <<e, x>> = Append(Append(wire, e), x)  BY <1>1, <1>2
  <2> QED BY <1>1, <1>2, <2>1, <2>2
<1>4. PICK h \in [1..(n + 1) -> Mods] : Along(h, wire) /\ Begins(h[1], modVars) /\ Ends(h[n + 1], keyVars)
  BY DEF History
<1> DEFINE m == h[n + 1]
           m1 == Step(m, e)
           m2 == Step(m1, x)
<1>5. m \in Mods /\ m.held = held /\ m.caps = caps /\ m.ext = FALSE
  BY <1>2, <1>4 DEF Ends, keyVars
<1> HIDE DEF m
<1>6. Fits(m, e) /\ m1 \in Mods /\ m1.held = held /\ m1.caps = caps /\ m1.ext = TRUE
  <2>1. "E0" \notin Shifts /\ "E0" \notin Keys /\ "E0" # "Caps"  BY KeySets
  <2>2. caps \in BOOLEAN  BY DEF TypeOK
  <2>3. Fits(m, e)  BY <1>1, <1>5, <2>1 DEF Fits
  <2>4. m1 \in Mods  BY <1>1, <1>5, StepType
  <2>5. m1.held = held /\ m1.ext = TRUE  BY <1>1, <1>5, <2>1 DEF Step
  <2>6. m1.caps = (m.caps # (e.key = "Caps"))  BY <1>1, <1>5 DEF Step
  <2>7. m1.caps = caps  BY <1>1, <1>5, <2>1, <2>2, <2>6
  <2> QED BY <2>3, <2>4, <2>5, <2>7
<1> HIDE DEF m1
<1>7. Fits(m1, x) /\ m2.held = held /\ m2.caps = caps /\ m2.ext = FALSE
  <2>1. k # "E0" /\ k \notin Keys  BY KeySets
  <2> QED BY <1>1, <1>6, <2>1 DEF Fits, Step
<1> HIDE DEF m2
<1>8. PICK g \in [1..(n + 2) -> Mods] :
        Along(g, Append(wire, e)) /\ g[1] = h[1] /\ g[n + 2] = m1
  BY <1>1, <1>2, <1>4, <1>6, AlongAppend DEF m, m1
<1>9. PICK f \in [1..(n + 3) -> Mods] :
        Along(f, wire') /\ f[1] = g[1] /\ f[n + 3] = m2
  <2> DEFINE v == Append(wire, e)
  <2>1. v \in Seq(Byte) /\ Len(v) = n + 1 /\ wire' = Append(v, x)  BY <1>3
  <2>2. Along(g, v)  BY <1>8
  <2> HIDE DEF v
  <2>3. Len(v) + 1 = n + 2 /\ Len(v) + 2 = n + 3  BY <1>2, <2>1
  <2>4. g \in [1..(Len(v) + 1) -> Mods] /\ g[Len(v) + 1] = m1  BY <1>8, <2>3
  <2>5. Fits(g[Len(v) + 1], x)  BY <1>7, <2>4
  <2>6. \E f \in [1..(Len(v) + 2) -> Mods] :
          /\ Along(f, Append(v, x)) /\ f[1] = g[1]
          /\ f[Len(v) + 2] = Step(g[Len(v) + 1], x)
    BY <1>1, <2>1, <2>2, <2>4, <2>5, AlongAppend
  <2> QED BY <2>1, <2>3, <2>4, <2>6 DEF m2
<1>10. Begins(f[1], modVars') /\ Ends(f[n + 3], keyVars')
  BY <1>4, <1>7, <1>8, <1>9 DEF Begins, Ends, modVars, keyVars
<1>11. Len(wire') + 1 = n + 3  BY <1>2, <1>3
<1> QED BY <1>9, <1>10, <1>11 DEF History

LEMMA HistoryKeyboard == ASSUME IInv, History, Keyboard PROVE History'
<1>1. TypeOK /\ wire \in Seq(Byte) /\ held \subseteq Shifts /\ caps \in BOOLEAN
  BY DEF IInv, TypeOK
<1>2. ASSUME NEW b \in Byte, Send(<<b>>)
      PROVE  wire' = Append(wire, b) /\ UNCHANGED modVars
  BY <1>1, <1>2 DEF Send
<1>3. \A k \in Keys \cup Shifts \cup {"Caps"}, b \in BOOLEAN :
        Code(k, b) \in Byte /\ Code(k, b).key = k /\ Code(k, b).brk = b
  BY DEF Code, Byte
<1>4. ASSUME NEW k \in Keys, PressKey(k) PROVE History'
  <2> DEFINE b == [Code(k, FALSE) EXCEPT !.held = held, !.caps = caps]
  <2>1. b \in Byte /\ b.key = k /\ b.brk = FALSE /\ b.held = held /\ b.caps = caps
    BY <1>1 DEF Code, Byte
  <2>2. Send(<<b>>) /\ UNCHANGED <<held, caps>>  BY <1>4 DEF PressKey
  <2> HIDE DEF b
  <2>3. wire' = Append(wire, b) /\ UNCHANGED modVars  BY <1>2, <2>1, <2>2
  <2>4. ASSUME NEW m \in Mods, Ends(m, keyVars) PROVE Fits(m, b) /\ Ends(Step(m, b), keyVars')
    <3>1. k \notin Shifts /\ k # "Caps" /\ k # "E0"  BY KeySets
    <3>2. m.held = held /\ m.caps = caps /\ m.ext = FALSE  BY <2>4 DEF Ends, keyVars
    <3>3. Fits(m, b)  BY <2>1, <3>1, <3>2 DEF Fits
    <3>4. Step(m, b).held = held /\ Step(m, b).ext = FALSE  BY <2>1, <3>1, <3>2 DEF Step
    <3>5. Step(m, b).caps = (m.caps # (b.key = "Caps"))  BY <2>1, <3>2 DEF Step
    <3>6. Step(m, b).caps = caps  BY <1>1, <2>1, <3>1, <3>2, <3>5
    <3> QED BY <2>2, <3>3, <3>4, <3>6 DEF Ends, keyVars
  <2> QED BY <1>1, <2>1, <2>3, <2>4, HistorySend
<1>5. ASSUME NEW k \in Keys, ReleaseKey(k) PROVE History'
  <2> DEFINE b == Code(k, TRUE)
  <2>1. b \in Byte /\ b.key = k /\ b.brk = TRUE  BY <1>3
  <2>2. Send(<<b>>) /\ UNCHANGED <<held, caps>>  BY <1>5 DEF ReleaseKey
  <2> HIDE DEF b
  <2>3. wire' = Append(wire, b) /\ UNCHANGED modVars  BY <1>2, <2>1, <2>2
  <2>4. ASSUME NEW m \in Mods, Ends(m, keyVars) PROVE Fits(m, b) /\ Ends(Step(m, b), keyVars')
    <3>1. k \notin Shifts /\ k # "E0"  BY KeySets
    <3> QED BY <2>1, <2>2, <2>4, <3>1 DEF Fits, Step, Ends, keyVars
  <2> QED BY <1>1, <2>1, <2>3, <2>4, HistorySend
<1>6. ASSUME NEW s \in Shifts, PressShift(s) PROVE History'
  <2> DEFINE b == Code(s, FALSE)
  <2>1. b \in Byte /\ b.key = s /\ b.brk = FALSE  BY <1>3
  <2>2. Send(<<b>>) /\ held' = held \cup {s} /\ UNCHANGED caps  BY <1>6 DEF PressShift
  <2> HIDE DEF b
  <2>3. wire' = Append(wire, b) /\ UNCHANGED modVars  BY <1>2, <2>1, <2>2
  <2>4. ASSUME NEW m \in Mods, Ends(m, keyVars) PROVE Fits(m, b) /\ Ends(Step(m, b), keyVars')
    <3>1. s \notin Keys /\ s # "Caps" /\ s # "E0"  BY KeySets
    <3>2. m.held = held /\ m.caps = caps /\ m.ext = FALSE  BY <2>4 DEF Ends, keyVars
    <3>3. Fits(m, b)  BY <2>1, <3>1, <3>2 DEF Fits
    <3>4. Step(m, b).held = held \cup {s} /\ Step(m, b).ext = FALSE
      BY <2>1, <3>1, <3>2 DEF Step
    <3>5. Step(m, b).caps = (m.caps # (b.key = "Caps"))  BY <2>1, <3>2 DEF Step
    <3>6. Step(m, b).caps = caps  BY <1>1, <2>1, <3>1, <3>2, <3>5
    <3> QED BY <2>2, <3>3, <3>4, <3>6 DEF Ends, keyVars
  <2> QED BY <1>1, <2>1, <2>3, <2>4, HistorySend
<1>7. ASSUME NEW s \in Shifts, ReleaseShift(s) PROVE History'
  <2> DEFINE b == Code(s, TRUE)
  <2>1. b \in Byte /\ b.key = s /\ b.brk = TRUE  BY <1>3
  <2>2. Send(<<b>>) /\ held' = held \ {s} /\ UNCHANGED caps  BY <1>7 DEF ReleaseShift
  <2> HIDE DEF b
  <2>3. wire' = Append(wire, b) /\ UNCHANGED modVars  BY <1>2, <2>1, <2>2
  <2>4. ASSUME NEW m \in Mods, Ends(m, keyVars) PROVE Fits(m, b) /\ Ends(Step(m, b), keyVars')
    <3>1. s \notin Keys /\ s # "E0"  BY KeySets
    <3> QED BY <2>1, <2>2, <2>4, <3>1 DEF Fits, Step, Ends, keyVars
  <2> QED BY <1>1, <2>1, <2>3, <2>4, HistorySend
<1>8. CASE PressCaps
  <2> DEFINE b == Code("Caps", FALSE)
  <2>1. b \in Byte /\ b.key = "Caps" /\ b.brk = FALSE  BY <1>3
  <2>2. Send(<<b>>) /\ caps' = ~caps /\ UNCHANGED held  BY <1>8 DEF PressCaps
  <2> HIDE DEF b
  <2>3. wire' = Append(wire, b) /\ UNCHANGED modVars  BY <1>2, <2>1, <2>2
  <2>4. ASSUME NEW m \in Mods, Ends(m, keyVars) PROVE Fits(m, b) /\ Ends(Step(m, b), keyVars')
    <3>1. "Caps" \notin Shifts /\ "Caps" \notin Keys /\ "Caps" # "E0"  BY KeySets
    <3>2. m.held = held /\ m.caps = caps /\ m.ext = FALSE  BY <2>4 DEF Ends, keyVars
    <3>3. Fits(m, b)  BY <2>1, <3>1, <3>2 DEF Fits
    <3>4. Step(m, b).held = held /\ Step(m, b).ext = FALSE  BY <2>1, <3>1, <3>2 DEF Step
    <3>5. Step(m, b).caps = (m.caps # (b.key = "Caps"))  BY <2>1, <3>2 DEF Step
    <3>6. Step(m, b).caps = ~caps  BY <1>1, <2>1, <3>2, <3>5
    <3> QED BY <2>2, <3>3, <3>4, <3>6 DEF Ends, keyVars
  <2> QED BY <1>1, <2>1, <2>3, <2>4, HistorySend
<1>9. ASSUME NEW k \in Shifts \cup NavKeys, NEW b \in BOOLEAN, Send(Ext(k, b)),
             UNCHANGED <<held, caps>>
      PROVE  History'
  <2>1. wire' = wire \o Ext(k, b) /\ UNCHANGED modVars  BY <1>9 DEF Send
  <2> QED BY <1>1, <1>9, <2>1, HistoryPair
<1>10. ASSUME NEW n \in NavKeys, NEW b \in BOOLEAN, NavKey(n, b) PROVE History'
  BY <1>9, <1>10 DEF NavKey
<1>11. ASSUME NEW s \in Shifts, NEW b \in BOOLEAN, FakeShift(s, b) PROVE History'
  BY <1>9, <1>11 DEF FakeShift
<1> QED BY <1>4, <1>5, <1>6, <1>7, <1>8, <1>10, <1>11 DEF Keyboard

\* The handler's step is the history's first.
LEMMA HandlerMods ==
  ASSUME IInv, keyboard_handler, NEW m \in Mods, Begins(m, modVars), Fits(m, Head(wire))
  PROVE  Begins(Step(m, Head(wire)), modVars')
<1> DEFINE b == Head(wire)
<1>1. wire \in Seq(Byte) /\ wire # <<>>  BY DEF IInv, TypeOK, keyboard_handler
<1>2. b \in Byte /\ b.brk \in BOOLEAN
  <2>1. b \in Byte  BY <1>1
  <2> QED BY <2>1 DEF Byte
<1>3. /\ m.shift = shift_pressed /\ m.caps = capslock_enabled /\ m.ext = ext_prefix
      /\ {shift_pressed, capslock_enabled, ext_prefix} \subseteq BOOLEAN
  BY DEF Begins, IInv, TypeOK, modVars
<1>4. Prefix(b) \/ Extended(b) \/ Release(b) \/ Press(b)  BY DEF keyboard_handler
<1>5. "E0" \notin Shifts /\ "E0" # "Caps"  BY KeySets
<1>6. b.key = "E0" => ~b.brk /\ ~m.ext
  <2>1. \A k \in Shifts \cup NavKeys : k # "E0"  BY KeySets
  <2> QED BY <2>1 DEF Fits
<1> HIDE DEF b
<1>7. CASE Prefix(b)
  <2>1. b.key = "E0" /\ ext_prefix' = TRUE /\ UNCHANGED <<shift_pressed, capslock_enabled>>
    BY <1>7 DEF Prefix
  <2>2. Step(m, b).shift = (m.shift \/ b.key \in Shifts) /\ Step(m, b).ext = TRUE
        /\ Step(m, b).caps = (m.caps # (b.key = "Caps"))
    BY <1>6, <2>1 DEF Step
  <2>3. b.key \notin Shifts /\ b.key # "Caps"  BY <1>5, <2>1
  <2>4. Step(m, b).shift = m.shift  BY <1>3, <2>2, <2>3
  <2>5. Step(m, b).caps = m.caps  BY <1>3, <2>2, <2>3
  <2> QED BY <1>3, <2>1, <2>2, <2>4, <2>5 DEF Begins, b, modVars
<1>8. CASE Extended(b)
  BY <1>3, <1>8 DEF Extended, Step, Begins, b, modVars
<1>9. CASE Release(b)
  BY <1>3, <1>9 DEF Release, Step, Begins, b, modVars
<1>10. CASE Press(b)
  BY <1>3, <1>10 DEF Press, Step, Begins, b, modVars
<1> QED BY <1>4, <1>7, <1>8, <1>9, <1>10 DEF b

LEMMA HistoryHandler == ASSUME IInv, History, keyboard_handler PROVE History'
<1>1. PICK h \in [1..(Len(wire) + 1) -> Mods] :
        Along(h, wire) /\ Begins(h[1], modVars) /\ Ends(h[Len(wire) + 1], keyVars)
  BY DEF History
<1>2. wire \in Seq(Byte) /\ wire # <<>> /\ wire' = Tail(wire) /\ UNCHANGED <<held, caps>>
  BY DEF IInv, TypeOK, keyboard_handler
<1>3. PICK g \in [1..(Len(Tail(wire)) + 1) -> Mods] :
        /\ Along(g, Tail(wire)) /\ g[1] = Step(h[1], Head(wire))
        /\ g[Len(Tail(wire)) + 1] = h[Len(wire) + 1]
  BY <1>1, <1>2, AlongTail
<1>4. Fits(h[1], Head(wire)) /\ h[1] \in Mods
  <2>1. 1 \in 1..Len(wire) /\ 1 \in 1..(Len(wire) + 1) /\ Head(wire) = wire[1]  BY <1>2
  <2> QED BY <1>1, <2>1 DEF Along
<1>5. Begins(g[1], modVars')
  <2>1. Begins(Step(h[1], Head(wire)), modVars')  BY <1>1, <1>4, HandlerMods
  <2> QED BY <1>3, <2>1 DEF Begins, modVars
<1>6. Ends(g[Len(wire') + 1], keyVars')  BY <1>1, <1>2, <1>3 DEF Ends, keyVars
<1> QED BY <1>2, <1>3, <1>5, <1>6 DEF History

LEMMA HistoryInvariance == Spec => []History
<1>1. IInv /\ History /\ [Next]_vars => History'
  <2> SUFFICES ASSUME IInv, History, [Next]_vars PROVE History'  OBVIOUS
  <2>1. CASE Getchar \/ UNCHANGED vars
    <3>1. UNCHANGED <<wire, held, caps, shift_pressed, capslock_enabled, ext_prefix>>
      BY <2>1 DEF Getchar, GetEmpty, GetSome, GetRead, GetAdvance, vars, devVars, modVars
    <3> QED BY <3>1 DEF History, Begins, Ends, modVars, keyVars
  <2> QED BY <2>1, HistoryKeyboard, HistoryHandler DEF Next
<1> QED BY HistoryInit, <1>1, Invariance, PTL DEF Spec

-----------------------------------------------------------------------------
\* What the history says of the byte the handler reads.
LEMMA FirstByte ==
  ASSUME IInv, History, wire # <<>>
  PROVE  \E m \in Mods : Begins(m, modVars) /\ Fits(m, Head(wire)) /\ Believes(m)
<1>1. PICK h \in [1..(Len(wire) + 1) -> Mods] : Along(h, wire) /\ Begins(h[1], modVars)
  BY DEF History
<1>2. 1 \in 1..Len(wire) /\ 1 \in 1..(Len(wire) + 1) /\ Head(wire) = wire[1]
  BY DEF IInv, TypeOK
<1> QED BY <1>1, <1>2 DEF Along

\* A key's make code comes to the last branch of the handler.
LEMMA KeyPress ==
  ASSUME IInv, History, keyboard_handler, Head(wire).key \in Keys, ~Head(wire).brk
  PROVE  Press(Head(wire)) /\ kbd_put(kbd_translate(Head(wire).key))
<1> DEFINE b == Head(wire)
<1>1. wire # <<>> /\ (Prefix(b) \/ Extended(b) \/ Release(b) \/ Press(b))
  BY DEF keyboard_handler
<1>2. PICK m \in Mods : Begins(m, modVars) /\ Fits(m, b)  BY <1>1, FirstByte
<1>3. b.key # "E0" /\ b.key \notin Shifts \cup NavKeys  BY KeySets
<1>4. ~ext_prefix  BY <1>2, <1>3 DEF Begins, Fits, modVars
<1>5. Press(b)  BY <1>1, <1>3, <1>4 DEF Prefix, Extended, Release
<1> QED BY <1>5 DEF Press

\* Only a key's make code moves the head, and then its character is in the slot.
LEMMA HeadMoves ==
  ASSUME IInv, [Next]_vars, kbd_head' # kbd_head
  PROVE  /\ keyboard_handler /\ Press(Head(wire)) /\ Head(wire).key \in Keys
         /\ kbd_buf'[kbd_head] = kbd_translate(Head(wire).key)
<1> DEFINE b == Head(wire)
<1>1. keyboard_handler
  BY DEF Next, Keyboard, PressKey, ReleaseKey, PressShift, ReleaseShift, PressCaps, NavKey,
         FakeShift, Send, Getchar, GetEmpty, GetSome, GetRead, GetAdvance, ringVars, vars
<1>2. Press(b) /\ b.key \in Keys /\ kbd_put(kbd_translate(b.key))
  BY <1>1 DEF keyboard_handler, Prefix, Extended, Release, Press, ringVars
<1>3. kbd_buf' = [kbd_buf EXCEPT ![kbd_head] = kbd_translate(b.key)]
  BY <1>2 DEF kbd_put, ringVars
<1>4. kbd_head \in DOMAIN kbd_buf  BY DEF IInv, TypeOK
<1> QED BY <1>1, <1>2, <1>3, <1>4

\* A pressed key is discarded only when the ring is full (kbd_put): the prefix
\* of an extended key never swallows it, and the head never comes back to where
\* it was.
THEOREM NoLoss == Spec => DropsOnlyWhenFull
<1>1. IInv /\ History /\ [Next]_vars =>
        [keyboard_handler /\ Head(wire).key \in Keys /\ ~Head(wire).brk
           => kbd_head' # kbd_head \/ Len(Waiting) = KBD_BUFFER_SIZE - 1]_vars
  <2> SUFFICES ASSUME IInv, History, keyboard_handler, Head(wire).key \in Keys,
                      ~Head(wire).brk
               PROVE  kbd_head' # kbd_head \/ Len(Waiting) = KBD_BUFFER_SIZE - 1
    OBVIOUS
  <2>1. kbd_put(kbd_translate(Head(wire).key))  BY KeyPress
  <2>2. /\ kbd_head \in Slot /\ kbd_tail \in Slot
        /\ kbd_buf \in [Slot -> Char \cup {None}]
    BY DEF IInv, TypeOK
  <2>3. kbd_head \in Int /\ kbd_tail \in Int /\ 0 <= kbd_head /\ kbd_head < N
        /\ 0 <= kbd_tail /\ kbd_tail < N
    BY <2>2, NType DEF Slot, N
  <2>4. after(kbd_head) = IF kbd_head = N - 1 THEN 0 ELSE kbd_head + 1  BY <2>2, AfterIs
  <2>5. CASE kbd_full
    <3>1. after(kbd_head) = kbd_tail  BY <2>5 DEF kbd_full
    <3>2. /\ kbd_tail <= kbd_head => Count(kbd_head, kbd_tail) = kbd_head - kbd_tail
          /\ kbd_head < kbd_tail => Count(kbd_head, kbd_tail) = kbd_head - kbd_tail + N
      BY <2>2, CountIs
    <3>3. Count(kbd_head, kbd_tail) = N - 1  BY <2>3, <2>4, <3>1, <3>2, NType
    <3>4. Len(Waiting) = Count(kbd_head, kbd_tail)  BY <2>2, WaitIs, WaitingIs
    <3> QED BY <3>3, <3>4 DEF N
  <2>6. CASE ~kbd_full
    <3>1. kbd_head' = after(kbd_head)  BY <2>1, <2>6 DEF kbd_put
    <3> QED BY <2>3, <2>4, <3>1, NType
  <2> QED BY <2>5, <2>6
<1> QED BY <1>1, Invariance, HistoryInvariance, PTL DEF Spec, DropsOnlyWhenFull

\* However many bytes wait between the keyboard and the handler, the flags that
\* kbd_translate reads are those the key was pressed under: with no shift held
\* the character is the unshifted one, with both held the shifted one, and caps
\* lock inverts letters and nothing else.
THEOREM RightCase == Spec => CaseAsTyped
<1> DEFINE b == Head(wire)
           lock == b.key \in Letters /\ b.caps
           ch == kbd_buf'[kbd_head]
           A == kbd_head' # kbd_head =>
                  /\ ch[1] = b.key
                  /\ b.held = {} => ch[2] = lock
                  /\ Cardinality(b.held) = 2 => ch[2] # lock
<1>1. IInv /\ History /\ [Next]_vars => A
  <2> SUFFICES ASSUME IInv, History, [Next]_vars, kbd_head' # kbd_head
               PROVE  /\ ch[1] = b.key
                      /\ b.held = {} => ch[2] = lock
                      /\ Cardinality(b.held) = 2 => ch[2] # lock
    OBVIOUS
  <2>1. keyboard_handler /\ Press(b) /\ b.key \in Keys /\ ch = kbd_translate(b.key)
    BY HeadMoves
  <2>2. wire # <<>> /\ ~b.brk  BY <2>1 DEF keyboard_handler, Press
  <2>3. PICK m \in Mods : Begins(m, modVars) /\ Fits(m, b) /\ Believes(m)
    BY <2>2, FirstByte
  <2>4. /\ b.held = m.held /\ b.caps = m.caps /\ m.shift = shift_pressed
        /\ m.caps = capslock_enabled /\ m.shift \in BOOLEAN /\ m.caps \in BOOLEAN
    BY <2>1, <2>2, <2>3 DEF Fits, Begins, modVars, Mods
  <2>5. (b.held = {} => ~m.shift) /\ (Cardinality(b.held) = 2 => m.shift)
    BY <2>3, <2>4 DEF Believes
  <2> HIDE DEF b, ch
  <2>6. CASE b.key \in Letters
    <3>1. ch = <<b.key, m.shift # m.caps>>  BY <2>1, <2>4, <2>6 DEF kbd_translate
    <3>2. ch[1] = b.key /\ ch[2] = (m.shift # m.caps)  BY <3>1
    <3>3. lock = m.caps  BY <2>4, <2>6
    <3>4. ~m.shift => ch[2] = lock  BY <2>4, <3>2, <3>3
    <3>5. m.shift => ch[2] # lock  BY <2>4, <3>2, <3>3
    <3> QED BY <2>5, <3>2, <3>4, <3>5
  <2>7. CASE b.key \notin Letters
    <3>1. ch = <<b.key, m.shift>>  BY <2>1, <2>4, <2>7 DEF kbd_translate
    <3>2. ch[1] = b.key /\ ch[2] = m.shift  BY <3>1
    <3>3. lock = FALSE  BY <2>7
    <3> QED BY <2>4, <2>5, <3>2, <3>3
  <2> QED BY <2>6, <2>7
<1>2. IInv /\ History /\ [Next]_vars => [A]_vars  BY <1>1
<1> QED BY <1>2, Invariance, HistoryInvariance, PTL DEF Spec, CaseAsTyped
=============================================================================
