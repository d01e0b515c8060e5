----------------------------- MODULE ShellProofs -----------------------------
(***************************************************************************)
(* Theorems about the shell, for every size of screen, ring of lines,      *)
(* input buffer and keyboard ring, and every set of commands: its types,   *)
(* that the line the user sees is the line in the buffer, and that what is *)
(* executed are the words of that line.                                    *)
(*                                                                         *)
(* The console's functions are taken one by one: what each leaves of a     *)
(* console whose screen mirrors its ring (Good), and what it writes where  *)
(* (Writes).  On top of them the stages of an echo (Stage) say how far the *)
(* screen is behind the buffer while tty_write is under way; with nothing  *)
(* left to put, nothing is missing.  The loops of strlen and strtok are    *)
(* recursive functions of an address; that they answer the first place     *)
(* they look for follows from the least element of a set of naturals.      *)
(*                                                                         *)
(* The lemmas on the ring's arithmetic are those of TtyIrqProofs, whose    *)
(* console is in other variables.                                          *)
(***************************************************************************)
EXTENDS Shell, SequenceTheorems, FiniteSetTheorems, WellFoundedInduction, TLAPS

-----------------------------------------------------------------------------
(***************************************************************************)
(* Numbers, by least elements.                                             *)
(***************************************************************************)
LEMMA LessIsWellFounded == IsWellFoundedOn({ss \in Nat \X Nat : ss[1] < ss[2]}, Nat)
BY NatLessThanWellFounded DEF OpToRel

LEMMA Least ==
  ASSUME NEW T, T \subseteq Nat, T # {}
  PROVE  \E x \in T : \A y \in T : x <= y
<1> DEFINE R == {ss \in Nat \X Nat : ss[1] < ss[2]}
<1>1. IsWellFoundedOn(R, Nat)  BY LessIsWellFounded
<1> HIDE DEF R
<1>2. PICK x \in T : \A y \in T : ~ (<<y, x>> \in R)  BY <1>1, WFMin
<1>3. \A y \in T : ~(y < x)  BY <1>2 DEF R
<1> QED BY <1>3

\* A loop that goes up from i to the first place of P: it finds that place,
\* if the last place of all is one.
Finds(f, n, P) ==
    \A i \in 0..n : /\ f[i] \in P /\ i <= f[i]
                    /\ \A j \in i..(f[i] - 1) : j \notin P

LEMMA LoopFinds ==
  ASSUME NEW n \in Nat, NEW P, P \subseteq 0..n, n \in P, NEW f,
         \A i \in 0..n : f[i] = IF i \in P THEN i ELSE f[i + 1]
  PROVE  Finds(f, n, P)
<1> DEFINE Good_(i) == /\ f[i] \in P /\ i <= f[i]
                       /\ \A j \in i..(f[i] - 1) : j \notin P
           T == {k \in 0..n : ~Good_(n - k)}
<1>0. \A j \in P : j \in Nat /\ j \in Int  OBVIOUS
<1>1. SUFFICES ASSUME T # {} PROVE FALSE
  <2> SUFFICES ASSUME T = {} PROVE \A i \in 0..n : Good_(i)
    BY DEF Finds
  <2> TAKE i \in 0..n
  <2>1. n - i \in 0..n /\ n - (n - i) = i  OBVIOUS
  <2> QED BY <2>1
<1>2. PICK k \in T : \A l \in T : k <= l
  <2>1. T \subseteq Nat  OBVIOUS
  <2> HIDE DEF T
  <2> QED BY <1>1, <2>1, Least
<1> DEFINE i == n - k
<1>3. k \in 0..n /\ i \in 0..n /\ ~Good_(i)  BY <1>2
<1>4. i \notin P
  BY <1>3
<1>5. k # 0 /\ k - 1 \in 0..n /\ k - 1 \notin T  BY <1>2, <1>3, <1>4
<1>6. n - (k - 1) = i + 1 /\ i + 1 \in 0..n  BY <1>3, <1>5
<1>7. Good_(i + 1)  BY <1>5, <1>6
<1>8. f[i] = f[i + 1]  BY <1>3, <1>4
<1>9. f[i + 1] \in P  BY <1>7
<1>10. f[i + 1] \in Int  BY <1>0, <1>9
<1> HIDE DEF i
<1> QED BY <1>10, <1>3, <1>4, <1>7, <1>8, <1>9

\* Such a loop exists, as a function of where it begins.
LEMMA LoopExists ==
  ASSUME NEW n \in Nat, NEW P, P \subseteq 0..n, n \in P
  PROVE  \E f : f = [i \in 0..n |-> IF i \in P THEN i ELSE f[i + 1]]
<1> DEFINE After(i) == {j \in P : i <= j}
           f == [i \in 0..n |-> CHOOSE x \in After(i) : \A y \in After(i) : x <= y]
<1>0. \A j \in P : j \in Nat /\ j \in Int  OBVIOUS
<1>1. ASSUME NEW i \in 0..n
      PROVE f[i] \in After(i) /\ \A y \in After(i) : f[i] <= y
  <2>1. After(i) \subseteq Nat  BY <1>0
  <2>2. n \in After(i)  OBVIOUS
  <2> HIDE DEF After
  <2>3. \E x \in After(i) : \A y \in After(i) : x <= y  BY <2>1, <2>2, Least
  <2> QED BY <2>3
<1>2. ASSUME NEW i \in 0..n PROVE f[i] = IF i \in P THEN i ELSE f[i + 1]
  <2>1. f[i] \in P /\ i <= f[i] /\ \A y \in P : i <= y => f[i] <= y  BY <1>1
  <2>2. CASE i \in P  BY <2>1, <2>2
  <2>3. CASE i \notin P
    <3>1. i # n /\ i + 1 \in 0..n  BY <2>3
    <3>2. f[i + 1] \in P /\ i + 1 <= f[i + 1] /\ \A y \in P : i + 1 <= y => f[i + 1] <= y
      BY <1>1, <3>1
    <3> HIDE DEF f
    <3>3. f[i] # i /\ f[i] \in Int /\ f[i + 1] \in Int  BY <1>0, <2>1, <2>3, <3>2
    <3>4. f[i] <= f[i + 1] /\ f[i + 1] <= f[i]  BY <2>1, <3>2, <3>3
    <3> QED BY <2>3, <3>3, <3>4
  <2> QED BY <2>2, <2>3
<1>3. f = [i \in 0..n |-> IF i \in P THEN i ELSE f[i + 1]]
  <2>1. f = [i \in 0..n |-> f[i]]  OBVIOUS
  <2> HIDE DEF f
  <2> QED BY <1>2, <2>1
<1> QED BY <1>3

-----------------------------------------------------------------------------
(***************************************************************************)
(* strlen and strtok on a buffer that ends in '\0'.                        *)
(***************************************************************************)
Last == INPUT - 1

LEMMA BufferNumbers ==
  /\ Last \in Nat \ {0} /\ Last \in Buffer /\ Buffer = 0..Last
  /\ INPUT \in Nat /\ Last = INPUT - 1
<1>1. INPUT \in Nat /\ INPUT >= 2  BY ShellAssumption
<1> QED BY <1>1 DEF Last, Buffer

LEMMA StrlenIs ==
  ASSUME NEW m, DOMAIN m = Buffer, m[Last] = NUL, NEW s \in Buffer
  PROVE  /\ strlen(m, s) \in Nat /\ s + strlen(m, s) \in Buffer
         /\ m[s + strlen(m, s)] = NUL
         /\ \A j \in 0..(strlen(m, s) - 1) : m[s + j] # NUL
<1> DEFINE P == {i \in Buffer : m[i] = NUL}
           end[i \in DOMAIN m] == IF m[i] = NUL THEN i ELSE end[i + 1]
<1>1. strlen(m, s) = end[s] - s  BY DEF strlen
<1>2. P \subseteq 0..Last /\ Last \in P  BY BufferNumbers
<1>3. \E f : f = [i \in 0..Last |-> IF i \in P THEN i ELSE f[i + 1]]
  <2> HIDE DEF P
  <2> QED BY <1>2, BufferNumbers, LoopExists
<1>4. \A f : [i \in 0..Last |-> IF i \in P THEN i ELSE f[i + 1]]
            = [i \in DOMAIN m |-> IF m[i] = NUL THEN i ELSE f[i + 1]]
  BY BufferNumbers
<1>5. \E f : f = [i \in DOMAIN m |-> IF m[i] = NUL THEN i ELSE f[i + 1]]
  BY <1>3, <1>4
<1>6. end = [i \in DOMAIN m |-> IF m[i] = NUL THEN i ELSE end[i + 1]]
  BY <1>5
<1>7. \A i \in 0..Last : end[i] = IF i \in P THEN i ELSE end[i + 1]
  BY <1>6, BufferNumbers
<1> HIDE DEF end
<1>8. Finds(end, Last, P)
  <2> HIDE DEF P
  <2> QED BY <1>2, <1>7, BufferNumbers, LoopFinds
<1>9. s \in 0..Last /\ s \in Nat  BY BufferNumbers
<1>10. end[s] \in P /\ s <= end[s] /\ \A j \in s..(end[s] - 1) : j \notin P
  BY <1>8, <1>9 DEF Finds
<1> DEFINE e == end[s]
<1>11. e \in Buffer /\ e \in Nat /\ m[e] = NUL /\ s <= e  BY <1>10, BufferNumbers
<1>12. \A j \in s..(e - 1) : m[j] # NUL  BY <1>9, <1>10, <1>11, BufferNumbers
<1> HIDE DEF e
<1>13. strlen(m, s) = e - s  BY <1>1 DEF e
<1>14. s + (e - s) = e /\ e - s \in Nat  BY <1>9, <1>11
<1>15. \A j \in 0..((e - s) - 1) : s + j \in s..(e - 1)  BY <1>9, <1>11
<1> QED BY <1>11, <1>12, <1>13, <1>14, <1>15

\* The length from the start is the number of characters before the first '\0'.
LEMMA StrlenFrom ==
  ASSUME NEW m, DOMAIN m = Buffer, m[Last] = NUL,
         NEW k \in Buffer, m[k] = NUL, \A j \in 0..(k - 1) : m[j] # NUL
  PROVE  strlen(m, 0) = k
<1> DEFINE n == strlen(m, 0)
<1>1. 0 \in Buffer /\ Buffer = 0..Last /\ Last \in Nat  BY BufferNumbers
<1>2. n \in Nat /\ 0 + n \in Buffer /\ m[0 + n] = NUL /\ \A j \in 0..(n - 1) : m[0 + j] # NUL
  BY <1>1, StrlenIs
<1> HIDE DEF n
<1>3. 0 + n = n /\ k \in Nat  BY <1>1, <1>2
<1>4. \A j \in 0..(n - 1) : m[j] # NUL
  <2> TAKE j \in 0..(n - 1)
  <2>1. 0 + j = j  OBVIOUS
  <2> QED BY <1>2, <2>1
<1>5. m[n] = NUL  BY <1>2, <1>3
<1>6. ~(k < n)  BY <1>3, <1>4, <1>2
<1>7. ~(n < k)  BY <1>3, <1>5, <1>2
<1> QED BY <1>2, <1>3, <1>6, <1>7 DEF n

\* strtok stays inside the buffer and leaves its last '\0' there.
Kept == (Typed \ {NL, BS}) \cup {NUL}

Held(r) ==
    r.mem \in [Buffer -> Kept] /\ r.mem[Last] = NUL /\ r.save \in Buffer \cup {NULL}

\* What strtok does with the string at from: no word is left in it, or the next
\* begins at i and ends before e.
Cuts(r, m, from, delim) ==
    \/ /\ r = [mem |-> m, save |-> NULL, ret |-> NULL]
       /\ from # NULL => \E i \in from..Last :
            m[i] = NUL /\ \A j \in from..(i - 1) : in_set(m[j], delim)
    \/ /\ from # NULL
       /\ \E i \in from..Last : \E e \in (i + 1)..Last :
            /\ \A j \in from..(i - 1) : in_set(m[j], delim)
            /\ \A j \in i..(e - 1) : m[j] # NUL /\ ~in_set(m[j], delim)
            /\ \/ m[e] = NUL /\ r = [mem |-> m, save |-> NULL, ret |-> i]
               \/ /\ in_set(m[e], delim) /\ e # Last
                  /\ r = [mem |-> [m EXCEPT ![e] = NUL], save |-> e + 1, ret |-> i]

LEMMA StrtokCuts ==
  ASSUME NEW m \in [Buffer -> Kept], m[Last] = NUL, NEW sv \in Buffer \cup {NULL},
         NEW str \in {NULL, 0}, NEW delim
  PROVE  Cuts(strtok(m, sv, str, delim), m, IF str # NULL THEN str ELSE sv, delim)
<1> DEFINE from == IF str # NULL THEN str ELSE sv
           skip[i \in DOMAIN m] == IF in_set(m[i], delim) THEN skip[i + 1] ELSE i
           past[i \in DOMAIN m] ==
             IF m[i] # NUL /\ ~in_set(m[i], delim) THEN past[i + 1] ELSE i
           end == past[skip[from]]
           P == {i \in Buffer : ~in_set(m[i], delim)}
           Q == {i \in Buffer : m[i] = NUL \/ in_set(m[i], delim)}
<1>1. strtok(m, sv, str, delim) =
        IF from = NULL \/ m[skip[from]] = NUL
          THEN [mem |-> m, save |-> NULL, ret |-> NULL]
        ELSE IF m[end] = NUL
          THEN [mem |-> m, save |-> NULL, ret |-> skip[from]]
          ELSE [mem |-> [m EXCEPT ![end] = NUL], save |-> end + 1, ret |-> skip[from]]
  BY DEF strtok
<1>2. P \subseteq 0..Last /\ Last \in P /\ Q \subseteq 0..Last /\ Last \in Q
  BY BufferNumbers DEF in_set
<1>3. /\ \E f : f = [i \in 0..Last |-> IF i \in P THEN i ELSE f[i + 1]]
      /\ \E f : f = [i \in 0..Last |-> IF i \in Q THEN i ELSE f[i + 1]]
  <2> HIDE DEF P, Q
  <2> QED BY <1>2, BufferNumbers, LoopExists
<1>4. DOMAIN m = 0..Last  BY BufferNumbers
<1>5. /\ \A f : [i \in 0..Last |-> IF i \in P THEN i ELSE f[i + 1]]
              = [i \in DOMAIN m |-> IF in_set(m[i], delim) THEN f[i + 1] ELSE i]
      /\ \A f : [i \in 0..Last |-> IF i \in Q THEN i ELSE f[i + 1]]
              = [i \in DOMAIN m |-> IF m[i] # NUL /\ ~in_set(m[i], delim)
                                      THEN f[i + 1] ELSE i]
  BY <1>4, BufferNumbers
<1>6. /\ \E f : f = [i \in DOMAIN m |-> IF in_set(m[i], delim) THEN f[i + 1] ELSE i]
      /\ \E f : f = [i \in DOMAIN m |-> IF m[i] # NUL /\ ~in_set(m[i], delim)
                                            THEN f[i + 1] ELSE i]
  <2> HIDE DEF P, Q
  <2>1. PICK f : f = [i \in 0..Last |-> IF i \in P THEN i ELSE f[i + 1]]  BY <1>3
  <2>2. f = [i \in DOMAIN m |-> IF in_set(m[i], delim) THEN f[i + 1] ELSE i]  BY <1>5, <2>1
  <2>3. PICK g : g = [i \in 0..Last |-> IF i \in Q THEN i ELSE g[i + 1]]  BY <1>3
  <2>4. g = [i \in DOMAIN m |-> IF m[i] # NUL /\ ~in_set(m[i], delim) THEN g[i + 1] ELSE i]
    BY <1>5, <2>3
  <2> QED BY <2>2, <2>4
<1>7. /\ skip = [i \in DOMAIN m |-> IF in_set(m[i], delim) THEN skip[i + 1] ELSE i]
      /\ past = [i \in DOMAIN m |-> IF m[i] # NUL /\ ~in_set(m[i], delim)
                                      THEN past[i + 1] ELSE i]
  BY <1>6
<1> HIDE DEF skip, past
<1>8. \A i \in 0..Last : /\ skip[i] = IF i \in P THEN i ELSE skip[i + 1]
                         /\ past[i] = IF i \in Q THEN i ELSE past[i + 1]
  BY <1>4, <1>7, BufferNumbers
<1>9. Finds(skip, Last, P) /\ Finds(past, Last, Q)
  <2> HIDE DEF P, Q
  <2> QED BY <1>2, <1>8, BufferNumbers, LoopFinds
<1>10. CASE from = NULL
  BY <1>1, <1>10 DEF Cuts
<1>11. CASE from # NULL
  <2> DEFINE i == skip[from]
  <2>1. from \in 0..Last  BY <1>11, BufferNumbers
  <2>2. i \in P /\ from <= i /\ \A j \in from..(i - 1) : j \notin P
    BY <1>9, <2>1 DEF Finds
  <2>3. i \in 0..Last  BY <1>2, <2>2
  <2>4. end \in Q /\ i <= end /\ \A j \in i..(end - 1) : j \notin Q
    BY <1>9, <2>3 DEF Finds
  <2>5. end \in Buffer /\ end \in Nat /\ end <= Last  BY <2>4, BufferNumbers
  <2>6. from \in Nat /\ i \in Nat /\ i \in from..Last  BY <2>1, <2>2, <2>3, BufferNumbers
  <2> HIDE DEF from, end, i
  <2>7. \A j \in from..(i - 1) : in_set(m[j], delim)
    <3> TAKE j \in from..(i - 1)
    <3>1. j \in Buffer /\ j \notin P  BY <2>1, <2>2, <2>3, BufferNumbers
    <3> QED BY <3>1
  <2>8. \A j \in i..(end - 1) : m[j] # NUL /\ ~in_set(m[j], delim)
    <3> TAKE j \in i..(end - 1)
    <3>1. j \in Buffer /\ j \notin Q  BY <2>3, <2>4, <2>5, BufferNumbers
    <3> QED BY <3>1
  <2>9. i \in Buffer /\ ~in_set(m[i], delim) /\ (m[end] = NUL \/ in_set(m[end], delim))
    BY <2>2, <2>4
  <2> HIDE DEF P, Q
  <2>10. CASE m[i] = NUL
    <3>1. strtok(m, sv, str, delim) = [mem |-> m, save |-> NULL, ret |-> NULL]
      BY <1>1, <2>10 DEF i
    <3> QED BY <2>6, <2>7, <2>10, <3>1 DEF Cuts, from
  <2>11. CASE m[i] # NUL
    <3>1. end # i  BY <2>9, <2>11
    <3>2. end \in (i + 1)..Last  BY <2>4, <2>5, <2>6, <3>1, BufferNumbers
    <3> DEFINE t == strtok(m, sv, str, delim)
    <3>3. t = IF m[end] = NUL
                THEN [mem |-> m, save |-> NULL, ret |-> i]
                ELSE [mem |-> [m EXCEPT ![end] = NUL], save |-> end + 1, ret |-> i]
      BY <1>1, <1>11, <2>11 DEF i
    <3>4. m[end] # NUL => end # Last  OBVIOUS
    <3> HIDE DEF t
    <3>5. Cuts(t, m, from, delim)
      BY <1>11, <2>6, <2>7, <2>8, <2>9, <3>2, <3>3, <3>4 DEF Cuts
    <3> QED BY <3>5 DEF t, from
  <2> QED BY <2>10, <2>11
<1> QED BY <1>10, <1>11

LEMMA StrtokHeld ==
  ASSUME NEW r, Held(r), NEW str \in {NULL, 0}, NEW delim
  PROVE  Held(strtok(r.mem, r.save, str, delim))
<1> DEFINE m == r.mem
           sv == r.save
           from == IF str # NULL THEN str ELSE sv
           t == strtok(m, sv, str, delim)
<1>1. /\ m \in [Buffer -> Kept] /\ m[Last] = NUL /\ sv \in Buffer \cup {NULL} /\ NUL \in Kept
  BY DEF Held, Kept
<1>2. from = NULL \/ from \in Buffer  BY <1>1, BufferNumbers
<1> HIDE DEF m, sv
<1>3. Cuts(t, m, from, delim)  BY <1>1, StrtokCuts
<1> HIDE DEF t, from
<1> SUFFICES Held(t)
  BY DEF t, m, sv
<1>4. CASE t.mem = m /\ t.save = NULL
  BY <1>1, <1>4 DEF Held
<1>5. CASE ~(t.mem = m /\ t.save = NULL)
  <2>0. PICK i \in from..Last : \E e \in (i + 1)..Last :
          from # NULL /\ e # Last /\ t = [mem |-> [m EXCEPT ![e] = NUL], save |-> e + 1, ret |-> i]
    BY <1>3, <1>5 DEF Cuts
  <2>1. PICK e \in (i + 1)..Last :
          from # NULL /\ e # Last /\ t = [mem |-> [m EXCEPT ![e] = NUL], save |-> e + 1, ret |-> i]
    BY <2>0
  <2>2. from \in Nat /\ Last \in Nat  BY <1>2, <2>1, BufferNumbers
  <2>3. i \in Nat  BY <2>2
  <2>4. e \in Buffer /\ e + 1 \in Buffer  BY <2>1, <2>2, <2>3, BufferNumbers
  <2>5. [m EXCEPT ![e] = NUL] \in [Buffer -> Kept]  BY <1>1, <2>4
  <2>6. [m EXCEPT ![e] = NUL][Last] = NUL  BY <1>1, BufferNumbers
  <2> QED BY <2>1, <2>4, <2>5, <2>6 DEF Held
<1> QED BY <1>4, <1>5

-----------------------------------------------------------------------------
(***************************************************************************)
(* Places in the ring of lines, modulo its size and modulo size_t.         *)
(***************************************************************************)
N == SCROLLBACK_LINES

LEMMA ModRange ==
  ASSUME NEW a \in Int, NEW n \in Nat \ {0}
  PROVE  /\ a % n \in 0..(n - 1)
         /\ a \div n \in Int
         /\ a = n * (a \div n) + (a % n)
OBVIOUS

LEMMA ModSmall ==
  ASSUME NEW n \in Nat \ {0}, NEW a \in 0..(n - 1)
  PROVE  a % n = a
BY ModRange

LEMMA Times ==
  ASSUME NEW n \in Nat \ {0}, NEW d \in Int, n * d < n, - n < n * d
  PROVE  d = 0
<1>1. d >= 1 => n * d >= n
  OBVIOUS
<1>2. d <= -1 => n * d <= - n
  OBVIOUS
<1> QED BY <1>1, <1>2

LEMMA Near ==
  ASSUME NEW a \in Int, NEW b \in Int, NEW n \in Nat \ {0},
         a % n = b % n, a - b < n, b - a < n
  PROVE  a = b
<1> DEFINE d == (a \div n) - (b \div n)
<1>1. d \in Int
  BY ModRange
<1>2. a - b = n * d
  BY ModRange
<1>3. d = 0
  BY <1>1, <1>2, Times
<1> QED BY <1>2, <1>3

LEMMA ModAdd ==
  ASSUME NEW a \in Int, NEW q \in Int, NEW n \in Nat \ {0}
  PROVE  (a + n * q) % n = a % n
<1> DEFINE b == a + n * q
           d == (b \div n) - (a \div n) - q
<1>1. b \in Int /\ d \in Int
  BY ModRange
<1>2. /\ a = n * (a \div n) + (a % n) /\ b = n * (b \div n) + (b % n)
      /\ a % n \in 0..(n - 1) /\ b % n \in 0..(n - 1)
      /\ a \div n \in Int /\ b \div n \in Int
  BY <1>1, ModRange
<1>3. n * d = n * (b \div n) - n * (a \div n) - n * q
  BY <1>2
<1>4. n * d = (a % n) - (b % n)
  BY <1>2, <1>3
<1>5. n * d < n /\ - n < n * d
  BY <1>2, <1>4
<1>6. d = 0
  BY <1>1, <1>5, Times
<1> HIDE DEF d
<1>7. n * d = 0
  BY <1>6
<1> QED BY <1>2, <1>4, <1>7

LEMMA Sizes ==
  /\ N \in Nat \ {0} /\ SCREEN_HEIGHT \in Nat \ {0} /\ SCREEN_HEIGHT < N
  /\ WORD \in Nat \ {0} /\ MaxTail \in Nat /\ MaxTail + SCREEN_HEIGHT < WORD
<1>1. WORD \in Nat /\ MaxTail \in Nat /\ SCREEN_HEIGHT \in Nat \ {0}
      /\ MaxTail + SCREEN_HEIGHT < WORD \div 2
  BY TtyAssumption
<1>2. WORD \div 2 <= WORD /\ WORD # 0 /\ WORD \div 2 \in Nat
  BY <1>1
<1>3. N \in Nat /\ SCREEN_HEIGHT < N
  BY TtyAssumption DEF N
<1> QED BY <1>1, <1>2, <1>3

LEMMA SizeIs ==
  ASSUME NEW a \in 0..MaxTail
  PROVE  size(a) = a
<1>1. a \in 0..(WORD - 1)
  BY Sizes
<1> QED BY <1>1, Sizes, ModSmall DEF size

\* A place in the ring is the same before and after size_t wraps around.
LEMMA RingSize ==
  ASSUME NEW a \in Int
  PROVE  size(a) \in Nat /\ ring(size(a)) = a % N
<1> DEFINE k == WORD \div N
           q == a \div WORD
<1>1. k \in Int /\ WORD = N * k
  <2>1. WORD % N = 0
    BY TtyAssumption DEF N
  <2> QED BY <2>1, Sizes, ModRange
<1>2. size(a) \in Nat /\ q \in Int /\ a = WORD * q + size(a)
  BY Sizes, ModRange DEF size
<1> HIDE DEF k, q
<1> DEFINE m == -(k * q)
<1>3. m \in Int /\ WORD * q \in Int
  BY <1>1, <1>2, Sizes
<1>4. N * m = - (WORD * q)
  BY <1>1, <1>2, Sizes
<1>5. size(a) = a + N * m
  BY <1>2, <1>3, <1>4
<1> HIDE DEF m
<1>6. (a + N * m) % N = a % N
  BY <1>3, Sizes, ModAdd
<1> QED BY <1>2, <1>5, <1>6 DEF ring, N

LEMMA RingApart ==
  ASSUME NEW a \in Int, NEW b \in Int, ring(size(a)) = ring(size(b)),
         a - b < N, b - a < N
  PROVE  a = b
BY RingSize, Near, Sizes

-----------------------------------------------------------------------------
(***************************************************************************)
(* The console.                                                            *)
(***************************************************************************)
LEMMA LineTypes ==
  ASSUME NEW t \in Console
  PROVE  BlankLine(t) \in Line /\ \A src \in Nat : line_source(t, src) \in Line
<1>1. BlankLine(t) \in Line
  <2>1. t.color \in Colors  BY DEF Console
  <2> QED BY <2>1 DEF BlankLine, Line, Cell
<1>2. ASSUME NEW src \in Nat PROVE line_source(t, src) \in Line
  <2>1. ring(src) \in Ring  BY Sizes, ModRange DEF ring, Ring, N
  <2>2. t.scrollbuf \in [Ring -> Line]  BY DEF Console
  <2> QED BY <1>1, <2>1, <2>2 DEF line_source
<1> QED BY <1>1, <1>2

LEMMA StartType ==
  ASSUME NEW t \in Console
  PROVE  start_line(t) \in Nat /\ cursor_row(t) \in Rows
<1>1. t.tail_line \in Nat /\ t.view_offset \in Nat  BY DEF Console
<1> DEFINE e == size(t.tail_line - t.view_offset)
<1>2. e \in Nat  BY <1>1, RingSize
<1> HIDE DEF e
<1>3. start_line(t) = IF e >= SCREEN_HEIGHT - 1 THEN e - (SCREEN_HEIGHT - 1) ELSE 0
  BY DEF start_line, e
<1>4. start_line(t) \in Nat  BY <1>2, <1>3, Sizes
<1>5. cursor_row(t) \in Rows  BY <1>1, <1>4, Sizes DEF cursor_row, Rows
<1> QED BY <1>4, <1>5

LEMMA BlitType == ASSUME NEW t \in Console PROVE blit_view(t) \in Console
<1> DEFINE f == [r \in Rows |-> line_source(t, size(start_line(t) + r))]
           u == [t EXCEPT !.screen = f, !.cursor_on = (t.view_offset = 0)]
<1>1. f \in [Rows -> Line]
  <2> SUFFICES ASSUME NEW r \in Rows PROVE line_source(t, size(start_line(t) + r)) \in Line
    OBVIOUS
  <2>1. start_line(t) + r \in Int  BY StartType DEF Rows
  <2>2. size(start_line(t) + r) \in Nat  BY <2>1, RingSize
  <2> QED BY <2>2, LineTypes
<1> HIDE DEF f
<1>2. u \in Console  BY <1>1 DEF Console
<1>3. t.x \in 0..SCREEN_WIDTH /\ cursor_row(t) \in Rows  BY StartType DEF Console
<1> HIDE DEF u
<1>4. set_cursor(u, t.x, cursor_row(t)) \in Console  BY <1>2, <1>3 DEF set_cursor, Console
<1>5. blit_view(t) = IF t.view_offset = 0 THEN set_cursor(u, t.x, cursor_row(t)) ELSE u
  BY DEF blit_view, u, f
<1> QED BY <1>2, <1>4, <1>5

\* Between two calls, but for the caret behind the last column: the numbers of
\* lines agree, and at the bottom the screen shows the last lines of the ring.
Base(t) ==
    /\ t \in Console /\ t.tail_line <= MaxTail
    /\ t.sb_count = IF t.tail_line + 1 < N THEN t.tail_line + 1 ELSE N

Mirrors(t) ==
    t.view_offset = 0 /\ t.tail_line >= SCREEN_HEIGHT - 1 =>
      \A r \in Rows : t.screen[r] = t.scrollbuf[ring(line_for_view_y(t, r))]

Whole(t) == Base(t) /\ Mirrors(t)
Good(t)  == Whole(t) /\ t.x \in Cols

SameText(t, u) ==
    u.x = t.x /\ u.y = t.y /\ u.tail_line = t.tail_line /\ u.scrollbuf = t.scrollbuf

LEMMA BaseNumbers ==
  ASSUME NEW t, Base(t)
  PROVE  /\ t.tail_line \in 0..MaxTail /\ t.view_offset \in Nat /\ t.y \in Rows
         /\ t.x \in 0..SCREEN_WIDTH /\ t.sb_count \in Nat \ {0}
         /\ t.color \in Colors
         /\ t.scrollbuf \in [Ring -> Line] /\ t.screen \in [Rows -> Line]
<1>1. t.tail_line \in Nat /\ t.tail_line <= MaxTail  BY DEF Base, Console
<1>2. t.sb_count \in Nat \ {0}  BY <1>1, Sizes DEF Base
<1> QED BY <1>1, <1>2, Sizes DEF Base, Console

\* Which line of the text a row shows, once the text has filled a screen.
LEMMA RowLine ==
  ASSUME NEW t, t.tail_line \in 0..MaxTail, t.tail_line >= SCREEN_HEIGHT - 1, NEW r \in Rows
  PROVE  /\ line_for_view_y(t, r) = t.tail_line - (SCREEN_HEIGHT - 1) + r
         /\ line_for_view_y(t, r) \in 0..t.tail_line
<1> DEFINE a == t.tail_line
<1>1. r \in 0..(SCREEN_HEIGHT - 1)  BY DEF Rows
<1>2. a - ((SCREEN_HEIGHT - 1) - r) = a - (SCREEN_HEIGHT - 1) + r  BY <1>1, Sizes
<1>3. a - (SCREEN_HEIGHT - 1) + r \in 0..MaxTail /\ a - (SCREEN_HEIGHT - 1) + r <= a
  BY <1>1, Sizes
<1> QED BY <1>2, <1>3, SizeIs DEF line_for_view_y

LEMMA BlitKeeps ==
  ASSUME NEW t \in Console
  PROVE  /\ SameText(t, blit_view(t)) /\ blit_view(t).view_offset = t.view_offset
         /\ blit_view(t).sb_count = t.sb_count
         /\ \A r \in Rows : blit_view(t).screen[r] = line_source(t, size(start_line(t) + r))
<1> DEFINE f == [r \in Rows |-> line_source(t, size(start_line(t) + r))]
<1>1. \A r \in Rows : f[r] = line_source(t, size(start_line(t) + r))  OBVIOUS
<1>2. /\ SameText(t, blit_view(t)) /\ blit_view(t).view_offset = t.view_offset
      /\ blit_view(t).sb_count = t.sb_count /\ blit_view(t).screen = f
  <2>1. blit_view(t) =
          LET u == [t EXCEPT !.screen = f, !.cursor_on = (t.view_offset = 0)]
          IN  IF t.view_offset = 0 THEN set_cursor(u, t.x, cursor_row(t)) ELSE u
    BY DEF blit_view
  <2> HIDE DEF f
  <2> QED BY <2>1 DEF set_cursor, Console, SameText
<1> QED BY <1>1, <1>2

LEMMA Redraw ==
  ASSUME NEW t, Base(t)
  PROVE  Whole(blit_view(t)) /\ SameText(t, blit_view(t))
         /\ blit_view(t).view_offset = t.view_offset
<1> DEFINE v == blit_view(t)
           a == t.tail_line
           H == SCREEN_HEIGHT
<1>1. v \in Console  BY BlitType DEF Base
<1>2. /\ SameText(t, v) /\ v.view_offset = t.view_offset /\ v.sb_count = t.sb_count
      /\ \A r \in Rows : v.screen[r] = line_source(t, size(start_line(t) + r))
  BY BlitKeeps DEF Base
<1> HIDE DEF v
<1>3. Base(v)  BY <1>1, <1>2 DEF Base, SameText
<1>4. ASSUME t.view_offset = 0, a >= H - 1, NEW r \in Rows
      PROVE  v.screen[r] = t.scrollbuf[ring(line_for_view_y(t, r))]
  <2>1. a \in 0..MaxTail  BY BaseNumbers
  <2>2. size(a - 0) = a  BY <2>1, SizeIs
  <2>3. start_line(t) = a - (H - 1)  BY <1>4, <2>2 DEF start_line
  <2> DEFINE n == line_for_view_y(t, r)
  <2>4. n = a - (H - 1) + r /\ n \in 0..a  BY <1>4, <2>1, RowLine
  <2> HIDE DEF n
  <2>5. size(n) = n /\ n \in Nat  BY <2>1, <2>4, SizeIs, Sizes
  <2>6. v.screen[r] = line_source(t, n)  BY <1>2, <2>3, <2>4, <2>5
  <2>7. t.sb_count # 0 /\ ~(n > a)  BY <2>1, <2>4, BaseNumbers
  <2>8. a + 1 - t.sb_count \in 0..MaxTail /\ a + 1 - t.sb_count <= n
    <3>1. r \in Nat /\ H \in Nat /\ H < N /\ N \in Nat  BY Sizes DEF Rows
    <3>2. t.sb_count = IF a + 1 < N THEN a + 1 ELSE N  BY DEF Base
    <3> HIDE DEF a, H
    <3> QED BY <1>4, <2>1, <2>4, <3>1, <3>2, Sizes
  <2>9. ~(n < oldest(t))  BY <2>1, <2>5, <2>7, <2>8, SizeIs DEF oldest
  <2> QED BY <2>6, <2>7, <2>9 DEF line_source, n
<1>5. Mirrors(v)
  <2> SUFFICES ASSUME v.view_offset = 0, v.tail_line >= SCREEN_HEIGHT - 1, NEW r \in Rows
               PROVE  v.screen[r] = v.scrollbuf[ring(line_for_view_y(v, r))]
    BY DEF Mirrors
  <2> QED BY <1>2, <1>4 DEF SameText, line_for_view_y
<1> QED BY <1>2, <1>3, <1>5 DEF Whole, v

LEMMA Follow ==
  ASSUME NEW t, Whole(t)
  PROVE  LET u == follow_bottom_if_scrolled(t)
         IN  Whole(u) /\ SameText(t, u) /\ u.view_offset = 0
<1>1. CASE t.view_offset = 0
  BY <1>1 DEF follow_bottom_if_scrolled, SameText
<1>2. CASE t.view_offset # 0
  <2> DEFINE w == [t EXCEPT !.view_offset = 0]
  <2>1. Base(w) /\ SameText(t, w) /\ w.view_offset = 0  BY DEF Whole, Base, Console, SameText
  <2>2. follow_bottom_if_scrolled(t) = blit_view(w)  BY <1>2 DEF follow_bottom_if_scrolled
  <2> HIDE DEF w
  <2>3. /\ Whole(blit_view(w)) /\ SameText(w, blit_view(w))
        /\ blit_view(w).view_offset = w.view_offset
    BY <2>1, Redraw
  <2> QED BY <2>1, <2>2, <2>3 DEF SameText
<1> QED BY <1>1, <1>2

\* What is put in a cell.
Put(t, u, x, c) ==
    /\ u.x = t.x /\ u.y = t.y /\ u.tail_line = t.tail_line
    /\ u.scrollbuf = [t.scrollbuf EXCEPT ![ring(line_for_view_y(t, t.y))][x] = c]

LEMMA RingType == ASSUME NEW a \in Int PROVE ring(size(a)) \in Ring
BY RingSize, ModRange, Sizes DEF Ring, N

LEMMA PutcellIs ==
  ASSUME NEW t, Whole(t), t.view_offset = 0, NEW x \in Cols, NEW c \in Cell
  PROVE  LET u == putcell(t, x, t.y, c)
         IN  Whole(u) /\ u.view_offset = 0 /\ Put(t, u, x, c)
<1> DEFINE y == t.y
           i == ring(line_for_view_y(t, y))
           u == putcell(t, x, y, c)
<1>1. /\ t \in Console /\ t.sb_count # 0 /\ y \in Rows /\ t.tail_line \in 0..MaxTail
      /\ t.scrollbuf \in [Ring -> Line] /\ t.screen \in [Rows -> Line]
  BY BaseNumbers DEF Whole, Base
<1>2. i \in Ring
  <2>1. t.tail_line - ((SCREEN_HEIGHT - 1) - y) \in Int  BY <1>1, Sizes DEF Rows
  <2> QED BY <2>1, RingType DEF line_for_view_y
<1>3. u = [t EXCEPT !.scrollbuf[i][x] = c, !.screen[y][x] = c]
  BY <1>1 DEF putcell
<1> HIDE DEF u, i
<1>4. /\ u.x = t.x /\ u.y = t.y /\ u.tail_line = t.tail_line /\ u.sb_count = t.sb_count
      /\ u.view_offset = t.view_offset
      /\ u.scrollbuf = [t.scrollbuf EXCEPT ![i][x] = c]
      /\ u.screen = [t.screen EXCEPT ![y][x] = c]
  BY <1>1, <1>3 DEF Console
<1>5. /\ [t.scrollbuf EXCEPT ![i][x] = c] \in [Ring -> Line]
      /\ [t.screen EXCEPT ![y][x] = c] \in [Rows -> Line]
  BY <1>1, <1>2 DEF Line
<1>6. u \in Console  BY <1>1, <1>3, <1>5 DEF Console
<1>7. Base(u)  BY <1>4, <1>6 DEF Whole, Base
<1>8. ASSUME t.tail_line >= SCREEN_HEIGHT - 1, NEW r \in Rows
      PROVE  u.screen[r] = u.scrollbuf[ring(line_for_view_y(u, r))]
  <2> DEFINE j == ring(line_for_view_y(t, r))
  <2>1. line_for_view_y(u, r) = line_for_view_y(t, r)  BY <1>4 DEF line_for_view_y
  <2>2. t.screen[r] = t.scrollbuf[j]  BY <1>8 DEF Whole, Mirrors
  <2>3. j \in Ring
    <3>1. t.tail_line - ((SCREEN_HEIGHT - 1) - r) \in Int  BY <1>1, Sizes DEF Rows
    <3> QED BY <3>1, RingType DEF line_for_view_y
  <2>4. r = y => j = i  BY DEF i
  <2>5. r # y => j # i
    <3>1. r \in 0..(SCREEN_HEIGHT - 1) /\ y \in 0..(SCREEN_HEIGHT - 1)  BY <1>1 DEF Rows
    <3> DEFINE l == t.tail_line
               a == l - ((SCREEN_HEIGHT - 1) - r)
               b == l - ((SCREEN_HEIGHT - 1) - y)
    <3>2. a \in Int /\ b \in Int /\ a - b < N /\ b - a < N /\ (a = b => r = y)
      <4>1. l \in Nat  BY <1>1, Sizes
      <4> HIDE DEF l, y
      <4> QED BY <3>1, <4>1, Sizes
    <3>3. j = ring(size(a)) /\ i = ring(size(b))  BY DEF i, line_for_view_y
    <3> HIDE DEF a, b, i, j
    <3> QED BY <3>2, <3>3, RingApart
  <2> HIDE DEF i, j
  <2>6. CASE r = y
    <3>1. u.screen[r] = [t.screen[r] EXCEPT ![x] = c]  BY <1>1, <1>4, <2>6
    <3>2. u.scrollbuf[j] = [t.scrollbuf[j] EXCEPT ![x] = c]  BY <1>1, <1>4, <2>3, <2>4, <2>6
    <3> QED BY <2>1, <2>2, <3>1, <3>2 DEF j
  <2>7. CASE r # y
    <3>1. u.screen[r] = t.screen[r]  BY <1>1, <1>4, <2>7
    <3>2. u.scrollbuf[j] = t.scrollbuf[j]  BY <1>1, <1>4, <2>3, <2>5, <2>7
    <3> QED BY <2>1, <2>2, <3>1, <3>2 DEF j
  <2> QED BY <2>6, <2>7
<1>9. Mirrors(u)  BY <1>4, <1>8 DEF Mirrors
<1> QED BY <1>4, <1>7, <1>9 DEF Whole, Put, u, i

LEMMA SetCursor ==
  ASSUME NEW t, Whole(t)
  PROVE  LET u == set_cursor(t, t.x, t.y)
         IN  Whole(u) /\ SameText(t, u) /\ u.view_offset = t.view_offset
<1> DEFINE u == set_cursor(t, t.x, t.y)
<1>1. t \in Console /\ t.x \in 0..SCREEN_WIDTH /\ t.y \in Rows  BY BaseNumbers DEF Whole, Base
<1>2. /\ u \in Console /\ SameText(t, u) /\ u.view_offset = t.view_offset
      /\ u.sb_count = t.sb_count /\ u.screen = t.screen
  BY <1>1 DEF set_cursor, Console, SameText
<1> HIDE DEF u
<1>3. Base(u)  BY <1>2 DEF Whole, Base, SameText
<1>4. Mirrors(u)  BY <1>2 DEF Whole, Mirrors, SameText, line_for_view_y
<1> QED BY <1>2, <1>3, <1>4 DEF Whole, u

LEMMA ClearLine ==
  ASSUME NEW t \in Console, NEW n \in Nat
  PROVE  LET u == sb_clear_line(t, n)
         IN  /\ u \in Console /\ u.x = t.x /\ u.y = t.y /\ u.tail_line = t.tail_line
             /\ u.sb_count = t.sb_count /\ u.view_offset = t.view_offset
             /\ u.color = t.color /\ u.scrollbuf = [t.scrollbuf EXCEPT ![ring(n)] = BlankLine(t)]
<1>1. ring(n) \in Ring  BY Sizes, ModRange DEF ring, Ring, N
<1>2. BlankLine(t) \in Line  BY LineTypes
<1>3. t.scrollbuf \in [Ring -> Line]  BY DEF Console
<1>4. [t.scrollbuf EXCEPT ![ring(n)] = BlankLine(t)] \in [Ring -> Line]  BY <1>1, <1>2, <1>3
<1> QED BY <1>4 DEF sb_clear_line, Console

LEMMA Advance ==
  ASSUME NEW t, Base(t), t.tail_line < MaxTail
  PROVE  LET u == advance_line(t)
         IN  /\ Base(u) /\ u.tail_line = t.tail_line + 1 /\ u.x = t.x
             /\ u.view_offset = t.view_offset
<1> DEFINE a == t.tail_line
           w == [t EXCEPT !.tail_line = @ + 1,
                          !.sb_count = IF @ < SCROLLBACK_LINES THEN @ + 1 ELSE @]
<1>1. t \in Console /\ a \in 0..MaxTail /\ t.sb_count \in Nat  BY BaseNumbers DEF Base
<1>2. /\ w.tail_line = a + 1 /\ w.x = t.x /\ w.view_offset = t.view_offset
      /\ w.sb_count = IF t.sb_count < N THEN t.sb_count + 1 ELSE t.sb_count
  BY <1>1 DEF Console, N
<1>3. w \in Console
  <2>1. t.tail_line + 1 \in Nat  BY <1>1, Sizes
  <2>2. (IF t.sb_count < SCROLLBACK_LINES THEN t.sb_count + 1 ELSE t.sb_count) \in Nat
    BY <1>1
  <2> QED BY <1>1, <2>1, <2>2 DEF Console
<1>4. w.sb_count = IF w.tail_line + 1 < N THEN w.tail_line + 1 ELSE N
  <2>1. t.sb_count = IF a + 1 < N THEN a + 1 ELSE N  BY DEF Base
  <2> HIDE DEF a, w
  <2> QED BY <1>1, <1>2, <2>1, Sizes
<1>5. advance_line(t) = sb_clear_line(w, w.tail_line)  BY DEF advance_line
<1> HIDE DEF w
<1>6. w.tail_line \in Nat /\ w.tail_line <= MaxTail  BY <1>1, <1>2, Sizes
<1> DEFINE n == w.tail_line
           u == sb_clear_line(w, n)
<1>7. /\ u \in Console /\ u.x = w.x /\ u.tail_line = w.tail_line
      /\ u.sb_count = w.sb_count /\ u.view_offset = w.view_offset
  <2>1. n \in Nat  BY <1>6
  <2> HIDE DEF n
  <2> QED BY <1>3, <2>1, ClearLine
<1>8. Base(u)  BY <1>4, <1>6, <1>7 DEF Base
<1> QED BY <1>2, <1>5, <1>7, <1>8

LEMMA NextRow ==
  ASSUME NEW t, Whole(t), t.view_offset = 0, t.tail_line < MaxTail
  PROVE  LET u == next_row(t)
         IN  /\ Whole(u) /\ u.view_offset = 0 /\ u.x = t.x
             /\ u.tail_line \in {t.tail_line, t.tail_line + 1}
<1>1. CASE t.y < SCREEN_HEIGHT - 1
  <2> DEFINE u == [t EXCEPT !.y = @ + 1]
  <2>1. t \in Console /\ t.y \in Rows  BY BaseNumbers DEF Whole, Base
  <2>2. t.y + 1 \in Rows  BY <1>1, <2>1, Sizes DEF Rows
  <2>3. /\ u \in Console /\ u.x = t.x /\ u.view_offset = t.view_offset
        /\ u.tail_line = t.tail_line /\ u.sb_count = t.sb_count
        /\ u.screen = t.screen /\ u.scrollbuf = t.scrollbuf
    BY <2>1, <2>2 DEF Console
  <2>4. next_row(t) = u  BY <1>1 DEF next_row
  <2> HIDE DEF u
  <2>5. Base(u)  BY <2>3 DEF Whole, Base
  <2>6. Mirrors(u)  BY <2>3 DEF Whole, Mirrors, line_for_view_y
  <2> QED BY <2>3, <2>4, <2>5, <2>6 DEF Whole
<1>2. CASE ~(t.y < SCREEN_HEIGHT - 1)
  <2> DEFINE u == advance_line(t)
  <2>1. next_row(t) = blit_view(u)  BY <1>2 DEF next_row
  <2>2. /\ Base(u) /\ u.tail_line = t.tail_line + 1 /\ u.x = t.x
        /\ u.view_offset = t.view_offset
    BY Advance DEF Whole
  <2> HIDE DEF u
  <2>3. /\ Whole(blit_view(u)) /\ SameText(u, blit_view(u))
        /\ blit_view(u).view_offset = u.view_offset
    BY <2>2, Redraw
  <2> QED BY <2>1, <2>2, <2>3 DEF SameText
<1> QED BY <1>1, <1>2

LEMMA Widths == SCREEN_WIDTH \in Nat \ {0} /\ 0 \in Cols /\ Cols = 0..(SCREEN_WIDTH - 1)
<1>1. SCREEN_WIDTH \in Nat \ {0}  BY TtyAssumption
<1> QED BY <1>1 DEF Cols

LEMMA Wrap ==
  ASSUME NEW t, Whole(t), t.view_offset = 0, t.x = SCREEN_WIDTH => t.tail_line < MaxTail
  PROVE  LET u == wrap(t)
         IN  /\ Good(u) /\ u.view_offset = 0
             /\ u.tail_line \in {t.tail_line, t.tail_line + 1}
             /\ t.x # SCREEN_WIDTH => u = t
<1>1. t.x \in 0..SCREEN_WIDTH /\ t \in Console  BY BaseNumbers DEF Whole, Base
<1>2. CASE t.x # SCREEN_WIDTH
  <2>1. wrap(t) = t  BY <1>1, <1>2, Widths DEF wrap
  <2>2. t.x \in Cols  BY <1>1, <1>2, Widths
  <2> QED BY <2>1, <2>2 DEF Good
<1>3. CASE t.x = SCREEN_WIDTH
  <2> DEFINE w == [t EXCEPT !.x = 0]
  <2>1. /\ w \in Console /\ w.x = 0 /\ w.view_offset = t.view_offset
        /\ w.tail_line = t.tail_line /\ w.sb_count = t.sb_count
        /\ w.screen = t.screen /\ w.scrollbuf = t.scrollbuf
    <3>1. 0 \in 0..SCREEN_WIDTH  BY Widths
    <3> QED BY <1>1, <3>1 DEF Console
  <2>2. wrap(t) = next_row(w)
    <3>1. t.x >= SCREEN_WIDTH  BY <1>3, Widths
    <3> QED BY <3>1 DEF wrap
  <2> HIDE DEF w
  <2>3. Whole(w)  BY <2>1 DEF Whole, Base, Mirrors, line_for_view_y
  <2>4. /\ Whole(next_row(w)) /\ next_row(w).view_offset = 0 /\ next_row(w).x = w.x
        /\ next_row(w).tail_line \in {w.tail_line, w.tail_line + 1}
    BY <1>3, <2>1, <2>3, NextRow
  <2> QED BY <1>3, <2>1, <2>2, <2>4, Widths DEF Good
<1> QED BY <1>2, <1>3

LEMMA Finish ==
  ASSUME NEW t, Whole(t), t.view_offset = 0, t.x = SCREEN_WIDTH => t.tail_line < MaxTail
  PROVE  LET u == finish(t)
         IN  /\ Good(u) /\ u.view_offset = 0
             /\ u.tail_line \in {t.tail_line, t.tail_line + 1}
             /\ t.x # SCREEN_WIDTH => SameText(t, u)
<1> DEFINE w == wrap(t)
<1>1. /\ Good(w) /\ w.view_offset = 0 /\ w.tail_line \in {t.tail_line, t.tail_line + 1}
      /\ t.x # SCREEN_WIDTH => w = t
  BY Wrap
<1>2. finish(t) = set_cursor(w, w.x, w.y)  BY DEF finish
<1> HIDE DEF w
<1>3. LET u == set_cursor(w, w.x, w.y)
      IN  Whole(u) /\ SameText(w, u) /\ u.view_offset = w.view_offset
  BY <1>1, SetCursor DEF Good
<1> QED BY <1>1, <1>2, <1>3 DEF Good, SameText

LEMMA GoodFinish ==
  ASSUME NEW t, Good(t), t.view_offset = 0
  PROVE  Good(finish(t)) /\ SameText(t, finish(t)) /\ finish(t).view_offset = 0
<1>1. t.x # SCREEN_WIDTH  BY Widths DEF Good
<1> QED BY <1>1, Finish DEF Good

\* One character, ch, is put in column x of the caret's line, and no row left.
Writes(t, u, x, ch) ==
    /\ u.y = t.y /\ u.tail_line = t.tail_line
    /\ \E color \in Colors :
         u.scrollbuf = [t.scrollbuf EXCEPT ![ring(caret_line(t))][x] = <<ch, color>>]

Glyphs == Chars \cup {" "}

LEMMA PrintIs ==
  ASSUME NEW t, Good(t), t.x + 1 = SCREEN_WIDTH => t.tail_line < MaxTail, NEW ch \in Glyphs
  PROVE  LET u == print(t, ch)
         IN  /\ Good(u) /\ u.view_offset = 0
             /\ u.tail_line \in {t.tail_line, t.tail_line + 1}
             /\ t.x + 1 # SCREEN_WIDTH => u.x = t.x + 1 /\ Writes(t, u, t.x, ch)
<1> DEFINE f == follow_bottom_if_scrolled(t)
           w == wrap(f)
           p == putchr(w, ch)
           q == [p EXCEPT !.x = @ + 1]
<1>1. /\ Whole(f) /\ SameText(t, f) /\ f.view_offset = 0  BY Follow DEF Good
<1>2. t.x \in Cols /\ t.x \in Nat /\ t.x < SCREEN_WIDTH  BY Widths DEF Good
<1>3. w = f
  <2>1. f.x # SCREEN_WIDTH  BY <1>1, <1>2, Widths DEF SameText
  <2> HIDE DEF f
  <2> QED BY <1>1, <2>1, Wrap
<1>4. print(t, ch) = finish(q)  BY DEF print
<1> HIDE DEF w, f
<1> DEFINE c == <<ch, f.color>>
<1>5. /\ f.color \in Colors /\ f.x = t.x /\ f.y = t.y /\ f.tail_line = t.tail_line
      /\ f.scrollbuf = t.scrollbuf /\ c \in Cell
  BY <1>1, BaseNumbers DEF Whole, SameText, Cell, Glyphs
<1>6. p = putcell(f, t.x, f.y, c)  BY <1>3, <1>5 DEF putchr
<1>7. Whole(p) /\ p.view_offset = 0 /\ Put(f, p, t.x, c)
  <2> HIDE DEF c, p
  <2> QED BY <1>1, <1>2, <1>5, <1>6, PutcellIs
<1>8. ring(line_for_view_y(f, f.y)) = ring(caret_line(t))
  BY <1>5 DEF caret_line, line_for_view_y
<1>9. /\ p.x = t.x /\ p.y = t.y /\ p.tail_line = t.tail_line
      /\ p.scrollbuf = [t.scrollbuf EXCEPT ![ring(caret_line(t))][t.x] = c]
  BY <1>5, <1>7, <1>8 DEF Put
<1> HIDE DEF p
<1>10. /\ q \in Console /\ q.x = t.x + 1 /\ q.y = p.y /\ q.tail_line = p.tail_line
       /\ q.sb_count = p.sb_count /\ q.view_offset = p.view_offset
       /\ q.screen = p.screen /\ q.scrollbuf = p.scrollbuf
  <2>1. p \in Console  BY <1>7 DEF Whole, Base
  <2>2. p.x + 1 \in 0..SCREEN_WIDTH /\ p.x + 1 = t.x + 1  BY <1>2, <1>9, Widths
  <2> QED BY <2>1, <2>2 DEF Console
<1> HIDE DEF q
<1>11. Whole(q)  BY <1>7, <1>10 DEF Whole, Base, Mirrors, line_for_view_y
<1>12. q.x = SCREEN_WIDTH => q.tail_line < MaxTail  BY <1>9, <1>10
<1> DEFINE u == finish(q)
<1>13. /\ Good(u) /\ u.view_offset = 0 /\ u.tail_line \in {q.tail_line, q.tail_line + 1}
       /\ q.x # SCREEN_WIDTH => SameText(q, u)
  BY <1>7, <1>10, <1>11, <1>12, Finish
<1> HIDE DEF u
<1>14. ASSUME t.x + 1 # SCREEN_WIDTH PROVE u.x = t.x + 1 /\ Writes(t, u, t.x, ch)
  <2>1. SameText(q, u)  BY <1>10, <1>13, <1>14
  <2>2. /\ u.x = t.x + 1 /\ u.y = t.y /\ u.tail_line = t.tail_line
        /\ u.scrollbuf = [t.scrollbuf EXCEPT ![ring(caret_line(t))][t.x] = c]
    BY <1>9, <1>10, <2>1 DEF SameText
  <2> QED BY <1>5, <2>2 DEF Writes
<1> QED BY <1>4, <1>9, <1>10, <1>13, <1>14 DEF u

\* The caret goes to column 0.
LEMMA Home ==
  ASSUME NEW t, Whole(t)
  PROVE  LET u == [t EXCEPT !.x = 0]
         IN  /\ Whole(u) /\ u.x = 0 /\ u.y = t.y /\ u.tail_line = t.tail_line
             /\ u.view_offset = t.view_offset /\ u.scrollbuf = t.scrollbuf
<1> DEFINE u == [t EXCEPT !.x = 0]
<1>1. t \in Console /\ 0 \in 0..SCREEN_WIDTH  BY Widths DEF Whole, Base
<1>2. /\ u \in Console /\ u.x = 0 /\ u.y = t.y /\ u.tail_line = t.tail_line
      /\ u.sb_count = t.sb_count /\ u.view_offset = t.view_offset
      /\ u.screen = t.screen /\ u.scrollbuf = t.scrollbuf
  BY <1>1 DEF Console
<1> HIDE DEF u
<1>3. Whole(u)  BY <1>2 DEF Whole, Base, Mirrors, line_for_view_y
<1> QED BY <1>2, <1>3 DEF u

LEMMA NewlineIs ==
  ASSUME NEW t, Good(t), t.tail_line < MaxTail
  PROVE  LET u == newline(t)
         IN  Good(u) /\ u.x = 0 /\ u.view_offset = 0
<1> DEFINE f == follow_bottom_if_scrolled(t)
           h == [f EXCEPT !.x = 0]
           r == next_row(h)
           u == finish(r)
<1>1. newline(t) = u  BY DEF newline
<1>2. Whole(f) /\ SameText(t, f) /\ f.view_offset = 0  BY Follow DEF Good
<1> HIDE DEF f
<1>3. Whole(h) /\ h.x = 0 /\ h.tail_line = t.tail_line /\ h.view_offset = 0
  BY <1>2, Home DEF SameText
<1> HIDE DEF h
<1>4. Whole(r) /\ r.x = 0 /\ r.view_offset = 0  BY <1>3, NextRow
<1> HIDE DEF r
<1>5. r.x # SCREEN_WIDTH  BY <1>4, Widths
<1>6. Good(u) /\ u.view_offset = 0 /\ SameText(r, u)  BY <1>4, <1>5, Finish
<1> QED BY <1>1, <1>4, <1>6 DEF SameText

LEMMA TabFits ==
  ASSUME NEW x \in Cols
  PROVE  TAB - (x % TAB) \in 1..4 /\ x + (TAB - (x % TAB)) <= SCREEN_WIDTH
<1>1. TAB \in 1..4 /\ SCREEN_WIDTH % TAB = 0 /\ SCREEN_WIDTH \in Nat  BY TtyAssumption
<1>2. x \in Nat /\ x < SCREEN_WIDTH  BY Widths
<1> DEFINE W == SCREEN_WIDTH
           q == x \div TAB
           k == W \div TAB
           r == x % TAB
           d == k - q
<1>3. TAB \in Nat \ {0} /\ x \in Int /\ W \in Int /\ W % TAB = 0 /\ x < W  BY <1>1, <1>2
<1>4. /\ q \in Int /\ r \in 0..(TAB - 1) /\ x = TAB * q + r
      /\ k \in Int /\ W = TAB * k
  <2> HIDE DEF W
  <2>1. q \in Int /\ r \in 0..(TAB - 1) /\ x = TAB * q + r  BY <1>3, ModRange
  <2>2. W \in Int /\ TAB \in Nat \ {0}  BY <1>3
  <2>3. k \in Int /\ W = TAB * k + (W % TAB)  BY <2>2, ModRange
  <2>4. W = TAB * k
    <3>1. W % TAB = 0  BY <1>3
    <3> DEFINE b == TAB * k
    <3>2. b \in Int  BY <2>2, <2>3
    <3>3. W = b + 0  BY <2>3, <3>1
    <3> HIDE DEF b
    <3>4. W = b  BY <3>2, <3>3
    <3> QED BY <3>4 DEF b
  <2> QED BY <2>1, <2>3, <2>4
<1> HIDE DEF W, q, k, r
<1>5. TAB * d = TAB * k - TAB * q /\ d \in Int  BY <1>3, <1>4
<1> HIDE DEF d
<1>6. W - x = TAB * d - r
  <2> DEFINE a == TAB * q
             b == TAB * k
             c == TAB * d
  <2>1. a \in Int /\ b \in Int /\ c = b - a /\ x = a + r /\ W = b /\ r \in Int
    BY <1>3, <1>4, <1>5
  <2> HIDE DEF a, b, c
  <2>2. W - x = c - r  BY <2>1
  <2> QED BY <2>2 DEF c
<1>7. (d <= 0 => TAB * d <= 0) /\ (d >= 1 => TAB * d >= TAB)  BY <1>3, <1>5
<1>8. TAB * d \in Int  BY <1>3, <1>5
<1>9. d >= 1  BY <1>3, <1>4, <1>5, <1>6, <1>7, <1>8
<1>10. TAB - r \in 1..4 /\ x + (TAB - r) <= W
  <2> DEFINE c == TAB * d
  <2>1. c \in Int /\ W - x = c - r /\ c >= TAB  BY <1>6, <1>7, <1>8, <1>9
  <2> HIDE DEF c
  <2> QED BY <1>1, <1>3, <1>4, <2>1
<1> QED BY <1>10 DEF W, r

\* A space of a tab that is not its last leaves the row as it is.
LEMMA SpaceIs ==
  ASSUME NEW t, Good(t), t.tail_line < MaxTail
  PROVE  LET u == print(t, " ")
         IN  /\ Good(u) /\ u.view_offset = 0 /\ u.tail_line \in {t.tail_line, t.tail_line + 1}
             /\ t.x + 1 # SCREEN_WIDTH => u.x = t.x + 1 /\ u.tail_line = t.tail_line
<1>1. " " \in Glyphs  BY DEF Glyphs
<1> QED BY <1>1, PrintIs DEF Writes

LEMMA TabIs ==
  ASSUME NEW t, Good(t), t.tail_line < MaxTail
  PROVE  Good(tab(t))
<1> DEFINE s0 == follow_bottom_if_scrolled(t)
           s1 == print(s0, " ")
           s2 == print(s1, " ")
           s3 == print(s2, " ")
           s4 == print(s3, " ")
           n == TAB - (s0.x % TAB)
           s == CASE n = 1 -> s1 [] n = 2 -> s2 [] n = 3 -> s3 [] OTHER -> s4
           W == SCREEN_WIDTH
<1>1. tab(t) = finish(s)  BY DEF tab
<1>2. Good(s0) /\ s0.x = t.x /\ s0.tail_line = t.tail_line /\ s0.view_offset = 0
  BY Follow DEF Good, SameText
<1> HIDE DEF s0
<1>3. n \in 1..4 /\ s0.x + n <= W  BY <1>2, TabFits DEF Good
<1>4. s0.x \in Nat /\ s0.tail_line < MaxTail /\ W \in Nat  BY <1>2, Widths DEF Good
<1>5. /\ Good(s1) /\ s1.view_offset = 0 /\ s1.tail_line \in {s0.tail_line, s0.tail_line + 1}
      /\ s0.x + 1 # W => s1.x = s0.x + 1 /\ s1.tail_line = s0.tail_line
  BY <1>2, <1>4, SpaceIs
<1> HIDE DEF s1, n, W
<1>6. CASE n = 1
  <2>1. s = s1  BY <1>6
  <2> QED BY <1>1, <1>5, <2>1, GoodFinish
<1>7. CASE n # 1
  <2>1. s0.x + 1 # W  BY <1>3, <1>4, <1>7
  <2>2. s1.x = s0.x + 1 /\ s1.tail_line < MaxTail  BY <1>4, <1>5, <2>1
  <2>3. /\ Good(s2) /\ s2.view_offset = 0 /\ s2.tail_line \in {s1.tail_line, s1.tail_line + 1}
        /\ s1.x + 1 # W => s2.x = s1.x + 1 /\ s2.tail_line = s1.tail_line
    BY <1>5, <2>2, SpaceIs DEF W
  <2> HIDE DEF s2
  <2>4. CASE n = 2
    <3>1. s = s2  BY <2>4
    <3> QED BY <1>1, <2>3, <3>1, GoodFinish
  <2>5. CASE n # 2
    <3>1. s1.x + 1 # W  BY <1>3, <1>4, <1>7, <2>2, <2>5
    <3>2. s2.x = s1.x + 1 /\ s2.tail_line < MaxTail  BY <2>2, <2>3, <3>1
    <3>3. /\ Good(s3) /\ s3.view_offset = 0 /\ s3.tail_line \in {s2.tail_line, s2.tail_line + 1}
          /\ s2.x + 1 # W => s3.x = s2.x + 1 /\ s3.tail_line = s2.tail_line
      BY <2>3, <3>2, SpaceIs DEF W
    <3> HIDE DEF s3
    <3>4. CASE n = 3
      <4>1. s = s3  BY <3>4
      <4> QED BY <1>1, <3>3, <4>1, GoodFinish
    <3>5. CASE n # 3
      <4>1. s2.x + 1 # W  BY <1>3, <1>4, <1>7, <2>2, <2>5, <3>2, <3>5
      <4>2. s3.tail_line < MaxTail  BY <3>2, <3>3, <4>1
      <4>3. Good(s4) /\ s4.view_offset = 0  BY <3>3, <4>2, SpaceIs
      <4> HIDE DEF s4
      <4>4. s = s4  BY <1>7, <2>5, <3>5
      <4> QED BY <1>1, <4>3, <4>4, GoodFinish
    <3> QED BY <3>4, <3>5
  <2> QED BY <2>4, <2>5
<1> QED BY <1>6, <1>7

\* The caret moved over cell (x, y), and a space put there.
LEMMA Blanks ==
  ASSUME NEW t, Whole(t), t.view_offset = 0, NEW x \in Cols, NEW y \in Rows
  PROVE  LET u == finish(putchr([t EXCEPT !.x = x, !.y = y], " "))
         IN  /\ Good(u) /\ u.x = x /\ u.view_offset = 0
             /\ y = t.y => Writes(t, u, x, " ")
<1> DEFINE w == [t EXCEPT !.x = x, !.y = y]
           p == putchr(w, " ")
           c == <<" ", w.color>>
<1>1. t \in Console /\ x \in 0..SCREEN_WIDTH /\ x # SCREEN_WIDTH  BY Widths DEF Whole, Base
<1>2. /\ w \in Console /\ w.x = x /\ w.y = y /\ w.tail_line = t.tail_line
      /\ w.sb_count = t.sb_count /\ w.view_offset = t.view_offset
      /\ w.screen = t.screen /\ w.scrollbuf = t.scrollbuf
  BY <1>1 DEF Console
<1> HIDE DEF w
<1>3. Whole(w)  BY <1>2 DEF Whole, Base, Mirrors, line_for_view_y
<1>4. w.color \in Colors /\ c \in Cell  BY <1>3, BaseNumbers DEF Whole, Cell
<1>5. p = putcell(w, x, w.y, c)  BY <1>2 DEF putchr
<1>6. Whole(p) /\ p.view_offset = 0 /\ Put(w, p, x, c)
  <2> HIDE DEF c, p
  <2> QED BY <1>2, <1>3, <1>4, <1>5, PutcellIs
<1> HIDE DEF p
<1>7. p.x = x /\ p.y = y /\ p.tail_line = t.tail_line  BY <1>2, <1>6 DEF Put
<1>8. Good(p)  BY <1>6, <1>7 DEF Good
<1>9. Good(finish(p)) /\ SameText(p, finish(p)) /\ finish(p).view_offset = 0
  BY <1>6, <1>8, GoodFinish
<1>10. y = t.y => Writes(t, finish(p), x, " ")
  <2> SUFFICES ASSUME y = t.y PROVE Writes(t, finish(p), x, " ")
    OBVIOUS
  <2>1. line_for_view_y(w, w.y) = caret_line(t)  BY <1>2 DEF caret_line, line_for_view_y
  <2>2. p.scrollbuf = [t.scrollbuf EXCEPT ![ring(caret_line(t))][x] = c]
    BY <1>2, <1>6, <2>1 DEF Put
  <2> QED BY <1>4, <1>7, <1>9, <2>2 DEF Writes, SameText
<1> QED BY <1>7, <1>9, <1>10 DEF SameText, p, w

LEMMA BackspaceIs ==
  ASSUME NEW t, Good(t)
  PROVE  LET u == backspace(t)
         IN  /\ Good(u)
             /\ t.x > 0 => u.x = t.x - 1 /\ Writes(t, u, t.x - 1, " ")
<1> DEFINE f == follow_bottom_if_scrolled(t)
           w == IF f.x > 0 THEN [f EXCEPT !.x = @ - 1]
                           ELSE [f EXCEPT !.x = SCREEN_WIDTH - 1, !.y = @ - 1]
           u == backspace(t)
<1>1. u = finish(IF f.x > 0 \/ f.y > 0 THEN putchr(w, " ") ELSE f)  BY DEF backspace
<1>2. Whole(f) /\ SameText(t, f) /\ f.view_offset = 0  BY Follow DEF Good
<1> HIDE DEF f, u
<1>3. /\ f \in Console /\ f.x \in Cols /\ f.y \in Rows /\ f.x = t.x /\ f.y = t.y
      /\ f.scrollbuf = t.scrollbuf /\ f.tail_line = t.tail_line
  BY <1>2, BaseNumbers DEF Whole, Base, SameText, Good
<1>4. f.x \in Nat /\ f.y \in Nat /\ SCREEN_WIDTH - 1 \in Cols
  BY <1>3, Widths DEF Rows
<1>5. CASE f.x > 0
  <2>1. f.x - 1 \in Cols  BY <1>3, <1>4, <1>5, Widths
  <2>2. w = [f EXCEPT !.x = f.x - 1, !.y = f.y]  BY <1>3, <1>5 DEF Console
  <2> HIDE DEF w
  <2> DEFINE x == f.x - 1
             v == finish(putchr([f EXCEPT !.x = x, !.y = f.y], " "))
  <2>3. u = v  BY <1>1, <1>5, <2>2
  <2>4. Good(v) /\ v.x = x /\ Writes(f, v, x, " ")
    <3>1. x \in Cols  BY <2>1
    <3> HIDE DEF x
    <3> QED BY <1>2, <1>3, <3>1, Blanks
  <2> HIDE DEF v
  <2>5. caret_line(f) = caret_line(t)  BY <1>3 DEF caret_line, line_for_view_y
  <2>6. Writes(t, v, x, " ")  BY <1>3, <2>4, <2>5 DEF Writes
  <2> QED BY <1>3, <2>3, <2>4, <2>6 DEF u
<1>6. CASE ~(f.x > 0) /\ f.y > 0
  <2> DEFINE x == SCREEN_WIDTH - 1
             y == f.y - 1
             v == finish(putchr([f EXCEPT !.x = x, !.y = y], " "))
  <2>1. y \in Rows  BY <1>3, <1>4, <1>6, Sizes DEF Rows
  <2>2. w = [f EXCEPT !.x = x, !.y = y]  BY <1>6
  <2> HIDE DEF w
  <2>3. u = v  BY <1>1, <1>6, <2>2
  <2>4. Good(v)
    <3> HIDE DEF x, y
    <3> QED BY <1>2, <1>4, <2>1, Blanks DEF x
  <2> QED BY <1>3, <1>6, <2>3, <2>4 DEF u
<1>7. CASE ~(f.x > 0) /\ ~(f.y > 0)
  <2>1. u = finish(f)  BY <1>1, <1>7
  <2>2. Good(f)  BY <1>2, <1>3 DEF Good
  <2> QED BY <1>2, <1>3, <1>7, <2>1, <2>2, GoodFinish DEF u
<1> QED BY <1>5, <1>6, <1>7 DEF u

LEMMA ClearIs ==
  ASSUME NEW t \in Console
  PROVE  Good(terminal_clear_screen(t)) /\ terminal_clear_screen(t).x = 0
<1> DEFINE s == [t EXCEPT !.tail_line = 0, !.sb_count = 1, !.view_offset = 0]
           u == sb_clear_line(s, 0)
           f == [r \in Rows |-> BlankLine(t)]
           v == [u EXCEPT !.screen = f, !.x = 0, !.y = 0, !.cursor_on = TRUE]
           w == set_cursor(v, 0, 0)
<1>1. terminal_clear_screen(t) = w  BY DEF terminal_clear_screen
<1>2. s \in Console /\ s.tail_line = 0 /\ s.sb_count = 1 /\ s.color = t.color /\ s.view_offset = 0
  BY DEF Console
<1> HIDE DEF s
<1>3. /\ u \in Console /\ u.tail_line = 0 /\ u.sb_count = 1 /\ u.view_offset = 0
      /\ u.scrollbuf = [s.scrollbuf EXCEPT ![ring(0)] = BlankLine(s)]
  BY <1>2, ClearLine
<1>4. BlankLine(s) = BlankLine(t)  BY <1>2 DEF BlankLine
<1>5. ring(0) \in Ring /\ s.scrollbuf \in [Ring -> Line]
  <2>1. ring(0) \in Ring  BY Sizes, ModRange DEF ring, Ring, N
  <2> QED BY <1>2, <2>1 DEF Console
<1>6. u.scrollbuf[ring(0)] = BlankLine(t)  BY <1>3, <1>4, <1>5
<1> HIDE DEF u
<1>7. f \in [Rows -> Line]  BY LineTypes
<1>8. 0 \in 0..SCREEN_WIDTH /\ 0 \in Rows  BY Sizes, Widths DEF Rows
<1>9. /\ v \in Console /\ v.x = 0 /\ v.tail_line = 0 /\ v.sb_count = 1 /\ v.view_offset = 0
      /\ v.screen = f /\ v.scrollbuf = u.scrollbuf
  <2> HIDE DEF f
  <2> QED BY <1>3, <1>7, <1>8 DEF Console
<1> HIDE DEF v
<1>10. /\ w \in Console /\ w.x = 0 /\ w.tail_line = 0 /\ w.sb_count = 1 /\ w.view_offset = 0
       /\ w.screen = f /\ w.scrollbuf = u.scrollbuf
  <2> HIDE DEF f
  <2> QED BY <1>8, <1>9 DEF Console, set_cursor
<1> HIDE DEF w
<1>11. Base(w)  BY <1>10, Sizes DEF Base
<1>12. ASSUME w.tail_line >= SCREEN_HEIGHT - 1, NEW r \in Rows
       PROVE  w.screen[r] = w.scrollbuf[ring(line_for_view_y(w, r))]
  <2>1. r = 0 /\ SCREEN_HEIGHT = 1  BY <1>10, <1>12, Sizes DEF Rows
  <2>2. line_for_view_y(w, r) = 0
    <3>1. 0 \in 0..MaxTail /\ 0 - ((1 - 1) - 0) = 0  BY Sizes
    <3> QED BY <1>10, <2>1, <3>1, SizeIs DEF line_for_view_y
  <2> QED BY <1>6, <1>10, <2>2
<1>13. Mirrors(w)  BY <1>12 DEF Mirrors
<1> QED BY <1>1, <1>10, <1>11, <1>13, Widths DEF Good, Whole

LEMMA InitGood == Init => Good(tty) /\ tty.x = 0
<1> SUFFICES ASSUME NEW color \in Colors, tty = terminal_clear_screen(Static(color))
             PROVE  Good(tty) /\ tty.x = 0
  BY DEF Init
<1>1. Static(color) \in Console
  <2>1. 0 \in 0..SCREEN_WIDTH /\ 0 \in Rows  BY Sizes, Widths DEF Rows
  <2>2. [x \in Cols |-> <<" ", color>>] \in Line  BY DEF Line, Cell
  <2> QED BY <2>1, <2>2 DEF Static, Console
<1> QED BY <1>1, ClearIs

LEMMA ColorIs ==
  ASSUME NEW t, Good(t), NEW color \in Colors
  PROVE  Good([t EXCEPT !.color = color])
<1> DEFINE u == [t EXCEPT !.color = color]
<1>1. t \in Console  BY DEF Good, Whole, Base
<1>2. /\ u \in Console /\ u.x = t.x /\ u.y = t.y /\ u.tail_line = t.tail_line
      /\ u.sb_count = t.sb_count /\ u.view_offset = t.view_offset
      /\ u.screen = t.screen /\ u.scrollbuf = t.scrollbuf
  BY <1>1 DEF Console
<1> HIDE DEF u
<1>3. Good(u)  BY <1>2 DEF Good, Whole, Base, Mirrors, line_for_view_y
<1> QED BY <1>3 DEF u

\* A scroll key moves the view only.
LEMMA ScrolledIs ==
  ASSUME NEW t, Good(t), NEW n \in Nat
  PROVE  LET u == blit_view([t EXCEPT !.view_offset = n]) IN Good(u) /\ SameText(t, u)
<1> DEFINE w == [t EXCEPT !.view_offset = n]
<1>1. t \in Console  BY DEF Good, Whole, Base
<1>2. Base(w) /\ SameText(t, w)  BY <1>1 DEF Good, Whole, Base, Console, SameText
<1> HIDE DEF w
<1>3. Whole(blit_view(w)) /\ SameText(w, blit_view(w))  BY <1>2, Redraw
<1> QED BY <1>2, <1>3 DEF Good, SameText, w

LEMMA ScrollIs ==
  ASSUME Good(tty), Scroll \/ ScrollHome \/ ScrollEnd
  PROVE  Good(tty') /\ SameText(tty, tty')
<1> DEFINE m == max_view_offset(tty)
<1>1. tty.view_offset \in Nat /\ m \in Nat
  BY BaseNumbers, Sizes DEF Good, Whole, max_view_offset
<1> HIDE DEF m
<1>2. CASE Scroll
  <2>1. PICK delta \in {-SCREEN_HEIGHT, -1, 1, SCREEN_HEIGHT} :
          tty' = scroll_apply_delta(tty, delta)
    BY <1>2 DEF Scroll
  <2> DEFINE n == clamp(tty.view_offset + delta, m)
  <2>2. n \in Nat
    <3>1. tty.view_offset + delta \in Int  BY <1>1, Sizes
    <3> QED BY <1>1, <3>1 DEF clamp
  <2>3. tty' = IF n # tty.view_offset THEN blit_view([tty EXCEPT !.view_offset = n]) ELSE tty
    BY <2>1 DEF scroll_apply_delta, m
  <2> HIDE DEF n
  <2> QED BY <2>2, <2>3, ScrolledIs DEF SameText
<1>3. CASE ScrollHome
  BY <1>1, <1>3, ScrolledIs DEF ScrollHome, terminal_scroll_home, m
<1>4. CASE ScrollEnd
  BY <1>4, ScrolledIs DEF ScrollEnd, terminal_scroll_end
<1> QED BY <1>2, <1>3, <1>4

-----------------------------------------------------------------------------
(***************************************************************************)
(* The types.                                                              *)
(***************************************************************************)
Codes == Chars \cup {" ", NL, TABCHAR, BS}

Buffered ==
    /\ input_buf \in [Buffer -> Kept] /\ input_buf[Last] = NUL
    /\ save \in Buffer \cup {NULL}

Typing ==
    /\ kbd \in Seq(Typed) /\ Len(kbd) <= KBD
    /\ todo \in Seq(Codes)
    /\ pc \in {"read", "command", "prompt"}

TInv == Good(tty) /\ Buffered /\ Typing

LEMMA Tuples ==
  ASSUME NEW S, NEW a \in S, NEW b \in S, NEW c \in S
  PROVE  /\ <<a>> \in Seq(S) /\ Head(<<a>>) = a /\ Tail(<<a>>) = <<>>
         /\ <<a, b>> \in Seq(S) /\ Head(<<a, b>>) = a /\ Tail(<<a, b>>) = <<b>>
         /\ <<a, b, c>> \in Seq(S) /\ Head(<<a, b, c>>) = a /\ Tail(<<a, b, c>>) = <<b, c>>
         /\ <<a>> # <<>> /\ <<a, b>> # <<>> /\ <<a, b, c>> # <<>>
OBVIOUS

LEMMA Cons ==
  ASSUME NEW S, NEW a \in S, NEW s \in Seq(S)
  PROVE  /\ <<a>> \o s \in Seq(S) /\ <<a>> \o s # <<>>
         /\ Head(<<a>> \o s) = a /\ Tail(<<a>> \o s) = s
OBVIOUS

LEMMA PromptIs ==
  /\ Prompt_ = <<">", " ">> /\ Prompt_[1] = ">" /\ Prompt_[2] = " " /\ Len(Prompt_) = 2
  /\ 2 + Last < SCREEN_WIDTH /\ ">" \in Glyphs /\ " " \in Glyphs
  /\ ">" \in Codes /\ " " \in Codes /\ NL \in Codes /\ BS \in Codes
  /\ Prompt_ \in Seq(Codes)
<1>1. Prompt_ = <<">", " ">> /\ Prompt_[1] = ">" /\ Prompt_[2] = " " /\ Len(Prompt_) = 2
  BY DEF Prompt_
<1>2. Len(Prompt_) + INPUT - 1 < SCREEN_WIDTH /\ ">" \in Chars
  BY ShellAssumption
<1>3. 2 + Last < SCREEN_WIDTH
  <2>1. 2 + INPUT - 1 < SCREEN_WIDTH  BY <1>1, <1>2
  <2> QED BY <2>1, BufferNumbers, Widths
<1>4. ">" \in Codes /\ " " \in Codes /\ NL \in Codes /\ BS \in Codes  BY <1>2 DEF Codes
<1>5. Prompt_ \in Seq(Codes)  BY <1>1, <1>4, Tuples
<1> QED BY <1>1, <1>2, <1>3, <1>4, <1>5 DEF Glyphs

LEMMA PutcGood ==
  ASSUME NEW t, Good(t), t.tail_line < MaxTail, NEW c \in Codes
  PROVE  Good(putc(t, c))
<1>0. NL # TABCHAR /\ NL # BS /\ TABCHAR # BS  BY DEF NL, TABCHAR, BS
<1>1. CASE c = NL  BY <1>0, <1>1, NewlineIs DEF putc
<1>2. CASE c = TABCHAR  BY <1>0, <1>2, TabIs DEF putc
<1>3. CASE c = BS  BY <1>0, <1>3, BackspaceIs DEF putc
<1>4. CASE c \notin {NL, TABCHAR, BS}
  <2>1. c \in Glyphs  BY <1>4 DEF Codes, Glyphs
  <2>2. putc(t, c) = print(t, c)  BY <1>4 DEF putc
  <2> QED BY <2>1, <2>2, PrintIs
<1> QED BY <1>1, <1>2, <1>3, <1>4

LEMMA InitTInv == ShellInit => TInv
<1> SUFFICES ASSUME ShellInit PROVE TInv
  OBVIOUS
<1>1. Good(tty)  BY InitGood DEF ShellInit
<1>2. Buffered  BY BufferNumbers DEF ShellInit, Buffered, Cleared, Kept
<1>3. KBD \in Nat  BY ShellAssumption
<1>4. /\ kbd = <<>> /\ todo = Prompt_ /\ pc = "read"  BY DEF ShellInit
<1>5. Typing
  <2>1. kbd \in Seq(Typed) /\ Len(kbd) = 0  BY <1>4
  <2>2. todo \in Seq(Codes)  BY <1>4, PromptIs
  <2> QED BY <1>3, <1>4, <2>1, <2>2 DEF Typing
<1> QED BY <1>1, <1>2, <1>5 DEF TInv

LEMMA TypedIs == Typed \subseteq Codes /\ NUL \notin Typed
BY ShellAssumption DEF Codes

LEMMA WriteTInv == ASSUME TInv, tty_write PROVE TInv'
<1>1. Head(todo) \in Codes /\ Tail(todo) \in Seq(Codes)
  BY DEF TInv, Typing, tty_write
<1>2. Good(tty')  BY <1>1, PutcGood DEF TInv, tty_write, Room
<1> QED BY <1>1, <1>2 DEF TInv, tty_write, Typing, Buffered

LEMMA EnterTInv ==
  ASSUME TInv, NEW ch, Enter(ch)
  PROVE  Buffered' /\ todo' \in Seq(Codes) /\ pc' \in {"command", "prompt"}
<1> DEFINE first == strtok(input_buf, save, 0, Delimiters)
           second == strtok(first.mem, first.save, NULL, Delimiters)
<1>1. /\ input_buf' = second.mem /\ save' = second.save
      /\ (pc' = "prompt" /\ todo' = <<>>) \/ (pc' = "command" /\ todo' = <<NL>>)
  BY DEF Enter
<1> DEFINE r == [mem |-> input_buf, save |-> save]
<1>2. Held(r) /\ r.mem = input_buf /\ r.save = save  BY DEF TInv, Buffered, Held
<1> HIDE DEF r
<1>3. Held(first)
  <2>1. 0 \in {NULL, 0}  OBVIOUS
  <2>2. Held(strtok(r.mem, r.save, 0, Delimiters))  BY <1>2, <2>1, StrtokHeld
  <2> QED BY <1>2, <2>2
<1> HIDE DEF first
<1>4. Held(second)  BY <1>3, StrtokHeld
<1> HIDE DEF second
<1>5. NL \in Codes  BY DEF Codes
<1>6. <<>> \in Seq(Codes) /\ <<NL>> \in Seq(Codes)  BY <1>5
<1> QED BY <1>1, <1>4, <1>6 DEF Buffered, Held

LEMMA EraseTInv ==
  ASSUME TInv, NEW ch, Erase(ch)
  PROVE  Buffered' /\ todo' \in Seq(Codes) /\ pc' = pc
<1>1. CASE L > 0
  <2>1. input_buf' = [input_buf EXCEPT ![L - 1] = NUL] /\ todo' = <<BS, " ", BS>>
        /\ save' = save /\ pc' = pc
    BY <1>1 DEF Erase
  <2>2. NUL \in Kept  BY DEF Kept
  <2>3. BS \in Codes /\ " " \in Codes  BY DEF Codes
  <2> DEFINE l == L
  <2> HIDE DEF l
  <2>4. [input_buf EXCEPT ![l - 1] = NUL] \in [Buffer -> Kept]
        /\ [input_buf EXCEPT ![l - 1] = NUL][Last] = NUL
    BY <2>2, BufferNumbers DEF TInv, Buffered
  <2>5. <<BS, " ", BS>> \in Seq(Codes)  BY <2>3, Tuples
  <2> QED BY <2>1, <2>4, <2>5 DEF l, TInv, Buffered
<1>2. CASE ~(L > 0)
  BY <1>2 DEF Erase, TInv, Buffered, Typing
<1> QED BY <1>1, <1>2

LEMMA StoreTInv ==
  ASSUME TInv, NEW ch \in Typed, Store(ch)
  PROVE  Buffered' /\ todo' \in Seq(Codes) /\ pc' = pc
<1>1. ch \in Kept /\ NUL \in Kept /\ ch \in Codes  BY TypedIs DEF Store, Kept
<1>2. L \in Nat
  <2>1. 0 \in Buffer /\ DOMAIN input_buf = Buffer /\ input_buf[Last] = NUL
    BY BufferNumbers DEF TInv, Buffered
  <2> QED BY <2>1, StrlenIs DEF L
<1> DEFINE l == L
           b == [input_buf EXCEPT ![l] = ch, ![l + 1] = NUL]
<1>3. /\ input_buf' = IF l + 1 < INPUT THEN b ELSE input_buf
      /\ todo' = <<ch>> /\ save' = save /\ pc' = pc
  BY DEF Store
<1>4. l \in Nat  BY <1>2
<1> HIDE DEF l
<1>5. l + 1 < INPUT => b \in [Buffer -> Kept] /\ b[Last] = NUL
  <2> SUFFICES ASSUME l + 1 < INPUT PROVE b \in [Buffer -> Kept] /\ b[Last] = NUL
    OBVIOUS
  <2>1. l # Last /\ Last \in Buffer  BY <1>4, BufferNumbers DEF Last
  <2>2. input_buf \in [Buffer -> Kept] /\ input_buf[Last] = NUL  BY DEF TInv, Buffered
  <2> QED BY <1>1, <2>1, <2>2
<1> HIDE DEF b
<1>6. <<ch>> \in Seq(Codes)  BY <1>1
<1> QED BY <1>3, <1>5, <1>6 DEF TInv, Buffered

LEMMA ReadTInv == ASSUME TInv, Read PROVE TInv'
<1>1. kbd # <<>> /\ kbd \in Seq(Typed) /\ Len(kbd) <= KBD /\ KBD \in Nat
  BY ShellAssumption DEF Read, CanRead, TInv, Typing
<1>2. /\ Head(kbd) \in Typed /\ Tail(kbd) \in Seq(Typed) /\ Len(Tail(kbd)) <= KBD
  BY <1>1
<1>3. Enter(Head(kbd)) \/ Erase(Head(kbd)) \/ Store(Head(kbd))  BY DEF Read
<1>4. Buffered' /\ todo' \in Seq(Codes) /\ pc' \in {"read", "command", "prompt"}
  BY <1>2, <1>3, EnterTInv, EraseTInv, StoreTInv DEF TInv, Typing
<1> QED BY <1>2, <1>4 DEF TInv, Typing, Read

LEMMA CutMoreType ==
  ASSUME TInv, NEW n \in {0, 1, 3}
  PROVE  /\ cut_more[n].mem \in [Buffer -> Kept] /\ cut_more[n].mem[Last] = NUL
         /\ cut_more[n].save \in Buffer \cup {NULL}
<1> DEFINE c0 == [mem |-> input_buf, save |-> save]
           c1 == strtok(c0.mem, c0.save, NULL, Delimiters)
           c2 == strtok(c1.mem, c1.save, NULL, Delimiters)
           c3 == strtok(c2.mem, c2.save, NULL, Delimiters)
           f == [i \in 0..3 |-> IF i = 0 THEN c0 ELSE IF i = 1 THEN c1
                                ELSE IF i = 2 THEN c2 ELSE c3]
<1>1. \E g : g = [i \in 0..3 |-> IF i = 0 THEN [mem |-> input_buf, save |-> save]
                ELSE strtok(g[i - 1].mem, g[i - 1].save, NULL, Delimiters)]
  <2>1. f[0] = c0 /\ f[1] = c1 /\ f[2] = c2 /\ f[3] = c3  OBVIOUS
  <2>2. c1 = strtok(c0.mem, c0.save, NULL, Delimiters)  OBVIOUS
  <2>3. c2 = strtok(c1.mem, c1.save, NULL, Delimiters)  OBVIOUS
  <2>4. c3 = strtok(c2.mem, c2.save, NULL, Delimiters)  OBVIOUS
  <2>5. f = [i \in 0..3 |-> f[i]]  OBVIOUS
  <2> HIDE DEF c0, c1, c2, c3, f
  <2>6. \A i \in 0..3 : f[i] = IF i = 0 THEN c0
                               ELSE strtok(f[i - 1].mem, f[i - 1].save, NULL, Delimiters)
    <3> TAKE i \in 0..3
    <3>1. i = 0 \/ i = 1 \/ i = 2 \/ i = 3  OBVIOUS
    <3>2. 1 - 1 = 0 /\ 2 - 1 = 1 /\ 3 - 1 = 2  OBVIOUS
    <3> QED BY <2>1, <2>2, <2>3, <2>4, <3>1, <3>2
  <2>7. f = [i \in 0..3 |-> IF i = 0 THEN c0
                            ELSE strtok(f[i - 1].mem, f[i - 1].save, NULL, Delimiters)]
    BY <2>5, <2>6
  <2> QED BY <2>7 DEF c0
<1>2. cut_more = [i \in 0..3 |-> IF i = 0 THEN [mem |-> input_buf, save |-> save]
                    ELSE strtok(cut_more[i - 1].mem, cut_more[i - 1].save, NULL, Delimiters)]
  BY <1>1 DEF cut_more
<1>3. cut_more[0] = c0 /\ Held(c0)  BY <1>2 DEF TInv, Buffered, Held
<1>4. cut_more[1] = strtok(cut_more[0].mem, cut_more[0].save, NULL, Delimiters)  BY <1>2
<1>5. cut_more[2] = strtok(cut_more[1].mem, cut_more[1].save, NULL, Delimiters)  BY <1>2
<1>6. cut_more[3] = strtok(cut_more[2].mem, cut_more[2].save, NULL, Delimiters)  BY <1>2
<1>7. Held(cut_more[0]) /\ Held(cut_more[1]) /\ Held(cut_more[2]) /\ Held(cut_more[3])
  BY <1>3, <1>4, <1>5, <1>6, StrtokHeld
<1> QED BY <1>7 DEF Held

LEMMA OutputTypes == Outputs \subseteq Seq(Codes)
BY ShellAssumption DEF Codes

LEMMA CommandTInv == ASSUME TInv, Command PROVE TInv'
<1>1. pc' = "prompt" /\ kbd' = kbd  BY DEF Command
<1>2. Good(tty) /\ Buffered /\ todo \in Seq(Codes)  BY DEF TInv, Typing
<1>3. CASE words[1] = COLOR /\ UNCHANGED <<input_buf, save>>
           /\ words[2] \in DOMAIN ColorArg /\ UNCHANGED todo
           /\ tty' = [tty EXCEPT !.color = ColorArg[words[2]]]
  <2>1. ColorArg[words[2]] \in Colors  BY <1>3, ShellAssumption
  <2>2. Good(tty')  BY <1>2, <1>3, <2>1, ColorIs
  <2> QED BY <1>1, <1>3, <2>2 DEF TInv, Typing, Buffered
<1>4. CASE UNCHANGED <<tty, input_buf, save>> /\ todo' \in Outputs
  <2>1. todo' \in Seq(Codes)  BY <1>4, OutputTypes
  <2> QED BY <1>1, <1>4, <2>1 DEF TInv, Typing, Buffered
<1>5. CASE tty' = terminal_clear_screen(tty) /\ UNCHANGED <<todo, input_buf, save>>
  <2>1. Good(tty')  BY <1>2, <1>5, ClearIs DEF Good, Whole, Base
  <2> QED BY <1>1, <1>5, <2>1 DEF TInv, Typing, Buffered
<1>6. CASE /\ UNCHANGED tty /\ todo' \in Outputs
           /\ \E n \in {0, 1, 3} : input_buf' = cut_more[n].mem /\ save' = cut_more[n].save
  <2>1. Buffered'
    <3>1. PICK n \in {0, 1, 3} : input_buf' = cut_more[n].mem /\ save' = cut_more[n].save
      BY <1>6
    <3> QED BY <3>1, CutMoreType DEF Buffered
  <2>2. todo' \in Seq(Codes)  BY <1>6, OutputTypes
  <2> QED BY <1>1, <1>6, <2>1, <2>2 DEF TInv, Typing
<1> QED BY <1>3, <1>4, <1>5, <1>6 DEF Command

LEMMA PromptClears ==
  ASSUME TInv, Prompt
  PROVE  input_buf' = Cleared /\ todo' = <<NL>> \o Prompt_ /\ todo' \in Seq(Codes)
<1>1. DOMAIN input_buf = Buffer  BY DEF TInv, Buffered
<1>2. Buffer = 0..(0 + INPUT - 1)  BY BufferNumbers DEF Buffer
<1>3. input_buf' = memset(input_buf, 0, NUL, INPUT) /\ todo' = <<NL>> \o Prompt_
  BY DEF Prompt
<1>4. input_buf' = Cleared  BY <1>1, <1>2, <1>3 DEF memset, Cleared
<1>5. <<NL>> \o Prompt_ \in Seq(Codes)  BY PromptIs, Cons
<1> QED BY <1>3, <1>4, <1>5

LEMMA PromptTInv == ASSUME TInv, Prompt PROVE TInv'
<1>1. input_buf' = Cleared /\ todo' \in Seq(Codes)  BY PromptClears
<1>2. Cleared \in [Buffer -> Kept] /\ Cleared[Last] = NUL  BY BufferNumbers DEF Cleared, Kept
<1> QED BY <1>1, <1>2 DEF TInv, Typing, Buffered, Prompt

LEMMA KeyTInv == ASSUME TInv, NEW c \in Typed, KeyIrq(c) PROVE TInv'
<1>1. kbd \in Seq(Typed) /\ Len(kbd) < KBD /\ KBD \in Nat /\ kbd' = Append(kbd, c)
  BY ShellAssumption DEF TInv, Typing, KeyIrq
<1>2. kbd' \in Seq(Typed) /\ Len(kbd') <= KBD  BY <1>1
<1> QED BY <1>2 DEF TInv, Typing, Buffered, KeyIrq, shell

LEMMA ScrollTInv == ASSUME TInv, ScrollIrq PROVE TInv'
<1>1. Good(tty')  BY ScrollIs DEF TInv, ScrollIrq
<1> QED BY <1>1 DEF TInv, Typing, Buffered, ScrollIrq, shell

LEMMA NextTInv == TInv /\ [ShellNext]_vars => TInv'
<1> SUFFICES ASSUME TInv, [ShellNext]_vars PROVE TInv'
  OBVIOUS
<1>1. CASE UNCHANGED vars
  BY <1>1 DEF TInv, Typing, Buffered, vars, shell
<1>2. CASE \E c \in Typed : KeyIrq(c)  BY <1>2, KeyTInv
<1>3. CASE ScrollIrq  BY <1>3, ScrollTInv
<1>4. CASE Loop
  BY <1>4, WriteTInv, ReadTInv, CommandTInv, PromptTInv DEF Loop
<1> QED BY <1>1, <1>2, <1>3, <1>4 DEF ShellNext

LEMMA TInvariance == ShellSpec => []TInv
<1> QED BY InitTInv, NextTInv, PTL DEF ShellSpec

\* The types.  In particular input_buf always holds a '\0', so that no strlen
\* and no strtok of the shell leaves it, strtok's saved place is in it, and the
\* caret has left the column behind the last when _putc returns.
THEOREM ShellTypes == ShellSpec => []ShellTypeOK
<1>1. TInv => ShellTypeOK
  <2> SUFFICES ASSUME TInv PROVE ShellTypeOK
    OBVIOUS
  <2>1. tty \in Console /\ tty.x \in Cols  BY DEF TInv, Good, Whole, Base
  <2>2. /\ input_buf \in [Buffer -> (Typed \ {NL, BS}) \cup {NUL}]
        /\ Last \in Buffer /\ input_buf[Last] = NUL
    BY BufferNumbers DEF TInv, Buffered, Kept
  <2> QED BY <2>1, <2>2 DEF TInv, Buffered, Typing, ShellTypeOK
<1> QED BY <1>1, TInvariance, PTL

-----------------------------------------------------------------------------
(***************************************************************************)
(* What stands on the caret's line.                                        *)
(***************************************************************************)
Row(t) == t.scrollbuf[ring(caret_line(t))]

Text(b, i) == IF i = 0 THEN ">" ELSE IF i = 1 THEN " " ELSE b[i - 2]

\* The first k characters of the prompt and the buffer stand there.
Standing(t, b, k) == \A i \in 0..(k - 1) : Row(t)[i][1] = Text(b, i)

LEMMA StandingWrites ==
  ASSUME NEW t, Good(t), NEW u, NEW x \in Cols, NEW ch, Writes(t, u, x, ch),
         NEW b, NEW k \in Nat, k <= x, Standing(t, b, k)
  PROVE  /\ Standing(u, b, k)
         /\ k = x /\ ch = Text(b, x) => Standing(u, b, x + 1)
<1>1. PICK color \in Colors :
        u.scrollbuf = [t.scrollbuf EXCEPT ![ring(caret_line(t))][x] = <<ch, color>>]
  BY DEF Writes
<1> DEFINE j == ring(caret_line(t))
<1>2. t.scrollbuf \in [Ring -> Line] /\ t.tail_line \in 0..MaxTail /\ t.y \in Rows
  BY BaseNumbers DEF Good, Whole
<1>3. j \in Ring
  <2>1. t.tail_line - ((SCREEN_HEIGHT - 1) - t.y) \in Int  BY <1>2, Sizes DEF Rows
  <2> QED BY <2>1, RingType DEF caret_line, line_for_view_y
<1>4. ring(caret_line(u)) = j  BY DEF Writes, caret_line, line_for_view_y
<1> HIDE DEF j
<1>5. u.scrollbuf[j] = [t.scrollbuf[j] EXCEPT ![x] = <<ch, color>>]
  BY <1>1, <1>2, <1>3 DEF j
<1>6. t.scrollbuf[j] \in [Cols -> Cell]  BY <1>2, <1>3 DEF Line
<1>7. Row(u) = [Row(t) EXCEPT ![x] = <<ch, color>>] /\ Row(t) \in [Cols -> Cell]
  BY <1>4, <1>5, <1>6 DEF Row, j
<1>8. Row(u)[x][1] = ch /\ \A i \in Cols : i # x => Row(u)[i] = Row(t)[i]
  BY <1>7
<1>9. x \in Nat /\ x < SCREEN_WIDTH /\ \A i \in 0..(k - 1) : i \in Cols /\ i # x /\ i < x
  BY Widths
<1>10. \A i \in 0..(k - 1) : Row(u)[i][1] = Text(b, i)
  BY <1>8, <1>9 DEF Standing
<1>11. ASSUME k = x, ch = Text(b, x) PROVE Standing(u, b, x + 1)
  <2> SUFFICES ASSUME NEW i \in 0..((x + 1) - 1) PROVE Row(u)[i][1] = Text(b, i)
    BY DEF Standing
  <2>1. i = x \/ i \in 0..(k - 1)  BY <1>9, <1>11
  <2> QED BY <1>8, <1>10, <1>11, <2>1
<1> QED BY <1>10, <1>11 DEF Standing

LEMMA StandingSame ==
  ASSUME NEW t, NEW u, SameText(t, u), NEW b, NEW k, Standing(t, b, k)
  PROVE  Standing(u, b, k)
BY DEF SameText, Standing, Row, caret_line, line_for_view_y

\* Between two interrupts of the loop: what is still to be put, where the caret
\* stands and what stands before it, for a buffer b of length l.
Asks(t, td) ==                        \* the prompt is under way
    \/ td = <<NL>> \o Prompt_
    \/ td = Prompt_ /\ t.x = 0

Waits(t, b, l, td) ==                 \* all is shown
    td = <<>> /\ t.x = 2 + l /\ Standing(t, b, 2 + l)

Echoes(t, b, l, td) ==                \* its last character is to be put
    /\ td = <<Text(b, 1 + l)>> /\ Text(b, 1 + l) \in Glyphs
    /\ t.x = 1 + l /\ Standing(t, b, 1 + l)

Erases(t, b, l, td) ==                \* what followed it is being erased
    /\ l < Last /\ Standing(t, b, 2 + l)
    /\ \/ td = <<BS, " ", BS>> /\ t.x = 3 + l
       \/ td = <<" ", BS>> /\ t.x = 2 + l
       \/ td = <<BS>> /\ t.x = 3 + l

Stage(t, b, l, td) ==
    \/ Asks(t, td) /\ l = 0
    \/ Waits(t, b, l, td)
    \/ Echoes(t, b, l, td)
    \/ Erases(t, b, l, td)

LineInv == /\ plain \in BOOLEAN
           /\ pc = "read" /\ plain => Stage(tty, input_buf, L, todo)

LEMMA LengthIs ==
  ASSUME TInv
  PROVE  /\ L \in Nat /\ L <= Last /\ L \in Buffer /\ 0 \in Buffer
         /\ \A j \in 0..(L - 1) : input_buf[j] # NUL
         /\ DOMAIN input_buf = Buffer /\ input_buf[Last] = NUL /\ input_buf[L] = NUL
<1>1. 0 \in Buffer /\ DOMAIN input_buf = Buffer /\ input_buf[Last] = NUL
  BY BufferNumbers DEF TInv, Buffered
<1> DEFINE l == strlen(input_buf, 0)
<1>2. l \in Nat /\ 0 + l \in Buffer /\ input_buf[0 + l] = NUL
      /\ \A j \in 0..(l - 1) : input_buf[0 + j] # NUL
  BY <1>1, StrlenIs
<1> HIDE DEF l
<1>3. 0 + l = l /\ l <= Last /\ \A j \in 0..(l - 1) : 0 + j = j  BY <1>2, BufferNumbers
<1> QED BY <1>1, <1>2, <1>3 DEF L, l

\* Each character put takes the line a stage further.
LEMMA Heads ==
  /\ Head(<<NL>> \o Prompt_) = NL /\ Tail(<<NL>> \o Prompt_) = Prompt_
  /\ Head(Prompt_) = ">" /\ Tail(Prompt_) = <<" ">>
  /\ Head(<<BS, " ", BS>>) = BS /\ Tail(<<BS, " ", BS>>) = <<" ", BS>>
  /\ Head(<<" ", BS>>) = " " /\ Tail(<<" ", BS>>) = <<BS>>
  /\ Head(<<BS>>) = BS /\ Tail(<<BS>>) = <<>>
  /\ <<NL>> \o Prompt_ # <<>> /\ Prompt_ # <<>>
<1>1. /\ Head(<<NL>> \o Prompt_) = NL /\ Tail(<<NL>> \o Prompt_) = Prompt_
      /\ <<NL>> \o Prompt_ # <<>>
  BY PromptIs, Cons
<1>2. BS \in Codes /\ " " \in Codes /\ ">" \in Codes  BY PromptIs
<1>3. ASSUME NEW a \in Codes, NEW b \in Codes, NEW c \in Codes
      PROVE  /\ Head(<<a>>) = a /\ Tail(<<a>>) = <<>>
             /\ Head(<<a, b>>) = a /\ Tail(<<a, b>>) = <<b>> /\ <<a, b>> # <<>>
             /\ Head(<<a, b, c>>) = a /\ Tail(<<a, b, c>>) = <<b, c>>
  OBVIOUS
<1> DEFINE bs == BS
<1> HIDE DEF bs
<1>4. bs \in Codes  BY <1>2 DEF bs
<1>5. /\ Head(<<bs, " ", bs>>) = bs /\ Tail(<<bs, " ", bs>>) = <<" ", bs>>
      /\ Head(<<bs>>) = bs /\ Tail(<<bs>>) = <<>>
  <2>1. bs \in Codes /\ " " \in Codes /\ bs \in Codes  BY <1>2, <1>4
  <2> QED BY ONLY <1>3, <2>1
<1>6. Head(<<" ", bs>>) = " " /\ Tail(<<" ", bs>>) = <<bs>>  BY <1>2, <1>3, <1>4
<1>7. Head(Prompt_) = ">" /\ Tail(Prompt_) = <<" ">> /\ Prompt_ # <<>>
  BY <1>2, <1>3, PromptIs
<1> QED BY <1>1, <1>5, <1>6, <1>7 DEF bs

LEMMA PutcPrints == ASSUME NEW t, NEW ch \in Glyphs PROVE putc(t, ch) = print(t, ch)
<1>1. ch \notin {NL, TABCHAR, BS}
  BY ShellAssumption DEF Glyphs, NL, TABCHAR, BS
<1> QED BY <1>1 DEF putc

LEMMA StageWrites ==
  ASSUME NEW t, Good(t), t.tail_line < MaxTail, NEW b, NEW l \in Nat, l <= Last,
         NEW td, Stage(t, b, l, td), td # <<>>
  PROVE  Stage(putc(t, Head(td)), b, l, Tail(td))
<1> DEFINE u == putc(t, Head(td))
<1>1. /\ putc(t, NL) = newline(t) /\ putc(t, BS) = backspace(t)
  BY DEF putc, NL, TABCHAR, BS
<1>2. /\ l + 2 < SCREEN_WIDTH /\ SCREEN_WIDTH \in Nat /\ (l < Last => l + 3 < SCREEN_WIDTH)
      /\ \A x \in Nat : x < SCREEN_WIDTH => x \in Cols
  <2>1. 2 + Last < SCREEN_WIDTH /\ SCREEN_WIDTH \in Nat /\ Last \in Nat
    BY PromptIs, BufferNumbers, Widths
  <2> HIDE DEF Last
  <2>2. l + 2 < SCREEN_WIDTH /\ (l < Last => l + 3 < SCREEN_WIDTH)  BY <2>1
  <2> QED BY <2>1, <2>2, Widths
<1>3. ASSUME NEW ch \in Glyphs, Head(td) = ch, NEW x \in Nat, t.x = x, x + 1 < SCREEN_WIDTH
      PROVE  u.x = x + 1 /\ Writes(t, u, x, ch)
  <2>1. u = print(t, ch)  BY <1>3, PutcPrints
  <2>2. t.x + 1 # SCREEN_WIDTH  BY <1>3, <1>2
  <2> HIDE DEF u
  <2> QED BY <1>3, <2>1, <2>2, PrintIs
<1>4. ASSUME Head(td) = BS, t.x > 0
      PROVE  u.x = t.x - 1 /\ Writes(t, u, t.x - 1, " ")
  <2>1. u = backspace(t)  BY <1>1, <1>4
  <2> HIDE DEF u
  <2> QED BY <1>4, <2>1, BackspaceIs
<1>5. CASE td = <<NL>> \o Prompt_ /\ l = 0
  <2>1. Head(td) = NL /\ Tail(td) = Prompt_  BY <1>5, PromptIs, Cons
  <2>2. u.x = 0  BY <1>1, <2>1, NewlineIs
  <2> QED BY <1>5, <2>1, <2>2 DEF Stage, Asks
<1>6. CASE td = Prompt_ /\ t.x = 0 /\ l = 0
  <2>1. Head(td) = ">" /\ Tail(td) = <<" ">>  BY <1>6, Heads
  <2>2. u.x = 0 + 1 /\ Writes(t, u, 0, ">")
    <3> DEFINE x == 0
    <3>1. ">" \in Glyphs /\ x \in Nat /\ t.x = x  BY <1>6, PromptIs
    <3>2. x + 1 < SCREEN_WIDTH  BY <1>2
    <3> HIDE DEF u, x
    <3>3. u.x = x + 1 /\ Writes(t, u, x, ">")  BY <1>3, <2>1, <3>1, <3>2
    <3> QED BY <3>3 DEF x
  <2>3. Standing(t, b, 0) /\ Text(b, 0) = ">" /\ Text(b, 1) = " "  BY DEF Standing, Text
  <2> HIDE DEF u
  <2>4. Standing(u, b, 0 + 1)
    <3> DEFINE x == 0
    <3>1. x \in Cols /\ x \in Nat /\ x <= x  BY Widths
    <3>2. Writes(t, u, x, ">")  BY <2>2
    <3>3. Standing(t, b, x) /\ Text(b, x) = ">"  BY <2>3
    <3> HIDE DEF x
    <3>4. Standing(u, b, x + 1)  BY <3>1, <3>2, <3>3, StandingWrites
    <3> QED BY <3>4 DEF x
  <2>5. 1 + l = 1 /\ 0 + 1 = 1  BY <1>6
  <2>6. Echoes(u, b, l, Tail(td))
    <3>1. Tail(td) = <<Text(b, 1 + l)>> /\ Text(b, 1 + l) \in Glyphs
      BY <2>1, <2>3, <2>5, PromptIs
    <3>2. u.x = 1 + l /\ Standing(u, b, 1 + l)  BY <2>2, <2>4, <2>5
    <3> QED BY <3>1, <3>2 DEF Echoes
  <2> QED BY <2>6 DEF Stage, u
<1>7. CASE Echoes(t, b, l, td)
  <2> DEFINE ch == Text(b, 1 + l)
             x == 1 + l
  <2>1. td = <<ch>> /\ ch \in Glyphs /\ t.x = x /\ Standing(t, b, x)  BY <1>7 DEF Echoes
  <2> HIDE DEF ch
  <2>2. Head(td) = ch /\ Tail(td) = <<>>  BY <2>1, Tuples
  <2>3. x \in Nat /\ x + 1 < SCREEN_WIDTH /\ x \in Cols /\ x + 1 = 2 + l  BY <1>2
  <2> HIDE DEF x
  <2>4. u.x = x + 1 /\ Writes(t, u, x, ch)  BY <1>3, <2>1, <2>2, <2>3
  <2> HIDE DEF u
  <2>5. Standing(u, b, x + 1)
    <3>1. ch = Text(b, x)  BY DEF ch, x
    <3> QED BY <2>1, <2>3, <2>4, <3>1, StandingWrites
  <2> QED BY <2>2, <2>3, <2>4, <2>5 DEF Stage, Waits, u
<1>8. CASE td = <<BS, " ", BS>> /\ t.x = 3 + l /\ Erases(t, b, l, td)
  <2>1. Head(td) = BS /\ Tail(td) = <<" ", BS>>  BY <1>8, Heads
  <2>2. t.x - 1 = 2 + l /\ 2 + l \in Cols /\ 2 + l \in Nat /\ t.x > 0
    <3>1. t.x = 3 + l  BY <1>8
    <3> QED BY <1>2, <3>1
  <2>3. u.x = 2 + l /\ Writes(t, u, 2 + l, " ")  BY <1>4, <2>1, <2>2
  <2>4. l < Last /\ Standing(t, b, 2 + l)  BY <1>8 DEF Erases
  <2> HIDE DEF u
  <2>5. Standing(u, b, 2 + l)
    <3> DEFINE x == 2 + l
    <3>1. x \in Cols /\ x \in Nat  BY <2>2
    <3>2. Writes(t, u, x, " ")  BY <2>3
    <3>3. Standing(t, b, x)  BY <2>4
    <3> HIDE DEF x
    <3>4. x <= x  BY <3>1
    <3>5. Standing(u, b, x)  BY <3>1, <3>2, <3>3, <3>4, StandingWrites
    <3> QED BY <3>5 DEF x
  <2> QED BY <2>1, <2>3, <2>4, <2>5 DEF Stage, Erases, u
<1>9. CASE td = <<" ", BS>> /\ t.x = 2 + l /\ Erases(t, b, l, td)
  <2>1. Head(td) = " " /\ Tail(td) = <<BS>> /\ " " \in Glyphs  BY <1>9, Heads, PromptIs
  <2>2. l < Last /\ Standing(t, b, 2 + l)  BY <1>9 DEF Erases
  <2> DEFINE x == 2 + l
  <2>3. x + 1 = 3 + l /\ x \in Cols /\ x \in Nat /\ x <= x /\ x + 1 < SCREEN_WIDTH
    BY <1>2, <2>2
  <2>4. u.x = x + 1 /\ Writes(t, u, x, " ")
    <3>1. t.x = x  BY <1>9
    <3> HIDE DEF x
    <3> QED BY <1>3, <2>1, <2>3, <3>1
  <2> HIDE DEF u
  <2>5. Standing(u, b, x)
    <3>1. Standing(t, b, x)  BY <2>2
    <3> HIDE DEF x
    <3> QED BY <2>3, <2>4, <3>1, StandingWrites
  <2> QED BY <2>1, <2>2, <2>3, <2>4, <2>5 DEF Stage, Erases, u
<1>10. CASE td = <<BS>> /\ t.x = 3 + l /\ Erases(t, b, l, td)
  <2>1. Head(td) = BS /\ Tail(td) = <<>>  BY <1>10, Heads
  <2>2. t.x - 1 = 2 + l /\ 2 + l \in Cols /\ 2 + l \in Nat /\ t.x > 0
    <3>1. t.x = 3 + l  BY <1>10
    <3> QED BY <1>2, <3>1
  <2>3. u.x = 2 + l /\ Writes(t, u, 2 + l, " ")  BY <1>4, <2>1, <2>2
  <2>4. Standing(t, b, 2 + l)  BY <1>10 DEF Erases
  <2> HIDE DEF u
  <2>5. Standing(u, b, 2 + l)
    <3> DEFINE x == 2 + l
    <3>1. x \in Cols /\ x \in Nat  BY <2>2
    <3>2. Writes(t, u, x, " ")  BY <2>3
    <3>3. Standing(t, b, x)  BY <2>4
    <3> HIDE DEF x
    <3>4. x <= x  BY <3>1
    <3>5. Standing(u, b, x)  BY <3>1, <3>2, <3>3, <3>4, StandingWrites
    <3> QED BY <3>5 DEF x
  <2> QED BY <2>1, <2>3, <2>5 DEF Stage, Waits, u
<1>11. CASE Waits(t, b, l, td)
  BY <1>11 DEF Waits
<1>12. \/ td = <<NL>> \o Prompt_ /\ l = 0
       \/ td = Prompt_ /\ t.x = 0 /\ l = 0
       \/ Waits(t, b, l, td) \/ Echoes(t, b, l, td)
       \/ td = <<BS, " ", BS>> /\ t.x = 3 + l /\ Erases(t, b, l, td)
       \/ td = <<" ", BS>> /\ t.x = 2 + l /\ Erases(t, b, l, td)
       \/ td = <<BS>> /\ t.x = 3 + l /\ Erases(t, b, l, td)
  BY DEF Stage, Asks, Erases
<1> QED BY <1>5, <1>6, <1>7, <1>8, <1>9, <1>10, <1>11, <1>12

\* With nothing to put, all is shown.
LEMMA StageQuiet ==
  ASSUME NEW t, NEW b, NEW l, Stage(t, b, l, <<>>)
  PROVE  t.x = 2 + l /\ Standing(t, b, 2 + l)
<1>1. <<NL>> \o Prompt_ # <<>> /\ Prompt_ # <<>>  BY Heads
<1>2. <<Text(b, 1 + l)>> # <<>> /\ <<BS, " ", BS>> # <<>> /\ <<" ", BS>> # <<>> /\ <<BS>> # <<>>
  OBVIOUS
<1> QED BY <1>1, <1>2 DEF Stage, Asks, Waits, Echoes, Erases

LEMMA StageSame ==
  ASSUME NEW t, NEW u, SameText(t, u), NEW b, NEW l, NEW td, Stage(t, b, l, td)
  PROVE  Stage(u, b, l, td)
<1>1. \A k : Standing(t, b, k) => Standing(u, b, k)  BY StandingSame
<1> QED BY <1>1 DEF SameText, Stage, Asks, Waits, Echoes, Erases

LEMMA InitLine == ShellInit => LineInv
<1> SUFFICES ASSUME ShellInit PROVE LineInv
  OBVIOUS
<1>1. todo = Prompt_ /\ input_buf = Cleared /\ plain = TRUE  BY DEF ShellInit
<1>2. tty.x = 0  BY InitGood DEF ShellInit
<1>3. L = 0
  <2>1. /\ DOMAIN input_buf = Buffer /\ input_buf[Last] = NUL /\ 0 \in Buffer
        /\ input_buf[0] = NUL /\ \A j \in 0..(0 - 1) : input_buf[j] # NUL
    BY <1>1, BufferNumbers DEF Cleared
  <2> QED BY <2>1, StrlenFrom DEF L
<1> QED BY <1>1, <1>2, <1>3 DEF LineInv, Stage, Asks

LEMMA WriteLine == ASSUME TInv, LineInv, tty_write PROVE LineInv'
<1>1. /\ todo # <<>> /\ tty.tail_line < MaxTail
      /\ tty' = putc(tty, Head(todo)) /\ todo' = Tail(todo)
      /\ UNCHANGED <<input_buf, pc, plain>>
  BY DEF tty_write, Room
<1>2. L \in Nat /\ L <= Last  BY LengthIs
<1>3. L' = L  BY <1>1 DEF L
<1> DEFINE l == L
<1> HIDE DEF l
<1>4. ASSUME pc = "read", plain PROVE Stage(tty', input_buf, l, todo')
  <2>1. Good(tty) /\ Stage(tty, input_buf, l, todo)  BY <1>4 DEF TInv, LineInv, l
  <2>2. l \in Nat /\ l <= Last  BY <1>2 DEF l
  <2> QED BY <1>1, <2>1, <2>2, StageWrites
<1> QED BY <1>1, <1>3, <1>4 DEF LineInv, l

LEMMA EraseLine ==
  ASSUME TInv, LineInv, todo = <<>>, UNCHANGED tty, NEW ch, Erase(ch)
  PROVE  LineInv'
<1>1. UNCHANGED <<pc, plain>>  BY DEF Erase
<1>2. CASE ~(L > 0)
  <2>1. UNCHANGED <<input_buf, todo>>  BY <1>2 DEF Erase
  <2> QED BY <1>1, <2>1 DEF LineInv, L
<1>3. CASE L > 0
  <2> DEFINE l == L
             b == [input_buf EXCEPT ![l - 1] = NUL]
  <2>1. input_buf' = b /\ todo' = <<BS, " ", BS>>  BY <1>3 DEF Erase
  <2>2. /\ l \in Nat /\ l <= Last /\ l > 0 /\ l \in Buffer
        /\ \A j \in 0..(l - 1) : input_buf[j] # NUL
        /\ DOMAIN input_buf = Buffer /\ input_buf[Last] = NUL
    BY <1>3, LengthIs
  <2>3. ASSUME pc = "read", plain
        PROVE  tty.x = 2 + l /\ Standing(tty, input_buf, 2 + l)
    <3>1. Stage(tty, input_buf, l, <<>>)  BY <2>3 DEF LineInv
    <3> HIDE DEF l
    <3> QED BY <3>1, StageQuiet
  <2> HIDE DEF l
  <2> DEFINE k == l - 1
  <2>4. /\ k \in Nat /\ k < Last /\ k \in Buffer /\ l = k + 1 /\ Last \in Nat
        /\ \A j \in 0..(k - 1) : j \in 0..(l - 1) /\ j # k
    BY <2>2, BufferNumbers
  <2>5. DOMAIN b = Buffer /\ b[k] = NUL /\ \A j \in Buffer : j # k => b[j] = input_buf[j]
    BY <2>2, <2>4
  <2> HIDE DEF b, k
  <2>6. b[Last] = NUL  BY <2>2, <2>4, <2>5, BufferNumbers
  <2>7. \A j \in 0..(k - 1) : j \in Buffer /\ b[j] = input_buf[j] /\ b[j] # NUL
    <3>1. \A j \in 0..(k - 1) : j \in Buffer  BY <2>4, BufferNumbers
    <3> QED BY <2>2, <2>4, <2>5, <3>1
  <2>8. strlen(b, 0) = k  BY <2>4, <2>5, <2>6, <2>7, StrlenFrom
  <2>9. L' = k  BY <2>1, <2>8 DEF L
  <2>10. ASSUME pc = "read", plain PROVE Erases(tty, b, k, <<BS, " ", BS>>)
    <3>1. tty.x = 3 + k  BY <2>3, <2>4, <2>10
    <3>2. Standing(tty, b, 2 + k)
      <4> SUFFICES ASSUME NEW i \in 0..((2 + k) - 1) PROVE Row(tty)[i][1] = Text(b, i)
        BY DEF Standing
      <4>1. i \in 0..((2 + l) - 1)  BY <2>4
      <4>2. Row(tty)[i][1] = Text(input_buf, i)  BY <2>3, <2>10, <4>1 DEF Standing
      <4>3. i # 0 /\ i # 1 => i - 2 \in 0..(k - 1)  BY <2>4
      <4> QED BY <2>7, <4>2, <4>3 DEF Text
    <3> QED BY <2>4, <3>1, <3>2 DEF Erases
  <2> QED BY <1>1, <2>1, <2>9, <2>10 DEF LineInv, Stage
<1> QED BY <1>2, <1>3

LEMMA StoreLine ==
  ASSUME TInv, LineInv, todo = <<>>, UNCHANGED tty, NEW ch \in Typed, Store(ch)
  PROVE  LineInv'
<1> DEFINE l == L
           b == [input_buf EXCEPT ![l] = ch, ![l + 1] = NUL]
<1>1. /\ pc' = pc /\ todo' = <<ch>> /\ ch \notin {NL, BS}
      /\ plain' = (plain /\ ch # TABCHAR /\ l + 1 < INPUT)
      /\ input_buf' = IF l + 1 < INPUT THEN b ELSE input_buf
  BY DEF Store
<1>2. plain' \in BOOLEAN  BY <1>1
<1>3. /\ l \in Nat /\ l <= Last /\ \A j \in 0..(l - 1) : input_buf[j] # NUL
      /\ DOMAIN input_buf = Buffer /\ input_buf[Last] = NUL
  BY LengthIs
<1>4. ASSUME pc = "read", plain
      PROVE  tty.x = 2 + l /\ Standing(tty, input_buf, 2 + l)
  <2>1. Stage(tty, input_buf, l, <<>>)  BY <1>4 DEF LineInv
  <2> HIDE DEF l
  <2> QED BY <2>1, StageQuiet
<1>5. ASSUME pc = "read", plain' PROVE Stage(tty, input_buf', L', todo')
  <2>1. plain /\ ch # TABCHAR /\ l + 1 < INPUT  BY <1>1, <1>5 DEF LineInv
  <2>2. ch \in Glyphs /\ ch # NUL
    BY <1>1, <2>1, TypedIs DEF Codes, Glyphs
  <2>3. input_buf' = b  BY <1>1, <2>1
  <2> HIDE DEF l
  <2> DEFINE k == l + 1
  <2>4. /\ k \in Nat /\ k \in Buffer /\ l \in Buffer /\ k # l /\ k <= Last /\ Last \in Nat
        /\ \A j \in 0..(l - 1) : j \in Buffer /\ j # l /\ j # k
    BY <1>3, <2>1, BufferNumbers
  <2>5. /\ DOMAIN b = Buffer /\ b[k] = NUL /\ b[l] = ch
        /\ \A j \in Buffer : j # k /\ j # l => b[j] = input_buf[j]
    BY <1>3, <2>4
  <2> HIDE DEF b
  <2>6. b[Last] = NUL
    <3>1. Last # l /\ Last \in Buffer  BY <1>3, <2>4, BufferNumbers
    <3> QED BY <1>3, <2>5, <3>1
  <2>7. \A j \in 0..(l - 1) : b[j] = input_buf[j] /\ b[j] # NUL  BY <1>3, <2>4, <2>5
  <2>8. \A j \in 0..(k - 1) : b[j] # NUL
    <3>1. \A j \in 0..(k - 1) : j = l \/ j \in 0..(l - 1)  BY <1>3
    <3> QED BY <2>2, <2>5, <2>7, <3>1
  <2>9. l = k - 1 /\ 2 + l = 1 + k  BY <1>3
  <2> HIDE DEF k
  <2>10. strlen(b, 0) = k  BY <2>4, <2>5, <2>6, <2>8, StrlenFrom
  <2>11. L' = k  BY <2>3, <2>10 DEF L
  <2>12. Text(b, 1 + k) = ch
    <3>1. 1 + k # 0 /\ 1 + k # 1 /\ (1 + k) - 2 = l  BY <1>3, <2>4, <2>9
    <3> QED BY <2>5, <3>1 DEF Text
  <2>13. Standing(tty, b, 1 + k)
    <3> SUFFICES ASSUME NEW i \in 0..((1 + k) - 1) PROVE Row(tty)[i][1] = Text(b, i)
      BY DEF Standing
    <3>1. i \in 0..((2 + l) - 1)  BY <2>9
    <3>2. Row(tty)[i][1] = Text(input_buf, i)  BY <1>4, <1>5, <2>1, <3>1 DEF Standing
    <3>3. i # 0 /\ i # 1 => i - 2 \in 0..(l - 1)  BY <1>3, <3>1
    <3> QED BY <2>7, <3>2, <3>3 DEF Text
  <2>14. Echoes(tty, b, k, <<ch>>)
    BY <1>4, <1>5, <2>1, <2>2, <2>9, <2>12, <2>13 DEF Echoes
  <2> QED BY <1>1, <2>3, <2>11, <2>14 DEF Stage
<1> QED BY <1>1, <1>2, <1>5 DEF LineInv

LEMMA ReadLine == ASSUME TInv, LineInv, Read PROVE LineInv'
<1>1. UNCHANGED tty /\ todo = <<>>  BY DEF Read
<1>2. Head(kbd) \in Typed  BY DEF Read, CanRead, TInv, Typing
<1>3. CASE Enter(Head(kbd))
  <2>1. pc' # "read" /\ plain' = plain  BY <1>3 DEF Enter
  <2> QED BY <2>1 DEF LineInv
<1>4. CASE Erase(Head(kbd))  BY <1>1, <1>4, EraseLine
<1>5. CASE Store(Head(kbd))  BY <1>1, <1>2, <1>5, StoreLine
<1> QED BY <1>3, <1>4, <1>5 DEF Read

LEMMA PromptLine == ASSUME TInv, Prompt PROVE LineInv'
<1>1. input_buf' = Cleared /\ todo' = <<NL>> \o Prompt_  BY PromptClears
<1>2. strlen(Cleared, 0) = 0
  <2>1. /\ DOMAIN Cleared = Buffer /\ Cleared[Last] = NUL /\ 0 \in Buffer
        /\ Cleared[0] = NUL /\ \A j \in 0..(0 - 1) : Cleared[j] # NUL
    BY BufferNumbers DEF Cleared
  <2> QED BY <2>1, StrlenFrom
<1>3. L' = 0 /\ plain' = TRUE  BY <1>1, <1>2 DEF L, Prompt
<1> QED BY <1>1, <1>3 DEF LineInv, Stage, Asks

LEMMA NextLine == TInv /\ LineInv /\ [ShellNext]_vars => LineInv'
<1> SUFFICES ASSUME TInv, LineInv, [ShellNext]_vars PROVE LineInv'
  OBVIOUS
<1>1. CASE UNCHANGED vars
  BY <1>1 DEF LineInv, L, vars, shell
<1>2. CASE \E c \in Typed : KeyIrq(c)
  BY <1>2 DEF KeyIrq, LineInv, L, shell
<1>3. CASE ScrollIrq
  <2>1. SameText(tty, tty')  BY <1>3, ScrollIs DEF ScrollIrq, TInv
  <2>2. UNCHANGED <<input_buf, pc, todo, plain>> /\ L' = L  BY <1>3 DEF ScrollIrq, shell, L
  <2> DEFINE l == L
  <2> HIDE DEF l
  <2>3. Stage(tty, input_buf, l, todo) => Stage(tty', input_buf, l, todo)
    BY <2>1, StageSame
  <2> QED BY <2>2, <2>3 DEF LineInv, l
<1>4. CASE Loop
  <2>1. CASE tty_write  BY <2>1, WriteLine
  <2>2. CASE Read  BY <2>2, ReadLine
  <2>3. CASE Command
    <3>1. pc' # "read" /\ plain' = plain  BY <2>3 DEF Command
    <3> QED BY <3>1 DEF LineInv
  <2>4. CASE Prompt  BY <2>4, PromptLine
  <2> QED BY <1>4, <2>1, <2>2, <2>3, <2>4 DEF Loop
<1> QED BY <1>1, <1>2, <1>3, <1>4 DEF ShellNext

LEMMA LineInvariance == ShellSpec => []LineInv
BY InitLine, NextLine, TInvariance, PTL DEF ShellSpec

LEMMA QuietShown == TInv /\ LineInv => LineShown
<1> SUFFICES ASSUME TInv, LineInv, pc = "read", todo = <<>>, plain
             PROVE  /\ tty.x = Len(Prompt_) + L
                    /\ \A i \in 1..Len(Prompt_) :
                         tty.scrollbuf[ring(caret_line(tty))][i - 1][1] = Prompt_[i]
                    /\ Shown = string(input_buf, 0)
                    /\ tty.view_offset = 0 /\ tty.tail_line >= SCREEN_HEIGHT - 1 =>
                         tty.screen[tty.y] = tty.scrollbuf[ring(caret_line(tty))]
  BY DEF LineShown
<1> DEFINE l == L
<1>1. l \in Nat /\ l = strlen(input_buf, 0)  BY LengthIs DEF L
<1>2. Stage(tty, input_buf, l, <<>>)  BY DEF LineInv
<1> HIDE DEF l
<1>3. tty.x = 2 + l /\ Standing(tty, input_buf, 2 + l)  BY <1>2, StageQuiet
<1>4. \A i \in 0..((2 + l) - 1) : Row(tty)[i][1] = Text(input_buf, i)
  BY <1>3 DEF Standing
<1>5. \A i \in 1..2 : Row(tty)[i - 1][1] = Prompt_[i]
  <2>1. 0 \in 0..((2 + l) - 1) /\ 1 \in 0..((2 + l) - 1)  BY <1>1
  <2>2. Row(tty)[0][1] = ">" /\ Row(tty)[1][1] = " "  
    <3>1. Text(input_buf, 0) = ">" /\ Text(input_buf, 1) = " "  BY DEF Text
    <3>2. Row(tty)[0][1] = Text(input_buf, 0)  BY <1>4, <2>1
    <3>3. Row(tty)[1][1] = Text(input_buf, 1)  BY <1>4, <2>1
    <3> QED BY <3>1, <3>2, <3>3
  <2>3. 1 - 1 = 0 /\ 2 - 1 = 1 /\ \A i \in 1..2 : i = 1 \/ i = 2  OBVIOUS
  <2> QED BY <2>2, <2>3, PromptIs
<1>6. Shown = string(input_buf, 0)
  <2>1. Shown = [i \in 1..(tty.x - 2) |-> Row(tty)[2 + i - 1][1]]
    BY PromptIs DEF Shown, Row
  <2>2. tty.x - 2 = l  BY <1>1, <1>3
  <2>3. string(input_buf, 0) = [i \in 1..l |-> input_buf[0 + i - 1]]
    BY <1>1 DEF string
  <2>4. \A i \in 1..l : Row(tty)[2 + i - 1][1] = input_buf[0 + i - 1]
    <3> TAKE i \in 1..l
    <3>1. /\ 2 + i - 1 \in 0..((2 + l) - 1) /\ 2 + i - 1 # 0 /\ 2 + i - 1 # 1
          /\ (2 + i - 1) - 2 = 0 + i - 1
      BY <1>1
    <3> QED BY <1>4, <3>1 DEF Text
  <2> QED BY <2>1, <2>2, <2>3, <2>4
<1>7. ASSUME tty.view_offset = 0, tty.tail_line >= SCREEN_HEIGHT - 1
      PROVE  tty.screen[tty.y] = Row(tty)
  <2>1. tty.y \in Rows /\ Mirrors(tty)  BY BaseNumbers DEF TInv, Good, Whole
  <2> QED BY <1>7, <2>1 DEF Mirrors, Row, caret_line
<1> QED BY <1>3, <1>5, <1>6, <1>7, PromptIs DEF l, Row

\* Whenever the loop waits for a key, the caret's line is the prompt and the
\* contents of input_buf, and the screen shows it unless it is scrolled away,
\* whatever was typed, erased, printed, scrolled and cleared before (LineShown
\* says from which keys on this is not claimed).
THEOREM ShownIsKept == ShellSpec => []LineShown
BY QuietShown, TInvariance, LineInvariance, PTL

-----------------------------------------------------------------------------
(***************************************************************************)
(* The words of a line.                                                    *)
(***************************************************************************)
Delimits(s, i) == i \notin DOMAIN s \/ s[i] \in Delimiters
Starts(s) == {i \in DOMAIN s : ~Delimits(s, i) /\ Delimits(s, i - 1)}
Stop(s, i) ==
    CHOOSE j \in i..Len(s) : Delimits(s, j + 1) /\ \A k \in i..j : ~Delimits(s, k)
From(s, n) == CHOOSE i \in Starts(s) : Cardinality(Starts(s) \cap 1..i) = n

LEMMA WordsAre ==
  ASSUME NEW s
  PROVE  Words(s, Delimiters) =
           [n \in 1..Cardinality(Starts(s)) |-> SubSeq(s, From(s, n), Stop(s, From(s, n)))]
BY DEF Words, Starts, Delimits, Stop, From

\* The number of words, and where the first two begin.
LEMMA LenWords ==
  ASSUME NEW s \in Seq(Kept)
  PROVE  /\ IsFiniteSet(Starts(s)) /\ Cardinality(Starts(s)) \in Nat
         /\ Len(Words(s, Delimiters)) = Cardinality(Starts(s))
<1> DEFINE c == Cardinality(Starts(s))
           w == Words(s, Delimiters)
<1>1. IsFiniteSet(Starts(s))
  <2>1. IsFiniteSet(1..Len(s))  BY FS_Interval
  <2>2. Starts(s) \subseteq 1..Len(s)  BY DEF Starts
  <2> QED BY <2>1, <2>2, FS_Subset
<1>2. c \in Nat  BY <1>1, FS_CardinalityType
<1> HIDE DEF c
<1>3. w = [n \in 1..c |-> SubSeq(s, From(s, n), Stop(s, From(s, n)))]  BY WordsAre DEF c
<1> DEFINE V == {SubSeq(s, From(s, n), Stop(s, From(s, n))) : n \in 1..c}
<1>4. w \in [1..c -> V]  BY <1>3
<1> HIDE DEF V, w
<1>5. w \in Seq(V) /\ Len(w) = c  BY <1>2, <1>4
<1> QED BY <1>1, <1>2, <1>5 DEF c, w

LEMMA FirstFrom ==
  ASSUME NEW s \in Seq(Kept), NEW i \in Starts(s), \A k \in Starts(s) : i <= k
  PROVE  Cardinality(Starts(s)) >= 1 /\ From(s, 1) = i
<1> DEFINE T == Starts(s)
<1>1. IsFiniteSet(T) /\ Cardinality(T) \in Nat  BY LenWords
<1>2. \A k \in T : k \in Nat \ {0}  BY DEF Starts
<1> HIDE DEF T
<1>3. i \in T /\ \A k \in T : i <= k  BY DEF T
<1>4. Cardinality(T) # 0  BY <1>1, <1>3, FS_EmptySet
<1>5. T \cap 1..i = {i}  BY <1>2, <1>3
<1>6. Cardinality(T \cap 1..i) = 1  BY <1>5, FS_Singleton
<1>7. ASSUME NEW k \in T, Cardinality(T \cap 1..k) = 1 PROVE k = i
  <2>1. IsFiniteSet(T \cap 1..k)  BY <1>1, FS_Subset
  <2>2. PICK x : T \cap 1..k = {x}  BY <1>7, <2>1, FS_Singleton
  <2>3. i \in T \cap 1..k /\ k \in T \cap 1..k  BY <1>2, <1>3
  <2> QED BY <2>2, <2>3
<1>8. From(s, 1) = i  BY <1>3, <1>6, <1>7 DEF From, T
<1> QED BY <1>1, <1>4, <1>8 DEF T

LEMMA SecondFrom ==
  ASSUME NEW s \in Seq(Kept), NEW i \in Starts(s), NEW j \in Starts(s), i < j,
         \A k \in Starts(s) : k = i \/ j <= k
  PROVE  Cardinality(Starts(s)) >= 2 /\ From(s, 2) = j
<1> DEFINE T == Starts(s)
<1>1. IsFiniteSet(T) /\ Cardinality(T) \in Nat  BY LenWords
<1>2. \A k \in T : k \in Nat \ {0}  BY DEF Starts
<1> HIDE DEF T
<1>3. i \in T /\ j \in T /\ i < j /\ \A k \in T : k = i \/ j <= k  BY DEF T
<1>4. Cardinality({i}) = 1 /\ IsFiniteSet({i})  BY FS_Singleton
<1>5. Cardinality({i, j}) = 2 /\ IsFiniteSet({i, j})
  <2>1. {i} \cup {j} = {i, j} /\ j \notin {i} /\ 1 + 1 = 2  BY <1>2, <1>3
  <2> QED BY <1>4, <2>1, FS_AddElement
<1>6. Cardinality(T) >= 2
  <2>1. {i, j} \subseteq T  BY <1>3
  <2>2. Cardinality({i, j}) <= Cardinality(T)  BY <1>1, <2>1, FS_Subset
  <2> QED BY <1>1, <1>5, <2>2
<1>7. T \cap 1..j = {i, j}  BY <1>2, <1>3
<1>8. ASSUME NEW k \in T, Cardinality(T \cap 1..k) = 2 PROVE k = j
  <2>1. CASE k = i
    <3>1. T \cap 1..k = {i}  BY <1>2, <1>3, <2>1
    <3>2. Cardinality(T \cap 1..k) = 1  BY <1>4, <3>1
    <3> HIDE DEF T
    <3>3. 2 = 1  BY ONLY <1>8, <3>2
    <3> QED BY <3>3
  <2>2. CASE k # i /\ k # j
    <3>1. j < k  BY <1>2, <1>3, <2>2
    <3>2. Cardinality({i, j} \cup {k}) = 2 + 1 /\ IsFiniteSet({i, j} \cup {k})
      <4>1. k \notin {i, j}  BY <2>2
      <4> QED BY <1>5, <4>1, FS_AddElement
    <3>3. {i, j} \cup {k} \subseteq T \cap 1..k  BY <1>2, <1>3, <3>1
    <3>4. IsFiniteSet(T \cap 1..k)  BY <1>1, FS_Subset
    <3>5. Cardinality({i, j} \cup {k}) <= Cardinality(T \cap 1..k)
      BY <3>3, <3>4, FS_Subset
    <3>6. 2 + 1 <= 2  BY ONLY <1>8, <3>2, <3>5
    <3> QED BY <3>6
  <2> QED BY <2>1, <2>2
<1>9. From(s, 2) = j
  <2>1. Cardinality(T \cap 1..j) = 2  BY <1>5, <1>7
  <2> QED BY <1>3, <1>8, <2>1 DEF From, T
<1> QED BY <1>6, <1>9 DEF T

LEMMA StopIs ==
  ASSUME NEW s \in Seq(Kept), NEW i \in Nat, NEW e \in i..Len(s),
         Delimits(s, e + 1), \A k \in i..e : ~Delimits(s, k)
  PROVE  Stop(s, i) = e
<1>1. ASSUME NEW j \in i..Len(s), Delimits(s, j + 1), \A k \in i..j : ~Delimits(s, k)
      PROVE  j = e
  <2>1. ~(j < e)
    <3>1. j < e => j + 1 \in i..e  OBVIOUS
    <3> QED BY <1>1, <3>1
  <2>2. ~(e < j)
    <3>1. e < j => e + 1 \in i..j  OBVIOUS
    <3> QED BY <1>1, <3>1
  <2> QED BY <2>1, <2>2
<1> QED BY <1>1 DEF Stop

\* s is the string in b, of length l.
Sep(b, a) == in_set(b[a], Delimiters)

Reads(b, s, l) ==
    /\ b \in [Buffer -> Kept] /\ b[Last] = NUL
    /\ s \in Seq(Kept) /\ Len(s) = l /\ l \in 0..Last
    /\ b[l] = NUL /\ \A a \in 0..(l - 1) : b[a] # NUL /\ s[a + 1] = b[a]

LEMMA StringReads ==
  ASSUME TInv
  PROVE  Reads(input_buf, string(input_buf, 0), L)
<1> DEFINE l == L
           s == string(input_buf, 0)
<1>1. /\ l \in Nat /\ l <= Last /\ l = strlen(input_buf, 0) /\ input_buf[l] = NUL
      /\ \A j \in 0..(l - 1) : input_buf[j] # NUL
  BY LengthIs DEF L
<1>2. input_buf \in [Buffer -> Kept] /\ input_buf[Last] = NUL  BY DEF TInv, Buffered
<1> HIDE DEF l
<1>3. s = [i \in 1..l |-> input_buf[0 + i - 1]]  BY <1>1 DEF string
<1>4. \A i \in 1..l : 0 + i - 1 \in Buffer /\ input_buf[0 + i - 1] \in Kept
  BY <1>1, <1>2, BufferNumbers
<1> HIDE DEF s
<1>5. s \in [1..l -> Kept]  BY <1>3, <1>4
<1>6. s \in Seq(Kept) /\ Len(s) = l  BY <1>1, <1>5
<1>7. \A a \in 0..(l - 1) : s[a + 1] = input_buf[a]
  <2> TAKE a \in 0..(l - 1)
  <2>1. a + 1 \in 1..l /\ 0 + (a + 1) - 1 = a  BY <1>1
  <2> QED BY <1>3, <2>1
<1>8. l \in 0..Last  BY <1>1, BufferNumbers
<1> QED BY <1>1, <1>2, <1>6, <1>7, <1>8 DEF Reads, l, s

LEMMA Places ==
  ASSUME NEW b, NEW s, NEW l, Reads(b, s, l)
  PROVE  /\ l \in Nat /\ l <= Last /\ Last \in Nat /\ Delimits(s, 0)
         /\ \A a \in 0..l : Delimits(s, a + 1) <=> (a = l \/ Sep(b, a))
         /\ \A a \in 0..Last : Sep(b, a) => b[a] # NUL
<1>1. l \in Nat /\ l <= Last /\ DOMAIN s = 1..l /\ Last \in Nat
  BY BufferNumbers DEF Reads
<1>2. Delimits(s, 0)  BY <1>1 DEF Delimits
<1>3. ASSUME NEW a \in 0..l PROVE Delimits(s, a + 1) <=> (a = l \/ Sep(b, a))
  <2>1. CASE a = l  BY <1>1, <2>1 DEF Delimits
  <2>2. CASE a # l
    <3>1. a \in 0..(l - 1) /\ a + 1 \in DOMAIN s  BY <1>1, <2>2
    <3>2. b[a] # NUL /\ s[a + 1] = b[a]  BY <3>1 DEF Reads
    <3> QED BY <2>2, <3>1, <3>2 DEF Delimits, Sep, in_set
  <2> QED BY <2>1, <2>2
<1> QED BY <1>1, <1>2, <1>3 DEF Sep, in_set

\* What strtok finds from from on: no word, or one at i..(e - 1).
NoneFrom(b, from) ==
    \E i \in from..Last : b[i] = NUL /\ \A a \in from..(i - 1) : Sep(b, a)

WordAt(b, from, i, e) ==
    /\ i \in from..Last /\ e \in (i + 1)..Last
    /\ \A a \in from..(i - 1) : Sep(b, a)
    /\ \A a \in i..(e - 1) : b[a] # NUL /\ ~Sep(b, a)
    /\ b[e] = NUL \/ Sep(b, e)

LEMMA Start ==
  ASSUME NEW b, NEW s, NEW l, Reads(b, s, l), NEW k \in Starts(s)
  PROVE  /\ k \in 1..l /\ k - 1 \in 0..(l - 1) /\ ~Sep(b, k - 1)
         /\ k > 1 => Sep(b, k - 2)
<1>1. k \in DOMAIN s /\ ~Delimits(s, k) /\ Delimits(s, k - 1)  BY DEF Starts
<1>2. /\ l \in Nat /\ \A a \in 0..l : Delimits(s, a + 1) <=> (a = l \/ Sep(b, a))
  BY Places
<1>3. DOMAIN s = 1..l  BY DEF Reads
<1>4. k \in 1..l /\ k - 1 \in 0..(l - 1) /\ k - 1 \in 0..l /\ (k - 1) + 1 = k
  BY <1>1, <1>2, <1>3
<1>5. ~Sep(b, k - 1)  BY <1>1, <1>2, <1>4
<1>6. ASSUME k > 1 PROVE Sep(b, k - 2)
  <2>1. k - 2 \in 0..l /\ k - 2 # l /\ (k - 2) + 1 = k - 1  BY <1>2, <1>4, <1>6
  <2> QED BY <1>1, <1>2, <2>1
<1> QED BY <1>4, <1>5, <1>6

LEMMA NoneLeft ==
  ASSUME NEW b, NEW s, NEW l, Reads(b, s, l), NEW from \in Nat, NoneFrom(b, from),
         NEW k \in Starts(s)
  PROVE  k - 1 < from
<1>1. PICK i \in from..Last : b[i] = NUL /\ \A a \in from..(i - 1) : Sep(b, a)
  BY DEF NoneFrom
<1>2. k \in 1..l /\ k - 1 \in 0..(l - 1) /\ ~Sep(b, k - 1) /\ l \in Nat
  BY Start, Places
<1>3. \A a \in 0..(l - 1) : b[a] # NUL  BY DEF Reads
<1>4. i \in Nat /\ ~(i < l)
  <2>1. i \in Nat  BY Places
  <2> QED BY <1>1, <1>2, <1>3, <2>1
<1> QED BY <1>1, <1>2, <1>4

LEMMA WordIs ==
  ASSUME NEW b, NEW s, NEW l, Reads(b, s, l), NEW from \in Nat,
         from <= l, from = 0 \/ Sep(b, from - 1),
         NEW i, NEW e, WordAt(b, from, i, e)
  PROVE  /\ i \in Nat /\ e \in Nat /\ i < e /\ e <= l
         /\ i + 1 \in Starts(s) /\ Stop(s, i + 1) = e
         /\ \A k \in Starts(s) : k - 1 < from \/ k = i + 1 \/ e < k - 1
<1>1. /\ l \in Nat /\ l <= Last /\ Last \in Nat /\ Delimits(s, 0)
      /\ \A a \in 0..l : Delimits(s, a + 1) <=> (a = l \/ Sep(b, a))
      /\ \A a \in 0..Last : Sep(b, a) => b[a] # NUL
  BY Places
<1>2. /\ i \in from..Last /\ e \in (i + 1)..Last
      /\ \A a \in from..(i - 1) : Sep(b, a)
      /\ \A a \in i..(e - 1) : b[a] # NUL /\ ~Sep(b, a)
      /\ b[e] = NUL \/ Sep(b, e)
  BY DEF WordAt
<1>3. i \in Nat /\ i <= Last /\ from <= i  BY <1>1, <1>2
<1>4. e \in Nat /\ e <= Last /\ i < e  BY <1>1, <1>2, <1>3
<1>5. /\ b[l] = NUL /\ s \in Seq(Kept) /\ Len(s) = l /\ DOMAIN s = 1..l
      /\ \A a \in 0..(l - 1) : b[a] # NUL
  BY DEF Reads
<1>6. \A a \in 0..(e - 1) : a >= from => b[a] # NUL
  <2> TAKE a \in 0..(e - 1)
  <2> HAVE a >= from
  <2>1. CASE a < i
    <3>1. a \in from..(i - 1) /\ a \in 0..Last  BY <1>1, <1>3, <2>1
    <3> QED BY <1>1, <1>2, <3>1
  <2>2. CASE ~(a < i)
    <3>1. a \in i..(e - 1)  BY <1>3, <1>4, <2>2
    <3> QED BY <1>2, <3>1
  <2> QED BY <2>1, <2>2
<1>7. e <= l
  <2>1. l < e => l \in 0..(e - 1) /\ l >= from  BY <1>1, <1>4
  <2> QED BY <1>1, <1>4, <1>5, <1>6, <2>1
<1>8. \A k \in (i + 1)..e : ~Delimits(s, k)
  <2> TAKE k \in (i + 1)..e
  <2>1. k - 1 \in i..(e - 1) /\ k - 1 \in 0..l /\ (k - 1) + 1 = k /\ k - 1 # l
    BY <1>1, <1>3, <1>4, <1>7
  <2> QED BY <1>1, <1>2, <2>1
<1>9. Delimits(s, e + 1)
  <2>1. e \in 0..l /\ (e # l => e \in 0..(l - 1))  BY <1>1, <1>4, <1>7
  <2> QED BY <1>1, <1>2, <1>5, <2>1
<1>10. Stop(s, i + 1) = e
  <2>1. i + 1 \in Nat /\ e \in (i + 1)..Len(s)  BY <1>1, <1>3, <1>4, <1>5, <1>7
  <2> QED BY <1>5, <1>8, <1>9, <2>1, StopIs
<1>11. i + 1 \in Starts(s)
  <2>1. i + 1 \in 1..l /\ i + 1 \in (i + 1)..e /\ (i + 1) - 1 = i
    BY <1>1, <1>3, <1>4, <1>7
  <2>2. ~Delimits(s, i + 1)  BY <1>8, <2>1
  <2>3. Delimits(s, i)
    <3>1. CASE i = 0  BY <1>1, <3>1
    <3>2. CASE i # 0
      <4>1. i - 1 \in 0..l /\ (i - 1) + 1 = i  BY <1>1, <1>3, <1>4, <1>7, <3>2
      <4>2. Sep(b, i - 1)
        <5>1. CASE from = i  BY <3>2, <5>1
        <5>2. CASE from # i
          <6>1. i - 1 \in from..(i - 1)  BY <1>3, <5>2
          <6> QED BY <1>2, <6>1
        <5> QED BY <5>1, <5>2
      <4>3. Delimits(s, (i - 1) + 1)  BY <1>1, <4>1, <4>2
      <4> QED BY <4>1, <4>3
    <3> QED BY <3>1, <3>2
  <2> QED BY <1>5, <2>1, <2>2, <2>3 DEF Starts
<1>12. ASSUME NEW k \in Starts(s), ~(k - 1 < from), k # i + 1, ~(e < k - 1)
       PROVE  FALSE
  <2>1. /\ k \in 1..l /\ k - 1 \in 0..(l - 1) /\ ~Sep(b, k - 1)
        /\ k > 1 => Sep(b, k - 2)
    BY Start
  <2>2. CASE k - 1 < i
    <3>1. k - 1 \in from..(i - 1)  BY <1>1, <1>3, <1>12, <2>1, <2>2
    <3> QED BY <1>2, <2>1, <3>1
  <2>3. CASE ~(k - 1 < i) /\ k - 1 < e + 1
    <3>1. k - 2 \in i..(e - 1) /\ k > 1  BY <1>1, <1>3, <1>4, <1>12, <2>1, <2>3
    <3> QED BY <1>2, <2>1, <3>1
  <2> QED BY <1>1, <1>3, <1>4, <1>12, <2>1, <2>2, <2>3
<1> QED BY <1>3, <1>4, <1>7, <1>10, <1>11, <1>12

\* A string between two places of memory is the part of the line that stood there.
LEMMA StrlenAt ==
  ASSUME NEW m, DOMAIN m = Buffer, m[Last] = NUL, NEW s \in Buffer,
         NEW e \in Buffer, s <= e, m[e] = NUL, \A j \in s..(e - 1) : m[j] # NUL
  PROVE  strlen(m, s) = e - s
<1> DEFINE n == strlen(m, s)
<1>1. n \in Nat /\ s + n \in Buffer /\ m[s + n] = NUL /\ \A j \in 0..(n - 1) : m[s + j] # NUL
  BY StrlenIs
<1> HIDE DEF n
<1>2. s \in Nat /\ e \in Nat  BY BufferNumbers
<1>3. ~(s + n < e)
  <2>1. s + n < e => s + n \in s..(e - 1)  BY <1>1, <1>2
  <2> QED BY <1>1, <2>1
<1>4. ~(e < s + n)
  <2>1. e < s + n => e - s \in 0..(n - 1) /\ s + (e - s) = e  BY <1>1, <1>2
  <2> QED BY <1>1, <2>1
<1> QED BY <1>1, <1>2, <1>3, <1>4 DEF n

LEMMA StringIs ==
  ASSUME NEW b, NEW s, NEW l, Reads(b, s, l),
         NEW m \in [Buffer -> Kept], m[Last] = NUL,
         NEW i \in Nat, NEW e \in Nat, i < e, e <= l,
         m[e] = NUL, \A a \in i..(e - 1) : m[a] = b[a]
  PROVE  string(m, i) = SubSeq(s, i + 1, e)
<1>1. /\ l \in Nat /\ l <= Last /\ Last \in Nat
      /\ \A a \in 0..(l - 1) : b[a] # NUL /\ s[a + 1] = b[a]
      /\ s \in Seq(Kept) /\ Len(s) = l
  BY Places DEF Reads
<1>2. i \in Buffer /\ e \in Buffer  BY <1>1, BufferNumbers
<1>3. \A a \in i..(e - 1) : a \in 0..(l - 1)  BY <1>1
<1>4. strlen(m, i) = e - i
  <2>1. \A a \in i..(e - 1) : m[a] # NUL  BY <1>1, <1>3
  <2> QED BY <1>2, <2>1, StrlenAt
<1>5. string(m, i) = [x \in 1..(e - i) |-> m[i + x - 1]]  BY <1>4 DEF string
<1>6. \A x \in 1..(e - i) : m[i + x - 1] = s[i + x]
  <2> TAKE x \in 1..(e - i)
  <2>1. i + x - 1 \in i..(e - 1) /\ (i + x - 1) + 1 = i + x  OBVIOUS
  <2> QED BY <1>1, <1>3, <2>1
<1>7. string(m, i) = [x \in 1..(e - i) |-> s[i + x]]  BY <1>5, <1>6
<1>8. /\ SubSeq(s, i + 1, e) \in Seq(Kept) /\ Len(SubSeq(s, i + 1, e)) = e - i
      /\ \A x \in 1..(e - i) : SubSeq(s, i + 1, e)[x] = s[i + x]
  <2>1. \A a \in (i + 1)..e : a \in 1..l  BY <1>1
  <2>2. \A a \in (i + 1)..e : s[a] \in Kept  BY <1>1, <2>1
  <2> DEFINE j == i + 1
             w == SubSeq(s, j, e)
  <2>3. j \in Int /\ e \in Int /\ j <= e /\ e - j + 1 = e - i /\ \A x \in Int : j + x - 1 = i + x
    OBVIOUS
  <2> HIDE DEF j
  <2>4. /\ w \in Seq(Kept) /\ Len(w) = IF j <= e THEN e - j + 1 ELSE 0
        /\ \A x \in 1..(e - j + 1) : w[x] = s[j + x - 1]
    BY <2>2, <2>3, SubSeqProperties DEF j
  <2> HIDE DEF w
  <2>5. Len(w) = e - i  BY <2>3, <2>4
  <2>6. \A x \in 1..(e - i) : w[x] = s[i + x]
    <3> TAKE x \in 1..(e - i)
    <3>1. x \in Int /\ x \in 1..(e - j + 1)  BY <2>3
    <3>2. w[x] = s[j + x - 1] /\ j + x - 1 = i + x  BY <2>3, <2>4, <3>1
    <3> QED BY <3>2
  <2> QED BY <2>4, <2>5, <2>6 DEF w, j
<1> DEFINE w == SubSeq(s, i + 1, e)
           n == e - i
<1>9. w \in Seq(Kept) /\ Len(w) = n /\ \A x \in 1..n : w[x] = s[i + x]  BY <1>8
<1>10. string(m, i) = [x \in 1..n |-> s[i + x]]  BY <1>7
<1> HIDE DEF w, n
<1>11. w = [x \in 1..n |-> w[x]]
  <2>1. w \in [1..Len(w) -> Kept]  BY <1>9, LenProperties
  <2> QED BY <1>9, <2>1
<1>12. w = [x \in 1..n |-> s[i + x]]  BY <1>9, <1>11
<1> QED BY <1>10, <1>12 DEF w

LEMMA CutIs ==
  ASSUME NEW r, NEW m, NEW from, Cuts(r, m, from, Delimiters)
  PROVE  \/ /\ r = [mem |-> m, save |-> NULL, ret |-> NULL]
            /\ from # NULL => NoneFrom(m, from)
         \/ /\ from # NULL
            /\ \E i, e : /\ WordAt(m, from, i, e)
                         /\ \/ m[e] = NUL /\ r = [mem |-> m, save |-> NULL, ret |-> i]
                            \/ /\ Sep(m, e) /\ e # Last
                               /\ r = [mem |-> [m EXCEPT ![e] = NUL], save |-> e + 1, ret |-> i]
<1>1. CASE r = [mem |-> m, save |-> NULL, ret |-> NULL]
           /\ (from # NULL => \E i \in from..Last :
                 m[i] = NUL /\ \A j \in from..(i - 1) : in_set(m[j], Delimiters))
  BY <1>1 DEF NoneFrom, Sep
<1>2. CASE from # NULL /\ \E i \in from..Last : \E e \in (i + 1)..Last :
            /\ \A j \in from..(i - 1) : in_set(m[j], Delimiters)
            /\ \A j \in i..(e - 1) : m[j] # NUL /\ ~in_set(m[j], Delimiters)
            /\ \/ m[e] = NUL /\ r = [mem |-> m, save |-> NULL, ret |-> i]
               \/ /\ in_set(m[e], Delimiters) /\ e # Last
                  /\ r = [mem |-> [m EXCEPT ![e] = NUL], save |-> e + 1, ret |-> i]
  <2>1. PICK i \in from..Last : \E e \in (i + 1)..Last :
            /\ \A j \in from..(i - 1) : in_set(m[j], Delimiters)
            /\ \A j \in i..(e - 1) : m[j] # NUL /\ ~in_set(m[j], Delimiters)
            /\ \/ m[e] = NUL /\ r = [mem |-> m, save |-> NULL, ret |-> i]
               \/ /\ in_set(m[e], Delimiters) /\ e # Last
                  /\ r = [mem |-> [m EXCEPT ![e] = NUL], save |-> e + 1, ret |-> i]
    BY <1>2
  <2>2. PICK e \in (i + 1)..Last :
            /\ \A j \in from..(i - 1) : in_set(m[j], Delimiters)
            /\ \A j \in i..(e - 1) : m[j] # NUL /\ ~in_set(m[j], Delimiters)
            /\ \/ m[e] = NUL /\ r = [mem |-> m, save |-> NULL, ret |-> i]
               \/ /\ in_set(m[e], Delimiters) /\ e # Last
                  /\ r = [mem |-> [m EXCEPT ![e] = NUL], save |-> e + 1, ret |-> i]
    BY <2>1
  <2>3. WordAt(m, from, i, e)  BY <2>2 DEF WordAt, Sep
  <2> QED BY <1>2, <2>2, <2>3 DEF Sep
<1> QED BY <1>1, <1>2 DEF Cuts

\* What the second strtok finds behind e is what the line has there: the first
\* has stored only at e.
LEMMA Behind ==
  ASSUME NEW b, NEW m, NEW e \in Nat, \A a \in Buffer : a # e => m[a] = b[a]
  PROVE  /\ NoneFrom(m, e + 1) => NoneFrom(b, e + 1)
         /\ \A i, f : WordAt(m, e + 1, i, f) => WordAt(b, e + 1, i, f)
<1>1. \A a \in (e + 1)..Last : m[a] = b[a]
  <2> TAKE a \in (e + 1)..Last
  <2>1. a \in Buffer /\ a # e  BY BufferNumbers
  <2> QED BY <2>1
<1>2. Last \in Nat  BY BufferNumbers
<1>3. NoneFrom(m, e + 1) => NoneFrom(b, e + 1)
  <2> SUFFICES ASSUME NEW i \in (e + 1)..Last, m[i] = NUL, \A a \in (e + 1)..(i - 1) : Sep(m, a)
               PROVE  NoneFrom(b, e + 1)
    BY DEF NoneFrom
  <2>1. \A a \in (e + 1)..(i - 1) : a \in (e + 1)..Last  BY <1>2
  <2>2. b[i] = NUL /\ \A a \in (e + 1)..(i - 1) : Sep(b, a)  BY <1>1, <2>1 DEF Sep
  <2> QED BY <2>2 DEF NoneFrom
<1>4. ASSUME NEW i, NEW f, WordAt(m, e + 1, i, f) PROVE WordAt(b, e + 1, i, f)
  <2>1. i \in (e + 1)..Last /\ f \in (i + 1)..Last  BY <1>4 DEF WordAt
  <2>2. /\ \A a \in (e + 1)..(i - 1) : a \in (e + 1)..Last
        /\ \A a \in i..(f - 1) : a \in (e + 1)..Last
        /\ f \in (e + 1)..Last
    BY <1>2, <2>1
  <2> QED BY <1>1, <1>4, <2>1, <2>2 DEF WordAt, Sep
<1> QED BY <1>3, <1>4

Executed(s, w) ==
    \A n \in {1, 2} : w[n] = IF n <= Len(Words(s, Delimiters))
                               THEN Words(s, Delimiters)[n] ELSE <<>>

LEMMA NoneExecuted ==
  ASSUME NEW s \in Seq(Kept), Starts(s) = {}
  PROVE  Executed(s, <<<<>>, <<>>>>)
<1>1. Len(Words(s, Delimiters)) = 0  BY LenWords, FS_EmptySet
<1> QED BY <1>1 DEF Executed

LEMMA OneExecuted ==
  ASSUME NEW s \in Seq(Kept), NEW i, Starts(s) = {i}
  PROVE  Executed(s, <<SubSeq(s, i, Stop(s, i)), <<>>>>)
<1>1. Cardinality(Starts(s)) = 1 /\ Len(Words(s, Delimiters)) = 1
  BY LenWords, FS_Singleton
<1>2. i \in Starts(s) /\ \A k \in Starts(s) : i <= k  BY DEF Starts
<1>3. From(s, 1) = i  BY <1>2, FirstFrom
<1>4. Words(s, Delimiters)[1] = SubSeq(s, i, Stop(s, i))
  <2>1. 1 \in 1..Cardinality(Starts(s))  BY <1>1
  <2> QED BY <1>3, <2>1, WordsAre
<1> DEFINE v == Words(s, Delimiters)
           a == SubSeq(s, i, Stop(s, i))
<1>5. Len(v) = 1 /\ v[1] = a  BY <1>1, <1>4
<1> HIDE DEF v, a
<1>6. \A n \in {1, 2} : <<a, <<>>>>[n] = IF n <= Len(v) THEN v[n] ELSE <<>>
  <2>1. 1 <= Len(v) /\ ~(2 <= Len(v))  BY <1>5
  <2>2. <<a, <<>>>>[1] = a /\ <<a, <<>>>>[2] = <<>>  OBVIOUS
  <2> QED BY <1>5, <2>1, <2>2
<1> QED BY <1>6 DEF Executed, v, a

LEMMA TwoExecuted ==
  ASSUME NEW s \in Seq(Kept), NEW i \in Starts(s), NEW j \in Starts(s), i < j,
         \A k \in Starts(s) : k = i \/ j <= k
  PROVE  Executed(s, <<SubSeq(s, i, Stop(s, i)), SubSeq(s, j, Stop(s, j))>>)
<1> DEFINE c == Cardinality(Starts(s))
<1>1. c >= 2 /\ c \in Nat /\ Len(Words(s, Delimiters)) = c /\ From(s, 2) = j
  BY LenWords, SecondFrom
<1>2. \A k \in Starts(s) : k \in Nat  BY DEF Starts
<1>3. \A k \in Starts(s) : i <= k  BY <1>2
<1>4. From(s, 1) = i  BY <1>3, FirstFrom
<1>5. 1 \in 1..c /\ 2 \in 1..c  BY <1>1
<1>6. /\ Words(s, Delimiters)[1] = SubSeq(s, i, Stop(s, i))
      /\ Words(s, Delimiters)[2] = SubSeq(s, j, Stop(s, j))
  BY <1>1, <1>4, <1>5, WordsAre
<1> DEFINE v == Words(s, Delimiters)
           a1 == SubSeq(s, i, Stop(s, i))
           a2 == SubSeq(s, j, Stop(s, j))
<1>7. Len(v) = c /\ v[1] = a1 /\ v[2] = a2  BY <1>1, <1>6
<1> HIDE DEF c, v, a1, a2
<1>8. \A n \in {1, 2} : <<a1, a2>>[n] = IF n <= Len(v) THEN v[n] ELSE <<>>
  <2>1. 1 <= Len(v) /\ 2 <= Len(v)  BY <1>1, <1>7
  <2>2. <<a1, a2>>[1] = a1 /\ <<a1, a2>>[2] = a2  OBVIOUS
  <2> QED BY <1>7, <2>1, <2>2
<1> QED BY <1>8 DEF Executed, v, a1, a2

LEMMA EnterExecutes ==
  ASSUME TInv, NEW ch, Enter(ch)
  PROVE  Executed(string(input_buf, 0), words')
<1> DEFINE b == input_buf
           s == string(b, 0)
           l == L
           first == strtok(b, save, 0, Delimiters)
           second == strtok(first.mem, first.save, NULL, Delimiters)
           word(r) == IF r = NULL THEN <<>> ELSE string(second.mem, r)
<1>1. words' = <<word(first.ret), word(second.ret)>>  BY DEF Enter
<1>2. Reads(b, s, l)  BY StringReads
<1>3. b \in [Buffer -> Kept] /\ b[Last] = NUL /\ save \in Buffer \cup {NULL}
  BY DEF TInv, Buffered
<1> HIDE DEF b, l
<1>4. Cuts(first, b, 0, Delimiters)
  <2>1. 0 # NULL /\ 0 \in {NULL, 0}  BY DEF NULL
  <2>2. Cuts(first, b, IF 0 # NULL THEN 0 ELSE save, Delimiters)  BY <1>3, <2>1, StrtokCuts
  <2> QED BY <2>1, <2>2
<1>5. Held(first)
  <2> DEFINE r == [mem |-> b, save |-> save]
  <2>1. Held(r) /\ r.mem = b /\ r.save = save  BY <1>3 DEF Held
  <2> HIDE DEF r
  <2>2. 0 \in {NULL, 0}  OBVIOUS
  <2>3. Held(strtok(r.mem, r.save, 0, Delimiters))  BY <2>1, <2>2, StrtokHeld
  <2> QED BY <2>1, <2>3
<1> HIDE DEF first
<1>6. /\ first.mem \in [Buffer -> Kept] /\ first.mem[Last] = NUL
      /\ first.save \in Buffer \cup {NULL}
  BY <1>5 DEF Held
<1>7. Cuts(second, first.mem, first.save, Delimiters)
  <2>1. NULL \in {NULL, 0}  OBVIOUS
  <2>2. Cuts(second, first.mem, IF NULL # NULL THEN NULL ELSE first.save, Delimiters)
    BY <1>6, <2>1, StrtokCuts
  <2> QED BY <2>2
<1>8. Held(second)  BY <1>5, StrtokHeld
<1> HIDE DEF second
<1>9. second.mem \in [Buffer -> Kept] /\ second.mem[Last] = NUL  BY <1>8 DEF Held
<1>10. s \in Seq(Kept) /\ l \in Nat /\ l <= Last /\ Last \in Nat /\ b[l] = NUL
       /\ \A a \in 0..(l - 1) : b[a] # NUL
  BY <1>2, Places DEF Reads
<1> HIDE DEF s
<1>11. CASE first = [mem |-> b, save |-> NULL, ret |-> NULL] /\ (0 # NULL => NoneFrom(b, 0))
  <2>1. NoneFrom(b, 0)  BY <1>11 DEF NULL
  <2>2. Starts(s) = {}
    <3> SUFFICES ASSUME NEW k \in Starts(s) PROVE FALSE
      OBVIOUS
    <3>1. k - 1 < 0  BY <1>2, <2>1, NoneLeft
    <3>2. k \in Nat \ {0}  BY <1>2, <1>10, Start
    <3> QED BY <3>1, <3>2
  <2>3. first.save = NULL /\ first.ret = NULL  BY <1>11
  <2>4. second.ret = NULL
    <3> HIDE <1>11
    <3> QED BY <1>7, <2>3, CutIs
  <2>5. words' = <<<<>>, <<>>>>  BY <1>1, <2>3, <2>4
  <2> QED BY <1>10, <2>2, <2>5, NoneExecuted DEF s, b
<1>12. ASSUME NEW i, NEW e, WordAt(b, 0, i, e),
              \/ b[e] = NUL /\ first = [mem |-> b, save |-> NULL, ret |-> i]
              \/ /\ Sep(b, e) /\ e # Last
                 /\ first = [mem |-> [b EXCEPT ![e] = NUL], save |-> e + 1, ret |-> i]
       PROVE  Executed(s, words')
  <2>1. /\ i \in Nat /\ e \in Nat /\ i < e /\ e <= l
        /\ i + 1 \in Starts(s) /\ Stop(s, i + 1) = e
        /\ \A k \in Starts(s) : k - 1 < 0 \/ k = i + 1 \/ e < k - 1
    <3> DEFINE z == 0
    <3>1. z \in Nat /\ z <= l /\ z = 0 /\ WordAt(b, z, i, e)  BY <1>10, <1>12
    <3> HIDE DEF z
    <3>2. /\ i \in Nat /\ e \in Nat /\ i < e /\ e <= l
          /\ i + 1 \in Starts(s) /\ Stop(s, i + 1) = e
          /\ \A k \in Starts(s) : k - 1 < z \/ k = i + 1 \/ e < k - 1
      BY <1>2, <3>1, WordIs
    <3> QED BY <3>1, <3>2
  <2>2. \A k \in Starts(s) : k \in 1..l  BY <1>2, Start
  <2>3. \A k \in Starts(s) : k = i + 1 \/ e < k - 1  BY <1>10, <2>1, <2>2
  <2>4. first.ret = i /\ i # NULL  BY <1>12, <2>1 DEF NULL
  <2> DEFINE m == first.mem
  <2>5. m[e] = NUL /\ \A a \in Buffer : a # e => m[a] = b[a]
    <3>1. e \in Buffer  BY <1>10, <2>1, BufferNumbers
    <3> QED BY <1>3, <1>12, <3>1
  <2>6. \A a \in i..(e - 1) : a \in Buffer /\ a # e  BY <1>10, <2>1, BufferNumbers
  <2> HIDE DEF m
  <2>7. CASE second = [mem |-> m, save |-> NULL, ret |-> NULL] /\ Starts(s) = {i + 1}
    <3>1. second.ret = NULL /\ second.mem = m  BY <2>7
    <3>2. string(second.mem, i) = SubSeq(s, i + 1, e)
      <4>1. second.mem[e] = NUL /\ \A a \in i..(e - 1) : second.mem[a] = b[a]
        BY <2>5, <2>6, <3>1
      <4> QED BY <1>2, <1>9, <2>1, <4>1, StringIs
    <3>3. words' = <<SubSeq(s, i + 1, e), <<>>>>  BY <1>1, <2>4, <3>1, <3>2
    <3>4. Executed(s, <<SubSeq(s, i + 1, Stop(s, i + 1)), <<>>>>)
      BY <1>10, <2>7, OneExecuted
    <3> QED BY <2>1, <3>3, <3>4
  <2>8. CASE b[e] = NUL /\ first = [mem |-> b, save |-> NULL, ret |-> i]
    <3>1. e = l  BY <1>10, <2>1, <2>8
    <3>2. Starts(s) = {i + 1}
      <4>1. \A k \in Starts(s) : ~(e < k - 1)  BY <1>10, <2>2, <3>1
      <4> QED BY <2>1, <2>3, <4>1
    <3>3. first.save = NULL  BY <2>8
    <3>4. second = [mem |-> m, save |-> NULL, ret |-> NULL]
      <4> HIDE <2>8
      <4> QED BY <1>7, <3>3, CutIs DEF m
    <3> QED BY <2>7, <3>2, <3>4
  <2>9. CASE /\ Sep(b, e) /\ e # Last
             /\ first = [mem |-> [b EXCEPT ![e] = NUL], save |-> e + 1, ret |-> i]
    <3>1. first.save = e + 1 /\ e + 1 # NULL /\ Sep(b, e)  BY <2>1, <2>9 DEF NULL
    <3>2. e + 1 <= l /\ e + 1 \in Nat /\ (e + 1) - 1 = e
      <4>1. b[e] # NUL  BY <3>1 DEF Sep, in_set
      <4> QED BY <1>10, <2>1, <4>1
    <3>3. Cuts(second, m, e + 1, Delimiters)  BY <1>7, <3>1 DEF m
    <3> DEFINE f == e + 1
    <3>4. /\ NoneFrom(m, f) => NoneFrom(b, f)
          /\ \A x, y : WordAt(m, f, x, y) => WordAt(b, f, x, y)
      BY <2>1, <2>5, Behind
    <3>5. f # NULL /\ f <= l /\ f \in Nat /\ Sep(b, f - 1)  BY <3>1, <3>2
    <3>6. \A k \in Starts(s) : k - 1 < f => k = i + 1  BY <2>1, <2>2, <2>3
    <3>7. Cuts(second, m, f, Delimiters)  BY <3>3
    <3> HIDE DEF f
    <3>8. CASE second = [mem |-> m, save |-> NULL, ret |-> NULL] /\ (f # NULL => NoneFrom(m, f))
      <4>1. NoneFrom(b, f)  BY <3>4, <3>5, <3>8
      <4>2. \A k \in Starts(s) : k - 1 < f  BY <1>2, <3>5, <4>1, NoneLeft
      <4>3. Starts(s) = {i + 1}  BY <2>1, <3>6, <4>2
      <4> QED BY <2>7, <3>8, <4>3
    <3>9. ASSUME NEW x, NEW y, WordAt(m, f, x, y),
                 \/ m[y] = NUL /\ second = [mem |-> m, save |-> NULL, ret |-> x]
                 \/ /\ Sep(m, y) /\ y # Last
                    /\ second = [mem |-> [m EXCEPT ![y] = NUL], save |-> y + 1, ret |-> x]
          PROVE  Executed(s, words')
      <4>1. WordAt(b, f, x, y)  BY <3>4, <3>9
      <4>2. /\ x \in Nat /\ y \in Nat /\ x < y /\ y <= l
            /\ x + 1 \in Starts(s) /\ Stop(s, x + 1) = y
            /\ \A k \in Starts(s) : k - 1 < f \/ k = x + 1 \/ y < k - 1
        BY <1>2, <3>5, <4>1, WordIs
      <4>3. f <= x  BY <1>10, <3>5, <4>1 DEF WordAt
      <4>4. e < x /\ f = e + 1  BY <2>1, <4>2, <4>3 DEF f
      <4>5. second.ret = x /\ x # NULL  BY <3>9, <4>2 DEF NULL
      <4> DEFINE n == second.mem
      <4>6. n[y] = NUL /\ n[e] = NUL /\ \A a \in Buffer : a # e /\ a # y => n[a] = b[a]
        <5>1. y \in Buffer /\ e \in Buffer /\ e # y  BY <1>10, <2>1, <4>2, <4>4, BufferNumbers
        <5>2. m \in [Buffer -> Kept]  BY <1>6 DEF m
        <5>3. (n = m /\ m[y] = NUL) \/ n = [m EXCEPT ![y] = NUL]  BY <3>9
        <5> HIDE DEF n
        <5> QED BY <2>5, <5>1, <5>2, <5>3
      <4>7. n \in [Buffer -> Kept] /\ n[Last] = NUL  BY <1>9
      <4> HIDE DEF n
      <4>8. string(n, i) = SubSeq(s, i + 1, e)
        <5>1. \A a \in i..(e - 1) : a \in Buffer /\ a # e /\ a # y
          BY <2>1, <2>6, <4>2, <4>4
        <5>2. n[e] = NUL /\ \A a \in i..(e - 1) : n[a] = b[a]  BY <4>6, <5>1
        <5> QED BY <1>2, <2>1, <4>7, <5>2, StringIs
      <4>9. string(n, x) = SubSeq(s, x + 1, y)
        <5>1. \A a \in x..(y - 1) : a \in Buffer /\ a # e /\ a # y
          BY <1>10, <2>1, <4>2, <4>4, BufferNumbers
        <5>2. n[y] = NUL /\ \A a \in x..(y - 1) : n[a] = b[a]  BY <4>6, <5>1
        <5> QED BY <1>2, <4>2, <4>7, <5>2, StringIs
      <4>10. words' = <<SubSeq(s, i + 1, e), SubSeq(s, x + 1, y)>>
        <5>1. word(i) = string(n, i) /\ word(x) = string(n, x)  BY <2>4, <4>5 DEF n
        <5> QED BY <1>1, <2>4, <4>5, <4>8, <4>9, <5>1
      <4>11. \A k \in Starts(s) : k = i + 1 \/ x + 1 <= k
        <5> TAKE k \in Starts(s)
        <5>1. k \in Nat  BY <2>2
        <5> QED BY <3>6, <4>2, <5>1
      <4>12. i + 1 < x + 1  BY <2>1, <4>2, <4>4
      <4> DEFINE i1 == i + 1
                 x1 == x + 1
      <4>13. /\ i1 \in Starts(s) /\ x1 \in Starts(s) /\ i1 < x1
             /\ \A k \in Starts(s) : k = i1 \/ x1 <= k
             /\ Stop(s, i1) = e /\ Stop(s, x1) = y
             /\ words' = <<SubSeq(s, i1, e), SubSeq(s, x1, y)>>
        BY <2>1, <4>2, <4>10, <4>11, <4>12
      <4> HIDE DEF i1, x1
      <4>14. Executed(s, <<SubSeq(s, i1, Stop(s, i1)), SubSeq(s, x1, Stop(s, x1))>>)
        BY <1>10, <4>13, TwoExecuted
      <4> QED BY <4>13, <4>14
    <3> QED BY <3>7, <3>8, <3>9, CutIs
  <2> QED BY <1>12, <2>8, <2>9
<1> QED BY <1>4, <1>11, <1>12, CutIs DEF s, b

\* The command and its argument, as the two calls of strtok cut them from the
\* buffer, are the first two words of the line the user saw at Enter; a word
\* the line does not have is none.
THEOREM ExecutesTheShown == ShellSpec => ExecutesShown
<1> DEFINE A == pc = "read" /\ pc' # "read" /\ plain =>
                  \A n \in {1, 2} :
                    words'[n] = IF n <= Len(Words(Shown, Delimiters))
                                  THEN Words(Shown, Delimiters)[n] ELSE <<>>
<1>1. TInv /\ LineInv /\ [ShellNext]_vars => [A]_vars
  <2> SUFFICES ASSUME TInv, LineInv, ShellNext, pc = "read", pc' # "read", plain
               PROVE  Executed(Shown, words')
    BY DEF Executed
  <2>1. ~(\E c \in Typed : KeyIrq(c)) /\ ~ScrollIrq  BY DEF KeyIrq, ScrollIrq, shell
  <2>2. ~tty_write /\ ~Command /\ ~Prompt  BY DEF tty_write, Command, Prompt
  <2>3. Read  BY <2>1, <2>2 DEF ShellNext, Loop
  <2>4. todo = <<>> /\ (Enter(Head(kbd)) \/ Erase(Head(kbd)) \/ Store(Head(kbd)))
    BY <2>3 DEF Read
  <2>5. Enter(Head(kbd))  BY <2>4 DEF Erase, Store
  <2>6. Shown = string(input_buf, 0)  BY <2>4, QuietShown DEF LineShown
  <2>7. Executed(string(input_buf, 0), words')  BY <2>5, EnterExecutes
  <2> QED BY <2>6, <2>7
<1> QED BY <1>1, TInvariance, LineInvariance, PTL DEF ShellSpec, ExecutesShown
=============================================================================
