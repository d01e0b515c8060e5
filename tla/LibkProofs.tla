----------------------------- MODULE LibkProofs -----------------------------
(***************************************************************************)
(* The C library, for every text, memory, line, name and boot information, *)
(* and every size of a word and a memory: what each function answers is    *)
(* what it means.                                                          *)
(***************************************************************************)
EXTENDS Libk, SequenceTheorems, FiniteSetTheorems, WellFoundedInduction, TLAPS

-----------------------------------------------------------------------------
(***************************************************************************)
(* Numbers, by least elements.                                             *)
(***************************************************************************)
LEMMA LessIsWellFounded == IsWellFoundedOn({ss \in Nat \X Nat : ss[1] < ss[2]}, Nat)
BY NatLessThanWellFounded DEF OpToRel

LEMMA Least ==
  ASSUME NEW T, T \subseteq Nat, T # {}
  PROVE  \E x \in T : \A y \in T : x <= y
<1> DEFINE R == {ss \in Nat \X Nat : ss[1] < ss[2]}
<1>1. IsWellFoundedOn(R, Nat)  BY LessIsWellFounded
<1> HIDE DEF R
<1>2. PICK x \in T : \A y \in T : ~ (<<y, x>> \in R)  BY <1>1, WFMin
<1>3. \A y \in T : ~(y < x)  BY <1>2 DEF R
<1> QED BY <1>3

\* A loop that goes up from i to the first place of P: it finds that place,
\* if the last place of all is one.
Finds(f, n, P) ==
    \A i \in 0..n : /\ f[i] \in P /\ i <= f[i]
                    /\ \A j \in i..(f[i] - 1) : j \notin P

LEMMA LoopFinds ==
  ASSUME NEW n \in Nat, NEW P, P \subseteq 0..n, n \in P, NEW f,
         \A i \in 0..n : f[i] = IF i \in P THEN i ELSE f[i + 1]
  PROVE  Finds(f, n, P)
<1> DEFINE Good_(i) == /\ f[i] \in P /\ i <= f[i]
                       /\ \A j \in i..(f[i] - 1) : j \notin P
           T == {k \in 0..n : ~Good_(n - k)}
<1>0. \A j \in P : j \in Nat /\ j \in Int  OBVIOUS
<1>1. SUFFICES ASSUME T # {} PROVE FALSE
  <2> SUFFICES ASSUME T = {} PROVE \A i \in 0..n : Good_(i)
    BY DEF Finds
  <2> TAKE i \in 0..n
  <2>1. n - i \in 0..n /\ n - (n - i) = i  OBVIOUS
  <2> QED BY <2>1
<1>2. PICK k \in T : \A l \in T : k <= l
  <2>1. T \subseteq Nat  OBVIOUS
  <2> HIDE DEF T
  <2> QED BY <1>1, <2>1, Least
<1> DEFINE i == n - k
<1>3. k \in 0..n /\ i \in 0..n /\ ~Good_(i)  BY <1>2
<1>4. i \notin P
  BY <1>3
<1>5. k # 0 /\ k - 1 \in 0..n /\ k - 1 \notin T  BY <1>2, <1>3, <1>4
<1>6. n - (k - 1) = i + 1 /\ i + 1 \in 0..n  BY <1>3, <1>5
<1>7. Good_(i + 1)  BY <1>5, <1>6
<1>8. f[i] = f[i + 1]  BY <1>3, <1>4
<1>9. f[i + 1] \in P  BY <1>7
<1>10. f[i + 1] \in Int  BY <1>0, <1>9
<1> HIDE DEF i
<1> QED BY <1>10, <1>3, <1>4, <1>7, <1>8, <1>9

\* Such a loop exists, as a function of where it begins.
LEMMA LoopExists ==
  ASSUME NEW n \in Nat, NEW P, P \subseteq 0..n, n \in P
  PROVE  \E f : f = [i \in 0..n |-> IF i \in P THEN i ELSE f[i + 1]]
<1> DEFINE After(i) == {j \in P : i <= j}
           f == [i \in 0..n |-> CHOOSE x \in After(i) : \A y \in After(i) : x <= y]
<1>0. \A j \in P : j \in Nat /\ j \in Int  OBVIOUS
<1>1. ASSUME NEW i \in 0..n
      PROVE f[i] \in After(i) /\ \A y \in After(i) : f[i] <= y
  <2>1. After(i) \subseteq Nat  BY <1>0
  <2>2. n \in After(i)  OBVIOUS
  <2> HIDE DEF After
  <2>3. \E x \in After(i) : \A y \in After(i) : x <= y  BY <2>1, <2>2, Least
  <2> QED BY <2>3
<1>2. ASSUME NEW i \in 0..n PROVE f[i] = IF i \in P THEN i ELSE f[i + 1]
  <2>1. f[i] \in P /\ i <= f[i] /\ \A y \in P : i <= y => f[i] <= y  BY <1>1
  <2>2. CASE i \in P  BY <2>1, <2>2
  <2>3. CASE i \notin P
    <3>1. i # n /\ i + 1 \in 0..n  BY <2>3
    <3>2. f[i + 1] \in P /\ i + 1 <= f[i + 1] /\ \A y \in P : i + 1 <= y => f[i + 1] <= y
      BY <1>1, <3>1
    <3> HIDE DEF f
    <3>3. f[i] # i /\ f[i] \in Int /\ f[i + 1] \in Int  BY <1>0, <2>1, <2>3, <3>2
    <3>4. f[i] <= f[i + 1] /\ f[i + 1] <= f[i]  BY <2>1, <3>2, <3>3
    <3> QED BY <2>3, <3>3, <3>4
  <2> QED BY <2>2, <2>3
<1>3. f = [i \in 0..n |-> IF i \in P THEN i ELSE f[i + 1]]
  <2>1. f = [i \in 0..n |-> f[i]]  OBVIOUS
  <2> HIDE DEF f
  <2> QED BY <1>2, <2>1
<1> QED BY <1>3

-----------------------------------------------------------------------------
(***************************************************************************)
(* strlen and strtok on memory that ends in '\0'.                          *)
(***************************************************************************)
Ends(m, n) == n \in Nat /\ DOMAIN m = 0..n /\ m[n] = NUL

LEMMA StrlenIs ==
  ASSUME NEW n, NEW m, Ends(m, n), NEW s \in 0..n
  PROVE  /\ strlen(m, s) \in Nat /\ s + strlen(m, s) \in 0..n
         /\ m[s + strlen(m, s)] = NUL
         /\ \A j \in s..(s + strlen(m, s) - 1) : m[j] # NUL
<1> DEFINE P == {i \in 0..n : m[i] = NUL}
           end[i \in DOMAIN m] == IF m[i] = NUL THEN i ELSE end[i + 1]
<1>0. n \in Nat /\ DOMAIN m = 0..n /\ m[n] = NUL  BY DEF Ends
<1>1. strlen(m, s) = end[s] - s  BY DEF strlen
<1>2. P \subseteq 0..n /\ n \in P  BY <1>0
<1>3. \E f : f = [i \in 0..n |-> IF i \in P THEN i ELSE f[i + 1]]
  <2> HIDE DEF P
  <2> QED BY <1>0, <1>2, LoopExists
<1>4. \A f : [i \in 0..n |-> IF i \in P THEN i ELSE f[i + 1]]
            = [i \in DOMAIN m |-> IF m[i] = NUL THEN i ELSE f[i + 1]]
  BY <1>0
<1>5. \E f : f = [i \in DOMAIN m |-> IF m[i] = NUL THEN i ELSE f[i + 1]]
  BY <1>3, <1>4
<1>6. end = [i \in DOMAIN m |-> IF m[i] = NUL THEN i ELSE end[i + 1]]
  BY <1>5
<1>7. \A i \in 0..n : end[i] = IF i \in P THEN i ELSE end[i + 1]
  BY <1>0, <1>6
<1> HIDE DEF end
<1>8. Finds(end, n, P)
  <2> HIDE DEF P
  <2> QED BY <1>0, <1>2, <1>7, LoopFinds
<1>10. end[s] \in P /\ s <= end[s] /\ \A j \in s..(end[s] - 1) : j \notin P
  BY <1>8 DEF Finds
<1> DEFINE e == end[s]
<1>11. e \in 0..n /\ e \in Nat /\ m[e] = NUL /\ s <= e /\ s \in Nat  BY <1>0, <1>10
<1>12. \A j \in s..(e - 1) : m[j] # NUL  BY <1>10, <1>11, <1>0
<1> HIDE DEF e
<1>13. strlen(m, s) = e - s  BY <1>1 DEF e
<1>14. s + (e - s) = e /\ e - s \in Nat  BY <1>11
<1> QED BY <1>11, <1>12, <1>13, <1>14

\* A string ends at the first '\0' from its start.
LEMMA StrlenAt ==
  ASSUME NEW n, NEW m, Ends(m, n), NEW s \in 0..n,
         NEW e \in 0..n, s <= e, m[e] = NUL, \A j \in s..(e - 1) : m[j] # NUL
  PROVE  strlen(m, s) = e - s
<1> DEFINE l == strlen(m, s)
<1>1. l \in Nat /\ s + l \in 0..n /\ m[s + l] = NUL /\ \A j \in s..(s + l - 1) : m[j] # NUL
  BY StrlenIs
<1> HIDE DEF l
<1>2. s \in Nat /\ e \in Nat  BY DEF Ends
<1>3. ~(s + l < e)
  <2>1. s + l < e => s + l \in s..(e - 1)  BY <1>1, <1>2
  <2> QED BY <1>1, <2>1
<1>4. ~(e < s + l)
  <2>1. e < s + l => e \in s..(s + l - 1)  BY <1>1, <1>2
  <2> QED BY <1>1, <2>1
<1> QED BY <1>1, <1>2, <1>3, <1>4 DEF l

\* What strtok does with the string at from: no word is left in it, or the next
\* begins at i and ends before e.
NoneFrom(m, n, from, delim) ==
    \E i \in from..n : m[i] = NUL /\ \A j \in from..(i - 1) : in_set(m[j], delim)

WordAt(m, n, from, delim, i, e) ==
    /\ i \in from..n /\ e \in (i + 1)..n
    /\ \A j \in from..(i - 1) : in_set(m[j], delim)
    /\ \A j \in i..(e - 1) : m[j] # NUL /\ ~in_set(m[j], delim)
    /\ m[e] = NUL \/ (in_set(m[e], delim) /\ e # n)

Cuts(r, m, n, from, delim) ==
    \/ /\ r = [mem |-> m, save |-> NULL, ret |-> NULL]
       /\ from # NULL => NoneFrom(m, n, from, delim)
    \/ /\ from # NULL
       /\ \E i, e :
            /\ WordAt(m, n, from, delim, i, e)
            /\ r = IF m[e] = NUL THEN [mem |-> m, save |-> NULL, ret |-> i]
                   ELSE [mem |-> [m EXCEPT ![e] = NUL], save |-> e + 1, ret |-> i]

LEMMA StrtokCuts ==
  ASSUME NEW n, NEW m, Ends(m, n), NEW sv, NEW str, NEW delim,
         NEW from, from = IF str # NULL THEN str ELSE sv, from \in 0..n \/ from = NULL
  PROVE  Cuts(strtok(m, sv, str, delim), m, n, from, delim)
<1> DEFINE skip[i \in DOMAIN m] == IF in_set(m[i], delim) THEN skip[i + 1] ELSE i
           past[i \in DOMAIN m] ==
             IF m[i] # NUL /\ ~in_set(m[i], delim) THEN past[i + 1] ELSE i
           end == past[skip[from]]
           P == {i \in 0..n : ~in_set(m[i], delim)}
           Q == {i \in 0..n : m[i] = NUL \/ in_set(m[i], delim)}
<1>0. n \in Nat /\ DOMAIN m = 0..n /\ m[n] = NUL  BY DEF Ends
<1>1. strtok(m, sv, str, delim) =
        IF from = NULL \/ m[skip[from]] = NUL
          THEN [mem |-> m, save |-> NULL, ret |-> NULL]
        ELSE IF m[end] = NUL
          THEN [mem |-> m, save |-> NULL, ret |-> skip[from]]
          ELSE [mem |-> [m EXCEPT ![end] = NUL], save |-> end + 1, ret |-> skip[from]]
  BY DEF strtok
<1>2. P \subseteq 0..n /\ n \in P /\ Q \subseteq 0..n /\ n \in Q
  BY <1>0 DEF in_set
<1>3. /\ \E f : f = [i \in 0..n |-> IF i \in P THEN i ELSE f[i + 1]]
      /\ \E f : f = [i \in 0..n |-> IF i \in Q THEN i ELSE f[i + 1]]
  <2> HIDE DEF P, Q
  <2> QED BY <1>0, <1>2, LoopExists
<1>5. /\ \A f : [i \in 0..n |-> IF i \in P THEN i ELSE f[i + 1]]
              = [i \in DOMAIN m |-> IF in_set(m[i], delim) THEN f[i + 1] ELSE i]
      /\ \A f : [i \in 0..n |-> IF i \in Q THEN i ELSE f[i + 1]]
              = [i \in DOMAIN m |-> IF m[i] # NUL /\ ~in_set(m[i], delim)
                                      THEN f[i + 1] ELSE i]
  BY <1>0
<1>6. /\ \E f : f = [i \in DOMAIN m |-> IF in_set(m[i], delim) THEN f[i + 1] ELSE i]
      /\ \E f : f = [i \in DOMAIN m |-> IF m[i] # NUL /\ ~in_set(m[i], delim)
                                            THEN f[i + 1] ELSE i]
  <2> HIDE DEF P, Q
  <2>1. PICK f : f = [i \in 0..n |-> IF i \in P THEN i ELSE f[i + 1]]  BY <1>3
  <2>2. f = [i \in DOMAIN m |-> IF in_set(m[i], delim) THEN f[i + 1] ELSE i]  BY <1>5, <2>1
  <2>3. PICK g : g = [i \in 0..n |-> IF i \in Q THEN i ELSE g[i + 1]]  BY <1>3
  <2>4. g = [i \in DOMAIN m |-> IF m[i] # NUL /\ ~in_set(m[i], delim) THEN g[i + 1] ELSE i]
    BY <1>5, <2>3
  <2> QED BY <2>2, <2>4
<1>7. /\ skip = [i \in DOMAIN m |-> IF in_set(m[i], delim) THEN skip[i + 1] ELSE i]
      /\ past = [i \in DOMAIN m |-> IF m[i] # NUL /\ ~in_set(m[i], delim)
                                      THEN past[i + 1] ELSE i]
  BY <1>6
<1> HIDE DEF skip, past
<1>8. \A i \in 0..n : /\ skip[i] = IF i \in P THEN i ELSE skip[i + 1]
                      /\ past[i] = IF i \in Q THEN i ELSE past[i + 1]
  BY <1>0, <1>7
<1>9. Finds(skip, n, P) /\ Finds(past, n, Q)
  <2> HIDE DEF P, Q
  <2> QED BY <1>0, <1>2, <1>8, LoopFinds
<1>10. CASE from = NULL
  BY <1>1, <1>10 DEF Cuts
<1>11. CASE from # NULL
  <2> DEFINE i == skip[from]
  <2>1. from \in 0..n  BY <1>11
  <2>2. i \in P /\ from <= i /\ \A j \in from..(i - 1) : j \notin P
    BY <1>9, <2>1 DEF Finds
  <2>3. i \in 0..n  BY <1>2, <2>2
  <2>4. end \in Q /\ i <= end /\ \A j \in i..(end - 1) : j \notin Q
    BY <1>9, <2>3 DEF Finds
  <2>5. end \in 0..n /\ end \in Nat /\ end <= n  BY <1>0, <2>4
  <2>6. from \in Nat /\ i \in Nat /\ i \in from..n  BY <1>0, <2>1, <2>2, <2>3
  <2> HIDE DEF end, i
  <2>7. \A j \in from..(i - 1) : in_set(m[j], delim)
    <3> TAKE j \in from..(i - 1)
    <3>1. j \in 0..n /\ j \notin P  BY <1>0, <2>1, <2>2, <2>3
    <3> QED BY <3>1
  <2>8. \A j \in i..(end - 1) : m[j] # NUL /\ ~in_set(m[j], delim)
    <3> TAKE j \in i..(end - 1)
    <3>1. j \in 0..n /\ j \notin Q  BY <1>0, <2>3, <2>4, <2>5
    <3> QED BY <3>1
  <2>9. ~in_set(m[i], delim) /\ (m[end] = NUL \/ in_set(m[end], delim))
    BY <2>2, <2>4
  <2> HIDE DEF P, Q
  <2>10. CASE m[i] = NUL
    <3>1. strtok(m, sv, str, delim) = [mem |-> m, save |-> NULL, ret |-> NULL]
      BY <1>1, <2>10 DEF i
    <3>2. NoneFrom(m, n, from, delim)  BY <2>6, <2>7, <2>10 DEF NoneFrom
    <3> QED BY <3>1, <3>2 DEF Cuts
  <2>11. CASE m[i] # NUL
    <3>1. end # i  BY <2>9, <2>11
    <3>2. end \in (i + 1)..n  BY <1>0, <2>4, <2>5, <2>6, <3>1
    <3> DEFINE t == strtok(m, sv, str, delim)
    <3>3. t = IF m[end] = NUL
                THEN [mem |-> m, save |-> NULL, ret |-> i]
                ELSE [mem |-> [m EXCEPT ![end] = NUL], save |-> end + 1, ret |-> i]
      BY <1>1, <1>11, <2>11 DEF i
    <3>4. m[end] # NUL => end # n  BY <1>0
    <3> HIDE DEF t
    <3>5. WordAt(m, n, from, delim, i, end)
      BY <2>6, <2>7, <2>8, <2>9, <3>2, <3>4 DEF WordAt
    <3>6. Cuts(t, m, n, from, delim)  BY <1>11, <3>3, <3>5 DEF Cuts
    <3> QED BY <3>6 DEF t
  <2> QED BY <2>10, <2>11
<1> QED BY <1>10, <1>11

Plain == STRING \ {NUL}

\* The parts of the definition of Words.
Delimits(s, i) == i \notin DOMAIN s \/ s[i] \in Delimiters
Starts(s) == {i \in DOMAIN s : ~Delimits(s, i) /\ Delimits(s, i - 1)}
Stop(s, i) ==
    CHOOSE j \in i..Len(s) : Delimits(s, j + 1) /\ \A k \in i..j : ~Delimits(s, k)
From(s, n) == CHOOSE i \in Starts(s) : Cardinality(Starts(s) \cap 1..i) = n

LEMMA WordsAre ==
  ASSUME NEW s
  PROVE  Words(s, Delimiters) =
           [n \in 1..Cardinality(Starts(s)) |-> SubSeq(s, From(s, n), Stop(s, From(s, n)))]
BY DEF Words, Starts, Delimits, Stop, From

LEMMA LenWords ==
  ASSUME NEW s \in Seq(Plain)
  PROVE  /\ IsFiniteSet(Starts(s)) /\ Cardinality(Starts(s)) \in Nat
         /\ Len(Words(s, Delimiters)) = Cardinality(Starts(s))
<1> DEFINE c == Cardinality(Starts(s))
           w == Words(s, Delimiters)
<1>1. IsFiniteSet(Starts(s))
  <2>1. IsFiniteSet(1..Len(s))  BY FS_Interval
  <2>2. Starts(s) \subseteq 1..Len(s)  BY DEF Starts
  <2> QED BY <2>1, <2>2, FS_Subset
<1>2. c \in Nat  BY <1>1, FS_CardinalityType
<1> HIDE DEF c
<1>3. w = [n \in 1..c |-> SubSeq(s, From(s, n), Stop(s, From(s, n)))]  BY WordsAre DEF c
<1> DEFINE V == {SubSeq(s, From(s, n), Stop(s, From(s, n))) : n \in 1..c}
<1>4. w \in [1..c -> V]  BY <1>3
<1> HIDE DEF V, w
<1>5. w \in Seq(V) /\ Len(w) = c  BY <1>2, <1>4
<1> QED BY <1>1, <1>2, <1>5 DEF c, w

\* The start with n starts up to it is the n-th.
LEMMA FromIs ==
  ASSUME NEW s \in Seq(Plain), NEW i \in Starts(s),
         NEW n, Cardinality(Starts(s) \cap 1..i) = n
  PROVE  From(s, n) = i /\ n \in Nat
<1> DEFINE T == Starts(s)
<1>1. IsFiniteSet(T)  BY LenWords
<1>2. T \subseteq Nat \ {0}  BY DEF Starts
<1> HIDE DEF T
<1>3. i \in T /\ Cardinality(T \cap 1..i) = n  BY DEF T
<1>4. ASSUME NEW a \in T, NEW b \in T, a < b
      PROVE  Cardinality(T \cap 1..a) # Cardinality(T \cap 1..b)
  <2>1. IsFiniteSet(T \cap 1..a) /\ IsFiniteSet(T \cap 1..b)  BY <1>1, FS_Subset
  <2>2. a \in Nat /\ b \in Nat  BY <1>2
  <2>3. b \notin T \cap 1..a  BY <1>4, <2>2
  <2>4. (T \cap 1..a) \cup {b} \subseteq T \cap 1..b  BY <1>2, <1>4, <2>2
  <2>5. Cardinality((T \cap 1..a) \cup {b}) = Cardinality(T \cap 1..a) + 1
    BY <2>1, <2>3, FS_AddElement
  <2>6. Cardinality((T \cap 1..a) \cup {b}) <= Cardinality(T \cap 1..b)
    BY <2>1, <2>4, FS_Subset
  <2>7. Cardinality(T \cap 1..a) \in Nat  BY <2>1, FS_CardinalityType
  <2> QED BY ONLY <2>5, <2>6, <2>7
<1>5. ASSUME NEW k \in T, Cardinality(T \cap 1..k) = n PROVE k = i
  <2>1. ~(k < i)  BY <1>3, <1>4, <1>5
  <2>2. ~(i < k)  BY <1>3, <1>4, <1>5
  <2> QED BY <1>2, <1>3, <2>1, <2>2
<1>6. From(s, n) = i  BY <1>3, <1>5 DEF From, T
<1>7. n \in Nat
  <2>1. IsFiniteSet(T \cap 1..i)  BY <1>1, FS_Subset
  <2> QED BY <1>3, <2>1, FS_CardinalityType
<1> QED BY <1>6, <1>7

LEMMA StopIs ==
  ASSUME NEW s \in Seq(Plain), NEW i \in Nat, NEW e \in i..Len(s),
         Delimits(s, e + 1), \A k \in i..e : ~Delimits(s, k)
  PROVE  Stop(s, i) = e
<1>1. ASSUME NEW j \in i..Len(s), Delimits(s, j + 1), \A k \in i..j : ~Delimits(s, k)
      PROVE  j = e
  <2>1. ~(j < e)
    <3>1. j < e => j + 1 \in i..e  OBVIOUS
    <3> QED BY <1>1, <3>1
  <2>2. ~(e < j)
    <3>1. e < j => e + 1 \in i..j  OBVIOUS
    <3> QED BY <1>1, <3>1
  <2> QED BY <2>1, <2>2
<1> QED BY <1>1 DEF Stop

-----------------------------------------------------------------------------
(***************************************************************************)
(* A line in memory.                                                       *)
(***************************************************************************)
Sep(b, a) == in_set(b[a], Delimiters)

LEMMA LineIs ==
  ASSUME NEW s \in Seq(Plain), NEW l, l = Len(s), NEW b, b = Line(s)
  PROVE  /\ l \in Nat /\ DOMAIN s = 1..l /\ Ends(b, l) /\ b[l] = NUL
         /\ \A a \in 0..(l - 1) : b[a] # NUL /\ b[a] = s[a + 1] /\ s[a + 1] \in Plain
         /\ Delimits(s, 0)
         /\ \A a \in 0..l : Delimits(s, a + 1) <=> (a = l \/ Sep(b, a))
         /\ \A a : Sep(b, a) => b[a] # NUL
<1>1. l \in Nat /\ DOMAIN s = 1..l  OBVIOUS
<1>2. b = [i \in 0..l |-> IF i < l THEN s[i + 1] ELSE NUL]  BY DEF Line
<1>3. Ends(b, l) /\ b[l] = NUL  BY <1>1, <1>2 DEF Ends
<1>4. ASSUME NEW a \in 0..(l - 1)
      PROVE  b[a] # NUL /\ b[a] = s[a + 1] /\ s[a + 1] \in Plain
  <2>1. a \in 0..l /\ a < l /\ a + 1 \in 1..l  BY <1>1
  <2>2. b[a] = s[a + 1]  BY <1>2, <2>1
  <2>3. s[a + 1] \in Plain  BY <1>1, <2>1
  <2> QED BY <2>2, <2>3 DEF Plain
<1>5. Delimits(s, 0)  BY <1>1 DEF Delimits
<1>6. ASSUME NEW a \in 0..l PROVE Delimits(s, a + 1) <=> (a = l \/ Sep(b, a))
  <2>1. CASE a = l  BY <1>1, <2>1 DEF Delimits
  <2>2. CASE a # l
    <3>1. a \in 0..(l - 1) /\ a + 1 \in DOMAIN s  BY <1>1, <2>2
    <3>2. b[a] # NUL /\ s[a + 1] = b[a]  BY <1>4, <3>1
    <3> QED BY <2>2, <3>1, <3>2 DEF Delimits, Sep, in_set
  <2> QED BY <2>1, <2>2
<1> QED BY <1>1, <1>3, <1>4, <1>5, <1>6 DEF Sep, in_set

LEMMA Start ==
  ASSUME NEW s \in Seq(Plain), NEW l, l = Len(s), NEW b, b = Line(s), NEW k \in Starts(s)
  PROVE  /\ k \in 1..l /\ k - 1 \in 0..(l - 1) /\ ~Sep(b, k - 1)
         /\ k > 1 => Sep(b, k - 2)
<1>1. k \in DOMAIN s /\ ~Delimits(s, k) /\ Delimits(s, k - 1)  BY DEF Starts
<1>2. /\ l \in Nat /\ DOMAIN s = 1..l
      /\ \A a \in 0..l : Delimits(s, a + 1) <=> (a = l \/ Sep(b, a))
  BY LineIs
<1>4. k \in 1..l /\ k - 1 \in 0..(l - 1) /\ k - 1 \in 0..l /\ (k - 1) + 1 = k
  BY <1>1, <1>2
<1>5. ~Sep(b, k - 1)  BY <1>1, <1>2, <1>4
<1>6. ASSUME k > 1 PROVE Sep(b, k - 2)
  <2>1. k - 2 \in 0..l /\ k - 2 # l /\ (k - 2) + 1 = k - 1  BY <1>2, <1>4, <1>6
  <2> QED BY <1>1, <1>2, <2>1
<1> QED BY <1>4, <1>5, <1>6

LEMMA NoneLeft ==
  ASSUME NEW s \in Seq(Plain), NEW l, l = Len(s), NEW b, b = Line(s), NEW from \in Nat,
         NoneFrom(b, l, from, Delimiters), NEW k \in Starts(s)
  PROVE  k - 1 < from
<1>1. PICK i \in from..l : b[i] = NUL /\ \A a \in from..(i - 1) : Sep(b, a)
  BY DEF NoneFrom, Sep
<1>2. k \in 1..l /\ k - 1 \in 0..(l - 1) /\ ~Sep(b, k - 1) /\ l \in Nat
  BY Start, LineIs
<1>3. \A a \in 0..(l - 1) : b[a] # NUL  BY LineIs
<1>4. i \in Nat /\ ~(i < l)  BY <1>1, <1>2, <1>3
<1> QED BY <1>1, <1>2, <1>4

LEMMA WordIs ==
  ASSUME NEW s \in Seq(Plain), NEW l, l = Len(s), NEW b, b = Line(s),
         NEW from \in Nat, from <= l, from = 0 \/ Sep(b, from - 1),
         NEW i, NEW e, WordAt(b, l, from, Delimiters, i, e)
  PROVE  /\ i \in Nat /\ e \in Nat /\ from <= i /\ i < e /\ e <= l
         /\ i + 1 \in Starts(s) /\ Stop(s, i + 1) = e
         /\ \A k \in Starts(s) : k - 1 < from \/ k = i + 1 \/ e < k - 1
<1>1. /\ l \in Nat /\ DOMAIN s = 1..l /\ b[l] = NUL /\ Delimits(s, 0)
      /\ \A a \in 0..(l - 1) : b[a] # NUL
      /\ \A a \in 0..l : Delimits(s, a + 1) <=> (a = l \/ Sep(b, a))
  BY LineIs
<1>2. /\ i \in from..l /\ e \in (i + 1)..l
      /\ \A a \in from..(i - 1) : Sep(b, a)
      /\ \A a \in i..(e - 1) : b[a] # NUL /\ ~Sep(b, a)
      /\ b[e] = NUL \/ Sep(b, e)
  BY DEF WordAt, Sep
<1>3. i \in Nat /\ i <= l /\ from <= i  BY <1>1, <1>2
<1>4. e \in Nat /\ e <= l /\ i < e  BY <1>1, <1>2, <1>3
<1>8. \A k \in (i + 1)..e : ~Delimits(s, k)
  <2> TAKE k \in (i + 1)..e
  <2>1. k - 1 \in i..(e - 1) /\ k - 1 \in 0..l /\ (k - 1) + 1 = k /\ k - 1 # l
    BY <1>1, <1>3, <1>4
  <2> QED BY <1>1, <1>2, <2>1
<1>9. Delimits(s, e + 1)
  <2>1. e \in 0..l /\ (e # l => e \in 0..(l - 1))  BY <1>1, <1>4
  <2> QED BY <1>1, <1>2, <2>1
<1>10. Stop(s, i + 1) = e
  <2>1. i + 1 \in Nat /\ e \in (i + 1)..Len(s)  BY <1>1, <1>3, <1>4
  <2> QED BY <1>8, <1>9, <2>1, StopIs
<1>11. i + 1 \in Starts(s)
  <2>1. i + 1 \in 1..l /\ i + 1 \in (i + 1)..e /\ (i + 1) - 1 = i
    BY <1>1, <1>3, <1>4
  <2>2. ~Delimits(s, i + 1)  BY <1>8, <2>1
  <2>3. Delimits(s, i)
    <3>1. CASE i = 0  BY <1>1, <3>1
    <3>2. CASE i # 0
      <4>1. i - 1 \in 0..l /\ (i - 1) + 1 = i  BY <1>1, <1>3, <1>4, <3>2
      <4>2. Sep(b, i - 1)
        <5>1. CASE from = i  BY <3>2, <5>1
        <5>2. CASE from # i
          <6>1. i - 1 \in from..(i - 1)  BY <1>3, <5>2
          <6> QED BY <1>2, <6>1
        <5> QED BY <5>1, <5>2
      <4>3. Delimits(s, (i - 1) + 1)  BY <1>1, <4>1, <4>2
      <4> QED BY <4>1, <4>3
    <3> QED BY <3>1, <3>2
  <2> QED BY <1>1, <2>1, <2>2, <2>3 DEF Starts
<1>12. ASSUME NEW k \in Starts(s), ~(k - 1 < from), k # i + 1, ~(e < k - 1)
       PROVE  FALSE
  <2>1. /\ k \in 1..l /\ k - 1 \in 0..(l - 1) /\ ~Sep(b, k - 1)
        /\ k > 1 => Sep(b, k - 2)
    BY Start
  <2>2. CASE k - 1 < i
    <3>1. k - 1 \in from..(i - 1)  BY <1>1, <1>3, <1>12, <2>1, <2>2
    <3> QED BY <1>2, <2>1, <3>1
  <2>3. CASE ~(k - 1 < i) /\ k - 1 < e + 1
    <3>1. k - 2 \in i..(e - 1) /\ k > 1  BY <1>1, <1>3, <1>4, <1>12, <2>1, <2>3
    <3> QED BY <1>2, <2>1, <3>1
  <2> QED BY <1>1, <1>3, <1>4, <1>12, <2>1, <2>2, <2>3
<1> QED BY <1>3, <1>4, <1>10, <1>11, <1>12

\* A string in memory, where the line has the same characters.
\* Memory as the line was, from i up to e.
Agrees(m, b, i, e) == \A a \in i..(e - 1) : m[a] = b[a]

LEMMA StringIs ==
  ASSUME NEW s \in Seq(Plain), NEW l, l = Len(s), NEW b, b = Line(s),
         NEW m, Ends(m, l), NEW i \in Nat, NEW e \in Nat, i < e, e <= l,
         m[e] = NUL, Agrees(m, b, i, e)
  PROVE  string(m, i) = SubSeq(s, i + 1, e)
<1>1. /\ l \in Nat /\ DOMAIN s = 1..l
      /\ \A a \in 0..(l - 1) : b[a] # NUL /\ s[a + 1] = b[a]
  <2>1. s \in Seq(Plain) /\ l = Len(s) /\ b = Line(s)  OBVIOUS
  <2> QED BY ONLY <2>1, LineIs
<1>2. i \in 0..l /\ e \in 0..l  BY <1>1
<1>3. \A a \in i..(e - 1) : a \in 0..(l - 1)  BY <1>1
<1>4. strlen(m, i) = e - i
  <2>1. \A a \in i..(e - 1) : m[a] # NUL  BY <1>1, <1>3 DEF Agrees
  <2> QED BY <1>2, <2>1, StrlenAt
<1>5. string(m, i) = [x \in 1..(e - i) |-> m[i + x - 1]]  BY <1>4 DEF string
<1>6. \A x \in 1..(e - i) : m[i + x - 1] = s[i + x]
  <2> TAKE x \in 1..(e - i)
  <2>1. i + x - 1 \in i..(e - 1) /\ (i + x - 1) + 1 = i + x  OBVIOUS
  <2> QED BY <1>1, <1>3, <2>1 DEF Agrees
<1>7. string(m, i) = [x \in 1..(e - i) |-> s[i + x]]  BY <1>5, <1>6
<1>8. SubSeq(s, i + 1, e) = [x \in 1..(e - i) |-> s[i + x]]
  <2>1. SubSeq(s, i + 1, e) = [x \in 1..(e - (i + 1) + 1) |-> s[x + (i + 1) - 1]]
    BY <1>1
  <2>2. 1..(e - (i + 1) + 1) = 1..(e - i)  OBVIOUS
  <2>3. \A x \in 1..(e - i) : s[x + (i + 1) - 1] = s[i + x]
    <3> TAKE x \in 1..(e - i)
    <3>1. x + (i + 1) - 1 = i + x  OBVIOUS
    <3> QED BY <3>1
  <2> QED BY <2>1, <2>2, <2>3
<1> QED BY <1>7, <1>8

-----------------------------------------------------------------------------
(***************************************************************************)
(* The calls of strtok on one line.  from is where the next one begins:    *)
(* the starts up to it are those of the words answered.                    *)
(***************************************************************************)
IsCut(s, l, m, b, r, n) ==
    LET e == Stop(s, r + 1) IN
      /\ r \in Nat /\ r + 1 \in Starts(s) /\ Cardinality(Starts(s) \cap 1..(r + 1)) = n
      /\ e \in (r + 1)..l /\ m[e] = NUL /\ \A a \in r..(e - 1) : m[a] = b[a]

Before(s, l, b, m, from, answers, c) ==
    /\ c = Len(answers) /\ from \in 0..l /\ (from = 0 \/ Sep(b, from - 1))
    /\ Cardinality(Starts(s) \cap 1..from) = c
    /\ \A a \in from..l : m[a] = b[a]
    /\ \A n \in 1..c : Stop(s, answers[n] + 1) < from

Progress(s, m, from, answers) ==
    LET l == Len(s)
        b == Line(s)
    IN  /\ Ends(m, l) /\ answers \in Seq(Int)
        /\ \E c \in 0..Len(answers) :
             /\ \A n \in 1..c : IsCut(s, l, m, b, answers[n], n)
             /\ \A n \in (c + 1)..Len(answers) : answers[n] = NULL
             /\ IF from = NULL THEN Cardinality(Starts(s)) = c
                               ELSE Before(s, l, b, m, from, answers, c)

\* How one call adds to the words answered.
LEMMA Appended ==
  ASSUME NEW answers \in Seq(Int), NEW x \in Int
  PROVE  /\ Append(answers, x) \in Seq(Int) /\ Len(Append(answers, x)) = Len(answers) + 1
         /\ \A n \in 1..Len(answers) : Append(answers, x)[n] = answers[n]
         /\ Append(answers, x)[Len(answers) + 1] = x /\ Append(answers, x) # <<>>
OBVIOUS

LEMMA NothingMore ==
  ASSUME NEW s \in Seq(Plain), NEW m, NEW from, NEW answers, Progress(s, m, from, answers),
         from = NULL \/ NoneFrom(m, Len(s), from, Delimiters)
  PROVE  Progress(s, m, NULL, Append(answers, NULL))
<1> DEFINE l == Len(s)
           b == Line(s)
           ret2 == Append(answers, NULL)
           T == Starts(s)
<1>1. Ends(m, l) /\ answers \in Seq(Int) /\ Len(answers) \in Nat  BY DEF Progress
<1>2. PICK c \in 0..Len(answers) :
             /\ \A n \in 1..c : IsCut(s, l, m, b, answers[n], n)
             /\ \A n \in (c + 1)..Len(answers) : answers[n] = NULL
             /\ IF from = NULL THEN Cardinality(T) = c
                               ELSE Before(s, l, b, m, from, answers, c)
  BY DEF Progress
<1>3. l = Len(s) /\ b = Line(s) /\ l \in Nat  OBVIOUS
<1> HIDE DEF b, l
<1>4. Cardinality(T) = c
  <2>1. CASE from = NULL  BY <1>2, <2>1
  <2>2. CASE from # NULL
    <3>1. /\ from \in 0..l /\ Cardinality(T \cap 1..from) = c
          /\ \A a \in from..l : m[a] = b[a]
      BY <1>2, <2>2 DEF Before
    <3>2. from \in Nat  BY <1>3, <3>1
    <3>3. NoneFrom(b, l, from, Delimiters)
      <4>1. PICK i \in from..l : m[i] = NUL /\ \A j \in from..(i - 1) : in_set(m[j], Delimiters)
        BY <1>3, <2>2 DEF NoneFrom
      <4>2. \A j \in from..(i - 1) : j \in from..l  BY <1>3, <3>2
      <4> QED BY <3>1, <4>1, <4>2 DEF NoneFrom
    <3>4. \A k \in T : k - 1 < from
      BY <1>3, <3>2, <3>3, NoneLeft
    <3>5. \A k \in T : k \in 1..from
      <4> TAKE k \in T
      <4>1. k \in 1..l  BY <1>3, Start
      <4> QED BY <1>3, <3>2, <3>4, <4>1
    <3>6. T \cap 1..from = T  BY <3>5
    <3> QED BY <3>1, <3>6
  <2> QED BY <2>1, <2>2
<1>5. NULL \in Int  BY DEF NULL
<1>6. /\ ret2 \in Seq(Int) /\ Len(ret2) = Len(answers) + 1 /\ ret2[Len(answers) + 1] = NULL
      /\ \A n \in 1..Len(answers) : ret2[n] = answers[n]
  BY <1>1, <1>5, Appended
<1> HIDE DEF ret2, T
<1>7. c \in 0..Len(ret2)  BY <1>1, <1>6
<1>8. \A n \in 1..c : IsCut(s, l, m, b, ret2[n], n)
  <2> TAKE n \in 1..c
  <2>1. n \in 1..Len(answers)  BY <1>1
  <2> QED BY <1>2, <1>6, <2>1
<1>9. \A n \in (c + 1)..Len(ret2) : ret2[n] = NULL
  <2> TAKE n \in (c + 1)..Len(ret2)
  <2>1. CASE n = Len(answers) + 1  BY <1>6, <2>1
  <2>2. CASE n # Len(answers) + 1
    <3>1. n \in (c + 1)..Len(answers) /\ n \in 1..Len(answers)  BY <1>1, <1>6, <2>2
    <3> QED BY <1>2, <1>6, <3>1
  <2> QED BY <2>1, <2>2
<1> QED BY <1>1, <1>4, <1>6, <1>7, <1>8, <1>9 DEF Progress, T, l, b, ret2

\* What the words answered are is not changed by a store behind them.
LEMMA StaysCut ==
  ASSUME NEW s, NEW l \in Nat, NEW b, NEW m, DOMAIN m = 0..l, NEW r, NEW n,
         IsCut(s, l, m, b, r, n), NEW e \in Nat, Stop(s, r + 1) < e
  PROVE  IsCut(s, l, [m EXCEPT ![e] = NUL], b, r, n)
<1> DEFINE m2 == [m EXCEPT ![e] = NUL]
           f == Stop(s, r + 1)
<1>1. /\ r \in Nat /\ r + 1 \in Starts(s) /\ Cardinality(Starts(s) \cap 1..(r + 1)) = n
      /\ f \in (r + 1)..l /\ m[f] = NUL /\ \A a \in r..(f - 1) : m[a] = b[a]
  BY DEF IsCut
<1>2. \A a \in 0..l : a # e => m2[a] = m[a]  OBVIOUS
<1>3. f < e  OBVIOUS
<1> HIDE DEF m2, f
<1>4. f \in 0..l /\ f # e /\ \A a \in r..(f - 1) : a \in 0..l /\ a # e  BY <1>1, <1>3
<1>5. m2[f] = NUL /\ \A a \in r..(f - 1) : m2[a] = b[a]  BY <1>1, <1>2, <1>4
<1> QED BY <1>1, <1>5 DEF IsCut, m2, f

LEMMA OneMore ==
  ASSUME NEW s \in Seq(Plain), NEW m, NEW from, NEW answers, Progress(s, m, from, answers),
         from # NULL, NEW i, NEW e, WordAt(m, Len(s), from, Delimiters, i, e)
  PROVE  /\ i \in Nat
         /\ m[e] = NUL => Progress(s, m, NULL, Append(answers, i))
         /\ m[e] # NUL => Progress(s, [m EXCEPT ![e] = NUL], e + 1, Append(answers, i))
<1> DEFINE l == Len(s)
           b == Line(s)
           ret2 == Append(answers, i)
           T == Starts(s)
           m2 == [m EXCEPT ![e] = NUL]
<1>1. Ends(m, l) /\ answers \in Seq(Int) /\ Len(answers) \in Nat  BY DEF Progress
<1>2. PICK c \in 0..Len(answers) :
             /\ \A n \in 1..c : IsCut(s, l, m, b, answers[n], n)
             /\ \A n \in (c + 1)..Len(answers) : answers[n] = NULL
             /\ Before(s, l, b, m, from, answers, c)
  BY DEF Progress
<1>3. l = Len(s) /\ b = Line(s) /\ l \in Nat /\ DOMAIN m = 0..l  BY <1>1 DEF Ends
<1>4. /\ c = Len(answers) /\ from \in 0..l /\ (from = 0 \/ Sep(b, from - 1))
      /\ Cardinality(T \cap 1..from) = c
      /\ \A a \in from..l : m[a] = b[a]
      /\ \A n \in 1..c : Stop(s, answers[n] + 1) < from
  BY <1>2 DEF Before
<1>5. /\ i \in from..l /\ e \in (i + 1)..l
      /\ \A j \in from..(i - 1) : in_set(m[j], Delimiters)
      /\ \A j \in i..(e - 1) : m[j] # NUL /\ ~in_set(m[j], Delimiters)
      /\ m[e] = NUL \/ (in_set(m[e], Delimiters) /\ e # l)
  BY DEF WordAt
<1> HIDE DEF b, l
<1>6. from \in Nat /\ from <= l /\ i \in Nat /\ e \in Nat /\ e \in from..l /\ i \in from..l
  BY <1>3, <1>4, <1>5
<1>7. \A j \in from..(e - 1) : j \in from..l  BY <1>3, <1>6
<1>8. WordAt(b, l, from, Delimiters, i, e)
  <2>1. \A j \in from..(i - 1) : j \in from..(e - 1)  BY <1>5, <1>6
  <2>2. \A j \in i..(e - 1) : j \in from..(e - 1)  BY <1>5, <1>6
  <2>3. m[e] = b[e]  BY <1>4, <1>6
  <2>4. \A j \in from..(i - 1) : m[j] = b[j]  BY <1>4, <1>7, <2>1
  <2>5. \A j \in i..(e - 1) : m[j] = b[j]  BY <1>4, <1>7, <2>2
  <2> QED BY <1>5, <2>3, <2>4, <2>5 DEF WordAt
<1>9. /\ from <= i /\ i < e /\ e <= l /\ i + 1 \in T /\ Stop(s, i + 1) = e
      /\ \A k \in T : k - 1 < from \/ k = i + 1 \/ e < k - 1
  BY <1>3, <1>4, <1>6, <1>8, WordIs
<1>10. \A k \in T : k \in 1..l  BY <1>3, Start
<1>11. IsFiniteSet(T)  BY LenWords
<1> HIDE DEF T
\* One start more is up to x, from the end of the word on.
<1>12. ASSUME NEW x \in Nat, i + 1 <= x, x <= e + 1
       PROVE  Cardinality(T \cap 1..x) = c + 1
  <2>1. T \cap 1..x = (T \cap 1..from) \cup {i + 1}
    <3>1. \A k \in T \cap 1..x : k \in (T \cap 1..from) \cup {i + 1}
      <4> TAKE k \in T \cap 1..x
      <4>1. k \in T /\ k \in 1..x /\ k \in Nat  BY <1>10
      <4>2. k - 1 < from \/ k = i + 1  BY <1>6, <1>9, <1>12, <4>1
      <4>3. k - 1 < from => k \in 1..from  BY <1>6, <4>1
      <4> QED BY <4>1, <4>2, <4>3
    <3>2. \A k \in T \cap 1..from : k \in T \cap 1..x  BY <1>6, <1>9, <1>12
    <3>3. i + 1 \in T \cap 1..x  BY <1>6, <1>9, <1>12
    <3> QED BY <3>1, <3>2, <3>3
  <2>2. i + 1 \notin T \cap 1..from  BY <1>6, <1>9
  <2>3. IsFiniteSet(T \cap 1..from)  BY <1>11, FS_Subset
  <2>4. Cardinality((T \cap 1..from) \cup {i + 1}) = Cardinality(T \cap 1..from) + 1
    BY <2>2, <2>3, FS_AddElement
  <2> QED BY <1>4, <2>1, <2>4
<1>13. i \in Int  BY <1>6
<1>14. /\ ret2 \in Seq(Int) /\ Len(ret2) = Len(answers) + 1 /\ ret2[Len(answers) + 1] = i
       /\ \A n \in 1..Len(answers) : ret2[n] = answers[n]
  BY <1>1, <1>13, Appended
<1> HIDE DEF ret2
<1>15. c + 1 \in 0..Len(ret2) /\ c + 1 = Len(ret2)  BY <1>1, <1>4, <1>14
<1>16. Cardinality(T \cap 1..(i + 1)) = c + 1
  <2>1. i + 1 \in Nat /\ i + 1 <= i + 1 /\ i + 1 <= e + 1  BY <1>6, <1>9
  <2> QED BY <1>12, <2>1
<1>17. \A a \in i..(e - 1) : a \in from..l /\ a # e /\ a \in 0..l  BY <1>3, <1>6, <1>7, <1>9
<1>18. ASSUME NEW mm, mm[e] = NUL, \A a \in i..(e - 1) : mm[a] = m[a],
              \A n \in 1..c : IsCut(s, l, mm, b, answers[n], n)
       PROVE  \A n \in 1..(c + 1) : IsCut(s, l, mm, b, ret2[n], n)
  <2> TAKE n \in 1..(c + 1)
  <2>1. CASE n = c + 1
    <3>1. ret2[n] = i  BY <1>4, <1>14, <2>1
    <3>2. e \in (i + 1)..l  BY <1>5
    <3>3. \A a \in i..(e - 1) : mm[a] = b[a]  BY <1>4, <1>17, <1>18
    <3>4. Stop(s, i + 1) = e /\ i + 1 \in Starts(s)
          /\ Cardinality(Starts(s) \cap 1..(i + 1)) = c + 1
      BY <1>9, <1>16 DEF T
    <3>5. IsCut(s, l, mm, b, i, c + 1)  BY <1>6, <1>18, <3>2, <3>3, <3>4 DEF IsCut
    <3> QED BY <2>1, <3>1, <3>5
  <2>2. CASE n # c + 1
    <3>1. n \in 1..c /\ n \in 1..Len(answers)  BY <1>4, <2>2
    <3> QED BY <1>14, <1>18, <3>1
  <2> QED BY <2>1, <2>2
<1>19. \A n \in ((c + 1) + 1)..Len(ret2) : ret2[n] = NULL  BY <1>15
<1>20. ASSUME m[e] = NUL PROVE Progress(s, m, NULL, ret2)
  <2>1. \A n \in 1..(c + 1) : IsCut(s, l, m, b, ret2[n], n)
    BY <1>2, <1>18, <1>20
  <2>2. e = l
    <3>1. b[e] = NUL  BY <1>4, <1>6, <1>20
    <3>2. \A a \in 0..(l - 1) : b[a] # NUL  BY <1>3, LineIs
    <3>3. e # l => e \in 0..(l - 1)  BY <1>3, <1>6
    <3> QED BY <3>1, <3>2, <3>3
  <2>3. T \cap 1..e = T  BY <1>10, <2>2
  <2>4. Cardinality(T) = c + 1
    <3>1. i + 1 <= e /\ e <= e + 1  BY <1>6, <1>9
    <3>2. Cardinality(T \cap 1..e) = c + 1  BY <1>6, <1>12, <3>1
    <3> QED BY <2>3, <3>2
  <2> QED BY <1>1, <1>14, <1>15, <1>19, <2>1, <2>4 DEF Progress, T, l, b
<1>21. ASSUME m[e] # NUL PROVE Progress(s, m2, e + 1, ret2)
  <2>1. \A a \in 0..l : m2[a] = IF a = e THEN NUL ELSE m[a]  BY <1>3
  <2>2. DOMAIN m2 = 0..l  BY <1>3
  <2>3. m2 = [m EXCEPT ![e] = NUL]  OBVIOUS
  <2> HIDE DEF m2
  <2>4. e \in 0..l /\ l \in 0..l /\ e # l  BY <1>3, <1>5, <1>6, <1>21
  <2>5. Ends(m2, l)
    <3>1. m[l] = NUL  BY <1>1 DEF Ends
    <3> QED BY <1>3, <2>1, <2>2, <2>4, <3>1 DEF Ends
  <2>6. \A n \in 1..c : IsCut(s, l, m2, b, answers[n], n)
    <3> TAKE n \in 1..c
    <3> DEFINE f == Stop(s, answers[n] + 1)
    <3>1. IsCut(s, l, m, b, answers[n], n) /\ f < from  BY <1>2, <1>4
    <3>2. f \in Int  BY <3>1, <1>3 DEF IsCut
    <3> HIDE DEF f
    <3>3. f < e  BY <1>6, <3>1, <3>2
    <3> QED BY <1>3, <1>6, <2>3, <3>1, <3>3, StaysCut DEF f
  <2>7. m2[e] = NUL /\ \A a \in i..(e - 1) : m2[a] = m[a]  BY <1>17, <2>1, <2>4
  <2>8. \A n \in 1..(c + 1) : IsCut(s, l, m2, b, ret2[n], n)  BY <1>18, <2>6, <2>7
  <2>9. Before(s, l, b, m2, e + 1, ret2, c + 1)
    <3>1. e + 1 \in 0..l /\ (e + 1) - 1 = e /\ e + 1 \in Nat  BY <1>3, <1>6, <2>4
    <3>2. Sep(b, e)  BY <1>4, <1>5, <1>6, <1>21 DEF Sep
    <3>3. Cardinality(T \cap 1..(e + 1)) = c + 1
      <4>1. i + 1 <= e + 1 /\ e + 1 <= e + 1  BY <1>6, <1>9
      <4> QED BY <1>12, <3>1, <4>1
    <3>4. \A a \in (e + 1)..l : m2[a] = b[a]
      <4> TAKE a \in (e + 1)..l
      <4>1. a \in 0..l /\ a # e /\ a \in from..l  BY <1>3, <1>6
      <4> QED BY <1>4, <2>1, <4>1
    <3>5. \A n \in 1..(c + 1) : Stop(s, ret2[n] + 1) < e + 1
      <4> TAKE n \in 1..(c + 1)
      <4>1. CASE n = c + 1
        <5>1. ret2[n] = i  BY <1>4, <1>14, <4>1
        <5> QED BY <1>6, <1>9, <5>1
      <4>2. CASE n # c + 1
        <5>1. n \in 1..c /\ n \in 1..Len(answers)  BY <1>4, <4>2
        <5> DEFINE f == Stop(s, answers[n] + 1)
        <5>2. f < from  BY <1>4, <5>1
        <5>3. f \in Int
          <6>1. IsCut(s, l, m, b, answers[n], n)  BY <1>2, <5>1
          <6> QED BY <1>3, <6>1 DEF IsCut
        <5>4. ret2[n] = answers[n]  BY <1>14, <5>1
        <5> HIDE DEF f
        <5>5. f < e + 1  BY <1>6, <5>2, <5>3
        <5> QED BY <5>4, <5>5 DEF f
      <4> QED BY <4>1, <4>2
    <3> QED BY <1>15, <3>1, <3>2, <3>3, <3>4, <3>5 DEF Before, T
  <2>10. e + 1 # NULL  BY <1>6 DEF NULL
  <2> QED BY <1>14, <1>15, <1>19, <2>5, <2>8, <2>9, <2>10 DEF Progress, T, l, b
<1> QED BY <1>6, <1>20, <1>21 DEF ret2

\* A line and how far it is cut.
TokJob ==
    /\ job = [fn |-> "strtok", line |-> job.line, mem |-> job.mem, save |-> job.save,
              ret |-> job.ret]
    /\ job.line \in Seq(Plain)
    /\ Progress(job.line, job.mem, IF job.ret = <<>> THEN 0 ELSE job.save, job.ret)

\* Any other job is as it was, or answered.
OtherJob ==
    \E j \in StrtoulJobs \cup StringJobs \cup BootJobs :
      job = j \/ job = [j EXCEPT !.ret = <<Answer(j)>>]

JobInv == IF job.fn = "strtok" THEN TokJob ELSE OtherJob

LEMMA OtherIs ==
  ASSUME NEW j \in StrtoulJobs \cup StringJobs \cup BootJobs
  PROVE  /\ j.fn # "strtok" /\ j.ret = <<>>
         /\ j.fn \in {"strtoul", "strcmp", "strchr", "memmove", "strcat", "cpu_brand", "boot"}
<1>1. CASE j \in StrtoulJobs  BY <1>1 DEF StrtoulJobs
<1>2. CASE j \in StringJobs  BY <1>2 DEF StringJobs
<1>3. CASE j \in BootJobs  BY <1>3 DEF BootJobs
<1> QED BY <1>1, <1>2, <1>3

\* Before the first call the line is as it was typed.
LEMMA InitProgress ==
  ASSUME NEW s \in Seq(Plain)
  PROVE  Progress(s, Line(s), 0, <<>>)
<1> DEFINE l == Len(s)
           b == Line(s)
           T == Starts(s)
<1>1. l \in Nat /\ Ends(b, l)  BY LineIs
<1>2. <<>> \in Seq(Int) /\ Len(<<>>) = 0  OBVIOUS
<1>3. Cardinality(T \cap 1..0) = 0
  <2>1. T \cap 1..0 = {}  OBVIOUS
  <2> QED BY <2>1, FS_EmptySet
<1> HIDE DEF l, b, T
<1>4. 0 \in 0..l /\ 0 \in 0..0  BY <1>1
<1>5. Before(s, l, b, b, 0, <<>>, 0)  BY <1>2, <1>3, <1>4 DEF Before, T
<1>6. 0 # NULL  BY DEF NULL
<1>7. \A n \in 1..0 : IsCut(s, l, b, b, <<>>[n], n)  OBVIOUS
<1>8. \A n \in (0 + 1)..Len(<<>>) : <<>>[n] = NULL  BY <1>2
<1> QED BY <1>1, <1>2, <1>4, <1>5, <1>6, <1>7, <1>8 DEF Progress, l, b

LEMMA InitJob == LibkInit => JobInv
<1> SUFFICES ASSUME LibkInit PROVE JobInv
  OBVIOUS
<1>1. CASE job \in StrtoulJobs \cup StringJobs \cup BootJobs
  <2>1. job.fn # "strtok"  BY <1>1, OtherIs
  <2> QED BY <1>1, <2>1 DEF JobInv, OtherJob
<1>2. CASE job \in StrtokJobs
  <2>1. PICK s \in Lines : job \in [fn : {"strtok"}, line : {s}, mem : {Line(s)},
                                    save : {NULL} \cup (0..Len(s)), ret : {<<>>}]
    BY <1>2 DEF StrtokJobs
  <2>2. s \in Seq(Plain)  BY LibkAssumption DEF Plain
  <2>3. job.fn = "strtok" /\ job.line = s /\ job.mem = Line(s) /\ job.ret = <<>>
    BY <2>1
  <2>4. job = [fn |-> "strtok", line |-> job.line, mem |-> job.mem, save |-> job.save,
               ret |-> job.ret]
    BY <2>1
  <2>5. Progress(s, Line(s), 0, <<>>)  BY <2>2, InitProgress
  <2> QED BY <2>2, <2>3, <2>4, <2>5 DEF JobInv, TokJob
<1> QED BY <1>1, <1>2 DEF LibkInit, Jobs

LEMMA CallJob == ASSUME JobInv, Call PROVE JobInv'
<1>1. /\ job.fn # "strtok" /\ job.ret = <<>> /\ job' = [job EXCEPT !.ret = <<Answer(job)>>]
  BY DEF Call
<1>2. PICK j \in StrtoulJobs \cup StringJobs \cup BootJobs :
        job = j \/ job = [j EXCEPT !.ret = <<Answer(j)>>]
  BY <1>1 DEF JobInv, OtherJob
<1>3. j.fn # "strtok" /\ j.ret = <<>>  BY OtherIs
<1>4. "ret" \in DOMAIN j
  <2>1. CASE j \in StrtoulJobs  BY <2>1 DEF StrtoulJobs
  <2>2. CASE j \in StringJobs  BY <2>2 DEF StringJobs
  <2>3. CASE j \in BootJobs  BY <2>3 DEF BootJobs
  <2> QED BY <2>1, <2>2, <2>3
<1>5. job = j
  <2>1. [j EXCEPT !.ret = <<Answer(j)>>].ret = <<Answer(j)>>  BY <1>4
  <2>2. <<Answer(j)>> # <<>>  OBVIOUS
  <2> QED BY <1>1, <1>2, <2>1, <2>2
<1>6. job' = [j EXCEPT !.ret = <<Answer(j)>>]  BY <1>1, <1>5
<1>7. job'.fn = j.fn  BY <1>6
<1> QED BY <1>3, <1>6, <1>7 DEF JobInv, OtherJob

LEMMA CallStrtokJob == ASSUME JobInv, CallStrtok PROVE JobInv'
<1> DEFINE s == job.line
           m == job.mem
           l == Len(s)
           str == IF job.ret = <<>> THEN 0 ELSE NULL
           from == IF job.ret = <<>> THEN 0 ELSE job.save
           r == strtok(m, job.save, str, Delimiters)
           ret2 == Append(job.ret, r.ret)
<1>1. job.fn = "strtok" /\ job' = [job EXCEPT !.mem = r.mem, !.save = r.save, !.ret = ret2]
  BY DEF CallStrtok
<1>2. TokJob  BY <1>1 DEF JobInv
<1>3. /\ job = [fn |-> "strtok", line |-> s, mem |-> m, save |-> job.save, ret |-> job.ret]
      /\ s \in Seq(Plain) /\ Progress(s, m, from, job.ret)
  BY <1>2 DEF TokJob
<1>4. job' = [fn |-> "strtok", line |-> s, mem |-> r.mem, save |-> r.save, ret |-> ret2]
  BY <1>1, <1>3
<1>5. from = IF str # NULL THEN str ELSE job.save  BY DEF NULL
<1>6. Ends(m, l) /\ job.ret \in Seq(Int)  BY <1>3 DEF Progress
<1>7. from = NULL \/ from \in 0..l
  BY <1>3 DEF Progress, Before
<1> HIDE DEF s, m, l, str, from
<1>8. Cuts(r, m, l, from, Delimiters)  BY <1>5, <1>6, <1>7, StrtokCuts
<1>9. l = Len(s)  BY DEF l
<1> HIDE DEF r
<1>10. Progress(s, r.mem, r.save, ret2)
  <2>1. CASE /\ r = [mem |-> m, save |-> NULL, ret |-> NULL]
             /\ from # NULL => NoneFrom(m, l, from, Delimiters)
    BY <1>3, <1>9, <2>1, NothingMore
  <2>2. CASE /\ from # NULL
             /\ \E i, e :
                  /\ WordAt(m, l, from, Delimiters, i, e)
                  /\ r = IF m[e] = NUL THEN [mem |-> m, save |-> NULL, ret |-> i]
                         ELSE [mem |-> [m EXCEPT ![e] = NUL], save |-> e + 1, ret |-> i]
    <3>1. PICK i, e :
                  /\ WordAt(m, l, from, Delimiters, i, e)
                  /\ r = IF m[e] = NUL THEN [mem |-> m, save |-> NULL, ret |-> i]
                         ELSE [mem |-> [m EXCEPT ![e] = NUL], save |-> e + 1, ret |-> i]
      BY <2>2
    <3>2. /\ m[e] = NUL => Progress(s, m, NULL, Append(job.ret, i))
          /\ m[e] # NUL => Progress(s, [m EXCEPT ![e] = NUL], e + 1, Append(job.ret, i))
      BY <1>3, <1>9, <2>2, <3>1, OneMore
    <3> QED BY <3>1, <3>2
  <2> QED BY <1>8, <2>1, <2>2 DEF Cuts
<1>11. ret2 # <<>>  BY <1>6
<1> HIDE DEF ret2
<1>12. /\ job'.fn = "strtok" /\ job'.line = s /\ job'.mem = r.mem /\ job'.save = r.save
       /\ job'.ret = ret2
  BY <1>4
<1>13. TokJob'  BY <1>3, <1>4, <1>10, <1>11, <1>12 DEF TokJob
<1> QED BY <1>12, <1>13 DEF JobInv

LEMMA JobInvariance == LibkSpec => []JobInv
<1>1. JobInv /\ [LibkNext]_job => JobInv'
  <2> SUFFICES ASSUME JobInv, [LibkNext]_job PROVE JobInv'
    OBVIOUS
  <2>1. CASE Call  BY <2>1, CallJob
  <2>2. CASE CallStrtok  BY <2>2, CallStrtokJob
  <2>3. CASE Done  BY <2>3 DEF Done, JobInv, TokJob, OtherJob
  <2>4. CASE UNCHANGED job  BY <2>4 DEF JobInv, TokJob, OtherJob
  <2> QED BY <2>1, <2>2, <2>3, <2>4 DEF LibkNext
<1> QED BY <1>1, InitJob, PTL DEF LibkSpec

LEMMA CutRight == JobInv => TokensCut
<1> SUFFICES ASSUME JobInv, job.fn = "strtok", NEW k \in DOMAIN job.ret
             PROVE  IF k <= Len(Words(job.line, Delimiters))
                      THEN /\ job.ret[k] # NULL
                           /\ string(job.mem, job.ret[k]) = Words(job.line, Delimiters)[k]
                      ELSE job.ret[k] = NULL
  BY DEF TokensCut
<1> DEFINE s == job.line
           m == job.mem
           l == Len(s)
           b == Line(s)
           from == IF job.ret = <<>> THEN 0 ELSE job.save
           ret_ == job.ret
           T == Starts(s)
<1>1. s \in Seq(Plain) /\ Progress(s, m, from, ret_)  BY DEF JobInv, TokJob
<1> HIDE DEF s, m, from, ret_
<1>2. Ends(m, l) /\ ret_ \in Seq(Int)  BY <1>1 DEF Progress
<1>3. PICK c \in 0..Len(ret_) :
             /\ \A n \in 1..c : IsCut(s, l, m, b, ret_[n], n)
             /\ \A n \in (c + 1)..Len(ret_) : ret_[n] = NULL
             /\ IF from = NULL THEN Cardinality(T) = c
                               ELSE Before(s, l, b, m, from, ret_, c)
  BY <1>1 DEF Progress
<1>4. l = Len(s) /\ b = Line(s) /\ l \in Nat  BY <1>1
<1>5. /\ IsFiniteSet(T) /\ Cardinality(T) \in Nat
      /\ Len(Words(s, Delimiters)) = Cardinality(T)
  BY <1>1, LenWords
<1>6. Words(s, Delimiters) =
           [n \in 1..Cardinality(T) |-> SubSeq(s, From(s, n), Stop(s, From(s, n)))]
  BY WordsAre
<1>7. k \in 1..Len(ret_) /\ k \in Nat /\ Len(ret_) \in Nat  BY <1>2 DEF ret_
<1> DEFINE N == Cardinality(T)
<1>8. c <= N /\ (c < Len(ret_) => N = c)
  <2>1. CASE from = NULL  BY <1>3, <1>5, <2>1
  <2>2. CASE from # NULL
    <3>1. c = Len(ret_) /\ Cardinality(T \cap 1..from) = c  BY <1>3, <2>2 DEF Before
    <3>2. T \cap 1..from \subseteq T  OBVIOUS
    <3>3. Cardinality(T \cap 1..from) <= N  BY <1>5, <3>2, FS_Subset
    <3> QED BY <1>5, <1>7, <3>1, <3>3
  <2> QED BY <2>1, <2>2
<1> HIDE DEF N, l, b, T
<1>9. N \in Nat /\ Len(Words(s, Delimiters)) = N  BY <1>5 DEF N
<1>10. CASE k <= N
  <2>1. k \in 1..c  BY <1>3, <1>7, <1>8, <1>9, <1>10
  <2> DEFINE x == ret_[k]
             e == Stop(s, x + 1)
  <2>2. /\ x \in Nat /\ x + 1 \in T /\ Cardinality(T \cap 1..(x + 1)) = k
        /\ e \in (x + 1)..l /\ m[e] = NUL /\ \A a \in x..(e - 1) : m[a] = b[a]
    BY <1>3, <2>1 DEF IsCut, T
  <2> HIDE DEF x
  <2>3. From(s, k) = x + 1  BY <1>1, <2>2, FromIs DEF T
  <2>4. k \in 1..N  BY <1>7, <1>9, <1>10
  <2>5. Words(s, Delimiters)[k] = SubSeq(s, x + 1, e)
    BY <1>6, <2>3, <2>4 DEF N
  <2> HIDE DEF e
  <2>6. e \in Nat /\ x < e /\ e <= l  BY <1>4, <2>2
  <2>7. string(m, x) = SubSeq(s, x + 1, e)
    <3>1. x \in Nat /\ m[e] = NUL /\ Agrees(m, b, x, e)  BY <2>2 DEF Agrees
    <3>2. s \in Seq(Plain) /\ l = Len(s) /\ b = Line(s) /\ Ends(m, l)  BY <1>1, <1>2, <1>4
    <3> QED BY ONLY <2>6, <3>1, <3>2, StringIs
  <2>8. x # NULL  BY <2>2 DEF NULL
  <2> QED BY <1>9, <1>10, <2>5, <2>7, <2>8 DEF x, s, m, ret_
<1>11. CASE ~(k <= N)
  <2>1. k \in (c + 1)..Len(ret_)  BY <1>3, <1>7, <1>8, <1>9, <1>11
  <2>2. ret_[k] = NULL  BY <1>3, <2>1
  <2> QED BY <1>9, <1>11, <2>2 DEF s, ret_
<1> QED BY <1>10, <1>11

\* Called until it answers NULL, strtok answers the words of the line, each
\* once and in order, and none of them is changed by a later call, for every
\* line and whatever the static position was (string.c, strtok).
THEOREM CutsTheWords == LibkSpec => []TokensCut
BY JobInvariance, CutRight, PTL

-----------------------------------------------------------------------------
(***************************************************************************)
(* Loops without a last place, up and down.                                *)
(***************************************************************************)
LEMMA UpExists ==
  ASSUME NEW P, P \subseteq Nat
  PROVE  \E f : f = [i \in Nat |-> IF i \in P THEN i ELSE f[i + 1]]
<1> DEFINE After(i) == {j \in P : i <= j}
           f == [i \in Nat |-> IF After(i) = {} THEN 0
                               ELSE CHOOSE x \in After(i) : \A y \in After(i) : x <= y]
<1>0. \A j \in P : j \in Nat /\ j \in Int  OBVIOUS
<1>1. ASSUME NEW i \in Nat, After(i) # {}
      PROVE f[i] \in After(i) /\ \A y \in After(i) : f[i] <= y
  <2>1. After(i) \subseteq Nat  BY <1>0
  <2>2. f[i] = CHOOSE x \in After(i) : \A y \in After(i) : x <= y  BY <1>1
  <2> HIDE DEF After, f
  <2>3. \E x \in After(i) : \A y \in After(i) : x <= y  BY <1>1, <2>1, Least
  <2> QED BY <2>2, <2>3
<1>2. ASSUME NEW i \in Nat, After(i) = {} PROVE f[i] = 0
  BY <1>2
<1>3. ASSUME NEW i \in Nat PROVE f[i] = IF i \in P THEN i ELSE f[i + 1]
  <2>0. i + 1 \in Nat  OBVIOUS
  <2>1. CASE After(i) = {}
    <3>1. i \notin P  BY <2>1
    <3>2. After(i + 1) = {}
      <4> SUFFICES ASSUME NEW j \in P, i + 1 <= j PROVE FALSE
        OBVIOUS
      <4>1. j \in Int  BY <1>0
      <4>2. i <= j  BY <4>1
      <4>3. j \in After(i)  BY <4>2
      <4> QED BY <2>1, <4>3
    <3>3. f[i] = 0 /\ f[i + 1] = 0
      <4> HIDE DEF After, f
      <4> QED BY <1>2, <2>0, <2>1, <3>2
    <3> HIDE DEF f
    <3> QED BY <3>1, <3>3
  <2>2. CASE After(i) # {}
    <3>1. f[i] \in After(i) /\ \A y \in After(i) : f[i] <= y
      <4> HIDE DEF After, f
      <4> QED BY <1>1, <2>2
    <3> HIDE DEF f
    <3>2. f[i] \in P /\ i <= f[i] /\ \A y \in P : i <= y => f[i] <= y  BY <3>1
    <3>3. f[i] \in Int  BY <1>0, <3>2
    <3>4. CASE i \in P  BY <1>0, <3>2, <3>3, <3>4
    <3>5. CASE i \notin P
      <4>1. f[i] # i /\ i + 1 <= f[i]  BY <3>2, <3>3, <3>5
      <4>2. f[i] \in After(i + 1)  BY <3>2, <4>1
      <4>3. f[i + 1] \in After(i + 1) /\ \A y \in After(i + 1) : f[i + 1] <= y
        <5>1. After(i + 1) # {}  BY <4>2
        <5> HIDE DEF After
        <5> QED BY <1>1, <2>0, <5>1
      <4>4. f[i + 1] \in P /\ i + 1 <= f[i + 1]  BY <4>3
      <4>a. f[i + 1] \in Int  BY <1>0, <4>4
      <4>b. \A x \in Int : i + 1 <= x => i <= x  OBVIOUS
      <4>5. f[i + 1] \in Int /\ i <= f[i + 1]  BY <4>4, <4>a, <4>b
      <4>6. f[i] <= f[i + 1]  BY <3>2, <4>4, <4>5
      <4>7. f[i + 1] <= f[i]  BY <4>2, <4>3
      <4> QED BY <3>3, <3>5, <4>5, <4>6, <4>7
    <3> QED BY <3>4, <3>5
  <2> QED BY <2>1, <2>2
<1>4. f = [i \in Nat |-> f[i]]  OBVIOUS
<1> HIDE DEF f
<1>5. f = [i \in Nat |-> IF i \in P THEN i ELSE f[i + 1]]  BY <1>3, <1>4
<1> QED BY <1>5

LEMMA UpFinds ==
  ASSUME NEW P, P \subseteq Nat, NEW p \in P, NEW f,
         \A i \in Nat : f[i] = IF i \in P THEN i ELSE f[i + 1],
         NEW i \in Nat, i <= p
  PROVE  /\ f[i] \in P /\ f[i] \in Nat /\ i <= f[i] /\ f[i] <= p
         /\ \A j \in i..(f[i] - 1) : j \notin P
<1> DEFINE R == P \cap 0..p
<1>1. p \in Nat /\ R \subseteq 0..p /\ p \in R /\ i \in 0..p  OBVIOUS
<1>2. \A j \in 0..p : f[j] = IF j \in R THEN j ELSE f[j + 1]  OBVIOUS
<1> HIDE DEF R
<1>3. Finds(f, p, R)  BY <1>1, <1>2, LoopFinds
<1>4. f[i] \in R /\ i <= f[i] /\ \A j \in i..(f[i] - 1) : j \notin R
  BY <1>1, <1>3 DEF Finds
<1> DEFINE x == f[i]
<1>5. x \in P /\ x \in 0..p /\ i <= x /\ \A j \in i..(x - 1) : j \notin R
  BY <1>4 DEF R
<1> HIDE DEF x
<1>6. \A j \in i..(x - 1) : j \notin P
  <2> TAKE j \in i..(x - 1)
  <2>1. j \in 0..p  BY <1>1, <1>5
  <2> QED BY <1>5, <2>1 DEF R
<1> QED BY <1>1, <1>5, <1>6 DEF x

\* A set of numbers up to a bound has a greatest.
LEMMA Greatest ==
  ASSUME NEW n \in Nat, NEW T, T \subseteq 0..n, T # {}
  PROVE  \E x \in T : \A y \in T : y <= x
<1> DEFINE U == {n - y : y \in T}
<1>0. \A y \in T : y \in Nat /\ y <= n  OBVIOUS
<1>1. U \subseteq Nat
  <2> SUFFICES ASSUME NEW y \in T PROVE n - y \in Nat
    OBVIOUS
  <2>1. y \in Nat /\ y <= n  BY <1>0
  <2> QED BY <2>1
<1>1a. U # {}
  <2>1. PICK y \in T : TRUE  OBVIOUS
  <2>2. n - y \in U  OBVIOUS
  <2> QED BY <2>2
<1> HIDE DEF U
<1>2. PICK u \in U : \A v \in U : u <= v  BY <1>1, <1>1a, Least
<1>3. PICK x \in T : u = n - x  BY <1>2 DEF U
<1>4. ASSUME NEW y \in T PROVE y <= x
  <2>1. n - y \in U  BY DEF U
  <2>2. n - x <= n - y  BY <1>2, <1>3, <2>1
  <2> QED BY <1>0, <2>2
<1> QED BY <1>4

LEMMA DownExists ==
  ASSUME NEW P, P \subseteq Nat, 0 \in P
  PROVE  \E f : f = [i \in Nat |-> IF i \in P THEN i ELSE f[i - 1]]
<1> DEFINE To(i) == {j \in P : j <= i}
           f == [i \in Nat |-> CHOOSE x \in To(i) : \A y \in To(i) : y <= x]
<1>0. \A j \in P : j \in Nat /\ j \in Int  OBVIOUS
<1>1. ASSUME NEW i \in Nat PROVE f[i] \in To(i) /\ \A y \in To(i) : y <= f[i]
  <2>1a. To(i) \subseteq 0..i
    <3> SUFFICES ASSUME NEW j \in P, j <= i PROVE j \in 0..i
      OBVIOUS
    <3>1. j \in Nat  BY <1>0
    <3> QED BY <3>1
  <2>1b. 0 \in To(i)  OBVIOUS
  <2>1. To(i) \subseteq 0..i /\ To(i) # {}  BY <2>1a, <2>1b
  <2> HIDE DEF To
  <2>2. \E x \in To(i) : \A y \in To(i) : y <= x  BY <2>1, Greatest
  <2> QED BY <2>2
<1>3. ASSUME NEW i \in Nat PROVE f[i] = IF i \in P THEN i ELSE f[i - 1]
  <2>1. f[i] \in P /\ f[i] <= i /\ \A y \in P : y <= i => y <= f[i]  BY <1>1
  <2>2. CASE i \in P
    <3> HIDE DEF f
    <3>1. f[i] \in Int  BY <1>0, <2>1
    <3> QED BY <2>1, <2>2, <3>1
  <2>3. CASE i \notin P
    <3>1. i - 1 \in Nat  BY <2>3
    <3>2. f[i - 1] \in P /\ f[i - 1] <= i - 1 /\ \A y \in P : y <= i - 1 => y <= f[i - 1]
      BY <1>1, <3>1
    <3> HIDE DEF f
    <3>3. f[i] # i /\ f[i] \in Int /\ f[i - 1] \in Int  BY <1>0, <2>1, <2>3, <3>2
    <3>4. f[i] <= f[i - 1] /\ f[i - 1] <= f[i]  BY <2>1, <3>2, <3>3
    <3> QED BY <2>3, <3>3, <3>4
  <2> QED BY <2>2, <2>3
<1>4. f = [i \in Nat |-> f[i]]  OBVIOUS
<1> HIDE DEF f
<1>5. f = [i \in Nat |-> IF i \in P THEN i ELSE f[i - 1]]  BY <1>3, <1>4
<1> QED BY <1>5

LEMMA DownFinds ==
  ASSUME NEW P, P \subseteq Nat, 0 \in P, NEW f,
         \A i \in Nat : f[i] = IF i \in P THEN i ELSE f[i - 1],
         NEW n \in Nat
  PROVE  f[n] \in P /\ f[n] \in Nat /\ f[n] <= n /\ \A j \in (f[n] + 1)..n : j \notin P
<1> DEFINE Good_(i) == f[i] \in P /\ f[i] <= i /\ \A j \in (f[i] + 1)..i : j \notin P
           T == {i \in Nat : ~Good_(i)}
<1>0. \A j \in P : j \in Nat /\ j \in Int  OBVIOUS
<1>1. SUFFICES ASSUME T # {} PROVE FALSE
  <2> SUFFICES ASSUME T = {}
               PROVE  f[n] \in P /\ f[n] \in Nat /\ f[n] <= n /\ \A j \in (f[n] + 1)..n : j \notin P
    OBVIOUS
  <2>1. Good_(n)  OBVIOUS
  <2> QED BY <1>0, <2>1
<1>2. PICK i \in T : \A l \in T : i <= l
  <2>1. T \subseteq Nat  OBVIOUS
  <2> HIDE DEF T
  <2> QED BY <1>1, <2>1, Least
<1>3. i \in Nat /\ ~Good_(i)  BY <1>2
<1>4. i \notin P
  <2> SUFFICES ASSUME i \in P PROVE FALSE
    OBVIOUS
  <2>1. f[i] = i  BY <1>3
  <2>2. \A j \in (i + 1)..i : FALSE  BY <1>3
  <2> QED BY <1>3, <2>1, <2>2
<1>5. i - 1 \in Nat  BY <1>3, <1>4
<1>6. Good_(i - 1)
  <2>1. i - 1 \notin T  BY <1>2, <1>3, <1>5
  <2> QED BY <1>5, <2>1
<1>7. f[i] = f[i - 1]  BY <1>3, <1>4
<1> DEFINE x == f[i - 1]
<1>8. x \in P /\ x <= i - 1 /\ \A j \in (x + 1)..(i - 1) : j \notin P  BY <1>6
<1>9. ~(x \in P /\ x <= i /\ \A j \in (x + 1)..i : j \notin P)  BY <1>3, <1>7
<1> HIDE DEF x
<1>10. x \in Int /\ x <= i  BY <1>0, <1>3, <1>8
<1>11. \A j \in (x + 1)..i : j = i \/ j \in (x + 1)..(i - 1)  BY <1>3, <1>10
<1> QED BY <1>4, <1>8, <1>9, <1>10, <1>11

-----------------------------------------------------------------------------
(***************************************************************************)
(* strcmp and strchr.                                                      *)
(***************************************************************************)
\* The characters answered are alike exactly if the strings are.
LEMMA StrcmpIs ==
  ASSUME NEW n, NEW m, Ends(m, n), NEW s1 \in 0..n, NEW s2 \in 0..n
  PROVE  strcmp(m, s1, s2)[1] = strcmp(m, s1, s2)[2] <=> string(m, s1) = string(m, s2)
<1> DEFINE same[i \in Nat] ==
             IF m[s1 + i] # NUL /\ m[s1 + i] = m[s2 + i] THEN same[i + 1] ELSE i
           P == {i \in Nat : ~(m[s1 + i] # NUL /\ m[s1 + i] = m[s2 + i])}
           l1 == strlen(m, s1)
           l2 == strlen(m, s2)
<1>0. n \in Nat /\ DOMAIN m = 0..n /\ m[n] = NUL /\ s1 \in Nat /\ s2 \in Nat  BY DEF Ends
<1>1. strcmp(m, s1, s2) = <<m[s1 + same[0]], m[s2 + same[0]]>>  BY DEF strcmp
<1>2. same = [i \in Nat |-> IF m[s1 + i] # NUL /\ m[s1 + i] = m[s2 + i]
                              THEN same[i + 1] ELSE i]
  <2>1. \E f : f = [i \in Nat |-> IF i \in P THEN i ELSE f[i + 1]]
    <3>1. P \subseteq Nat  OBVIOUS
    <3> HIDE DEF P
    <3> QED BY <3>1, UpExists
  <2>2. \A f : [i \in Nat |-> IF i \in P THEN i ELSE f[i + 1]]
             = [i \in Nat |-> IF m[s1 + i] # NUL /\ m[s1 + i] = m[s2 + i] THEN f[i + 1] ELSE i]
    OBVIOUS
  <2>3. \E f : f = [i \in Nat |-> IF m[s1 + i] # NUL /\ m[s1 + i] = m[s2 + i]
                                    THEN f[i + 1] ELSE i]
    BY <2>1, <2>2
  <2> QED BY <2>3
<1> HIDE DEF same
<1>3. \A i \in Nat : same[i] = IF i \in P THEN i ELSE same[i + 1]  BY <1>2
<1>4. /\ l1 \in Nat /\ s1 + l1 \in 0..n /\ m[s1 + l1] = NUL
      /\ \A j \in s1..(s1 + l1 - 1) : m[j] # NUL
  BY StrlenIs
<1>5. /\ l2 \in Nat /\ s2 + l2 \in 0..n /\ m[s2 + l2] = NUL
      /\ \A j \in s2..(s2 + l2 - 1) : m[j] # NUL
  BY StrlenIs
<1>6. string(m, s1) = [i \in 1..l1 |-> m[s1 + i - 1]]
      /\ string(m, s2) = [i \in 1..l2 |-> m[s2 + i - 1]]
  BY DEF string
<1> HIDE DEF l1, l2
<1>7. l1 \in P /\ l2 \in P /\ P \subseteq Nat  BY <1>4, <1>5
<1> DEFINE k == same[0]
<1>8. k \in P /\ k \in Nat /\ k <= l1 /\ \A j \in 0..(k - 1) : j \notin P
  <2>1. 0 <= l1 /\ 0 \in Nat  BY <1>4
  <2> HIDE DEF P
  <2> QED BY <1>3, <1>7, <2>1, UpFinds
<1>9. k <= l2
  <2>1. 0 <= l2 /\ 0 \in Nat  BY <1>5
  <2> HIDE DEF P
  <2> QED BY <1>3, <1>7, <2>1, UpFinds
<1> HIDE DEF k
<1>10. strcmp(m, s1, s2)[1] = m[s1 + k] /\ strcmp(m, s1, s2)[2] = m[s2 + k]  BY <1>1 DEF k
<1>11. ASSUME m[s1 + k] = m[s2 + k] PROVE string(m, s1) = string(m, s2)
  <2>1. m[s1 + k] = NUL /\ m[s2 + k] = NUL  BY <1>8, <1>11
  <2>2. k = l1
    <3>1. k < l1 => s1 + k \in s1..(s1 + l1 - 1)  BY <1>0, <1>4, <1>8
    <3> QED BY <1>4, <1>8, <2>1, <3>1
  <2>3. k = l2
    <3>1. k < l2 => s2 + k \in s2..(s2 + l2 - 1)  BY <1>0, <1>5, <1>8
    <3> QED BY <1>5, <1>8, <1>9, <2>1, <3>1
  <2>4. \A i \in 1..k : m[s1 + i - 1] = m[s2 + i - 1]
    <3> TAKE i \in 1..k
    <3>1. i - 1 \in 0..(k - 1) /\ i - 1 \in Nat  BY <1>8
    <3>2. m[s1 + (i - 1)] = m[s2 + (i - 1)]  BY <1>8, <3>1
    <3>3. s1 + (i - 1) = s1 + i - 1 /\ s2 + (i - 1) = s2 + i - 1  BY <1>0, <1>8
    <3> QED BY <3>2, <3>3
  <2> QED BY <1>6, <2>2, <2>3, <2>4
<1>12. ASSUME string(m, s1) = string(m, s2) PROVE m[s1 + k] = m[s2 + k]
  <2>1. 1..l1 = 1..l2
    <3>1. DOMAIN string(m, s1) = 1..l1 /\ DOMAIN string(m, s2) = 1..l2  BY <1>6
    <3> QED BY <1>12, <3>1
  <2>2. l1 = l2
    <3>1. l1 < l2 => l2 \in 1..l2 /\ l2 \notin 1..l1  BY <1>4, <1>5
    <3>2. l2 < l1 => l1 \in 1..l1 /\ l1 \notin 1..l2  BY <1>4, <1>5
    <3> QED BY <1>4, <1>5, <2>1, <3>1, <3>2
  <2>3. CASE k = l1  BY <1>4, <1>5, <2>2, <2>3
  <2>4. CASE k # l1
    <3>1. k + 1 \in 1..l1 /\ k + 1 \in 1..l2  BY <1>4, <1>8, <2>2, <2>4
    <3>2. string(m, s1)[k + 1] = m[s1 + (k + 1) - 1]  BY <1>6, <3>1
    <3>3. string(m, s2)[k + 1] = m[s2 + (k + 1) - 1]  BY <1>6, <3>1
    <3>4. s1 + (k + 1) - 1 = s1 + k /\ s2 + (k + 1) - 1 = s2 + k  BY <1>0, <1>8
    <3> QED BY <1>12, <3>2, <3>3, <3>4
  <2> QED BY <2>3, <2>4
<1> QED BY <1>10, <1>11, <1>12

\* The first place of the character before the end, or the end for '\0'.
LEMMA StrchrIs ==
  ASSUME NEW n, NEW m, Ends(m, n), NEW s \in 0..n, NEW ch
  PROVE  strchr(m, s, ch) =
           IF ch = NUL THEN s + strlen(m, s)
           ELSE LET at_ == {i \in 0..n : i >= s /\ m[i] = ch /\ i < s + strlen(m, s)}
                IN  IF at_ = {} THEN NULL ELSE CHOOSE i \in at_ : \A j \in at_ : i <= j
<1> DEFINE stop[i \in DOMAIN m] == IF m[i] # NUL /\ m[i] # ch THEN stop[i + 1] ELSE i
           P == {i \in 0..n : m[i] = NUL \/ m[i] = ch}
           l == strlen(m, s)
           at_ == {i \in 0..n : i >= s /\ m[i] = ch /\ i < s + l}
<1>0. n \in Nat /\ DOMAIN m = 0..n /\ m[n] = NUL /\ s \in Nat  BY DEF Ends
<1>1. strchr(m, s, ch) = IF m[stop[s]] = ch THEN stop[s] ELSE NULL  BY DEF strchr
<1>2. P \subseteq 0..n /\ n \in P  BY <1>0
<1>3. stop = [i \in DOMAIN m |-> IF m[i] # NUL /\ m[i] # ch THEN stop[i + 1] ELSE i]
  <2>1. \E f : f = [i \in 0..n |-> IF i \in P THEN i ELSE f[i + 1]]
    <3> HIDE DEF P
    <3> QED BY <1>0, <1>2, LoopExists
  <2>2. \A f : [i \in 0..n |-> IF i \in P THEN i ELSE f[i + 1]]
             = [i \in DOMAIN m |-> IF m[i] # NUL /\ m[i] # ch THEN f[i + 1] ELSE i]
    BY <1>0
  <2>3. \E f : f = [i \in DOMAIN m |-> IF m[i] # NUL /\ m[i] # ch THEN f[i + 1] ELSE i]
    BY <2>1, <2>2, Zenon
  <2> QED BY <2>3
<1> HIDE DEF stop
<1>4. \A i \in 0..n : stop[i] = IF i \in P THEN i ELSE stop[i + 1]  BY <1>0, <1>3
<1>5. Finds(stop, n, P)
  <2> HIDE DEF P
  <2> QED BY <1>0, <1>2, <1>4, LoopFinds
<1> DEFINE k == stop[s]
<1>6. k \in P /\ s <= k /\ \A j \in s..(k - 1) : j \notin P  BY <1>5 DEF Finds
<1>7. /\ l \in Nat /\ s + l \in 0..n /\ m[s + l] = NUL
      /\ \A j \in s..(s + l - 1) : m[j] # NUL
  BY StrlenIs
<1>8. strchr(m, s, ch) = IF m[k] = ch THEN k ELSE NULL  BY <1>1
<1> HIDE DEF k, l
<1>9. k \in 0..n /\ k \in Nat /\ (m[k] = NUL \/ m[k] = ch)  BY <1>0, <1>6
<1>10. \A j \in s..(k - 1) : m[j] # NUL /\ m[j] # ch
  <2> TAKE j \in s..(k - 1)
  <2>1. j \in 0..n /\ j \notin P  BY <1>0, <1>6, <1>9
  <2> QED BY <2>1
<1>11. k <= s + l
  <2>1. s + l < k => s + l \in s..(k - 1)  BY <1>0, <1>7, <1>9
  <2> QED BY <1>7, <1>9, <1>10, <2>1
<1>12. k < s + l => m[k] # NUL
  <2>1. k < s + l => k \in s..(s + l - 1)  BY <1>0, <1>6, <1>7, <1>9
  <2> QED BY <1>7, <2>1
<1>13. CASE ch = NUL
  <2>1. k = s + l  BY <1>7, <1>9, <1>11, <1>12, <1>13
  <2> QED BY <1>7, <1>8, <1>13, <2>1 DEF l
<1>14. CASE ch # NUL /\ k < s + l
  <2>1. m[k] = ch /\ k \in at_  BY <1>6, <1>9, <1>12, <1>14
  <2>2. \A j \in at_ : k <= j
    <3> TAKE j \in at_
    <3>1. j \in Nat /\ m[j] = ch /\ s <= j  BY <1>0
    <3>2. j < k => j \in s..(k - 1)  BY <1>0, <1>9, <3>1
    <3> QED BY <1>9, <1>10, <3>1, <3>2
  <2>3. \A x \in at_ : (\A j \in at_ : x <= j) => x = k
    <3> SUFFICES ASSUME NEW x \in at_, \A j \in at_ : x <= j PROVE x = k
      OBVIOUS
    <3>1. x <= k /\ k <= x /\ x \in Nat  BY <1>0, <2>1, <2>2
    <3> QED BY <1>9, <3>1
  <2>4. (CHOOSE i \in at_ : \A j \in at_ : i <= j) = k
    <3> HIDE DEF at_
    <3> QED BY <2>1, <2>2, <2>3
  <2>5. at_ # {}  BY <2>1
  <2>6. strchr(m, s, ch) = k  BY <1>8, <2>1
  <2> QED BY <1>14, <2>4, <2>5, <2>6 DEF l
<1>15. CASE ch # NUL /\ ~(k < s + l)
  <2>1. k = s + l  BY <1>0, <1>7, <1>9, <1>11, <1>15
  <2>2. m[k] # ch  BY <1>7, <1>15, <2>1
  <2>3. at_ = {}
    <3> SUFFICES ASSUME NEW j \in at_ PROVE FALSE
      OBVIOUS
    <3>1. j \in s..(k - 1) /\ m[j] = ch  BY <1>0, <1>7, <2>1
    <3> QED BY <1>10, <3>1
  <2>4. strchr(m, s, ch) = NULL  BY <1>8, <2>2
  <2> QED BY <1>15, <2>3, <2>4 DEF l
<1> QED BY <1>13, <1>14, <1>15

(***************************************************************************)
(* memmove, strcat.                                                        *)
(***************************************************************************)
\* The cells after the steps of t.
Copied(m, top, d, s, t) == [i \in 0..top |-> IF i - d + 1 \in t THEN m[i - d + s] ELSE m[i]]

Stored(c, to, from) == [c EXCEPT ![to] = c[from]]

\* The copies stay inside, and the destination is not in the source behind its start.
Apart(top, d, s, n) ==
    /\ top \in Nat /\ d \in 0..top /\ s \in 0..top /\ n \in Nat
    /\ d + n - 1 <= top /\ s + n - 1 <= top /\ d \notin (s + 1)..(s + n - 1)

LEMMA MaxIs ==
  ASSUME NEW t, NEW x \in t, x \in Int, \A y \in t : y \in Int /\ y <= x
  PROVE  Seqs!Max(t) = x
<1>1. x \in t /\ \A y \in t : x >= y  OBVIOUS
<1>2. \A z \in t : (\A y \in t : z >= y) => z = x
  <2> SUFFICES ASSUME NEW z \in t, \A y \in t : z >= y PROVE z = x
    OBVIOUS
  <2>1. z >= x /\ z <= x /\ z \in Int  OBVIOUS
  <2> QED BY <2>1
<1>3. (CHOOSE z \in t : \A y \in t : z >= y) = x  BY <1>1, <1>2
<1> QED BY <1>3 DEF Seqs!Max

\* What the first steps copied is not what later steps read.
LEMMA CopyStep ==
  ASSUME NEW top, NEW d, NEW s, NEW n, Apart(top, d, s, n), NEW m, DOMAIN m = 0..top,
         NEW t, \A y \in t : y \in 1..n, NEW x \in t, \A y \in t : y <= x
  PROVE  Copied(m, top, d, s, t)
           = Stored(Copied(m, top, d, s, t \ {x}), d + (x - 1), s + (x - 1))
<1> DEFINE c == Copied(m, top, d, s, t \ {x})
           b == [c EXCEPT ![d + (x - 1)] = c[s + (x - 1)]]
           a == Copied(m, top, d, s, t)
<1>a. /\ top \in Nat /\ d \in 0..top /\ s \in 0..top /\ n \in Nat
      /\ d + n - 1 <= top /\ s + n - 1 <= top /\ d \notin (s + 1)..(s + n - 1)
  BY DEF Apart
<1>0. \A y \in t : y \in Int /\ 1 <= y /\ y <= n  BY <1>a
<1>1. x \in Int /\ 1 <= x /\ x <= n  BY <1>0
<1>2. d + (x - 1) \in 0..top /\ s + (x - 1) \in 0..top  BY <1>a, <1>1
<1>3. c = [i \in 0..top |-> IF i - d + 1 \in t \ {x} THEN m[i - d + s] ELSE m[i]]
  BY DEF Copied
<1>4. a = [i \in 0..top |-> IF i - d + 1 \in t THEN m[i - d + s] ELSE m[i]]
  BY DEF Copied
<1> HIDE DEF c, a
<1>5. c[s + (x - 1)] = m[s + (x - 1)]
  <2>1. s + (x - 1) - d + 1 \notin t \ {x}
    <3> SUFFICES ASSUME s + (x - 1) - d + 1 \in t \ {x} PROVE FALSE
      OBVIOUS
    <3> DEFINE y == s + (x - 1) - d + 1
    <3>1. y \in Int /\ 1 <= y /\ y <= x /\ y # x  BY <1>a, <1>0
    <3>2. d = s + x - y  BY <1>a, <1>1
    <3> HIDE DEF y
    <3>3. d \in (s + 1)..(s + n - 1)  BY <1>a, <1>1, <3>1, <3>2
    <3> QED BY <1>a, <3>3
  <2> DEFINE z == s + (x - 1)
  <2>2. z \in 0..top /\ ~(z - d + 1 \in t \ {x})  BY <1>a, <1>1, <1>2, <2>1
  <2> HIDE DEF z
  <2>3. c[z] = m[z]  BY <1>3, <2>2
  <2> QED BY <2>3 DEF z
<1>6. b = [i \in 0..top |-> IF i = d + (x - 1) THEN m[s + (x - 1)] ELSE c[i]]
  BY <1>2, <1>3, <1>5
<1> HIDE DEF b
<1>7. ASSUME NEW i \in 0..top PROVE a[i] = b[i]
  <2>1. CASE i = d + (x - 1)
    <3>1. i - d + 1 = x /\ i - d + s = s + (x - 1)  BY <1>a, <1>1, <2>1
    <3>2. a[i] = m[i - d + s]  BY <1>4, <3>1
    <3> QED BY <1>6, <2>1, <3>1, <3>2
  <2>2. CASE i # d + (x - 1)
    <3>1. i - d + 1 # x  BY <1>a, <1>1, <2>2
    <3>2. i - d + 1 \in t <=> i - d + 1 \in t \ {x}  BY <3>1
    <3> QED BY <1>3, <1>4, <1>6, <2>2, <3>2
  <2> QED BY <2>1, <2>2
<1>8. a = [i \in 0..top |-> a[i]]  BY <1>4
<1>9. b = [i \in 0..top |-> b[i]]  BY <1>6
<1>10. a = b  BY <1>7, <1>8, <1>9
<1> QED BY <1>10 DEF a, b, c, Stored

\* A memory is a function.
Filled(m, top) == m = [i \in 0..top |-> m[i]]

Moved(m, top, d, s, n) == [i \in 0..top |-> IF i \in d..(d + n - 1) THEN m[i - d + s] ELSE m[i]]

LEMMA MemmoveIs ==
  ASSUME NEW top, NEW d, NEW s, NEW n, Apart(top, d, s, n),
         NEW m, Filled(m, top)
  PROVE  memmove(m, d, s, n) = Moved(m, top, d, s, n)
<1> DEFINE st == Steps(n)
           it[t \in SUBSET DOMAIN st] ==
             IF t = {} THEN m
             ELSE [it[t \ {Seqs!Max(t)}] EXCEPT
                    ![d + st[Seqs!Max(t)]] = it[t \ {Seqs!Max(t)}][s + st[Seqs!Max(t)]]]
           iter[t \in SUBSET (1..n)] ==
             IF t = {} THEN m
             ELSE [iter[t \ {Seqs!Max(t)}] EXCEPT
                    ![d + (Seqs!Max(t) - 1)] = iter[t \ {Seqs!Max(t)}][s + (Seqs!Max(t) - 1)]]
           sol == [t \in SUBSET (1..n) |-> Copied(m, top, d, s, t)]
<1>f. m = [i \in 0..top |-> m[i]]  BY DEF Filled
<1>0. DOMAIN m = 0..top  BY <1>f
<1>0a. /\ top \in Nat /\ d \in 0..top /\ s \in 0..top /\ n \in Nat
       /\ d + n - 1 <= top /\ s + n - 1 <= top /\ d \notin (s + 1)..(s + n - 1)
  BY DEF Apart
<1>1a. memmove(m, d, s, n) = it[DOMAIN st]
  BY DEF memmove, Seqs!FoldLeft, Seqs!MapThenFoldSet
<1>1b. DOMAIN st = 1..n /\ \A i \in 1..n : st[i] = i - 1  BY DEF Steps
<1>1c. ASSUME NEW f, NEW t \in SUBSET (1..n)
       PROVE  (IF t = {} THEN m ELSE [f[t \ {Seqs!Max(t)}] EXCEPT
                    ![d + st[Seqs!Max(t)]] = f[t \ {Seqs!Max(t)}][s + st[Seqs!Max(t)]]])
              = IF t = {} THEN m ELSE [f[t \ {Seqs!Max(t)}] EXCEPT
                    ![d + (Seqs!Max(t) - 1)] = f[t \ {Seqs!Max(t)}][s + (Seqs!Max(t) - 1)]]
  <2>1. CASE t = {}  BY <2>1
  <2>2. CASE t # {}
    <3>0. t \subseteq 0..n /\ \A y \in t : y \in Int  BY <1>0a
    <3>1. PICK x \in t : \A y \in t : y <= x  BY <1>0a, <2>2, <3>0, Greatest
    <3>2. Seqs!Max(t) = x  BY <3>0, <3>1, MaxIs
    <3>3. st[Seqs!Max(t)] = Seqs!Max(t) - 1  BY <1>1b, <3>2
    <3> HIDE DEF st
    <3> QED BY <3>3
  <2> QED BY <2>1, <2>2
<1>1d. it = iter
  <2> HIDE DEF st
  <2>1. \A f : [t \in SUBSET DOMAIN st |-> IF t = {} THEN m ELSE [f[t \ {Seqs!Max(t)}] EXCEPT
                    ![d + st[Seqs!Max(t)]] = f[t \ {Seqs!Max(t)}][s + st[Seqs!Max(t)]]]]
               = [t \in SUBSET (1..n) |-> IF t = {} THEN m ELSE [f[t \ {Seqs!Max(t)}] EXCEPT
                    ![d + (Seqs!Max(t) - 1)] = f[t \ {Seqs!Max(t)}][s + (Seqs!Max(t) - 1)]]]
    BY <1>1b, <1>1c
  <2> QED BY <2>1
<1>1. memmove(m, d, s, n) = iter[1..n]
  <2> HIDE DEF it, iter, st
  <2> QED BY <1>1a, <1>1b, <1>1d
<1> HIDE DEF it, st
<1>2. \E f : f = [t \in SUBSET (1..n) |->
             IF t = {} THEN m
             ELSE [f[t \ {Seqs!Max(t)}] EXCEPT
                    ![d + (Seqs!Max(t) - 1)] = f[t \ {Seqs!Max(t)}][s + (Seqs!Max(t) - 1)]]]
  <2>1. ASSUME NEW t \in SUBSET (1..n)
        PROVE  sol[t] = IF t = {} THEN m
             ELSE [sol[t \ {Seqs!Max(t)}] EXCEPT
                    ![d + (Seqs!Max(t) - 1)] = sol[t \ {Seqs!Max(t)}][s + (Seqs!Max(t) - 1)]]
    <3>1. CASE t = {}
      <4>1. Copied(m, top, d, s, t) = [i \in 0..top |-> m[i]]  BY <3>1 DEF Copied
      <4> QED BY <1>f, <3>1, <4>1
    <3>2. CASE t # {}
      <4>0. t \subseteq 0..n /\ \A y \in t : y \in Int  BY <1>0a
      <4>1. PICK x \in t : \A y \in t : y <= x  BY <1>0a, <3>2, <4>0, Greatest
      <4>2. Seqs!Max(t) = x  BY <4>0, <4>1, MaxIs
      <4> DEFINE c == Copied(m, top, d, s, t \ {x})
      <4>3. Copied(m, top, d, s, t) = [c EXCEPT ![d + (x - 1)] = c[s + (x - 1)]]
        <5>1. (\A y \in t : y \in 1..n) /\ x \in t /\ \A y \in t : y <= x  BY <4>1
        <5>2. Copied(m, top, d, s, t) = Stored(c, d + (x - 1), s + (x - 1))
          BY <1>0, <1>f, <5>1, CopyStep
        <5> QED BY <5>2 DEF Stored
      <4>4. sol[t] = Copied(m, top, d, s, t)  OBVIOUS
      <4>5. sol[t \ {x}] = c  OBVIOUS
      <4> HIDE DEF sol, c
      <4> QED BY <3>2, <4>2, <4>3, <4>4, <4>5
    <3> QED BY <3>1, <3>2
  <2>2. sol = [t \in SUBSET (1..n) |-> sol[t]]  OBVIOUS
  <2> HIDE DEF sol
  <2>3. sol = [t \in SUBSET (1..n) |->
             IF t = {} THEN m
             ELSE [sol[t \ {Seqs!Max(t)}] EXCEPT
                    ![d + (Seqs!Max(t) - 1)] = sol[t \ {Seqs!Max(t)}][s + (Seqs!Max(t) - 1)]]]
    BY <2>1, <2>2, Zenon
  <2> QED BY <2>3
<1>3. iter = [t \in SUBSET (1..n) |->
             IF t = {} THEN m
             ELSE [iter[t \ {Seqs!Max(t)}] EXCEPT
                    ![d + (Seqs!Max(t) - 1)] = iter[t \ {Seqs!Max(t)}][s + (Seqs!Max(t) - 1)]]]
  BY <1>2, Zenon
<1> HIDE DEF iter, sol
<1> DEFINE T == {k \in 0..n : iter[1..k] # Copied(m, top, d, s, 1..k)}
<1>4. SUFFICES ASSUME T # {} PROVE FALSE
  <2> SUFFICES ASSUME T = {}
               PROVE memmove(m, d, s, n) = Moved(m, top, d, s, n)
    OBVIOUS
  <2>1. n \in 0..n  BY <1>0a
  <2>2. iter[1..n] = Copied(m, top, d, s, 1..n)  BY <2>1
  <2>3. \A i \in 0..top : i - d + 1 \in 1..n <=> i \in d..(d + n - 1)  BY <1>0a
  <2>4. Copied(m, top, d, s, 1..n) = Moved(m, top, d, s, n)
    BY <2>3 DEF Copied, Moved
  <2> QED BY <1>1, <2>2, <2>4
<1>5. PICK k \in T : \A l \in T : k <= l
  <2>1. T \subseteq Nat  OBVIOUS
  <2> HIDE DEF T
  <2> QED BY <1>4, <2>1, Least
<1>6. k \in 0..n /\ iter[1..k] # Copied(m, top, d, s, 1..k)  BY <1>5
<1>7. CASE k = 0
  <2>1. 1..k = {} /\ 1..k \in SUBSET (1..n)  BY <1>7
  <2>2. iter[1..k] = m  BY <1>3, <2>1
  <2>3. Copied(m, top, d, s, {}) = [i \in 0..top |-> m[i]]  BY DEF Copied
  <2> QED BY <1>f, <1>6, <2>1, <2>2, <2>3
<1>8. CASE k # 0
  <2> DEFINE c == Copied(m, top, d, s, 1..(k - 1))
  <2>1. k - 1 \in 0..n /\ k - 1 \notin T  BY <1>0a, <1>5, <1>6, <1>8
  <2>2. iter[1..(k - 1)] = c  BY <2>1
  <2>3. 1..k \in SUBSET (1..n) /\ 1..k # {} /\ k \in 1..k /\ (1..k) \ {k} = 1..(k - 1)
    BY <1>0a, <1>6, <1>8
  <2>4. Seqs!Max(1..k) = k
    <3>1. k \in Int /\ \A y \in 1..k : y \in Int /\ y <= k  BY <1>0a, <1>6
    <3> QED BY <2>3, <3>1, MaxIs
  <2>5. iter[1..k] = [iter[(1..k) \ {Seqs!Max(1..k)}] EXCEPT
           ![d + (Seqs!Max(1..k) - 1)] = iter[(1..k) \ {Seqs!Max(1..k)}][s + (Seqs!Max(1..k) - 1)]]
    BY <1>3, <2>3
  <2>6. Copied(m, top, d, s, 1..k) = [c EXCEPT ![d + (k - 1)] = c[s + (k - 1)]]
    <3>1. \A y \in 1..k : y \in 1..n /\ y <= k  BY <1>6, <1>0a
    <3>2. Copied(m, top, d, s, 1..k) =
            Stored(Copied(m, top, d, s, (1..k) \ {k}), d + (k - 1), s + (k - 1))
      BY <1>0, <1>f, <2>3, <3>1, CopyStep
    <3> QED BY <2>3, <3>2 DEF Stored
  <2> HIDE DEF c
  <2> QED BY <1>6, <2>2, <2>3, <2>4, <2>5, <2>6
<1> QED BY <1>7, <1>8

\* A string in memory, by where it ends.
Chars(m, s, l) == [i \in 1..l |-> m[s + i - 1]]

LEMMA StringAt ==
  ASSUME NEW n, NEW m, Ends(m, n), NEW s \in 0..n, NEW l \in Nat, s + l \in 0..n,
         m[s + l] = NUL, \A j \in s..(s + l - 1) : m[j] # NUL
  PROVE  strlen(m, s) = l /\ string(m, s) = Chars(m, s, l)
<1>0. n \in Nat  BY DEF Ends
<1> DEFINE e == s + l
<1>1. e \in 0..n /\ s <= e /\ e - s = l  BY <1>0
<1>2. m[e] = NUL /\ \A j \in s..(e - 1) : m[j] # NUL  OBVIOUS
<1> HIDE DEF e
<1>3. strlen(m, s) = l  BY <1>1, <1>2, StrlenAt
<1> QED BY <1>3 DEF string, Chars

LEMMA StrcatIs ==
  ASSUME NEW top, NEW m, Ends(m, top), Filled(m, top),
         NEW d \in 0..top, NEW s \in 0..top,
         NEW end, end = d + strlen(m, d), NEW n, n = strlen(m, s),
         end + n \in 0..top, end + n < s \/ s + n < end
  PROVE  /\ string(strcat(m, d, s).mem, d) = string(m, d) \o string(m, s)
         /\ \A i \in 0..top : i \notin d..strcat(m, d, s).ret => strcat(m, d, s).mem[i] = m[i]
<1> DEFINE l1 == strlen(m, d)
           m2 == memmove(m, end, s, n + 1)
<1>0. top \in Nat /\ m[top] = NUL /\ DOMAIN m = 0..top  BY DEF Ends
<1>1. l1 \in Nat /\ d + l1 \in 0..top /\ m[d + l1] = NUL /\ \A j \in d..(d + l1 - 1) : m[j] # NUL
  BY StrlenIs
<1>2. n \in Nat /\ s + n \in 0..top /\ m[s + n] = NUL /\ \A j \in s..(s + n - 1) : m[j] # NUL
  BY StrlenIs
<1>3. strcat(m, d, s) = [mem |-> m2, ret |-> end + n]  BY DEF strcat
<1>4. string(m, d) = [i \in 1..l1 |-> m[d + i - 1]]  BY DEF string
<1>5. string(m, s) = [i \in 1..n |-> m[s + i - 1]]  BY DEF string
<1>6. end = d + l1  OBVIOUS
<1> HIDE DEF l1
<1>7. Apart(top, end, s, n + 1)
  <2>1. end + (n + 1) - 1 <= top /\ s + (n + 1) - 1 <= top /\ n + 1 \in Nat
    BY <1>0, <1>1, <1>2, <1>6
  <2>2. end \notin (s + 1)..(s + (n + 1) - 1)
    <3>1. end \in Int /\ s \in Int /\ n \in Nat  BY <1>0, <1>1, <1>2, <1>6
    <3> QED BY <3>1
  <2> QED BY <1>0, <1>1, <1>6, <2>1, <2>2 DEF Apart
<1>8a. m2 = Moved(m, top, end, s, n + 1)
  BY <1>7, MemmoveIs
<1>8. m2 = [i \in 0..top |-> IF i \in end..(end + (n + 1) - 1) THEN m[i - end + s] ELSE m[i]]
  BY <1>8a DEF Moved
<1> HIDE DEF m2
<1>9. \A i \in 0..top : m2[i] = IF i \in end..(end + n) THEN m[i - end + s] ELSE m[i]
  <2>1. end + (n + 1) - 1 = end + n  BY <1>1, <1>2, <1>6
  <2> QED BY <1>8, <2>1
<1>10. m2[end + n] = NUL
  <2>0. end \in Int /\ n \in Nat /\ s \in Int  BY <1>0, <1>1, <1>2, <1>6
  <2>1. end + n \in 0..top /\ end + n \in end..(end + n) /\ end + n - end + s = s + n
    BY <2>0
  <2> DEFINE z == end + n
  <2>2. m2[z] = m[z - end + s]  BY <1>9, <2>1
  <2> HIDE DEF z
  <2>3. m[z - end + s] = NUL  BY <1>2, <2>1 DEF z
  <2> QED BY <2>2, <2>3 DEF z
<1>11. ASSUME NEW j \in d..(end + n - 1)
       PROVE  m2[j] # NUL /\ m2[j] = IF j < end THEN m[j] ELSE m[j - end + s]
  <2>0. d \in Nat /\ end \in Int /\ s \in Int /\ n \in Nat  BY <1>0, <1>1, <1>2, <1>6
  <2>a. end + n - 1 \in Int /\ end + n <= top /\ d <= j /\ j <= end + n - 1 /\ j \in Int
    BY <1>0, <2>0
  <2>1. j \in 0..top /\ j \in Int /\ d \in Int /\ end \in Int /\ s \in Int
    BY <1>0, <2>0, <2>a
  <2>2. CASE j < end
    <3>1. j \notin end..(end + n) /\ j \in d..(d + l1 - 1)  BY <1>1, <1>2, <1>6, <2>1, <2>2
    <3> QED BY <1>1, <1>9, <2>1, <2>2, <3>1
  <2>3. CASE ~(j < end)
    <3>1. j \in end..(end + n) /\ j - end + s \in s..(s + n - 1)
      BY <1>1, <1>2, <1>6, <2>1, <2>3
    <3>2. m2[j] = m[j - end + s]  BY <1>9, <2>1, <3>1
    <3> DEFINE z == j - end + s
    <3>3. m[z] # NUL  BY <1>2, <3>1
    <3> HIDE DEF z
    <3>4. m2[j] = m[z]  BY <3>2 DEF z
    <3> QED BY <2>3, <3>3, <3>4 DEF z
  <2> QED BY <2>2, <2>3
<1>12. m2[top] = NUL
  <2>1. CASE top = end + n  BY <1>10, <2>1
  <2>2. CASE top # end + n
    <3>1. top \notin end..(end + n) /\ top \in 0..top  BY <1>0, <1>1, <1>2, <1>6, <2>2
    <3> QED BY <1>0, <1>9, <3>1
  <2> QED BY <2>1, <2>2
<1>13. Ends(m2, top)  BY <1>0, <1>8, <1>12 DEF Ends
<1>13a. d \in 0..top  OBVIOUS
<1> DEFINE l == l1 + n
<1>14. l \in Nat /\ d + l = end + n /\ d + l \in 0..top /\ d + l - 1 = end + n - 1
  BY <1>1, <1>2, <1>6
<1>15. m2[d + l] = NUL  BY <1>10, <1>14
<1>16. \A j \in d..(d + l - 1) : m2[j] # NUL  BY <1>11, <1>14
<1> HIDE DEF l
<1>17. string(m2, d) = [i \in 1..l |-> m2[d + i - 1]]
  <2>1. string(m2, d) = Chars(m2, d, l)
    BY ONLY <1>13, <1>13a, <1>14, <1>15, <1>16, StringAt
  <2> QED BY <2>1 DEF Chars
<1>18. ASSUME NEW i \in 1..l
       PROVE  m2[d + i - 1] = IF i <= l1 THEN m[d + i - 1] ELSE m[s + (i - l1) - 1]
  <2>1. i \in Int /\ 1 <= i /\ i <= l1 + n  BY <1>14 DEF l
  <2> DEFINE j == d + i - 1
  <2>2. d \in Int /\ s \in Int /\ l1 \in Nat /\ n \in Nat  BY <1>0, <1>1, <1>2
  <2>2a. j \in d..(end + n - 1) /\ (j < end <=> i <= l1) /\ j - end + s = s + (i - l1) - 1
    BY <1>6, <2>1, <2>2
  <2>3. m2[j] = IF j < end THEN m[j] ELSE m[j - end + s]
    <3> HIDE DEF j
    <3> QED BY <1>11, <2>2a
  <2> QED BY <2>2a, <2>3
<1> DEFINE a == string(m, d)
           b == string(m, s)
<1>19. /\ DOMAIN a = 1..l1 /\ DOMAIN b = 1..n
       /\ \A i \in 1..l1 : a[i] = m[d + i - 1]
       /\ \A i \in 1..n : b[i] = m[s + i - 1]
  BY <1>4, <1>5
<1> DEFINE C == {m[i] : i \in 0..top}
<1>20. a \in Seq(C) /\ b \in Seq(C)
  <2>1. \A i \in 1..l1 : d + i - 1 \in 0..top  BY <1>0, <1>1
  <2>2. \A i \in 1..n : s + i - 1 \in 0..top  BY <1>0, <1>2
  <2>3. \A z \in 0..top : m[z] \in C  OBVIOUS
  <2> HIDE DEF C
  <2>4. a \in [1..l1 -> C]  BY <1>4, <2>1, <2>3
  <2>5. b \in [1..n -> C]  BY <1>5, <2>2, <2>3
  <2> HIDE DEF a, b
  <2>6. a \in Seq(C)  BY <1>1, <2>4, IsASeq, SMTT(30)
  <2>7. b \in Seq(C)  BY <1>2, <2>5, IsASeq, SMTT(30)
  <2> QED BY <2>6, <2>7
<1> HIDE DEF a, b, C
<1>21. Len(a) = l1 /\ Len(b) = n  BY <1>1, <1>2, <1>19, <1>20
<1>22. a \o b = [i \in 1..(l1 + n) |-> IF i <= l1 THEN a[i] ELSE b[i - l1]]
  <2>1. /\ Len(a \o b) = l1 + n /\ a \o b \in Seq(C)
        /\ \A i \in 1..(l1 + n) : (a \o b)[i] = IF i <= l1 THEN a[i] ELSE b[i - l1]
    <3>1. /\ a \o b \in Seq(C) /\ Len(a \o b) = Len(a) + Len(b)
          /\ \A i \in 1..(Len(a) + Len(b)) :
               (a \o b)[i] = IF i <= Len(a) THEN a[i] ELSE b[i - Len(a)]
      BY ONLY <1>20, ConcatProperties
    <3> QED BY <1>21, <3>1
  <2> QED BY <2>1, LenProperties
<1>23. ASSUME NEW i \in 1..l
       PROVE  m2[d + i - 1] = IF i <= l1 THEN a[i] ELSE b[i - l1]
  <2>1. i \in Int /\ 1 <= i /\ i <= l1 + n  BY <1>14 DEF l
  <2>2. CASE i <= l1
    <3>1. i \in 1..l1  BY <1>1, <2>1, <2>2
    <3> QED BY <1>18, <1>19, <2>2, <3>1
  <2>3. CASE ~(i <= l1)
    <3>1. i - l1 \in 1..n  BY <1>1, <1>2, <2>1, <2>3
    <3>2. b[i - l1] = m[s + (i - l1) - 1]  BY <1>19, <3>1
    <3> QED BY <1>18, <2>3, <3>2
  <2> QED BY <2>2, <2>3
<1>24. string(m2, d) = a \o b  BY <1>17, <1>22, <1>23 DEF l
<1>25. ASSUME NEW i \in 0..top, i \notin d..(end + n) PROVE m2[i] = m[i]
  <2>1. i \notin end..(end + n)  BY <1>0, <1>1, <1>2, <1>6, <1>25
  <2> QED BY <1>9, <2>1
<1> QED BY <1>3, <1>24, <1>25 DEF a, b

(***************************************************************************)
(* The processor's name.                                                   *)
(***************************************************************************)
\* The text of buf ends at z, and is from b to t without the spaces around it.
Places(buf, e, b, t, z) ==
    /\ b \in Nat /\ t \in Nat /\ z \in Nat /\ b <= t /\ t <= z /\ z <= e
    /\ buf[z] = NUL /\ \A j \in 0..(z - 1) : buf[j] # NUL
    /\ buf[b] # Space /\ \A j \in 0..(b - 1) : buf[j] = Space
    /\ b < t => buf[t - 1] # Space
    /\ \A j \in (t + 1)..z : buf[j - 1] = Space

\* The text from b to t, moved to the front.
CutOut(buf, b, t) == IF b = 0 THEN [buf EXCEPT ![t] = NUL]
                     ELSE memmove([buf EXCEPT ![t] = NUL], 0, b, t - b + 1)

LEMMA TrimPlaces ==
  ASSUME NEW e, NEW buf, Ends(buf, e)
  PROVE  \E b, t, z :
           /\ Places(buf, e, b, t, z)
           /\ trimmed(buf) = CutOut(buf, b, t)
<1> DEFINE up[i \in Nat] == IF buf[i] = Space THEN up[i + 1] ELSE i
           b == up[0]
           down[i \in Nat] == IF i > b /\ buf[i - 1] = Space THEN down[i - 1] ELSE i
           z == b + strlen(buf, b)
           t == down[z]
           P == {i \in Nat : buf[i] # Space}
           Q == {i \in Nat : ~(i > b /\ buf[i - 1] = Space)}
<1>0. e \in Nat /\ DOMAIN buf = 0..e /\ buf[e] = NUL  BY DEF Ends
<1>s. Space # NUL  BY DEF Space, NUL
<1>1. trimmed(buf) = IF b = 0 THEN [buf EXCEPT ![t] = NUL]
                     ELSE memmove([buf EXCEPT ![t] = NUL], 0, b, t - b + 1)
  BY DEF trimmed
<1>2. up = [i \in Nat |-> IF buf[i] = Space THEN up[i + 1] ELSE i]
  <2>1. \E f : f = [i \in Nat |-> IF i \in P THEN i ELSE f[i + 1]]
    <3>1. P \subseteq Nat  OBVIOUS
    <3> HIDE DEF P
    <3> QED BY <3>1, UpExists
  <2>2. \A f : [i \in Nat |-> IF i \in P THEN i ELSE f[i + 1]]
             = [i \in Nat |-> IF buf[i] = Space THEN f[i + 1] ELSE i]
    OBVIOUS
  <2>3. \E f : f = [i \in Nat |-> IF buf[i] = Space THEN f[i + 1] ELSE i]
    BY <2>1, <2>2
  <2> QED BY <2>3
<1> HIDE DEF up
<1>3. \A i \in Nat : up[i] = IF i \in P THEN i ELSE up[i + 1]  BY <1>2
<1>4. e \in P /\ P \subseteq Nat  BY <1>0, <1>s
<1>5. b \in P /\ b \in Nat /\ b <= e /\ \A j \in 0..(b - 1) : j \notin P
  <2>1. 0 \in Nat /\ 0 <= e  BY <1>0
  <2> HIDE DEF P
  <2> QED BY <1>3, <1>4, <2>1, UpFinds
<1> HIDE DEF b
<1>6. down = [i \in Nat |-> IF i > b /\ buf[i - 1] = Space THEN down[i - 1] ELSE i]
  <2>1. \E f : f = [i \in Nat |-> IF i \in Q THEN i ELSE f[i - 1]]
    <3>1. Q \subseteq Nat /\ 0 \in Q  BY <1>5
    <3> HIDE DEF Q
    <3> QED BY <3>1, DownExists
  <2>2. \A f : [i \in Nat |-> IF i \in Q THEN i ELSE f[i - 1]]
             = [i \in Nat |-> IF i > b /\ buf[i - 1] = Space THEN f[i - 1] ELSE i]
    OBVIOUS
  <2>3. \E f : f = [i \in Nat |-> IF i > b /\ buf[i - 1] = Space THEN f[i - 1] ELSE i]
    BY <2>1, <2>2
  <2> QED BY <2>3
<1> HIDE DEF down
<1>7. \A i \in Nat : down[i] = IF i \in Q THEN i ELSE down[i - 1]  BY <1>6
<1>8. z \in 0..e /\ b <= z /\ buf[z] = NUL /\ \A j \in b..(z - 1) : buf[j] # NUL
  <2>1. b \in 0..e  BY <1>0, <1>5
  <2>2. /\ strlen(buf, b) \in Nat /\ z \in 0..e /\ buf[z] = NUL
        /\ \A j \in b..(z - 1) : buf[j] # NUL
    BY <2>1, StrlenIs
  <2> QED BY <1>5, <2>2
<1> HIDE DEF z
<1>9. z \in Nat /\ z <= e  BY <1>0, <1>8
<1>10. t \in Q /\ t \in Nat /\ t <= z /\ \A j \in (t + 1)..z : j \notin Q
  <2>1. Q \subseteq Nat /\ 0 \in Q  BY <1>5
  <2> HIDE DEF Q
  <2> QED BY <1>7, <1>9, <2>1, DownFinds
<1> HIDE DEF t
<1>11. b <= t
  <2> SUFFICES ASSUME t < b PROVE FALSE
    BY <1>5, <1>10
  <2>1. b \in (t + 1)..z  BY <1>5, <1>8, <1>9, <1>10
  <2>2. b \in Q  BY <1>5
  <2> QED BY <1>10, <2>1, <2>2
<1>12. ASSUME NEW j \in 0..(z - 1) PROVE buf[j] # NUL
  <2>1. j \in Nat /\ j <= z - 1  BY <1>9
  <2>2. CASE j < b
    <3>1. j \in 0..(b - 1)  BY <1>5, <2>1, <2>2
    <3> QED BY <1>5, <1>s, <2>1, <3>1
  <2>3. CASE ~(j < b)
    <3>1. j \in b..(z - 1)  BY <1>5, <1>9, <2>1, <2>3
    <3> QED BY <1>8, <3>1
  <2> QED BY <2>2, <2>3
<1>13. ASSUME NEW j \in 0..(b - 1) PROVE buf[j] = Space
  <2>1. j \in Nat  BY <1>5
  <2> QED BY <1>5, <2>1
<1>14. b < t => buf[t - 1] # Space  BY <1>5, <1>10
<1>15. ASSUME NEW j \in (t + 1)..z PROVE buf[j - 1] = Space
  <2>1. j \in Nat  BY <1>9, <1>10
  <2>2. j \notin Q  BY <1>10
  <2> QED BY <2>1, <2>2
<1>16. buf[b] # Space  BY <1>5
<1> HIDE DEF P, Q
<1>17. Places(buf, e, b, t, z)
  BY <1>5, <1>8, <1>9, <1>10, <1>11, <1>12, <1>13, <1>14, <1>15, <1>16 DEF Places
<1> QED BY <1>1, <1>17 DEF CutOut

\* What is left is the text between the places.
LEMMA TrimmedText ==
  ASSUME NEW e, NEW buf, Ends(buf, e), Filled(buf, e), NEW b, NEW t, NEW z,
         Places(buf, e, b, t, z), NEW r,
         r = CutOut(buf, b, t)
  PROVE  /\ string(r, 0) = Chars(buf, b, t - b)
         /\ r[0] # NUL <=> b < t
<1> DEFINE cut == [buf EXCEPT ![t] = NUL]
<1>0. e \in Nat /\ DOMAIN buf = 0..e /\ buf[e] = NUL  BY DEF Ends
<1>1. /\ b \in Nat /\ t \in Nat /\ z \in Nat /\ b <= t /\ t <= z /\ z <= e
      /\ \A j \in 0..(z - 1) : buf[j] # NUL
  BY DEF Places
<1>2. buf = [i \in 0..e |-> buf[i]]  BY DEF Filled
<1>3. cut = [i \in 0..e |-> IF i = t THEN NUL ELSE buf[i]]  BY <1>0, <1>1, <1>2
<1>4. r = IF b = 0 THEN cut ELSE memmove(cut, 0, b, t - b + 1)  BY DEF CutOut
<1> HIDE DEF cut
<1>5. r = [i \in 0..e |-> IF i \in 0..(t - b) THEN cut[i + b] ELSE cut[i]]
  <2>1. CASE b = 0
    <3>1. \A i \in 0..e : i + b = i  BY <2>1
    <3>2. cut = [i \in 0..e |-> cut[i]]  BY <1>3
    <3>3. \A i \in 0..e : cut[i] = IF i \in 0..(t - b) THEN cut[i + b] ELSE cut[i]  BY <3>1
    <3> QED BY <1>4, <2>1, <3>2, <3>3
  <2>2. CASE b # 0
    <3> DEFINE n == t - b + 1
    <3>1. n \in Nat /\ 0 + n - 1 = t - b /\ b + n - 1 = t  BY <1>1
    <3>2. 0 \in 0..e /\ b \in 0..e /\ 0 + n - 1 <= e /\ b + n - 1 <= e  BY <1>0, <1>1, <3>1
    <3>3. 0 \notin (b + 1)..(b + n - 1)  BY <1>1
    <3> HIDE DEF n
    <3>4. Apart(e, 0, b, n)  BY <1>0, <3>1, <3>2, <3>3 DEF Apart
    <3>5. Filled(cut, e)  BY <1>3 DEF Filled
    <3>6. memmove(cut, 0, b, n) = Moved(cut, e, 0, b, n)  BY <3>4, <3>5, MemmoveIs
    <3>7. r = Moved(cut, e, 0, b, n)  BY <1>4, <2>2, <3>6 DEF n
    <3>8. \A i \in 0..e : i - 0 + b = i + b  BY <1>0, <1>1
    <3> QED BY <3>1, <3>7, <3>8 DEF Moved
  <2> QED BY <2>1, <2>2
<1>6. r[t - b] = NUL
  <2>1. t - b \in 0..e /\ t - b \in 0..(t - b) /\ (t - b) + b = t /\ t \in 0..e  BY <1>0, <1>1
  <2> DEFINE x == t - b
  <2>2. x \in 0..e /\ x \in 0..x /\ x + b = t  BY <2>1
  <2> HIDE DEF x
  <2>3. r[x] = cut[x + b]  BY <1>5, <2>2 DEF x
  <2>4. cut[t] = NUL  BY <1>3, <2>1
  <2> QED BY <2>2, <2>3, <2>4 DEF x
<1>7. ASSUME NEW i \in 0..(t - b - 1) PROVE r[i] = buf[b + i] /\ r[i] # NUL
  <2>1. i \in 0..e /\ i \in 0..(t - b) /\ i \in Int  BY <1>0, <1>1
  <2> DEFINE x == i + b
  <2>2. x \in 0..e /\ x # t /\ x \in 0..(z - 1) /\ x = b + i  BY <1>0, <1>1, <2>1
  <2>3. r[i] = cut[x]  BY <1>5, <2>1
  <2> HIDE DEF x
  <2> QED BY <1>1, <1>3, <2>2, <2>3
<1>8. r[e] = NUL
  <2>1. CASE e \in 0..(t - b)
    <3>1. e = t - b  BY <1>0, <1>1, <2>1
    <3> QED BY <1>6, <3>1
  <2>2. CASE e \notin 0..(t - b)
    <3>1. e \in 0..e  BY <1>0
    <3> QED BY <1>0, <1>3, <1>5, <2>2, <3>1
  <2> QED BY <2>1, <2>2
<1>9. Ends(r, e)  BY <1>0, <1>5, <1>8 DEF Ends
<1> HIDE DEF cut
<1> DEFINE n == t - b
<1>10. 0 \in 0..e /\ n \in Nat /\ 0 + n \in 0..e /\ 0 + n = n /\ 0 + n - 1 = t - b - 1
  BY <1>0, <1>1
<1>11. r[0 + n] = NUL  BY <1>6, <1>10
<1>12. \A j \in 0..(0 + n - 1) : r[j] # NUL  BY <1>7, <1>10
<1>13. string(r, 0) = Chars(r, 0, n)
  <2> HIDE DEF n
  <2> QED BY ONLY <1>9, <1>10, <1>11, <1>12, StringAt
<1>14. ASSUME NEW i \in 1..n PROVE r[0 + i - 1] = buf[b + i - 1]
  <2> DEFINE x == i - 1
  <2>1. x \in 0..(t - b - 1) /\ 0 + i - 1 = x /\ b + i - 1 = b + x  BY <1>1, <1>10
  <2> HIDE DEF x
  <2>2. r[x] = buf[b + x]  BY <1>7, <2>1
  <2> QED BY <2>1, <2>2
<1>15. r[0] # NUL <=> b < t
  <2>1. CASE b < t
    <3>1. 0 \in 0..(t - b - 1)  BY <1>1, <2>1
    <3> QED BY <1>7, <2>1, <3>1
  <2>2. CASE ~(b < t)
    <3>1. t - b = 0  BY <1>1, <2>2
    <3> QED BY <1>6, <2>2, <3>1
  <2> QED BY <2>1, <2>2
<1>16. string(r, 0) = Chars(buf, b, n)  BY <1>13, <1>14 DEF Chars
<1> QED BY <1>15, <1>16

\* That is what trimming a text means.
LEMMA TrimmedMeans ==
  ASSUME NEW e \in Nat, NEW k \in Seq(STRING), Len(k) <= e, NEW buf,
         buf = [i \in 0..e |-> IF i < Len(k) THEN k[i + 1] ELSE NUL],
         NEW b, NEW t, NEW z, Places(buf, e, b, t, z)
  PROVE  Trimmed(k) = Chars(buf, b, t - b)
<1> DEFINE p == Len(k)
           IsEnd(n) == /\ \A i \in 1..n : k[i] # NUL
                       /\ n < p => k[n + 1] = NUL
           inner == {i \in 1..z : k[i] # Space}
<1>0. p \in Nat /\ p <= e /\ DOMAIN k = 1..p  OBVIOUS
<1>1. /\ b \in Nat /\ t \in Nat /\ z \in Nat /\ b <= t /\ t <= z /\ z <= e
      /\ buf[z] = NUL /\ \A j \in 0..(z - 1) : buf[j] # NUL
      /\ buf[b] # Space /\ \A j \in 0..(b - 1) : buf[j] = Space
      /\ b < t => buf[t - 1] # Space
      /\ \A j \in (t + 1)..z : buf[j - 1] = Space
  BY DEF Places
<1> HIDE DEF p
<1>2. ASSUME NEW i \in 0..e PROVE buf[i] = IF i < p THEN k[i + 1] ELSE NUL
  BY DEF p
<1>3. z <= p
  <2> SUFFICES ASSUME p < z PROVE FALSE
    BY <1>0, <1>1
  <2>1. p \in 0..(z - 1) /\ p \in 0..e /\ ~(p < p)  BY <1>0, <1>1
  <2> QED BY <1>1, <1>2, <2>1
<1>4. ASSUME NEW i \in 1..p PROVE k[i] = buf[i - 1]
  <2> DEFINE x == i - 1
  <2>1. x \in 0..e /\ x < p /\ x + 1 = i  BY <1>0
  <2> HIDE DEF x
  <2>2. buf[x] = k[x + 1]  BY <1>2, <2>1
  <2> QED BY <2>1, <2>2 DEF x
<1>5. IsEnd(z) /\ z \in 0..p
  <2>1. ASSUME NEW i \in 1..z PROVE k[i] # NUL
    <3>1. i \in 1..p /\ i - 1 \in 0..(z - 1)  BY <1>0, <1>1, <1>3
    <3> QED BY <1>1, <1>4, <3>1
  <2>2. ASSUME z < p PROVE k[z + 1] = NUL
    <3>1. z \in 0..e  BY <1>0, <1>1
    <3> QED BY <1>1, <1>2, <2>2, <3>1
  <2> QED BY <1>0, <1>1, <1>3, <2>1, <2>2
<1>6. ASSUME NEW n \in 0..p, IsEnd(n) PROVE n = z
  <2>0. n \in Int /\ 0 <= n /\ n <= p  BY <1>0
  <2>1. CASE n < z
    <3>1. n < p /\ n + 1 \in 1..z  BY <1>0, <1>1, <1>3, <2>0, <2>1
    <3> QED BY <1>5, <1>6, <3>1
  <2>2. CASE z < n
    <3>1. z < p /\ z + 1 \in 1..n  BY <1>0, <1>1, <1>3, <2>0, <2>2
    <3> QED BY <1>5, <1>6, <3>1
  <2> QED BY <1>1, <2>0, <2>1, <2>2
<1> DEFINE y == CHOOSE n \in 0..p : IsEnd(n)
           within == {i \in 1..y : k[i] # Space}
<1>7. y = z
  <2> HIDE DEF IsEnd
  <2> QED BY <1>5, <1>6
<1>7a. Trimmed(k) = IF within = {} THEN <<>>
                    ELSE SubSeq(k, CHOOSE i \in within : \A j \in within : i <= j,
                                   CHOOSE i \in within : \A j \in within : j <= i)
  BY DEF Trimmed, p
<1>7b. within = inner  BY <1>7
<1>8. Trimmed(k) = IF inner = {} THEN <<>>
                   ELSE SubSeq(k, CHOOSE i \in inner : \A j \in inner : i <= j,
                                  CHOOSE i \in inner : \A j \in inner : j <= i)
  <2> HIDE DEF within, inner
  <2> QED BY <1>7a, <1>7b
<1>9. ASSUME NEW i \in inner PROVE i \in Int /\ b + 1 <= i /\ i <= t
  <2>1. i \in Int /\ 1 <= i /\ i <= z /\ k[i] # Space  BY <1>1
  <2>2. k[i] = buf[i - 1]
    <3>1. i \in 1..p  BY <1>0, <1>1, <1>3, <2>1
    <3> QED BY <1>4, <3>1
  <2>3. ~(i < b + 1)
    <3>1. i < b + 1 => i - 1 \in 0..(b - 1)  BY <1>1, <2>1
    <3> QED BY <1>1, <2>1, <2>2, <3>1
  <2>4. ~(t < i)
    <3>1. t < i => i \in (t + 1)..z  BY <1>1, <2>1
    <3> QED BY <1>1, <2>1, <2>2, <3>1
  <2> QED BY <1>1, <2>1, <2>3, <2>4
<1>10. ASSUME b < t PROVE b + 1 \in inner /\ t \in inner
  <2>1. b + 1 \in 1..z /\ b + 1 \in 1..p /\ t \in 1..z /\ t \in 1..p /\ (b + 1) - 1 = b
    BY <1>0, <1>1, <1>3, <1>10
  <2>2. k[b + 1] = buf[b]
    <3> DEFINE x == b + 1
    <3> HIDE DEF x
    <3>1. x \in 1..p /\ x - 1 = b  BY <2>1 DEF x
    <3>2. k[x] = buf[x - 1]  BY <1>4, <3>1
    <3> QED BY <3>1, <3>2 DEF x
  <2>3. k[t] = buf[t - 1]  BY <1>4, <2>1
  <2> QED BY <1>1, <1>10, <2>1, <2>2, <2>3
<1> HIDE DEF inner
<1>11. CASE b < t
  <2>1. inner # {}  BY <1>10, <1>11
  <2>2. (CHOOSE i \in inner : \A j \in inner : i <= j) = b + 1
    <3>1. b + 1 \in inner /\ \A j \in inner : b + 1 <= j  BY <1>9, <1>10, <1>11
    <3>2. \A i \in inner : (\A j \in inner : i <= j) => i = b + 1
      <4> SUFFICES ASSUME NEW i \in inner, \A j \in inner : i <= j PROVE i = b + 1
        OBVIOUS
      <4>1. i <= b + 1 /\ b + 1 <= i /\ i \in Int  BY <1>9, <3>1
      <4> QED BY <1>1, <4>1
    <3> QED BY <3>1, <3>2
  <2>3. (CHOOSE i \in inner : \A j \in inner : j <= i) = t
    <3>1. t \in inner /\ \A j \in inner : j <= t  BY <1>9, <1>10, <1>11
    <3>2. \A i \in inner : (\A j \in inner : j <= i) => i = t
      <4> SUFFICES ASSUME NEW i \in inner, \A j \in inner : j <= i PROVE i = t
        OBVIOUS
      <4>1. i <= t /\ t <= i /\ i \in Int  BY <1>9, <3>1
      <4> QED BY <1>1, <4>1
    <3> QED BY <3>1, <3>2
  <2>4. Trimmed(k) = SubSeq(k, b + 1, t)  BY <1>8, <2>1, <2>2, <2>3
  <2>5. SubSeq(k, b + 1, t) = [i \in 1..(t - b) |-> k[i + b]]
    <3>1. b + 1 \in 1..p /\ t \in 1..p  BY <1>0, <1>1, <1>3, <1>11
    <3>2. t - (b + 1) + 1 = t - b /\ \A i \in 1..(t - b) : i + (b + 1) - 1 = i + b  BY <1>1
    <3> QED BY <1>0, <3>1, <3>2 DEF p
  <2>6. ASSUME NEW i \in 1..(t - b) PROVE k[i + b] = buf[b + i - 1]
    <3> DEFINE x == i + b
    <3>1. x \in 1..p /\ x - 1 = b + i - 1  BY <1>0, <1>1, <1>3
    <3> HIDE DEF x
    <3>2. k[x] = buf[x - 1]  BY <1>4, <3>1
    <3> QED BY <3>1, <3>2 DEF x
  <2> QED BY <2>4, <2>5, <2>6 DEF Chars
<1>12. CASE ~(b < t)
  <2>1. t - b = 0  BY <1>1, <1>12
  <2>2. inner = {}
    <3> SUFFICES ASSUME NEW i \in inner PROVE FALSE
      OBVIOUS
    <3>1. i \in Int /\ b + 1 <= i /\ i <= t  BY <1>9
    <3> QED BY <1>1, <1>12, <3>1
  <2>3. Chars(buf, b, t - b) = <<>>  BY <2>1 DEF Chars
  <2> QED BY <1>8, <2>2, <2>3
<1> QED BY <1>11, <1>12

\* What is read of the name: as many characters as the buffer has room for.
Kept(raw, room) == IF Len(raw) < room THEN raw ELSE SubSeq(raw, 1, room - 1)

LEMMA BrandIs ==
  ASSUME NEW raw \in Seq(STRING), NEW room \in Nat \ {0}
  PROVE  /\ string(cpu_get_brand_string(raw, room).buf, 0) = Trimmed(Kept(raw, room))
         /\ cpu_get_brand_string(raw, room).ret <=> Trimmed(Kept(raw, room)) # <<>>
<1> DEFINE e == room - 1
           k == Kept(raw, room)
           buf == append(raw, room)
           r == trimmed(buf)
<1>1. e \in Nat /\ Len(raw) \in Nat /\ (Len(raw) < room <=> Len(raw) <= e)  OBVIOUS
<1>2. /\ k \in Seq(STRING) /\ Len(k) = (IF Len(raw) > e THEN e ELSE Len(raw))
      /\ \A i \in 1..Len(k) : k[i] = raw[i]
  <2>1. CASE Len(raw) < room  BY <1>1, <2>1 DEF Kept
  <2>2. CASE ~(Len(raw) < room)
    <3>1. k = SubSeq(raw, 1, e)  BY <2>2 DEF Kept
    <3>2. e \in 0..Len(raw) /\ e - 1 + 1 = e  BY <1>1, <2>2
    <3> HIDE DEF e, k
    <3>3. k \in Seq(STRING) /\ Len(k) = e /\ \A i \in 1..e : k[i] = raw[i]
      BY <1>1, <3>1, <3>2
    <3>4. Len(raw) >= e  BY <1>1, <3>2
    <3> QED BY <1>1, <3>3, <3>4
  <2> QED BY <2>1, <2>2
<1>3. buf = [i \in 0..e |-> IF i < Len(k) THEN k[i + 1] ELSE NUL]
  <2> DEFINE p == IF Len(raw) > e THEN e ELSE Len(raw)
  <2>1. buf = [i \in 0..e |-> IF i < p THEN raw[i + 1] ELSE NUL]  BY DEF append
  <2>2. p = Len(k) /\ p \in Nat  BY <1>1, <1>2
  <2> HIDE DEF p, k, e
  <2>3. ASSUME NEW i \in 0..e, i < p PROVE raw[i + 1] = k[i + 1]
    <3>1. i + 1 \in 1..p  BY <1>1, <2>2, <2>3
    <3> QED BY <1>2, <2>2, <3>1
  <2> QED BY <2>1, <2>2, <2>3
<1>4. cpu_get_brand_string(raw, room) = [buf |-> r, ret |-> r[0] # NUL]
  BY DEF cpu_get_brand_string
<1> HIDE DEF e, k, buf
<1>5. Len(k) \in Nat /\ Len(k) <= e  BY <1>1, <1>2
<1>6. buf[e] = NUL
  <2>1. e \in 0..e /\ ~(e < Len(k))  BY <1>1, <1>5
  <2> QED BY <1>3, <2>1
<1>7. Ends(buf, e) /\ Filled(buf, e)  BY <1>1, <1>3, <1>6 DEF Ends, Filled
<1>8. PICK b, t, z :
        /\ Places(buf, e, b, t, z)
        /\ r = CutOut(buf, b, t)
  BY <1>7, TrimPlaces
<1> HIDE DEF r
<1>9. /\ string(r, 0) = Chars(buf, b, t - b)
      /\ r[0] # NUL <=> b < t
  BY <1>7, <1>8, TrimmedText
<1>10. Trimmed(k) = Chars(buf, b, t - b)
  BY <1>1, <1>2, <1>3, <1>5, <1>8, TrimmedMeans
<1>11. Trimmed(k) # <<>> <=> b < t
  <2>1. b \in Nat /\ t \in Nat /\ b <= t  BY <1>8 DEF Places
  <2>0. DOMAIN Chars(buf, b, t - b) = 1..(t - b)  BY DEF Chars
  <2>2. CASE b < t
    <3>1. 1 \in 1..(t - b)  BY <2>1, <2>2
    <3>2. 1 \in DOMAIN Trimmed(k)  BY <1>10, <2>0, <3>1
    <3>3. DOMAIN <<>> = {}  OBVIOUS
    <3> QED BY <2>2, <3>2, <3>3
  <2>3. CASE ~(b < t)
    <3>1. t - b = 0  BY <2>1, <2>3
    <3>2. Chars(buf, b, t - b) = <<>>  BY <3>1 DEF Chars
    <3> QED BY <1>10, <2>3, <3>2
  <2> QED BY <2>2, <2>3
<1> DEFINE c == cpu_get_brand_string(raw, room)
<1>12. c.buf = r /\ c.ret = (r[0] # NUL)  BY <1>4
<1> HIDE DEF c
<1>13. string(c.buf, 0) = Trimmed(k)  BY <1>9, <1>10, <1>12
<1>14. c.ret <=> Trimmed(k) # <<>>  BY <1>9, <1>11, <1>12, Zenon
<1> QED BY <1>13, <1>14 DEF k, c

-----------------------------------------------------------------------------
(***************************************************************************)
(* The jobs on strings.                                                    *)
(***************************************************************************)
LEMMA MemoryIs ==
  ASSUME NEW m \in Memories
  PROVE  Ends(m, TOP) /\ Filled(m, TOP) /\ TOP \in Nat
<1>1. m \in [0..TOP -> STRING] /\ m[TOP] = NUL /\ TOP \in Nat  BY LibkAssumption
<1> QED BY <1>1 DEF Ends, Filled

LEMMA AnsweredIs ==
  ASSUME JobInv, NEW fn, fn # "strtok", Answered(fn)
  PROVE  \E j \in StrtoulJobs \cup StringJobs \cup BootJobs :
           j.fn = fn /\ job = [j EXCEPT !.ret = <<Answer(j)>>] /\ answer = Answer(j)
<1>1. job.fn = fn /\ job.ret # <<>>  BY DEF Answered
<1>2. PICK j \in StrtoulJobs \cup StringJobs \cup BootJobs :
        job = j \/ job = [j EXCEPT !.ret = <<Answer(j)>>]
  BY <1>1 DEF JobInv, OtherJob
<1>3. j.ret = <<>>  BY OtherIs
<1>4. "ret" \in DOMAIN j
  <2>1. CASE j \in StrtoulJobs  BY <2>1 DEF StrtoulJobs
  <2>2. CASE j \in StringJobs  BY <2>2 DEF StringJobs
  <2>3. CASE j \in BootJobs  BY <2>3 DEF BootJobs
  <2> QED BY <2>1, <2>2, <2>3
<1>5. job = [j EXCEPT !.ret = <<Answer(j)>>]  BY <1>1, <1>2, <1>3
<1>6. job.ret = <<Answer(j)>>  BY <1>4, <1>5
<1>7. answer = Answer(j)  BY <1>6 DEF answer
<1>8. job.fn = j.fn  BY <1>5
<1> QED BY <1>1, <1>5, <1>7, <1>8

LEMMA StrcmpAgrees ==
  ASSUME JobInv, Answered("strcmp")
  PROVE  answer[1] = answer[2] <=> string(job.mem, job.d) = string(job.mem, job.s)
<1>1. PICK j \in StrtoulJobs \cup StringJobs \cup BootJobs :
        j.fn = "strcmp" /\ job = [j EXCEPT !.ret = <<Answer(j)>>] /\ answer = Answer(j)
  BY AnsweredIs
<1>2. j \in [fn : {"strcmp"}, mem : Memories, d : Cells, s : Cells, ret : {<<>>}]
  BY <1>1 DEF StrtoulJobs, StringJobs, BootJobs
<1>3. job.mem = j.mem /\ job.d = j.d /\ job.s = j.s  BY <1>1, <1>2
<1>4. j.mem \in Memories /\ j.d \in 0..TOP /\ j.s \in 0..TOP  BY <1>2 DEF Cells
<1>5. answer = strcmp(j.mem, j.d, j.s)  BY <1>1 DEF Answer
<1> QED BY <1>3, <1>4, <1>5, MemoryIs, StrcmpIs

LEMMA StrchrAgrees ==
  ASSUME JobInv, Answered("strchr")
  PROVE  answer = IF job.ch = NUL THEN job.s + strlen(job.mem, job.s)
                   ELSE LET at_ == {i \in Cells : /\ i >= job.s /\ job.mem[i] = job.ch
                                                  /\ i < job.s + strlen(job.mem, job.s)}
                        IN  IF at_ = {} THEN NULL
                            ELSE CHOOSE i \in at_ : \A j \in at_ : i <= j
<1>1. PICK j \in StrtoulJobs \cup StringJobs \cup BootJobs :
        j.fn = "strchr" /\ job = [j EXCEPT !.ret = <<Answer(j)>>] /\ answer = Answer(j)
  BY AnsweredIs
<1>2. j \in [fn : {"strchr"}, mem : Memories, s : Cells, ch : Sought, ret : {<<>>}]
  BY <1>1 DEF StrtoulJobs, StringJobs, BootJobs
<1>3. job.mem = j.mem /\ job.s = j.s /\ job.ch = j.ch  BY <1>1, <1>2
<1>4. j.mem \in Memories /\ j.s \in 0..TOP  BY <1>2 DEF Cells
<1>5. answer = strchr(j.mem, j.s, j.ch)  BY <1>1 DEF Answer
<1> DEFINE m == job.mem
           s == job.s
           ch == job.ch
<1>6. Ends(m, TOP) /\ s \in 0..TOP /\ answer = strchr(m, s, ch)  BY <1>3, <1>4, <1>5, MemoryIs
<1> HIDE DEF m, s, ch
<1>7. answer = IF ch = NUL THEN s + strlen(m, s)
               ELSE LET at_ == {i \in 0..TOP : i >= s /\ m[i] = ch /\ i < s + strlen(m, s)}
                    IN  IF at_ = {} THEN NULL ELSE CHOOSE i \in at_ : \A a \in at_ : i <= a
  BY <1>6, StrchrIs
<1> QED BY <1>7 DEF m, s, ch, Cells

LEMMA StrcatAgrees ==
  ASSUME JobInv, Answered("strcat")
  PROVE  /\ string(answer.mem, job.d) = string(job.mem, job.d) \o string(job.mem, job.s)
         /\ \A i \in Cells : i \notin job.d..answer.ret => answer.mem[i] = job.mem[i]
<1>1. PICK j \in StrtoulJobs \cup StringJobs \cup BootJobs :
        j.fn = "strcat" /\ job = [j EXCEPT !.ret = <<Answer(j)>>] /\ answer = Answer(j)
  BY AnsweredIs
<1>2. /\ j \in [fn : {"strcat"}, mem : Memories, d : Cells, s : Cells, ret : {<<>>}]
      /\ CatFits(j)
  BY <1>1 DEF StrtoulJobs, StringJobs, BootJobs
<1>3. job.mem = j.mem /\ job.d = j.d /\ job.s = j.s  BY <1>1, <1>2
<1>4. j.mem \in Memories /\ j.d \in 0..TOP /\ j.s \in 0..TOP  BY <1>2 DEF Cells
<1>5. answer = strcat(j.mem, j.d, j.s)  BY <1>1 DEF Answer
<1> DEFINE m == j.mem
           d == j.d
           s == j.s
           end == d + strlen(m, d)
           n == strlen(m, s)
<1>6. end + n \in 0..TOP /\ (end + n < s \/ s + n < end)  BY <1>2 DEF CatFits, Cells
<1>7. Ends(m, TOP) /\ Filled(m, TOP)  BY <1>4, MemoryIs
<1>8. d \in 0..TOP /\ s \in 0..TOP  BY <1>4
<1>9. end = d + strlen(m, d) /\ n = strlen(m, s)  OBVIOUS
<1> HIDE DEF m, d, s, end, n
<1>10. /\ string(strcat(m, d, s).mem, d) = string(m, d) \o string(m, s)
       /\ \A i \in 0..TOP : i \notin d..strcat(m, d, s).ret => strcat(m, d, s).mem[i] = m[i]
  BY ONLY <1>6, <1>7, <1>8, <1>9, StrcatIs
<1> QED BY <1>3, <1>5, <1>10 DEF m, d, s, Cells

LEMMA MemmoveAgrees ==
  ASSUME JobInv, Answered("memmove"), job.d \notin (job.s + 1)..(job.s + job.n - 1),
         NEW i \in Cells
  PROVE  answer[i] = IF i \in job.d..(job.d + job.n - 1)
                       THEN job.mem[i - job.d + job.s] ELSE job.mem[i]
<1>1. PICK j \in StrtoulJobs \cup StringJobs \cup BootJobs :
        j.fn = "memmove" /\ job = [j EXCEPT !.ret = <<Answer(j)>>] /\ answer = Answer(j)
  BY AnsweredIs
<1>2. /\ j \in [fn : {"memmove"}, mem : Memories, d : Cells, s : Cells, n : 1..(TOP + 1),
                ret : {<<>>}]
      /\ CopyFits(j)
  BY <1>1 DEF StrtoulJobs, StringJobs, BootJobs
<1>3. job.mem = j.mem /\ job.d = j.d /\ job.s = j.s /\ job.n = j.n  BY <1>1, <1>2
<1>4. j.mem \in Memories /\ j.d \in 0..TOP /\ j.s \in 0..TOP /\ j.n \in 1..(TOP + 1)
  BY <1>2 DEF Cells
<1>5. answer = memmove(j.mem, j.d, j.s, j.n)  BY <1>1 DEF Answer
<1> DEFINE m == job.mem
           d == job.d
           s == job.s
           n == job.n
<1>6. d + n - 1 \in 0..TOP /\ s + n - 1 \in 0..TOP  BY <1>2, <1>3 DEF CopyFits, Cells
<1>7. Ends(m, TOP) /\ Filled(m, TOP) /\ TOP \in Nat  BY <1>3, <1>4, MemoryIs
<1>8. d \in 0..TOP /\ s \in 0..TOP /\ n \in Nat  BY <1>3, <1>4, <1>7
<1>9. answer = memmove(m, d, s, n) /\ d \notin (s + 1)..(s + n - 1)  BY <1>3, <1>5
<1> HIDE DEF m, d, s, n
<1>10. d + n - 1 <= TOP /\ s + n - 1 <= TOP  BY <1>6, <1>7
<1>11. Apart(TOP, d, s, n)  BY <1>7, <1>8, <1>9, <1>10 DEF Apart
<1>12. answer = Moved(m, TOP, d, s, n)  BY <1>7, <1>9, <1>11, MemmoveIs
<1>13. answer[i] = IF i \in d..(d + n - 1) THEN m[i - d + s] ELSE m[i]
  BY <1>12 DEF Moved, Cells
<1> QED BY <1>13 DEF m, d, s, n

LEMMA BrandAgrees ==
  ASSUME JobInv, Answered("cpu_brand")
  PROVE  /\ string(answer.buf, 0) = Trimmed(Kept(job.raw, job.len))
         /\ answer.ret <=> Trimmed(Kept(job.raw, job.len)) # <<>>
<1>1. PICK j \in StrtoulJobs \cup StringJobs \cup BootJobs :
        j.fn = "cpu_brand" /\ job = [j EXCEPT !.ret = <<Answer(j)>>] /\ answer = Answer(j)
  BY AnsweredIs
<1>2. j \in [fn : {"cpu_brand"}, raw : Brands, len : Sizes, ret : {<<>>}]
  BY <1>1 DEF StrtoulJobs, StringJobs, BootJobs
<1>3. job.raw = j.raw /\ job.len = j.len  BY <1>1, <1>2
<1>4. j.raw \in Seq(STRING) /\ j.len \in Nat \ {0}  BY <1>2, LibkAssumption
<1>5. answer = cpu_get_brand_string(j.raw, j.len)  BY <1>1 DEF Answer
<1> QED BY <1>3, <1>4, <1>5, BrandIs

\* strcmp, strchr, strcat, memmove and the trimming of the processor's name do
\* what they are for, whatever the memory holds.
THEOREM StringsAnswered == LibkSpec => []StringsAgree
<1>1. JobInv => StringsAgree
  <2> SUFFICES ASSUME JobInv PROVE StringsAgree
    OBVIOUS
  <2> QED BY StrcmpAgrees, StrchrAgrees, StrcatAgrees, MemmoveAgrees, BrandAgrees
          DEF StringsAgree, Kept
<1> QED BY <1>1, JobInvariance, PTL

(***************************************************************************)
(* The boot information.                                                   *)
(***************************************************************************)
\* A loop that answers v at the first place of P.
Loops(g, n, P, v) ==
    /\ n \in Nat /\ P \subseteq 0..n /\ n \in P
    /\ \A i \in 1..n : g[i] = IF i \in P THEN v[i] ELSE g[i + 1]
Lands(g, P, v, a) == \E k \in P : a <= k /\ g[a] = v[k] /\ \A j \in a..(k - 1) : j \notin P

LEMMA LoopValue ==
  ASSUME NEW n, NEW P, NEW g, NEW v, Loops(g, n, P, v), NEW a \in 1..n
  PROVE  Lands(g, P, v, a)
<1>l. /\ n \in Nat /\ P \subseteq 0..n /\ n \in P
      /\ \A i \in 1..n : g[i] = IF i \in P THEN v[i] ELSE g[i + 1]
  BY DEF Loops
<1> DEFINE Good_(i) == \E k \in P : i <= k /\ g[i] = v[k] /\ \A j \in i..(k - 1) : j \notin P
           T == {k \in 0..(n - 1) : ~Good_(n - k)}
<1>0. \A j \in P : j \in Nat /\ j \in Int  BY <1>l
<1>1. SUFFICES ASSUME T # {} PROVE FALSE
  <2> SUFFICES ASSUME T = {} PROVE Good_(a)
    BY DEF Lands
  <2>1. n - a \in 0..(n - 1) /\ n - (n - a) = a  BY <1>l
  <2> HIDE DEF Good_
  <2> QED BY <2>1
<1>2. PICK k \in T : \A l \in T : k <= l
  <2>1. T \subseteq Nat  BY <1>l
  <2> HIDE DEF T
  <2> QED BY <1>1, <2>1, Least
<1> DEFINE i == n - k
<1>3. k \in 0..(n - 1) /\ i \in 1..n /\ ~Good_(i)
  <2> HIDE DEF Good_
  <2> QED BY <1>l, <1>2
<1>4. i \notin P
  <2> SUFFICES ASSUME i \in P PROVE FALSE
    OBVIOUS
  <2>1. i <= i /\ g[i] = v[i]  BY <1>l, <1>3
  <2>2. \A j \in i..(i - 1) : j \notin P  BY <1>l, <1>3
  <2> QED BY <1>3, <2>1, <2>2
<1>5. k # 0 /\ k - 1 \in 0..(n - 1)
  <2>1. k = 0 => i = n  BY <1>l
  <2> QED BY <1>l, <1>3, <1>4, <2>1
<1>5a. k - 1 \notin T  BY <1>l, <1>2, <1>3, <1>5
<1>6. n - (k - 1) = i + 1 /\ i + 1 \in 1..n  BY <1>l, <1>3, <1>5
<1>7. Good_(i + 1)
  <2> HIDE DEF Good_
  <2> QED BY <1>5, <1>5a, <1>6
<1>8. g[i] = g[i + 1]  BY <1>l, <1>3, <1>4
<1>9. PICK p \in P : i + 1 <= p /\ g[i + 1] = v[p] /\ \A j \in (i + 1)..(p - 1) : j \notin P
  BY <1>7
<1>10. p \in Int /\ i \in Int  BY <1>l, <1>0, <1>3
<1> HIDE DEF i
<1>11. i <= p /\ g[i] = v[p]  BY <1>8, <1>9, <1>10
<1>12. \A j \in i..(p - 1) : j \notin P
  <2> TAKE j \in i..(p - 1)
  <2>1. j = i \/ j \in (i + 1)..(p - 1)  BY <1>10
  <2> QED BY <1>4, <1>9, <2>1
<1> QED BY <1>3, <1>11, <1>12

\* Places one behind the other, each as far from the next as pad says.
LEMMA PlacesExist ==
  ASSUME NEW n \in Nat, NEW pad
  PROVE  \E f : f = [i \in 1..n |-> IF i = 1 THEN 8 ELSE f[i - 1] + pad[i - 1]]
<1> DEFINE Has(k) == \E f : f = [i \in 1..k |-> IF i = 1 THEN 8 ELSE f[i - 1] + pad[i - 1]]
           T == {k \in Nat : ~Has(k)}
<1>1. SUFFICES ASSUME T # {} PROVE FALSE
  <2> SUFFICES ASSUME T = {} PROVE Has(n)
    OBVIOUS
  <2> HIDE DEF Has
  <2> QED OBVIOUS
<1>2. PICK k \in T : \A l \in T : k <= l
  <2>1. T \subseteq Nat  OBVIOUS
  <2> HIDE DEF T
  <2> QED BY <1>1, <2>1, Least
<1>3. k \in Nat /\ ~Has(k)
  <2> HIDE DEF Has
  <2> QED BY <1>2
<1>4. k # 0
  <2> SUFFICES ASSUME k = 0 PROVE Has(k)
    BY <1>3
  <2> DEFINE f == [i \in 1..k |-> 0]
  <2>1. 1..k = {}  OBVIOUS
  <2>2. f = [i \in 1..k |-> IF i = 1 THEN 8 ELSE f[i - 1] + pad[i - 1]]  BY <2>1
  <2> HIDE DEF f
  <2> QED BY <2>2
<1>5. Has(k - 1)
  <2>1. k - 1 \in Nat /\ ~(k <= k - 1)  BY <1>3, <1>4
  <2>2. k - 1 \notin T  BY <1>2, <2>1
  <2> HIDE DEF Has
  <2> QED BY <2>1, <2>2
<1>6. PICK g : g = [i \in 1..(k - 1) |-> IF i = 1 THEN 8 ELSE g[i - 1] + pad[i - 1]]
  BY <1>5
<1> DEFINE f == [i \in 1..k |-> IF i = k THEN (IF k = 1 THEN 8 ELSE g[k - 1] + pad[k - 1])
                                ELSE g[i]]
<1>7. ASSUME NEW i \in 1..k PROVE f[i] = IF i = 1 THEN 8 ELSE f[i - 1] + pad[i - 1]
  <2>1. CASE i = k
    <3>1. CASE k = 1  BY <2>1, <3>1
    <3>2. CASE k # 1
      <4>1. k - 1 \in 1..k /\ k - 1 # k  BY <1>3, <1>4, <3>2
      <4>2. f[k - 1] = g[k - 1]  BY <4>1
      <4>3. f[k] = g[k - 1] + pad[k - 1]  BY <1>3, <1>4, <3>2
      <4> HIDE DEF f
      <4> QED BY <2>1, <3>2, <4>2, <4>3
    <3> QED BY <3>1, <3>2
  <2>2. CASE i # k
    <3>1. i \in 1..(k - 1) /\ f[i] = g[i]  BY <1>3, <2>2
    <3>2. g[i] = IF i = 1 THEN 8 ELSE g[i - 1] + pad[i - 1]  BY <1>6, <3>1
    <3>3. i # 1 => f[i - 1] = g[i - 1]  BY <1>3, <3>1
    <3> HIDE DEF f
    <3> QED BY <3>1, <3>2, <3>3
  <2> QED BY <2>1, <2>2
<1>8. f = [i \in 1..k |-> f[i]]  OBVIOUS
<1> HIDE DEF f
<1>9. f = [i \in 1..k |-> IF i = 1 THEN 8 ELSE f[i - 1] + pad[i - 1]]  BY <1>7, <1>8
<1> QED BY <1>3, <1>9

\* They rise.
LEMMA PlacesRise ==
  ASSUME NEW n \in Nat, NEW pad, \A i \in 1..(n - 1) : pad[i] \in Nat /\ pad[i] >= 8,
         NEW f, \A i \in 1..n : f[i] = IF i = 1 THEN 8 ELSE f[i - 1] + pad[i - 1],
         NEW a \in 1..n
  PROVE  f[a] \in Nat /\ f[a] >= 8 /\ \A j \in 1..(a - 1) : f[j] \in Nat /\ f[j] + 8 <= f[a]
<1> DEFINE Good_(i) == /\ f[i] \in Nat /\ f[i] >= 8
                       /\ \A j \in 1..(i - 1) : f[j] \in Nat /\ f[j] + 8 <= f[i]
           T == {i \in 1..n : ~Good_(i)}
<1>1. SUFFICES ASSUME T # {} PROVE FALSE
  OBVIOUS
<1>2. PICK i \in T : \A l \in T : i <= l
  <2>1. T \subseteq Nat  OBVIOUS
  <2> HIDE DEF T
  <2> QED BY <1>1, <2>1, Least
<1>3. i \in 1..n /\ ~Good_(i)
  <2> HIDE DEF Good_
  <2> QED BY <1>2
<1>4. CASE i = 1
  <2>1. f[1] = 8 /\ 1..(i - 1) = {}  BY <1>3, <1>4
  <2> QED BY <1>3, <1>4, <2>1
<1>5. CASE i # 1
  <2>1. i - 1 \in 1..n /\ i - 1 \in 1..(n - 1) /\ ~(i <= i - 1)  BY <1>3, <1>5
  <2>2. Good_(i - 1)
    <3>1. i - 1 \notin T  BY <1>2, <2>1
    <3> HIDE DEF Good_
    <3> QED BY <2>1, <3>1
  <2> DEFINE x == f[i - 1]
             y == pad[i - 1]
  <2>3. f[i] = x + y  BY <1>3, <1>5
  <2>4. x \in Nat /\ x >= 8 /\ y \in Nat /\ y >= 8
        /\ \A j \in 1..(i - 1 - 1) : f[j] \in Nat /\ f[j] + 8 <= x
    BY <2>1, <2>2
  <2>5. ASSUME NEW j \in 1..(i - 1) PROVE f[j] \in Nat /\ f[j] + 8 <= f[i]
    <3>1. CASE j = i - 1  BY <2>3, <2>4, <3>1
    <3>2. CASE j # i - 1
      <4>1. j \in 1..(i - 1 - 1)  BY <1>3, <3>2
      <4>2. f[j] \in Nat /\ f[j] + 8 <= x  BY <2>4, <4>1
      <4> HIDE DEF x, y
      <4> QED BY <2>3, <2>4, <4>2
    <3> QED BY <3>1, <3>2
  <2>6. f[i] \in Nat /\ f[i] >= 8
    <3> HIDE DEF x, y
    <3> QED BY <2>3, <2>4
  <2> QED BY <1>3, <2>5, <2>6
<1> QED BY <1>4, <1>5

\* Numbers of a sequence are bounded.
LEMMA Bounded ==
  ASSUME NEW n \in Nat, NEW f, \A i \in 1..n : f[i] \in Nat
  PROVE  \E b \in Nat : \A i \in 1..n : f[i] <= b
<1> DEFINE Has(k) == \E b \in Nat : \A i \in 1..k : f[i] <= b
           T == {k \in 0..n : ~Has(k)}
<1>1. SUFFICES ASSUME T # {} PROVE FALSE
  <2> SUFFICES ASSUME T = {} PROVE Has(n)
    OBVIOUS
  <2>1. n \in 0..n  OBVIOUS
  <2> HIDE DEF Has
  <2> QED BY <2>1
<1>2. PICK k \in T : \A l \in T : k <= l
  <2>1. T \subseteq Nat  OBVIOUS
  <2> HIDE DEF T
  <2> QED BY <1>1, <2>1, Least
<1>3. k \in 0..n /\ ~Has(k)
  <2> HIDE DEF Has
  <2> QED BY <1>2
<1>4. k # 0
  <2> SUFFICES ASSUME k = 0 PROVE Has(k)
    BY <1>3
  <2>1. 0 \in Nat /\ \A i \in 1..k : f[i] <= 0  OBVIOUS
  <2> QED BY <2>1
<1>5. k - 1 \in 0..n /\ k \in 1..n  BY <1>3, <1>4
<1>6. Has(k - 1)
  <2>1. ~(k <= k - 1)  BY <1>3
  <2>2. k - 1 \notin T  BY <1>2, <2>1
  <2> HIDE DEF Has
  <2> QED BY <1>5, <2>2
<1>7. PICK b \in Nat : \A i \in 1..(k - 1) : f[i] <= b  BY <1>6
<1> DEFINE x == f[k]
           c == b + x
<1>8. x \in Nat  BY <1>5
<1>9. ASSUME NEW i \in 1..k PROVE f[i] <= c
  <2>1. CASE i = k  BY <1>8, <2>1
  <2>2. CASE i # k
    <3>1. i \in 1..(k - 1) /\ i \in 1..n  BY <1>3, <2>2
    <3>2. f[i] <= b /\ f[i] \in Nat  BY <1>7, <3>1
    <3> HIDE DEF x
    <3> QED BY <1>8, <3>2
  <2> QED BY <2>1, <2>2
<1>10. c \in Nat  BY <1>8
<1> HIDE DEF c
<1> QED BY <1>3, <1>9, <1>10

\* all are the tags and their end, and start[i] is the place of all[i].
LaidOut(info, tags, all, start, n) ==
    /\ n \in Nat /\ n >= 1 /\ DOMAIN tags = 1..(n - 1)
    /\ all[n].type = TAG_END /\ \A i \in 1..(n - 1) : all[i] = tags[i]
    /\ start[1] = 8
    /\ \A i \in 1..(n - 1) : start[i + 1] = start[i] + Padded(tags[i].size)
    /\ info.total_size \in Nat
    /\ \A i \in 1..n : start[i] \in Nat /\ start[i] < info.total_size
    /\ \A i, j \in 1..n : start[i] = start[j] => i = j
    /\ DOMAIN info.tag = {start[i] : i \in 1..n}
    /\ \A i \in 1..n : info.tag[start[i]] = all[i]

LEMMA PaddedIs ==
  ASSUME NEW size \in Nat, size >= 8
  PROVE  /\ Padded(size) \in Nat /\ Padded(size) >= 8
         /\ Padded(size) = ((size + 7) \div 8) * 8
BY DEF Padded

LEMMA LayoutIs ==
  ASSUME NEW tags, Sequence(tags), TagsFit(tags)
  PROVE  \E all, start, n : LaidOut(Layout(tags), tags, all, start, n)
<1> DEFINE S == Elements(tags)
           End == [type |-> TAG_END, size |-> 8]
           all == Append(tags, End)
           n == Len(all)
           start[i \in 1..Len(all)] ==
             IF i = 1 THEN 8 ELSE start[i - 1] + Padded(all[i - 1].size)
           pad == [i \in 1..n |-> Padded(all[i].size)]
           info == Layout(tags)
<1>1. tags \in Seq(S)  BY DEF Sequence
<1>2. /\ n \in Nat /\ n >= 1 /\ DOMAIN tags = 1..(n - 1)
      /\ all[n] = End /\ \A i \in 1..(n - 1) : all[i] = tags[i]
  <2> HIDE DEF S, End
  <2>1. tags \in Seq(S \cup {End}) /\ End \in S \cup {End}  BY <1>1
  <2> QED BY <2>1, AppendProperties
<1>3. info = [total_size |-> start[n] + 8,
              tag |-> [t \in {start[i] : i \in 1..n} |-> all[CHOOSE i \in 1..n : start[i] = t]]]
  BY DEF Layout
<1>4. all[n].type = TAG_END /\ all[n].size = 8
  <2> HIDE DEF all, n
  <2> QED BY <1>2
<1>5. start = [i \in 1..n |-> IF i = 1 THEN 8 ELSE start[i - 1] + pad[i - 1]]
  <2>1. \E f : f = [i \in 1..n |-> IF i = 1 THEN 8 ELSE f[i - 1] + pad[i - 1]]
    <3> HIDE DEF pad, n
    <3> QED BY <1>2, PlacesExist
  <2>2. ASSUME NEW f
        PROVE  [i \in 1..n |-> IF i = 1 THEN 8 ELSE f[i - 1] + pad[i - 1]]
                 = [i \in 1..Len(all) |-> IF i = 1 THEN 8 ELSE f[i - 1] + Padded(all[i - 1].size)]
    <3>1. ASSUME NEW i \in 1..n, i # 1 PROVE pad[i - 1] = Padded(all[i - 1].size)
      <4> HIDE DEF all
      <4>1. i - 1 \in 1..n  BY <1>2, <3>1
      <4> QED BY <4>1
    <3> HIDE DEF pad, all
    <3> QED BY <3>1
  <2>3. \E f : f = [i \in 1..Len(all) |-> IF i = 1 THEN 8 ELSE f[i - 1] + Padded(all[i - 1].size)]
    <3> HIDE DEF pad, all
    <3>1. PICK f : f = [i \in 1..n |-> IF i = 1 THEN 8 ELSE f[i - 1] + pad[i - 1]]
      BY <2>1
    <3>2. [i \in 1..n |-> IF i = 1 THEN 8 ELSE f[i - 1] + pad[i - 1]]
          = [i \in 1..Len(all) |-> IF i = 1 THEN 8 ELSE f[i - 1] + Padded(all[i - 1].size)]
      BY <2>2
    <3>3. f = [i \in 1..Len(all) |-> IF i = 1 THEN 8 ELSE f[i - 1] + Padded(all[i - 1].size)]
      BY <3>1, <3>2
    <3> QED BY <3>3
  <2>4. start = [i \in 1..Len(all) |-> IF i = 1 THEN 8 ELSE start[i - 1] + Padded(all[i - 1].size)]
    <3> HIDE DEF all
    <3> QED BY <2>3
  <2> HIDE DEF pad, all, start
  <2> QED BY <2>2, <2>4
<1> HIDE DEF all, start, info, End, S
<1>6. ASSUME NEW i \in 1..(n - 1)
      PROVE  /\ pad[i] = Padded(tags[i].size) /\ pad[i] \in Nat /\ pad[i] >= 8
  <2>1. i \in 1..n /\ all[i] = tags[i] /\ i \in DOMAIN tags  BY <1>2
  <2>2. tags[i].size \in 8..(MB_WORD - 8)  BY <2>1 DEF TagsFit
  <2>3. tags[i].size \in Nat /\ tags[i].size >= 8  BY <2>2, MultibootAssumption
  <2>4. pad[i] = Padded(tags[i].size)  BY <2>1
  <2> QED BY <2>3, <2>4, PaddedIs
<1>n. n \in Nat /\ n >= 1  BY <1>2
<1> HIDE DEF pad, n
<1>7. \A i \in 1..n : start[i] = IF i = 1 THEN 8 ELSE start[i - 1] + pad[i - 1]  BY <1>5
<1>8. \A a \in 1..n : /\ start[a] \in Nat /\ start[a] >= 8
                      /\ \A j \in 1..(a - 1) : start[j] \in Nat /\ start[j] + 8 <= start[a]
  BY <1>6, <1>7, <1>n, PlacesRise
<1>9. \A i \in 1..(n - 1) : start[i + 1] = start[i] + Padded(tags[i].size)
  <2> TAKE i \in 1..(n - 1)
  <2>1. i + 1 \in 1..n /\ i + 1 # 1 /\ (i + 1) - 1 = i  BY <1>n
  <2> DEFINE x == i + 1
  <2>2. x \in 1..n /\ x # 1 /\ x - 1 = i  BY <2>1
  <2> HIDE DEF x
  <2>3. start[x] = start[i] + pad[i]  BY <1>7, <2>2
  <2> QED BY <1>6, <2>3 DEF x
<1>10. \A i, j \in 1..n : start[i] = start[j] => i = j
  <2> SUFFICES ASSUME NEW i \in 1..n, NEW j \in 1..n, i < j PROVE start[i] # start[j]
    BY <1>n
  <2>1. i \in 1..(j - 1)  BY <1>n
  <2>2. start[i] \in Nat /\ start[i] + 8 <= start[j]  BY <1>8, <2>1
  <2> QED BY <2>2
<1>11. info.total_size = start[n] + 8  BY <1>3
<1>12. \A i \in 1..n : start[i] < info.total_size
  <2> TAKE i \in 1..n
  <2>1. start[i] \in Nat /\ start[n] \in Nat  BY <1>8, <1>n
  <2>2. CASE i = n  BY <1>11, <2>1, <2>2
  <2>3. CASE i # n
    <3>1. i \in 1..(n - 1) /\ n \in 1..n  BY <1>n, <2>3
    <3>2. start[i] + 8 <= start[n]  BY <1>8, <3>1
    <3> QED BY <1>11, <2>1, <3>2
  <2> QED BY <2>2, <2>3
<1>13. /\ DOMAIN info.tag = {start[i] : i \in 1..n}
       /\ \A i \in 1..n : info.tag[start[i]] = all[CHOOSE j \in 1..n : start[j] = start[i]]
  BY <1>3
<1>14. \A i \in 1..n : info.tag[start[i]] = all[i]
  <2> TAKE i \in 1..n
  <2>1. (CHOOSE j \in 1..n : start[j] = start[i]) = i  BY <1>10
  <2> QED BY <1>13, <2>1
<1>15. start[1] = 8  BY <1>7, <1>n
<1>11a. info.total_size \in Nat
  <2>1. start[n] \in Nat  BY <1>8, <1>n
  <2> QED BY <1>11, <2>1
<1>16. LaidOut(info, tags, all, start, n)
  BY <1>2, <1>4, <1>8, <1>9, <1>10, <1>11a, <1>12, <1>13, <1>14, <1>15, <1>n DEF LaidOut, n
<1> QED BY <1>16 DEF info

\* Small numbers are themselves in a word.
LEMMA InWord == ASSUME NEW w \in Nat, NEW x \in Nat, x < w PROVE x % w = x
<1>1. w > 0 /\ x = 0 * w + x /\ x \in 0..(w - 1)  OBVIOUS
<1> QED BY <1>1

LEMMA AlignIs ==
  ASSUME NEW size \in 8..(MB_WORD - 8)
  PROVE  mb2_align8(size) = Padded(size)
<1>1. MB_WORD \in Nat  BY MultibootAssumption
<1>2. size \in Nat /\ size >= 8 /\ size + 7 \in Nat /\ size + 7 < MB_WORD  BY <1>1
<1> DEFINE x == size + 7
<1>3. x % MB_WORD = x
  <2> HIDE DEF x
  <2> QED BY <1>1, <1>2, InWord DEF x
<1>4. mb2_align8(size) = ((x % MB_WORD) \div 8) * 8  BY DEF mb2_align8
<1>5. mb2_align8(size) = (x \div 8) * 8
  <2> HIDE DEF x
  <2> QED BY <1>3, <1>4
<1> QED BY <1>2, <1>5, PaddedIs

\* The tag of the type asked for, wherever it stands.
LEMMA FindTag ==
  ASSUME NEW tags, TagsFit(tags), NEW info, NEW all, NEW start, NEW n,
         LaidOut(info, tags, all, start, n), NEW type, type # TAG_END
  PROVE  LET o == mb2_find_tag(info, type)
         IN  \/ o = NoTag /\ \A i \in DOMAIN tags : tags[i].type # type
             \/ /\ o # NoTag
                /\ \E i \in DOMAIN tags : tags[i].type = type /\ info.tag[o] = tags[i]
<1> DEFINE find[t \in DOMAIN info.tag] ==
             IF t >= info.total_size \/ info.tag[t].type = TAG_END THEN NoTag
             ELSE IF info.tag[t].type = type THEN t
             ELSE find[mb2_next_tag(info, t)]
           P == {i \in 1..n : all[i].type = TAG_END \/ all[i].type = type}
           v == [i \in 1..n |-> IF all[i].type = TAG_END THEN NoTag ELSE start[i]]
<1>1. mb2_find_tag(info, type) = find[8]  BY DEF mb2_find_tag
<1>2. /\ n \in Nat /\ n >= 1 /\ DOMAIN tags = 1..(n - 1)
      /\ all[n].type = TAG_END /\ \A i \in 1..(n - 1) : all[i] = tags[i]
      /\ start[1] = 8 /\ info.total_size \in Nat
      /\ \A i \in 1..(n - 1) : start[i + 1] = start[i] + Padded(tags[i].size)
      /\ \A i \in 1..n : start[i] \in Nat /\ start[i] < info.total_size
      /\ \A i, j \in 1..n : start[i] = start[j] => i = j
      /\ DOMAIN info.tag = {start[i] : i \in 1..n}
      /\ \A i \in 1..n : info.tag[start[i]] = all[i]
  BY DEF LaidOut
<1>t. ASSUME NEW i \in 1..n PROVE ~(start[i] >= info.total_size)
  <2>1. start[i] \in Nat /\ start[i] < info.total_size  BY <1>2
  <2>2. info.total_size \in Int  BY <1>2
  <2> QED BY <2>1, <2>2
<1>3. ASSUME NEW i \in 1..(n - 1) PROVE mb2_next_tag(info, start[i]) = start[i + 1]
  <2>1. i \in 1..n /\ i \in DOMAIN tags /\ all[i] = tags[i]  BY <1>2
  <2>2. info.tag[start[i]] = tags[i]  BY <1>2, <2>1
  <2>3. tags[i].size \in 8..(MB_WORD - 8)  BY <2>1 DEF TagsFit
  <2>4. mb2_align8(tags[i].size) = Padded(tags[i].size)  BY <2>3, AlignIs
  <2> QED BY <1>2, <2>2, <2>4 DEF mb2_next_tag
<1>4. ASSUME NEW i \in 1..n, i \notin P PROVE i \in 1..(n - 1) /\ i + 1 \in 1..n
  <2>1. i # n  BY <1>2, <1>4
  <2> QED BY <1>2, <2>1
<1>5. ASSUME NEW f, NEW i \in 1..n
      PROVE  (IF start[i] >= info.total_size \/ info.tag[start[i]].type = TAG_END THEN NoTag
              ELSE IF info.tag[start[i]].type = type THEN start[i]
              ELSE f[mb2_next_tag(info, start[i])])
             = IF i \in P THEN v[i] ELSE f[start[i + 1]]
  <2>1. info.tag[start[i]] = all[i]  BY <1>2
  <2>2. CASE i \in P  BY <1>t, <2>1, <2>2
  <2>3. CASE i \notin P
    <3>1. mb2_next_tag(info, start[i]) = start[i + 1]  BY <1>3, <1>4, <2>3
    <3>2. all[i].type # TAG_END /\ all[i].type # type  BY <2>3
    <3> HIDE DEF P, v
    <3> QED BY <1>t, <2>1, <2>3, <3>1, <3>2
  <2> QED BY <2>2, <2>3
<1>6. P \subseteq 0..n /\ n \in P  BY <1>2
<1>7. \E f : f = [t \in DOMAIN info.tag |->
             IF t >= info.total_size \/ info.tag[t].type = TAG_END THEN NoTag
             ELSE IF info.tag[t].type = type THEN t
             ELSE f[mb2_next_tag(info, t)]]
  <2>1. PICK h : h = [i \in 0..n |-> IF i \in P THEN i ELSE h[i + 1]]
    <3> HIDE DEF P
    <3> QED BY <1>2, <1>6, LoopExists
  <2> DEFINE idx(t) == CHOOSE i \in 1..n : start[i] = t
             f == [t \in DOMAIN info.tag |-> v[h[idx(t)]]]
  <2>2. \A i \in 1..n : f[start[i]] = v[h[i]]
    <3> TAKE i \in 1..n
    <3>1. idx(start[i]) = i  BY <1>2
    <3>2. start[i] \in DOMAIN info.tag  BY <1>2
    <3> HIDE DEF v
    <3>3. f[start[i]] = v[h[idx(start[i])]]  BY <3>2
    <3> HIDE DEF f, idx
    <3> QED BY <3>1, <3>3
  <2>f. f = [t \in DOMAIN info.tag |-> f[t]]  OBVIOUS
  <2> HIDE DEF f
  <2>3. ASSUME NEW i \in 1..n PROVE f[start[i]] = IF i \in P THEN v[i] ELSE f[start[i + 1]]
    <3>1. h[i] = IF i \in P THEN i ELSE h[i + 1]
      <4>1. i \in 0..n  BY <1>2
      <4> HIDE DEF P
      <4> QED BY <2>1, <4>1
    <3>2. CASE i \in P
      <4> HIDE DEF P, v
      <4> QED BY <2>2, <3>1, <3>2
    <3>3. CASE i \notin P
      <4>1. i + 1 \in 1..n  BY <1>4, <3>3
      <4>2. f[start[i + 1]] = v[h[i + 1]]
        <5> HIDE DEF v
        <5> QED BY <2>2, <4>1
      <4> HIDE DEF P, v
      <4> QED BY <2>2, <3>1, <3>3, <4>2
    <3> QED BY <3>2, <3>3
  <2>4. ASSUME NEW t \in DOMAIN info.tag
        PROVE  f[t] = IF t >= info.total_size \/ info.tag[t].type = TAG_END THEN NoTag
                      ELSE IF info.tag[t].type = type THEN t
                      ELSE f[mb2_next_tag(info, t)]
    <3>1. PICK i \in 1..n : t = start[i]  BY <1>2
    <3> HIDE DEF P, v
    <3> QED BY <1>5, <2>3, <3>1
  <2> QED BY <2>4, <2>f
<1>8. find = [t \in DOMAIN info.tag |->
             IF t >= info.total_size \/ info.tag[t].type = TAG_END THEN NoTag
             ELSE IF info.tag[t].type = type THEN t
             ELSE find[mb2_next_tag(info, t)]]
  BY <1>7
<1> HIDE DEF find
<1> DEFINE g == [i \in 1..n |-> find[start[i]]]
<1>9. ASSUME NEW i \in 1..n PROVE g[i] = IF i \in P THEN v[i] ELSE g[i + 1]
  <2>1. find[start[i]] = IF i \in P THEN v[i] ELSE find[start[i + 1]]
    <3>1. start[i] \in DOMAIN info.tag  BY <1>2
    <3>2. find[start[i]] =
             IF start[i] >= info.total_size \/ info.tag[start[i]].type = TAG_END THEN NoTag
             ELSE IF info.tag[start[i]].type = type THEN start[i]
             ELSE find[mb2_next_tag(info, start[i])]
      BY <1>8, <3>1
    <3> HIDE DEF P, v
    <3> QED BY <1>5, <3>2
  <2>2. i \notin P => g[i + 1] = find[start[i + 1]]
    <3> SUFFICES ASSUME i \notin P PROVE g[i + 1] = find[start[i + 1]]
      OBVIOUS
    <3>1. i + 1 \in 1..n  BY <1>4
    <3> QED BY <3>1
  <2> HIDE DEF P, v
  <2> QED BY <2>1, <2>2
<1>10. 1 \in 1..n  BY <1>2
<1> HIDE DEF g
<1>11. PICK k \in P : 1 <= k /\ g[1] = v[k] /\ \A j \in 1..(k - 1) : j \notin P
  <2>0. n \in Nat  BY <1>2
  <2> HIDE DEF P, v
  <2>1. \A i \in 1..n : g[i] = IF i \in P THEN v[i] ELSE g[i + 1]  BY <1>9
  <2>2. P \subseteq 0..n /\ n \in P  BY <1>6
  <2>3. Loops(g, n, P, v)  BY <2>0, <2>1, <2>2 DEF Loops
  <2>4. Lands(g, P, v, 1)  BY <1>10, <2>3, LoopValue
  <2> QED BY <2>4 DEF Lands
<1>12. mb2_find_tag(info, type) = v[k]
  <2> HIDE DEF v
  <2> QED BY <1>1, <1>2, <1>10, <1>11 DEF g
<1>13. k \in 1..n  OBVIOUS
<1>14. CASE all[k].type = TAG_END
  <2>1. v[k] = NoTag  BY <1>13, <1>14
  <2>2. k = n
    <3>1. k # n => k \in 1..(n - 1)  BY <1>2, <1>13
    <3>2. k \in 1..(n - 1) => tags[k].type # TAG_END  BY <1>2 DEF TagsFit
    <3> QED BY <1>2, <1>14, <3>1, <3>2
  <2>3. ASSUME NEW i \in DOMAIN tags PROVE tags[i].type # type
    <3>1. i \in 1..(k - 1) /\ i \in 1..n /\ all[i] = tags[i]  BY <1>2, <2>2
    <3> QED BY <1>11, <3>1
  <2> QED BY <1>12, <2>1, <2>3
<1>15. CASE all[k].type # TAG_END
  <2>1. v[k] = start[k] /\ all[k].type = type  BY <1>13, <1>15
  <2>2. k \in 1..(n - 1)  BY <1>2, <1>13, <1>15
  <2>3. start[k] \in Nat /\ info.tag[start[k]] = tags[k] /\ tags[k].type = type
    BY <1>2, <1>13, <2>1, <2>2
  <2>4. start[k] # NoTag  BY <2>3 DEF NoTag
  <2> QED BY <1>2, <1>12, <2>1, <2>2, <2>3, <2>4
<1> QED BY <1>14, <1>15

LEMMA SetsMax ==
  ASSUME NEW t, NEW x \in t, x \in Int, \A y \in t : y \in Int /\ y <= x
  PROVE  Sets!Max(t) = x
<1>1. x \in t /\ \A y \in t : x >= y  OBVIOUS
<1>2. \A z \in t : (\A y \in t : z >= y) => z = x
  <2> SUFFICES ASSUME NEW z \in t, \A y \in t : z >= y PROVE z = x
    OBVIOUS
  <2>1. z >= x /\ z <= x /\ z \in Int  OBVIOUS
  <2> QED BY <2>1
<1>3. (CHOOSE z \in t : \A y \in t : z >= y) = x  BY <1>1, <1>2
<1> QED BY <1>3 DEF Sets!Max

LEMMA SetsMin ==
  ASSUME NEW a \in Int, NEW b \in Int
  PROVE  Sets!Min({a, b}) = IF a <= b THEN a ELSE b
<1> DEFINE t == {a, b}
           x == IF a <= b THEN a ELSE b
<1>1. x \in t /\ \A y \in t : x <= y  OBVIOUS
<1>2. \A z \in t : (\A y \in t : z <= y) => z = x  OBVIOUS
<1> HIDE DEF t, x
<1>3. (CHOOSE z \in t : \A y \in t : z <= y) = x  BY <1>1, <1>2
<1> QED BY <1>3 DEF Sets!Min, t, x

\* Every entry of the memory map fits in its tag.
LEMMA AllEntries ==
  ASSUME NEW mm, Sequence(mm.entries), mm.entry_size \in Nat,
         mm.size = MMAP_HEADER + Len(mm.entries) * mm.entry_size
  PROVE  entries(mm) = Elements(mm.entries)
<1> DEFINE l == Len(mm.entries)
           w == mm.entry_size
<1>1. l \in Nat /\ DOMAIN mm.entries = 1..l  BY DEF Sequence
<1>2. MMAP_HEADER \in Nat  BY MultibootAssumption
<1> HIDE DEF l
<1>3. ASSUME NEW n \in 1..l PROVE n * w <= l * w
  <2> DEFINE m == l - n
             a == n * w
             b == l * w
             c == m * w
  <2>0. w \in Nat  OBVIOUS
  <2> HIDE DEF w
  <2>1. m \in Nat /\ n \in Nat /\ l = n + m  BY <1>1
  <2>2. c \in Nat /\ a \in Nat  BY <2>0, <2>1
  <2>3. b = a + c
    <3> HIDE DEF m
    <3> QED BY <2>0, <2>1
  <2> HIDE DEF a, b, c
  <2>4. a <= b  BY <2>2, <2>3
  <2> QED BY <2>4 DEF a, b
<1>4. ASSUME NEW n \in DOMAIN mm.entries PROVE MMAP_HEADER + n * w <= mm.size
  <2> DEFINE a == n * w
             b == l * w
  <2>1. n \in 1..l  BY <1>1
  <2>2. a <= b /\ mm.size = MMAP_HEADER + b  BY <1>3, <2>1 DEF l
  <2>3. a \in Int /\ b \in Int  BY <1>1, <2>1
  <2> HIDE DEF a, b
  <2>4. MMAP_HEADER + a <= mm.size  BY <1>2, <2>2, <2>3
  <2> QED BY <2>4 DEF a
<1>5. {n \in DOMAIN mm.entries : MMAP_HEADER + n * w <= mm.size} = DOMAIN mm.entries  BY <1>4
<1>6. entries(mm) = {mm.entries[i] :
                       i \in {n \in DOMAIN mm.entries : MMAP_HEADER + n * w <= mm.size}}
  BY DEF entries
<1>7. entries(mm) = {mm.entries[i] : i \in DOMAIN mm.entries}  BY <1>5, <1>6
<1> QED BY <1>7 DEF Elements

\* The tops of the available regions.
Tops(regions) == {r.addr + r.len : r \in {e \in regions : e.type = 1}}

\* What the memory map tells: nothing, the highest top, or the last address.
LEMMA MapTop ==
  ASSUME NEW mm, Sequence(mm.entries), mm.entry_size \in Nat, MB_WORD > 1,
         mm.size = MMAP_HEADER + Len(mm.entries) * mm.entry_size,
         \A n \in DOMAIN mm.entries :
           LET e == mm.entries[n] IN
             {e.addr, e.len} \subseteq Nat /\ e.addr + e.len < MB_WORD * MB_WORD
  PROVE  LET tops == Tops(Elements(mm.entries)) \ {0}
             top  == mmap_top(mm)
         IN  /\ (top = 0 <=> tops = {})
             /\ tops # {} => \/ top \in tops /\ \A t \in tops : t <= top
                             \/ top = MB_WORD - 1 /\ \E t \in tops : t >= MB_WORD
<1> DEFINE regions == Elements(mm.entries)
           E == ends(mm)
           T == E \cup {0}
           ww == MB_WORD * MB_WORD
           l == Len(mm.entries)
<1>1. MB_WORD \in Nat /\ ww \in Nat  BY MultibootAssumption
<1>2. l \in Nat /\ DOMAIN mm.entries = 1..l  BY DEF Sequence
<1>3. entries(mm) = regions  BY AllEntries
<1>4. ASSUME NEW n \in DOMAIN mm.entries
      PROVE  /\ mm.entries[n].addr + mm.entries[n].len \in Nat
             /\ mm.entries[n].addr + mm.entries[n].len < ww
  <2> DEFINE e == mm.entries[n]
  <2>1. {e.addr, e.len} \subseteq Nat /\ e.addr + e.len < ww  OBVIOUS
  <2>2. e.addr \in Nat /\ e.len \in Nat  BY <2>1
  <2> HIDE DEF e, ww
  <2>3. e.addr + e.len \in Nat  BY <2>2
  <2> QED BY <2>1, <2>3 DEF e
<1>5. ASSUME NEW e \in regions PROVE (e.addr + e.len) % ww = e.addr + e.len
  <2>1. PICK n \in DOMAIN mm.entries : e = mm.entries[n]  BY DEF Elements
  <2>2. e.addr + e.len \in Nat /\ e.addr + e.len < ww  BY <1>4, <2>1
  <2> HIDE DEF ww, regions
  <2> QED BY <1>1, <2>2, InWord
<1>6. E = Tops(regions)
  <2>1. E = {(me.addr + me.len) % ww : me \in {e \in entries(mm) : e.type = 1}}  BY DEF ends
  <2> HIDE DEF regions, ww, E
  <2> QED BY <1>3, <1>5, <2>1 DEF Tops
<1> DEFINE top_(n) == mm.entries[n].addr + mm.entries[n].len
           f == [n \in 1..l |-> top_(n)]
<1>7. ASSUME NEW x \in E PROVE \E n \in 1..l : x = f[n]
  <2>1. PICK e \in regions : x = e.addr + e.len  BY <1>6 DEF Tops
  <2>2. PICK n \in DOMAIN mm.entries : e = mm.entries[n]  BY DEF Elements
  <2> QED BY <1>2, <2>1, <2>2
<1>8. \A n \in 1..l : f[n] \in Nat  BY <1>2, <1>4
<1> HIDE DEF f, top_, E, regions, ww, l
<1>9. PICK b \in Nat : \A n \in 1..l : f[n] <= b  BY <1>2, <1>8, Bounded
<1>10. T \subseteq 0..b /\ T # {}
  <2>1. ASSUME NEW x \in E PROVE x \in 0..b
    <3>1. PICK n \in 1..l : x = f[n]  BY <1>7
    <3>2. x \in Nat /\ x <= b  BY <1>8, <1>9, <3>1
    <3> QED BY <3>2
  <2> QED BY <2>1
<1> HIDE DEF T
<1>11. PICK m \in T : \A y \in T : y <= m  BY <1>10, Greatest
<1>12. m \in Nat /\ \A y \in T : y \in Nat  BY <1>10
<1>13. Sets!Max(T) = m
  <2>1. m \in Int /\ \A y \in T : y \in Int /\ y <= m  BY <1>11, <1>12
  <2> QED BY <1>11, <2>1, SetsMax
<1> DEFINE top == mmap_top(mm)
           tops == Tops(regions) \ {0}
<1>14. top = IF m <= MB_WORD - 1 THEN m ELSE MB_WORD - 1
  <2>1. top = Sets!Min({m, MB_WORD - 1})  BY <1>13 DEF mmap_top, T, E
  <2>2. m \in Int /\ MB_WORD - 1 \in Int  BY <1>1, <1>12
  <2> HIDE DEF top
  <2> QED BY <2>1, <2>2, SetsMin
<1>15. T = tops \cup {0} /\ 0 \notin tops  BY <1>6 DEF T
<1> HIDE DEF top, tops
<1>16. m = 0 <=> tops = {}
  <2>1. CASE m = 0
    <3> SUFFICES ASSUME NEW y \in tops PROVE FALSE
      BY <2>1
    <3>1. y \in Nat /\ y <= 0 /\ y # 0  BY <1>11, <1>12, <1>15, <2>1
    <3> QED BY <3>1
  <2>2. CASE m # 0  BY <1>11, <1>15, <2>2
  <2> QED BY <2>1, <2>2
<1>17. top = 0 <=> tops = {}  BY <1>1, <1>12, <1>14, <1>16
<1>18. ASSUME tops # {}
       PROVE  \/ top \in tops /\ \A t \in tops : t <= top
              \/ top = MB_WORD - 1 /\ \E t \in tops : t >= MB_WORD
  <2>1. m \in tops /\ \A t \in tops : t <= m  BY <1>11, <1>15, <1>16, <1>18
  <2>2. CASE m <= MB_WORD - 1  BY <1>14, <2>1, <2>2
  <2>3. CASE ~(m <= MB_WORD - 1)
    <3>1. m >= MB_WORD  BY <1>1, <1>12, <2>3
    <3> QED BY <1>14, <2>1, <2>3, <3>1
  <2> QED BY <2>2, <2>3
<1> QED BY <1>17, <1>18 DEF top, tops, regions

LEMMA BootAgrees == ASSUME JobInv PROVE BootInfoRead
<1> SUFFICES ASSUME Answered("boot") PROVE BootInfoRead
  BY DEF BootInfoRead
<1>1. PICK j \in StrtoulJobs \cup StringJobs \cup BootJobs :
        j.fn = "boot" /\ job = [j EXCEPT !.ret = <<Answer(j)>>] /\ answer = Answer(j)
  BY AnsweredIs
<1>2. j \in BootJobs  BY <1>1 DEF StrtoulJobs, StringJobs
<1> DEFINE tags == job.tags
           info == Layout(tags)
           regions == UNION {Elements(tags[i].entries) : i \in OfType(TAG_MMAP)}
           tops == {r.addr + r.len : r \in {e \in regions : e.type = 1}} \ {0}
           uppers == {tags[i].mem_upper : i \in OfType(TAG_BASIC_MEMINFO)}
           mm == mb2_find_tag(info, TAG_MMAP)
           bi == mb2_find_tag(info, TAG_BASIC_MEMINFO)
           fb == mb2_find_tag(info, TAG_FRAMEBUFFER)
<1>3. tags = j.tags /\ tags \in BootTags  BY <1>1, <1>2 DEF BootJobs
<1>4. /\ Sequence(tags) /\ TagsFit(tags)
      /\ \A i \in DOMAIN tags : tags[i].type = TAG_MMAP => Sequence(tags[i].entries)
  BY <1>3, LibkAssumption
<1>5. answer = [top |-> mb2_mem_top_bytes(info), fb |-> mb2_get_framebuffer(info, "before")]
  BY <1>1, <1>3 DEF Answer
<1>6. answer.top = mb2_mem_top_bytes(info) /\ answer.fb = mb2_get_framebuffer(info, "before")
  BY <1>5
<1>o. ASSUME NEW type PROVE OfType(type) = {i \in DOMAIN tags : tags[i].type = type}
  BY DEF OfType
<1> HIDE DEF tags, info
<1>7. PICK all, start, n : LaidOut(info, tags, all, start, n)  BY <1>4, LayoutIs DEF info
<1>8. TAG_MMAP # TAG_END /\ TAG_BASIC_MEMINFO # TAG_END /\ TAG_FRAMEBUFFER # TAG_END
  BY DEF TAG_MMAP, TAG_END, TAG_BASIC_MEMINFO, TAG_FRAMEBUFFER
<1>9. ASSUME NEW type, type # TAG_END
      PROVE  LET o == mb2_find_tag(info, type)
             IN  \/ o = NoTag /\ OfType(type) = {}
                 \/ o # NoTag /\ \E i \in OfType(type) : info.tag[o] = tags[i]
  <2>1. LET o == mb2_find_tag(info, type)
        IN  \/ o = NoTag /\ \A i \in DOMAIN tags : tags[i].type # type
            \/ /\ o # NoTag
               /\ \E i \in DOMAIN tags : tags[i].type = type /\ info.tag[o] = tags[i]
    BY <1>4, <1>7, <1>9, FindTag
  <2> QED BY <1>o, <2>1
<1>10. \/ mm = NoTag /\ OfType(TAG_MMAP) = {}
       \/ mm # NoTag /\ \E i \in OfType(TAG_MMAP) : info.tag[mm] = tags[i]
  BY <1>8, <1>9
<1>11. \/ bi = NoTag /\ OfType(TAG_BASIC_MEMINFO) = {}
       \/ bi # NoTag /\ \E i \in OfType(TAG_BASIC_MEMINFO) : info.tag[bi] = tags[i]
  BY <1>8, <1>9
<1>12. \/ fb = NoTag /\ OfType(TAG_FRAMEBUFFER) = {}
       \/ fb # NoTag /\ \E i \in OfType(TAG_FRAMEBUFFER) : info.tag[fb] = tags[i]
  BY <1>8, <1>9
<1>13. IF OfType(TAG_FRAMEBUFFER) = {} THEN answer.fb = [ret |-> 0, params |-> "before"]
       ELSE \E i \in OfType(TAG_FRAMEBUFFER) :
              answer.fb = [ret |-> 1, params |-> tags[i].params]
  <2>1. answer.fb = IF fb = NoTag THEN [ret |-> 0, params |-> "before"]
                                  ELSE [ret |-> 1, params |-> info.tag[fb].params]
    BY <1>6 DEF mb2_get_framebuffer
  <2> HIDE DEF fb
  <2>2. CASE fb = NoTag /\ OfType(TAG_FRAMEBUFFER) = {}  BY <2>1, <2>2
  <2>3. CASE fb # NoTag /\ \E i \in OfType(TAG_FRAMEBUFFER) : info.tag[fb] = tags[i]
    <3>1. PICK i \in OfType(TAG_FRAMEBUFFER) : info.tag[fb] = tags[i]  BY <2>3
    <3>2. answer.fb = [ret |-> 1, params |-> tags[i].params]  BY <2>1, <2>3, <3>1
    <3> QED BY <3>1, <3>2
  <2> QED BY <1>12, <2>2, <2>3
<1> DEFINE top == mmap_top(info.tag[mm])
<1>14. answer.top = IF mm # NoTag /\ top # 0 THEN top
                    ELSE IF bi # NoTag THEN (MiB + (info.tag[bi].mem_upper * KiB)) % MB_WORD
                    ELSE MiB
  BY <1>6 DEF mb2_mem_top_bytes
\* The memory map.
<1>15. \/ mm = NoTag /\ tops = {}
       \/ /\ mm # NoTag /\ (top = 0 <=> tops = {})
          /\ tops # {} => \/ top \in tops /\ \A t \in tops : t <= top
                          \/ top = MB_WORD - 1 /\ \E t \in tops : t >= MB_WORD
  <2>1. CASE mm = NoTag /\ OfType(TAG_MMAP) = {}
    <3>1. regions = {}  BY <2>1
    <3>2. tops = {}  BY <3>1
    <3> QED BY <2>1, <3>2
  <2>2. CASE mm # NoTag /\ \E i \in OfType(TAG_MMAP) : info.tag[mm] = tags[i]
    <3>1. PICK i \in OfType(TAG_MMAP) : info.tag[mm] = tags[i]  BY <2>2
    <3>2. i \in DOMAIN tags /\ tags[i].type = TAG_MMAP  BY <1>o
    <3> DEFINE g == tags[i]
    <3>3. /\ Sequence(g.entries) /\ g.entry_size \in Nat
          /\ g.size = MMAP_HEADER + Len(g.entries) * g.entry_size
          /\ \A a \in DOMAIN g.entries :
               LET e == g.entries[a] IN
                 {e.addr, e.len} \subseteq Nat /\ e.addr + e.len < MB_WORD * MB_WORD
      BY <1>4, <3>2 DEF TagsFit
    <3>4. MB_WORD > 1
      <4>1. g.size \in 8..(MB_WORD - 8)  BY <1>4, <3>2 DEF TagsFit
      <4>2. MB_WORD \in Nat  BY MultibootAssumption
      <4> HIDE DEF g
      <4> QED BY <4>1, <4>2
    <3>5. OfType(TAG_MMAP) = {i}
      <4>1. \A a \in OfType(TAG_MMAP) : a = i
        <5> TAKE a \in OfType(TAG_MMAP)
        <5>1. a \in DOMAIN tags /\ tags[a].type = tags[i].type  BY <1>o, <3>2
        <5> QED BY <1>4, <3>2, <5>1 DEF TagsFit
      <4> QED BY <4>1
    <3>6. regions = Elements(g.entries)
      <4>1. regions = UNION {Elements(tags[a].entries) : a \in {i}}  BY <3>5
      <4> QED BY <4>1
    <3>7. tops = Tops(Elements(g.entries)) \ {0}
      <4> HIDE DEF regions, g
      <4> QED BY <3>6 DEF Tops
    <3>8. top = mmap_top(g)  BY <3>1
    <3> HIDE DEF g, tops, top
    <3>9. LET tt == Tops(Elements(g.entries)) \ {0}
              hi == mmap_top(g)
          IN  /\ (hi = 0 <=> tt = {})
              /\ tt # {} => \/ hi \in tt /\ \A t \in tt : t <= hi
                            \/ hi = MB_WORD - 1 /\ \E t \in tt : t >= MB_WORD
      BY <3>3, <3>4, MapTop
    <3> QED BY <2>2, <3>7, <3>8, <3>9
  <2> QED BY <1>10, <2>1, <2>2
\* Without one.
<1>16. ASSUME bi # NoTag
       PROVE  \E u \in uppers : LET x == (MiB + (info.tag[bi].mem_upper * KiB)) % MB_WORD
                                IN  MiB + u * KiB \in {x, x + MB_WORD}
  <2>1. PICK i \in OfType(TAG_BASIC_MEMINFO) : info.tag[bi] = tags[i]  BY <1>11, <1>16
  <2>2. i \in DOMAIN tags /\ tags[i].type = TAG_BASIC_MEMINFO  BY <1>o
  <2> DEFINE u == tags[i].mem_upper
             y == MiB + u * KiB
  <2>3. u \in Nat /\ y < 2 * MB_WORD  BY <1>4, <2>2 DEF TagsFit
  <2>4. MB_WORD \in Nat /\ MiB \in Nat /\ KiB \in Nat  BY MultibootAssumption
  <2>5. u \in uppers  BY <2>1
  <2>6. info.tag[bi].mem_upper = u  BY <2>1
  <2>7. y \in Nat
    <3> HIDE DEF u
    <3> QED BY <2>3, <2>4
  <2>8. y \in {y % MB_WORD, (y % MB_WORD) + MB_WORD}
    <3> HIDE DEF y
    <3>1. CASE y < MB_WORD
      <4>1. y % MB_WORD = y  BY <2>4, <2>7, <3>1, InWord
      <4> QED BY <4>1
    <3>2. CASE ~(y < MB_WORD)
      <4> DEFINE z == y - MB_WORD
      <4>1. z \in Nat /\ z < MB_WORD /\ y = MB_WORD + z  BY <2>3, <2>4, <2>7, <3>2
      <4>2. y % MB_WORD = z
        <5> HIDE DEF z
        <5>1. MB_WORD > 0 /\ z \in 0..(MB_WORD - 1) /\ y = 1 * MB_WORD + z  BY <2>4, <4>1
        <5> QED BY <2>4, <5>1
      <4> HIDE DEF z
      <4> QED BY <4>1, <4>2, <2>4
    <3> QED BY <3>1, <3>2
  <2> HIDE DEF u, uppers, bi
  <2> QED BY <2>5, <2>6, <2>8 DEF y
<1>17. bi = NoTag => uppers = {}  BY <1>11
<1>18. IF tops # {}
         THEN \/ answer.top \in tops /\ \A t \in tops : t <= answer.top
              \/ answer.top = MB_WORD - 1 /\ \E t \in tops : t >= MB_WORD
         ELSE \/ uppers = {} /\ answer.top = MiB
              \/ \E u \in uppers : MiB + u * KiB \in {answer.top, answer.top + MB_WORD}
  <2> HIDE DEF tops, uppers, top, bi, mm
  <2>1. CASE tops # {}  BY <1>14, <1>15, <2>1
  <2>2. CASE tops = {}
    <3>1. answer.top = IF bi # NoTag THEN (MiB + (info.tag[bi].mem_upper * KiB)) % MB_WORD ELSE MiB
      BY <1>14, <1>15, <2>2
    <3>2. CASE bi = NoTag  BY <1>17, <2>2, <3>1, <3>2
    <3>3. CASE bi # NoTag
      <4>1. answer.top = (MiB + (info.tag[bi].mem_upper * KiB)) % MB_WORD  BY <3>1, <3>3
      <4> QED BY <1>16, <2>2, <3>3, <4>1
    <3> QED BY <3>2, <3>3
  <2> QED BY <2>1, <2>2
<1> QED BY <1>13, <1>18 DEF BootInfoRead, tags

\* The boot information is read as it was left, whatever tags of whatever
\* sizes stand before the one asked for.
THEOREM BootInfoFound == LibkSpec => []BootInfoRead
BY JobInvariance, BootAgrees, PTL

(***************************************************************************)
(* strtoul.                                                                *)
(***************************************************************************)
LEMMA DigitsAreChars == \A d \in 1..36 : LOWER[d] # "" /\ UPPER[d] # ""
<1>1. /\ LOWER[1] # "" /\ LOWER[2] # "" /\ LOWER[3] # "" /\ LOWER[4] # ""
      /\ LOWER[5] # "" /\ LOWER[6] # "" /\ LOWER[7] # "" /\ LOWER[8] # ""
      /\ LOWER[9] # "" /\ LOWER[10] # "" /\ LOWER[11] # "" /\ LOWER[12] # ""
      /\ LOWER[13] # "" /\ LOWER[14] # "" /\ LOWER[15] # "" /\ LOWER[16] # ""
      /\ LOWER[17] # "" /\ LOWER[18] # "" /\ LOWER[19] # "" /\ LOWER[20] # ""
      /\ LOWER[21] # "" /\ LOWER[22] # "" /\ LOWER[23] # "" /\ LOWER[24] # ""
      /\ LOWER[25] # "" /\ LOWER[26] # "" /\ LOWER[27] # "" /\ LOWER[28] # ""
      /\ LOWER[29] # "" /\ LOWER[30] # "" /\ LOWER[31] # "" /\ LOWER[32] # ""
      /\ LOWER[33] # "" /\ LOWER[34] # "" /\ LOWER[35] # "" /\ LOWER[36] # ""
  BY DEF LOWER
<1>2. /\ UPPER[1] # "" /\ UPPER[2] # "" /\ UPPER[3] # "" /\ UPPER[4] # ""
      /\ UPPER[5] # "" /\ UPPER[6] # "" /\ UPPER[7] # "" /\ UPPER[8] # ""
      /\ UPPER[9] # "" /\ UPPER[10] # "" /\ UPPER[11] # "" /\ UPPER[12] # ""
      /\ UPPER[13] # "" /\ UPPER[14] # "" /\ UPPER[15] # "" /\ UPPER[16] # ""
      /\ UPPER[17] # "" /\ UPPER[18] # "" /\ UPPER[19] # "" /\ UPPER[20] # ""
      /\ UPPER[21] # "" /\ UPPER[22] # "" /\ UPPER[23] # "" /\ UPPER[24] # ""
      /\ UPPER[25] # "" /\ UPPER[26] # "" /\ UPPER[27] # "" /\ UPPER[28] # ""
      /\ UPPER[29] # "" /\ UPPER[30] # "" /\ UPPER[31] # "" /\ UPPER[32] # ""
      /\ UPPER[33] # "" /\ UPPER[34] # "" /\ UPPER[35] # "" /\ UPPER[36] # ""
  BY DEF UPPER
<1>3. SUFFICES ASSUME NEW d \in 1..36 PROVE LOWER[d] # "" /\ UPPER[d] # ""
  OBVIOUS
<1>4. \/ d = 1 \/ d = 2 \/ d = 3 \/ d = 4 \/ d = 5 \/ d = 6
      \/ d = 7 \/ d = 8 \/ d = 9 \/ d = 10 \/ d = 11 \/ d = 12
      \/ d = 13 \/ d = 14 \/ d = 15 \/ d = 16 \/ d = 17 \/ d = 18
      \/ d = 19 \/ d = 20 \/ d = 21 \/ d = 22 \/ d = 23 \/ d = 24
      \/ d = 25 \/ d = 26 \/ d = 27 \/ d = 28 \/ d = 29 \/ d = 30
      \/ d = 31 \/ d = 32 \/ d = 33 \/ d = 34 \/ d = 35 \/ d = 36
  OBVIOUS
<1>5. LOWER[d] # ""
  <2> HIDE DEF LOWER
  <2> QED BY ONLY <1>1, <1>4, ZenonT(60)
<1>6. UPPER[d] # ""
  <2> HIDE DEF UPPER
  <2> QED BY ONLY <1>2, <1>4, ZenonT(60)
<1> QED BY <1>5, <1>6

LEMMA DigitIs ==
  ASSUME NEW c
  PROVE  /\ Digit(c) \in 0..36
         /\ \A r \in 2..36 : /\ digit_val(c) \in 0..(r - 1) <=> Digit(c) < r
                             /\ Digit(c) < r => digit_val(c) = Digit(c)
<1> DEFINE D == {d \in 0..35 : c = LOWER[d + 1] \/ c = UPPER[d + 1]}
           S == {d \in 0..35 : c \in {LOWER[d + 1], UPPER[d + 1]}}
<1>1. S = D  OBVIOUS
<1>2. Digit(c) = IF D = {} THEN 36 ELSE CHOOSE d \in D : TRUE  BY DEF Digit
<1>3. digit_val(c) = IF S = {} THEN -1 ELSE CHOOSE d \in S : TRUE  BY DEF digit_val
<1>4. \A d \in D : d \in 0..35  OBVIOUS
<1> HIDE DEF D, S
<1>5. CASE D = {}
  <2>1. Digit(c) = 36 /\ digit_val(c) = -1  BY <1>1, <1>2, <1>3, <1>5
  <2> QED BY <2>1
<1>6. CASE D # {}
  <2> DEFINE d == CHOOSE d \in D : TRUE
  <2>1. d \in D  BY <1>6
  <2>2. Digit(c) = d /\ digit_val(c) = d  BY <1>1, <1>2, <1>3, <1>6
  <2> HIDE DEF d
  <2>3. d \in 0..35  BY <1>4, <2>1
  <2> QED BY <2>2, <2>3
<1> QED BY <1>5, <1>6

LEMMA NoDigit == digit_val("") = -1
<1> DEFINE S == {d \in 0..35 : "" \in {LOWER[d + 1], UPPER[d + 1]}}
<1>1. \A d \in 0..35 : d + 1 \in 1..36  OBVIOUS
<1>2. S = {}  BY <1>1, DigitsAreChars
<1> QED BY <1>2 DEF digit_val

\* How far a run of the places in Q goes.
Run(l, Q, n) == n \in 0..l /\ (\A i \in 1..n : i \in Q) /\ (n < l => n + 1 \notin Q)

LEMMA RunUnique ==
  ASSUME NEW l \in Nat, NEW Q, NEW n, NEW m, Run(l, Q, n), Run(l, Q, m)
  PROVE  n = m
<1>1. n \in Nat /\ m \in Nat /\ n <= l /\ m <= l  BY DEF Run
<1>2. (\A i \in 1..n : i \in Q) /\ (n < l => n + 1 \notin Q)  BY DEF Run
<1>3. (\A i \in 1..m : i \in Q) /\ (m < l => m + 1 \notin Q)  BY DEF Run
<1>4. CASE n < m
  <2>1. n < l /\ n + 1 \in 1..m  BY <1>1, <1>4
  <2> QED BY <1>2, <1>3, <2>1
<1>5. CASE m < n
  <2>1. m < l /\ m + 1 \in 1..n  BY <1>1, <1>5
  <2> QED BY <1>2, <1>3, <2>1
<1> QED BY <1>1, <1>4, <1>5

\* A loop over the text from place a up to the first place of P.
LEMMA TextLoop ==
  ASSUME NEW l \in Nat, NEW P, P \subseteq Nat, l + 1 \in P,
         NEW f, \A i \in Nat : f[i] = IF i \in P THEN i ELSE f[i + 1],
         NEW a \in 1..(l + 1)
  PROVE  f[a] \in a..(l + 1) /\ f[a] \in P /\ \A j \in a..(f[a] - 1) : j \notin P
<1>1. a \in Nat /\ a <= l + 1  OBVIOUS
<1>2. f[a] \in P /\ f[a] \in Nat /\ a <= f[a] /\ f[a] <= l + 1
      /\ \A j \in a..(f[a] - 1) : j \notin P
  BY <1>1, UpFinds
<1> QED BY <1>2

Skips(f, s) == f = [i \in Nat |-> IF is_space(at(s, i)) THEN f[i + 1] ELSE i]

LEMMA SkipIs ==
  ASSUME NEW s \in Seq(STRING), NEW f, Skips(f, s)
  PROVE  Blanks(s) \in 0..Len(s) /\ f[1] = Blanks(s) + 1
<1> DEFINE l == Len(s)
           P == {i \in Nat : ~is_space(at(s, i))}
           Q == {i \in 1..l : s[i] \in White}
<1>1. l \in Nat /\ DOMAIN s = 1..l  OBVIOUS
<1>2. \A i \in Nat : f[i] = IF i \in P THEN i ELSE f[i + 1]  BY DEF Skips
<1> HIDE DEF l
<1>3. l + 1 \in P
  <2>1. ~(l + 1 <= l) /\ l + 1 \in Nat  BY <1>1
  <2>2. at(s, l + 1) = ""  BY <2>1 DEF at, l
  <2>3. ~is_space("")  BY DEF is_space
  <2> QED BY <2>1, <2>2, <2>3
<1>4. P \subseteq Nat /\ 1 \in 1..(l + 1)  BY <1>1
<1>5. ASSUME NEW i \in 1..l PROVE i \in Q <=> i \notin P
  <2>1. i \in Nat /\ i <= l  BY <1>1
  <2>2. at(s, i) = s[i]  BY <2>1 DEF at, l
  <2>3. is_space(s[i]) <=> s[i] \in White  BY DEF is_space, White
  <2> QED BY <2>1, <2>2, <2>3
<1>6. Blanks(s) = CHOOSE n \in 0..l : /\ \A i \in 1..n : s[i] \in White
                                      /\ n < l => s[n + 1] \notin White
  BY DEF Blanks, l
<1>7. ASSUME NEW n \in 0..l
      PROVE  Run(l, Q, n) <=> /\ \A i \in 1..n : s[i] \in White
                              /\ n < l => s[n + 1] \notin White
  <2>1. \A i \in 1..n : i \in 1..l  BY <1>1
  <2>2. n < l => n + 1 \in 1..l  BY <1>1
  <2> HIDE DEF l
  <2> QED BY <2>1, <2>2 DEF Run
<1> HIDE DEF l, P, Q
<1> DEFINE x == f[1]
           m == x - 1
<1>8. x \in 1..(l + 1) /\ x \in P /\ \A j \in 1..(x - 1) : j \notin P
  BY <1>1, <1>2, <1>3, <1>4, TextLoop
<1> HIDE DEF x
<1>9. m \in 0..l /\ m + 1 = x  BY <1>1, <1>8
<1>10. Run(l, Q, m)
  <2>1. ASSUME NEW i \in 1..m PROVE i \in Q
    <3>1. i \in 1..l /\ i \in 1..(x - 1)  BY <1>1, <1>9
    <3> QED BY <1>5, <1>8, <3>1
  <2>2. m < l => m + 1 \notin Q
    <3>1. m < l => x \in 1..l  BY <1>1, <1>8, <1>9
    <3> QED BY <1>5, <1>8, <1>9, <3>1
  <2> QED BY <1>9, <2>1, <2>2 DEF Run
<1> HIDE DEF m
<1>11. \A n \in 0..l : Run(l, Q, n) => n = m  BY <1>1, <1>10, RunUnique
<1>12. (CHOOSE n \in 0..l : /\ \A i \in 1..n : s[i] \in White
                            /\ n < l => s[n + 1] \notin White) = m
  <2> DEFINE R(n) == /\ \A i \in 1..n : s[i] \in White
                     /\ n < l => s[n + 1] \notin White
  <2>1. \A n \in 0..l : R(n) <=> Run(l, Q, n)  BY <1>7
  <2> HIDE DEF R
  <2>2. (CHOOSE n \in 0..l : R(n)) = m  BY <1>9, <1>10, <1>11, <2>1
  <2> QED BY <2>2 DEF R
<1>13. Blanks(s) = m  BY <1>6, <1>12
<1> QED BY <1>9, <1>13 DEF x, l

\* A function whose value at i is made from that at i - 1.
Recurs(f, n, b, c, h) == f = [i \in 0..n |-> IF i <= b THEN c ELSE h[i][f[i - 1]]]

LEMMA StepsExist ==
  ASSUME NEW n \in Nat, NEW b \in Nat, NEW R, NEW c \in R, NEW h,
         \A i \in 1..n : \A x \in R : h[i][x] \in R
  PROVE  \E f : Recurs(f, n, b, c, h) /\ \A i \in 0..n : f[i] \in R
<1> DEFINE Next_(f, i) == IF i <= b THEN c ELSE h[i][f[i - 1]]
           Has(k) == \E f : /\ f = [i \in 0..k |-> f[i]]
                            /\ \A i \in 0..k : f[i] \in R /\ f[i] = Next_(f, i)
           T == {k \in 0..n : ~Has(k)}
<1>1. T = {}
  <2>1. SUFFICES ASSUME T # {} PROVE FALSE
    OBVIOUS
  <2>2. PICK k \in T : \A l \in T : k <= l
    <3>1. T \subseteq Nat  OBVIOUS
    <3> HIDE DEF T
    <3> QED BY <2>1, <3>1, Least
  <2>3. k \in 0..n /\ ~Has(k)
    <3> HIDE DEF Has
    <3> QED BY <2>2
  <2>4. k # 0
    <3> SUFFICES ASSUME k = 0 PROVE Has(k)
      BY <2>3
    <3> DEFINE f == [i \in 0..k |-> c]
    <3>1. \A i \in 0..k : f[i] = c /\ i <= b  OBVIOUS
    <3>2. f = [i \in 0..k |-> f[i]]  OBVIOUS
    <3> HIDE DEF f
    <3>3. \A i \in 0..k : f[i] \in R /\ f[i] = Next_(f, i)  BY <3>1
    <3> QED BY <3>2, <3>3
  <2>5. k - 1 \in 0..n /\ k \in 1..n /\ k \in Nat /\ ~(k <= k - 1)  BY <2>3, <2>4
  <2>6. Has(k - 1)
    <3>1. k - 1 \notin T  BY <2>2, <2>5
    <3> HIDE DEF Has
    <3> QED BY <2>5, <3>1
  <2>7. PICK g : \A i \in 0..(k - 1) : g[i] \in R /\ g[i] = Next_(g, i)
    <3> HIDE DEF Next_
    <3> QED BY <2>6
  <2> DEFINE f == [i \in 0..k |-> IF i = k THEN Next_(g, k) ELSE g[i]]
  <2>8. f[k] = Next_(g, k) /\ \A i \in 0..(k - 1) : f[i] = g[i]
    <3> HIDE DEF Next_
    <3> QED BY <2>5
  <2>9. f = [i \in 0..k |-> f[i]]
    <3> HIDE DEF Next_
    <3> QED OBVIOUS
  <2> HIDE DEF f
  <2>10. \A i \in 1..k : f[i - 1] = g[i - 1]
    <3> TAKE i \in 1..k
    <3>1. i - 1 \in 0..(k - 1)  BY <2>5
    <3> QED BY <2>8, <3>1
  <2>11. ASSUME NEW i \in 0..k PROVE f[i] \in R /\ f[i] = Next_(f, i)
    <3>1. Next_(f, i) = Next_(g, i)
      <4>1. i = 0 => i <= b  OBVIOUS
      <4>2. i # 0 => i \in 1..k  BY <2>5
      <4> QED BY <2>10, <4>1, <4>2
    <3>2. CASE i = k
      <4>1. f[i] = Next_(g, i)
        <5> HIDE DEF Next_
        <5> QED BY <2>8, <3>2
      <4>2. k - 1 \in 0..(k - 1)  BY <2>5
      <4>3. g[k - 1] \in R
        <5> HIDE DEF Next_
        <5> QED BY <2>7, <4>2
      <4>4. h[k][g[k - 1]] \in R  BY <2>5, <4>3
      <4>5. Next_(g, i) \in R  BY <3>2, <4>4
      <4> HIDE DEF Next_
      <4> QED BY <3>1, <4>1, <4>5
    <3>3. CASE i # k
      <4>1. i \in 0..(k - 1)  BY <2>5, <3>3
      <4> HIDE DEF Next_
      <4> QED BY <2>7, <2>8, <3>1, <4>1
    <3> QED BY <3>2, <3>3
  <2>12. Has(k)
    <3> HIDE DEF Next_
    <3> QED BY <2>9, <2>11
  <2> HIDE DEF Has
  <2> QED BY <2>3, <2>12
<1>2. Has(n)
  <2>1. n \in 0..n  OBVIOUS
  <2> HIDE DEF Has
  <2> QED BY <1>1, <2>1
<1>3. PICK f : f = [i \in 0..n |-> f[i]] /\ \A i \in 0..n : f[i] \in R /\ f[i] = Next_(f, i)
  <2> HIDE DEF Next_
  <2> QED BY <1>2
<1>4. [i \in 0..n |-> f[i]] = [i \in 0..n |-> Next_(f, i)]
  <2> HIDE DEF Next_
  <2> QED BY <1>3
<1>5. f = [i \in 0..n |-> Next_(f, i)]
  <2> HIDE DEF Next_
  <2> QED BY <1>3, <1>4
<1>6. Recurs(f, n, b, c, h)  BY <1>5 DEF Recurs
<1>7. \A i \in 0..n : f[i] \in R
  <2> HIDE DEF Next_
  <2> QED BY <1>3
<1> QED BY <1>6, <1>7

ReadSoFar == [acc : Int, any : BOOLEAN, overflow : BOOLEAN]
NothingRead == [acc |-> 0, any |-> FALSE, overflow |-> FALSE]

LEMMA AddTypes ==
  ASSUME NEW p \in ReadSoFar, NEW base \in Int, NEW d \in Int
  PROVE  add(p, base, d) \in ReadSoFar
<1> DEFINE x == p.acc * base + d
<1>1. x \in Int  BY DEF ReadSoFar
<1> HIDE DEF x
<1>2. [p EXCEPT !.overflow = TRUE] \in ReadSoFar  BY DEF ReadSoFar
<1>3. [p EXCEPT !.acc = x, !.any = TRUE] \in ReadSoFar  BY <1>1 DEF ReadSoFar
<1>4. [p EXCEPT !.acc = @ * base + d, !.any = TRUE] = [p EXCEPT !.acc = x, !.any = TRUE]  BY DEF x
<1> QED BY <1>2, <1>3, <1>4 DEF add

\* A digit does not fit exactly if the number with it is too great.
LEMMA FitsIs ==
  ASSUME NEW r \in 2..36, NEW a \in Nat, NEW d \in 0..(r - 1)
  PROVE  (a > ULONG_MAX \div r \/ (a = ULONG_MAX \div r /\ d > ULONG_MAX % r))
           <=> a * r + d > ULONG_MAX
<1> DEFINE q == ULONG_MAX \div r
           m == ULONG_MAX % r
<1>1. ULONG_MAX \in Nat  BY StrtoulAssumption
<1>2. q \in Nat /\ m \in 0..(r - 1) /\ ULONG_MAX = q * r + m  BY <1>1
<1> HIDE DEF q, m
<1>3. CASE a > q
  <2> DEFINE e == a - q - 1
             y == e * r
             z == q * r
  <2>1. e \in Nat /\ a = q + e + 1  BY <1>2, <1>3
  <2> HIDE DEF e
  <2>2. y \in Nat /\ z \in Nat  BY <1>2, <2>1
  <2>3. a * r = z + y + r  BY <1>2, <2>1
  <2> HIDE DEF y, z
  <2>4. ULONG_MAX = z + m  BY <1>2 DEF z
  <2>5. a * r + d > ULONG_MAX  BY <1>2, <2>2, <2>3, <2>4
  <2> QED BY <1>3, <2>5 DEF q, m
<1>4. CASE a = q
  <2> DEFINE z == q * r
  <2>1. z \in Nat  BY <1>2
  <2>2. a * r = z  BY <1>4
  <2>3. ULONG_MAX = z + m  BY <1>2
  <2> HIDE DEF z
  <2>4. a * r + d > ULONG_MAX <=> d > m  BY <1>2, <2>1, <2>2, <2>3
  <2>5. ~(a > q)  BY <1>2, <1>4
  <2> QED BY <1>4, <2>4, <2>5 DEF q, m
<1>5. CASE a < q
  <2> DEFINE e == q - a - 1
             y == e * r
             z == a * r
  <2>1. e \in Nat /\ q = a + e + 1  BY <1>2, <1>5
  <2> HIDE DEF e
  <2>2. y \in Nat /\ z \in Nat  BY <1>2, <2>1
  <2>3. q * r = z + y + r  BY <1>2, <2>1
  <2> HIDE DEF y, z
  <2>4. ~(z + d > ULONG_MAX)  BY <1>2, <2>2, <2>3
  <2>5. ~(a > q) /\ a # q  BY <1>2, <1>5
  <2> QED BY <2>4, <2>5 DEF q, m, z
<1> QED BY <1>2, <1>3, <1>4, <1>5

\* What has been read stands for the number v.
StandsFor(p, v) == /\ p \in ReadSoFar
                   /\ p.overflow <=> v > ULONG_MAX
                   /\ ~p.overflow => p.acc = v

LEMMA AddIs ==
  ASSUME NEW p, NEW v \in Nat, StandsFor(p, v), NEW r \in 2..36, NEW d \in 0..(r - 1)
  PROVE  /\ v * r + d \in Nat /\ StandsFor(add(p, r, d), v * r + d)
         /\ p.any \/ v = 0 => add(p, r, d).any
<1>1. ULONG_MAX \in Nat /\ ULONG_MAX >= 36  BY StrtoulAssumption
<1>2. p \in ReadSoFar /\ (p.overflow <=> v > ULONG_MAX) /\ (~p.overflow => p.acc = v)
  BY DEF StandsFor
<1> DEFINE full == p.acc > ULONG_MAX \div r \/ (p.acc = ULONG_MAX \div r /\ d > ULONG_MAX % r)
           o == [p EXCEPT !.overflow = TRUE]
           x == p.acc * r + d
           t == [p EXCEPT !.acc = x, !.any = TRUE]
           u == v * r + d
           q == add(p, r, d)
<1>3. q = IF full THEN o ELSE t  BY DEF add
<1>4. q \in ReadSoFar
  <2>1. p \in ReadSoFar /\ r \in Int /\ d \in Int  BY <1>2
  <2> QED BY ONLY <2>1, AddTypes
<1>5. o.overflow = TRUE /\ o.any = p.any /\ t.overflow = p.overflow /\ t.acc = x /\ t.any = TRUE
  BY <1>2 DEF ReadSoFar
<1>6. u \in Nat /\ (v > ULONG_MAX => u > ULONG_MAX)
  <2> DEFINE y == v * (r - 1)
  <2>1. y \in Nat /\ r \in Nat  OBVIOUS
  <2>2. v * r = v + y  OBVIOUS
  <2> HIDE DEF y
  <2> QED BY <1>1, <2>1, <2>2
<1>7. ~p.overflow => p.acc = v /\ x = u /\ (full <=> u > ULONG_MAX)
  <2> SUFFICES ASSUME ~p.overflow PROVE p.acc = v /\ x = u /\ (full <=> u > ULONG_MAX)
    OBVIOUS
  <2>1. p.acc = v  BY <1>2
  <2>2. full <=> u > ULONG_MAX  BY <2>1, FitsIs
  <2> QED BY <2>1, <2>2
<1> HIDE DEF full, o, x, t, q
<1>8. v = 0 => u <= ULONG_MAX
  <2>1. v = 0 => v * r = 0  OBVIOUS
  <2> QED BY <1>1, <2>1
<1>10. v > ULONG_MAX <=> p.overflow  BY <1>2
<1>11. v = 0 => ~p.overflow  BY <1>1, <1>10
<1> HIDE DEF u
<1>12. u > ULONG_MAX <=> ~(u <= ULONG_MAX)  BY <1>1, <1>6
<1>13. q.overflow <=> u > ULONG_MAX
  <2>1. CASE full
    <3>1. q.overflow = TRUE  BY <1>3, <1>5, <2>1
    <3>2. u > ULONG_MAX  BY <1>6, <1>7, <1>10, <2>1
    <3> QED BY <3>1, <3>2
  <2>2. CASE ~full
    <3>1. q.overflow = p.overflow  BY <1>3, <1>5, <2>2
    <3>2. p.overflow \/ ~p.overflow  OBVIOUS
    <3> QED BY <1>6, <1>7, <1>10, <2>2, <3>1, Zenon
  <2> QED BY <2>1, <2>2
<1>14. ~q.overflow => q.acc = u
  <2>1. CASE full
    <3>1. q.overflow = TRUE  BY <1>3, <1>5, <2>1
    <3> QED BY <3>1
  <2>2. CASE ~full
    <3>1. q.overflow = p.overflow /\ q.acc = x  BY <1>3, <1>5, <2>2
    <3> QED BY <1>7, <3>1
  <2> QED BY <2>1, <2>2
<1>15. p.any \/ v = 0 => q.any
  <2>1. CASE full
    <3>1. q.any = p.any  BY <1>3, <1>5, <2>1
    <3>2. v # 0  BY <1>7, <1>8, <1>11, <1>12, <2>1
    <3> QED BY <3>1, <3>2
  <2>2. CASE ~full
    <3>1. q.any = TRUE  BY <1>3, <1>5, <2>2
    <3> QED BY <3>1
  <2> QED BY <2>1, <2>2
<1>16. StandsFor(q, u)  BY <1>4, <1>13, <1>14 DEF StandsFor
<1> QED BY <1>6, <1>15, <1>16 DEF q, u

\* The values and the records of the first digits e of a numeral.
Weighs(f, n, r, e) == \A i \in 0..n : f[i] = IF i = 0 THEN 0 ELSE f[i - 1] * r + e[i]
Adds(g, n, r, e)   == \A i \in 0..n : g[i] = IF i = 0 THEN NothingRead ELSE add(g[i - 1], r, e[i])

LEMMA ReadsIs ==
  ASSUME NEW r \in 2..36, NEW n \in Nat, NEW e, \A i \in 1..n : e[i] \in 0..(r - 1),
         NEW f, Weighs(f, n, r, e), NEW g, Adds(g, n, r, e)
  PROVE  f[n] \in Nat /\ StandsFor(g[n], f[n]) /\ (g[n].any <=> n > 0)
<1> DEFINE Good_(i) == f[i] \in Nat /\ StandsFor(g[i], f[i]) /\ (g[i].any <=> i > 0)
           T == {i \in 0..n : ~Good_(i)}
<1>1. SUFFICES ASSUME T # {} PROVE FALSE
  <2> SUFFICES ASSUME T = {} PROVE Good_(n)
    OBVIOUS
  <2>1. n \in 0..n  OBVIOUS
  <2> HIDE DEF Good_
  <2> QED BY <2>1
<1>2. PICK k \in T : \A l \in T : k <= l
  <2>1. T \subseteq Nat  OBVIOUS
  <2> HIDE DEF T
  <2> QED BY <1>1, <2>1, Least
<1>3. k \in 0..n /\ ~Good_(k) /\ k \in Nat
  <2> HIDE DEF Good_
  <2> QED BY <1>2
<1>4. k # 0
  <2> SUFFICES ASSUME k = 0 PROVE Good_(0)
    BY <1>3
  <2>1. f[0] = 0 /\ g[0] = NothingRead  BY <1>3 DEF Weighs, Adds
  <2>2. /\ NothingRead \in ReadSoFar
        /\ ~NothingRead.overflow /\ ~NothingRead.any /\ NothingRead.acc = 0
    BY DEF ReadSoFar, NothingRead
  <2>3. ~(0 > ULONG_MAX)  BY StrtoulAssumption
  <2>4. StandsFor(NothingRead, 0)  BY <2>2, <2>3 DEF StandsFor
  <2>5. ~NothingRead.any /\ ~(0 > 0)  BY <2>2
  <2>6. g[0].any <=> 0 > 0  BY <2>1, <2>5, Zenon
  <2> QED BY <2>1, <2>4, <2>6
<1> DEFINE j == k - 1
<1>5. j \in 0..n /\ j \in Nat /\ k \in 1..n /\ ~(k <= j) /\ k > 0  BY <1>3, <1>4
<1>6. Good_(j)
  <2>1. j \notin T  BY <1>2, <1>5
  <2> HIDE DEF Good_
  <2> QED BY <1>5, <2>1
<1>7. e[k] \in 0..(r - 1)  BY <1>5
<1>8. f[k] = f[j] * r + e[k] /\ g[k] = add(g[j], r, e[k])  BY <1>3, <1>4 DEF Weighs, Adds
<1>9. j = 0 => f[j] = 0
  <2> HIDE DEF j
  <2> QED BY <1>5 DEF Weighs
<1>10. g[j].any \/ f[j] = 0
  <2> HIDE DEF j
  <2>1. j = 0 \/ j > 0  BY <1>5
  <2> QED BY <1>6, <1>9, <2>1
<1> HIDE DEF j
<1>11. f[k] \in Nat /\ StandsFor(g[k], f[k]) /\ g[k].any
  <2> DEFINE p == g[j]
             v == f[j]
             d == e[k]
  <2>1. v \in Nat /\ StandsFor(p, v) /\ (p.any \/ v = 0) /\ d \in 0..(r - 1)  BY <1>6, <1>7, <1>10
  <2>2. f[k] = v * r + d /\ g[k] = add(p, r, d)  BY <1>8
  <2> HIDE DEF p, v, d
  <2>3. v * r + d \in Nat /\ StandsFor(add(p, r, d), v * r + d) /\ add(p, r, d).any
    BY <2>1, AddIs
  <2> QED BY <2>2, <2>3
<1>12. Good_(k)  BY <1>5, <1>11
<1> QED BY <1>3, <1>12

\* The parts of a numeral: its sign, its prefix and its digits, by their places.
HasSign(s) == Blanks(s) < Len(s) /\ s[Blanks(s) + 1] \in {"+", "-"}
First(s) == Blanks(s) + 1 + (IF HasSign(s) THEN 1 ELSE 0)
Radix(s, base) == IF base # 0 THEN base ELSE IF Prefixed(s, First(s)) THEN 16
                  ELSE IF at(s, First(s)) = "0" THEN 8 ELSE 10
Skipped(s, base) == IF Prefixed(s, First(s)) /\ Radix(s, base) = 16 THEN 2 ELSE 0
FirstDigit(s, base) == First(s) + Skipped(s, base)
Rest(s, base) == Len(s) + 1 - FirstDigit(s, base)
DigitAt(s, base, i) == Digit(s[FirstDigit(s, base) + i - 1])
Valid(s, base) == {i \in 1..Rest(s, base) : DigitAt(s, base, i) < Radix(s, base)}
Weights(s, base, n) == [i \in 1..n |-> DigitAt(s, base, i)]

LEMMA AtIs ==
  ASSUME NEW s \in Seq(STRING)
  PROVE  \A i \in 1..Len(s) : at(s, i) = s[i]
<1> TAKE i \in 1..Len(s)
<1>1. i <= Len(s)  OBVIOUS
<1> QED BY <1>1 DEF at

LEMMA EndsInNothing ==
  ASSUME NEW s \in Seq(STRING), NEW i \in Int, i > Len(s)
  PROVE  at(s, i) = ""
<1>1. Len(s) \in Nat /\ ~(i <= Len(s))  OBVIOUS
<1> QED BY <1>1 DEF at

LEMMA PrefixedIs ==
  ASSUME NEW s \in Seq(STRING), NEW i \in 1..(Len(s) + 1)
  PROVE  Prefixed(s, i) <=> i + 1 <= Len(s) /\ s[i] = "0" /\ s[i + 1] \in {"x", "X"}
<1>1. Len(s) \in Nat /\ i \in Nat /\ i <= Len(s) + 1  OBVIOUS
<1>2. CASE i + 1 <= Len(s)
  <2>1. i \in 1..Len(s) /\ i + 1 \in 1..Len(s)  BY <1>1, <1>2
  <2>2. at(s, i) = s[i] /\ at(s, i + 1) = s[i + 1]  BY <2>1, AtIs
  <2> QED BY <1>2, <2>2 DEF Prefixed
<1>3. CASE ~(i + 1 <= Len(s))
  <2>1. i + 1 \in Int /\ i + 1 > Len(s)  BY <1>1, <1>3
  <2>2. at(s, i + 1) = ""  BY <2>1, EndsInNothing
  <2> QED BY <1>3, <2>2 DEF Prefixed
<1> QED BY <1>2, <1>3

LEMMA PlacesAre ==
  ASSUME NEW s \in Seq(STRING), NEW base \in Int
  PROVE  /\ Blanks(s) \in 0..Len(s) /\ First(s) \in 1..(Len(s) + 1)
         /\ FirstDigit(s, base) \in 1..(Len(s) + 1) /\ Rest(s, base) \in Nat
         /\ Radix(s, base) \in Int
         /\ Skipped(s, base) \in {0, 2}
         /\ \A i \in 1..Rest(s, base) : FirstDigit(s, base) + i - 1 \in 1..Len(s)
<1>0. Len(s) \in Nat  OBVIOUS
<1>1. Blanks(s) \in 0..Len(s)
  <2> DEFINE P == {i \in Nat : ~is_space(at(s, i))}
  <2>1. PICK f : f = [i \in Nat |-> IF i \in P THEN i ELSE f[i + 1]]
    <3>1. P \subseteq Nat  OBVIOUS
    <3> HIDE DEF P
    <3> QED BY <3>1, UpExists
  <2>2. [i \in Nat |-> IF i \in P THEN i ELSE f[i + 1]]
        = [i \in Nat |-> IF is_space(at(s, i)) THEN f[i + 1] ELSE i]
    OBVIOUS
  <2>3. Skips(f, s)  BY <2>1, <2>2 DEF Skips
  <2> QED BY <2>3, SkipIs
<1>2. First(s) \in 1..(Len(s) + 1)
  <2>1. HasSign(s) => Blanks(s) < Len(s)  BY DEF HasSign
  <2> QED BY <1>0, <1>1, <2>1 DEF First
<1>3. Radix(s, base) \in Int  BY DEF Radix
<1>4. Skipped(s, base) \in {0, 2}  BY DEF Skipped
<1>5. Skipped(s, base) = 2 => First(s) + 1 <= Len(s)
  <2>1. Skipped(s, base) = 2 => Prefixed(s, First(s))  BY DEF Skipped
  <2> QED BY <1>2, <2>1, PrefixedIs
<1>6. FirstDigit(s, base) \in 1..(Len(s) + 1)  BY <1>0, <1>2, <1>4, <1>5 DEF FirstDigit
<1> DEFINE b == FirstDigit(s, base)
           l == Len(s)
<1>7. Rest(s, base) = l + 1 - b  BY DEF Rest
<1>8. b \in 1..(l + 1) /\ l \in Nat  BY <1>0, <1>6
<1> HIDE DEF b, l
<1>9. Rest(s, base) \in Nat  BY <1>7, <1>8
<1>10. \A i \in 1..Rest(s, base) : b + i - 1 \in 1..l  BY <1>7, <1>8
<1> QED BY <1>1, <1>2, <1>3, <1>4, <1>6, <1>9, <1>10 DEF b, l

\* The values of the digits.
LEMMA WeightsAre ==
  ASSUME NEW s \in Seq(STRING), NEW base \in Int, Radix(s, base) \in 2..36,
         NEW n, Run(Rest(s, base), Valid(s, base), n)
  PROVE  /\ n \in Nat /\ n <= Rest(s, base)
         /\ \A i \in 1..n : Weights(s, base, n)[i] \in 0..(Radix(s, base) - 1)
<1>1. Rest(s, base) \in Nat  BY PlacesAre
<1>2. n \in 0..Rest(s, base) /\ \A i \in 1..n : i \in Valid(s, base)  BY DEF Run
<1>3. n \in Nat /\ n <= Rest(s, base)  BY <1>1, <1>2
<1>4. ASSUME NEW i \in 1..n PROVE Weights(s, base, n)[i] \in 0..(Radix(s, base) - 1)
  <2>1. DigitAt(s, base, i) < Radix(s, base)  BY <1>2 DEF Valid
  <2>2. DigitAt(s, base, i) \in 0..36  BY DigitIs DEF DigitAt
  <2>3. Weights(s, base, n)[i] = DigitAt(s, base, i)  BY DEF Weights
  <2> DEFINE d == DigitAt(s, base, i)
             r == Radix(s, base)
  <2>4. d \in 0..36 /\ r \in 2..36 /\ d < r  BY <2>1, <2>2
  <2> HIDE DEF d, r
  <2>5. d \in 0..(r - 1)  BY <2>4
  <2> QED BY <2>3, <2>5 DEF d, r
<1> QED BY <1>3, <1>4

\* The answer for n digits whose value is v.
Valued(s, base, n, v) ==
    [value |-> IF v > ULONG_MAX THEN ULONG_MAX
               ELSE IF HasSign(s) /\ s[Blanks(s) + 1] = "-" /\ v > 0 THEN ULONG_MAX + 1 - v
               ELSE v,
     end |-> FirstDigit(s, base) + n - 1]

ReadAs(x, s, base, n) ==
    /\ Radix(s, base) \notin 2..36 => x = [value |-> 0, end |-> 0]
    /\ n = 0 => x = [value |-> 0, end |-> 0]
    /\ Radix(s, base) \in 2..36 /\ n > 0 =>
         \E v : /\ Weighs(v, n, Radix(s, base), Weights(s, base, n))
                /\ x = Valued(s, base, n, v[n])

LEMMA ValueExists ==
  ASSUME NEW s \in Seq(STRING), NEW base \in Int, Radix(s, base) \in 2..36, NEW n \in Nat,
         \A i \in 1..n : Weights(s, base, n)[i] \in Nat
  PROVE  \E f : f = [i \in 0..n |-> IF i = 0 THEN 0
                                    ELSE f[i - 1] * Radix(s, base) + Weights(s, base, n)[i]]
<1> DEFINE r == Radix(s, base)
           e == Weights(s, base, n)
           h == [i \in 1..n |-> [x \in Nat |-> x * r + e[i]]]
<1>0. r \in 2..36 /\ \A i \in 1..n : e[i] \in Nat  OBVIOUS
<1> HIDE DEF r, e
<1>1. r \in Nat /\ \A i \in 1..n : e[i] \in Nat  BY <1>0
<1>2. \A i \in 1..n : \A x \in Nat : h[i][x] = x * r + e[i]  OBVIOUS
<1> HIDE DEF h
<1>3. ASSUME NEW i \in 1..n, NEW x \in Nat PROVE h[i][x] \in Nat
  <2> DEFINE y == x * r
             z == e[i]
  <2>1. y \in Nat /\ z \in Nat  BY <1>1
  <2>2. h[i][x] = y + z  BY <1>2
  <2> HIDE DEF y, z
  <2> QED BY <2>1, <2>2
<1>4. PICK f : Recurs(f, n, 0, 0, h) /\ \A i \in 0..n : f[i] \in Nat
  <2>1. 0 \in Nat /\ \A i \in 1..n : \A x \in Nat : h[i][x] \in Nat  BY <1>3
  <2> QED BY ONLY <2>1, n \in Nat, StepsExist
<1>5. f = [i \in 0..n |-> IF i <= 0 THEN 0 ELSE h[i][f[i - 1]]]  BY <1>4 DEF Recurs
<1>6. ASSUME NEW i \in 0..n
      PROVE  (IF i <= 0 THEN 0 ELSE h[i][f[i - 1]]) = IF i = 0 THEN 0 ELSE f[i - 1] * r + e[i]
  <2>1. CASE i = 0  BY <2>1
  <2>2. CASE i # 0
    <3>1. i \in 1..n /\ i - 1 \in 0..n /\ ~(i <= 0)  BY <2>2
    <3>2. f[i - 1] \in Nat  BY <1>4, <3>1
    <3>3. h[i][f[i - 1]] = f[i - 1] * r + e[i]  BY <1>2, <3>1, <3>2
    <3> QED BY <2>2, <3>1, <3>3
  <2> QED BY <2>1, <2>2
<1>7. [i \in 0..n |-> IF i <= 0 THEN 0 ELSE h[i][f[i - 1]]]
      = [i \in 0..n |-> IF i = 0 THEN 0 ELSE f[i - 1] * r + e[i]]
  BY <1>6
<1>8. f = [i \in 0..n |-> IF i = 0 THEN 0 ELSE f[i - 1] * r + e[i]]  BY <1>5, <1>7, Zenon
<1> QED BY <1>8 DEF r, e

LEMMA ReadingIs ==
  ASSUME NEW s \in Seq(STRING), NEW base \in Int,
         NEW k, Run(Rest(s, base), Valid(s, base), k)
  PROVE  ReadAs(Reading(s, base), s, base, k)
<1> DEFINE signed == Blanks(s) < Len(s) /\ s[Blanks(s) + 1] \in {"+", "-"}
           sign   == IF signed THEN 1 ELSE 0
           body   == SubSeq(s, Blanks(s) + sign + 1, Len(s))
           hex    == Len(body) > 1 /\ body[1] = "0" /\ body[2] \in {"x", "X"}
           r      == IF base # 0 THEN base ELSE IF hex THEN 16
                     ELSE IF body # <<>> /\ body[1] = "0" THEN 8 ELSE 10
           prefix == IF hex /\ r = 16 THEN 2 ELSE 0
           digits == SubSeq(body, prefix + 1, Len(body))
           n      == CHOOSE n \in 0..Len(digits) :
                       /\ \A i \in 1..n : Digit(digits[i]) < r
                       /\ n < Len(digits) => Digit(digits[n + 1]) >= r
           value[i \in 0..n] == IF i = 0 THEN 0 ELSE value[i - 1] * r + Digit(digits[i])
           x == Reading(s, base)
           l == Len(s)
           a == First(s)
           b == FirstDigit(s, base)
           m == Rest(s, base)
<1>1. x = IF r \notin 2..36 \/ n = 0 THEN [value |-> 0, end |-> 0]
          ELSE [value |-> IF value[n] > ULONG_MAX THEN ULONG_MAX
                          ELSE IF signed /\ s[Blanks(s) + 1] = "-" /\ value[n] > 0
                            THEN ULONG_MAX + 1 - value[n]
                          ELSE value[n],
                end |-> Blanks(s) + sign + prefix + n]
  BY Zenon DEF Reading
<1>2. value = CHOOSE f : f = [i \in 0..n |-> IF i = 0 THEN 0 ELSE f[i - 1] * r + Digit(digits[i])]
  OBVIOUS
<1> HIDE DEF value, x
<1>3. n = CHOOSE j \in 0..Len(digits) : /\ \A i \in 1..j : Digit(digits[i]) < r
                                        /\ j < Len(digits) => Digit(digits[j + 1]) >= r
  OBVIOUS
<1> HIDE DEF n
<1>4. /\ l \in Nat /\ Blanks(s) \in 0..l /\ a \in 1..(l + 1) /\ b \in 1..(l + 1) /\ m \in Nat
      /\ Radix(s, base) \in Int /\ \A i \in 1..m : b + i - 1 \in 1..l
  <2>1. s \in Seq(STRING) /\ base \in Int  OBVIOUS
  <2>2. Len(s) \in Nat  BY <2>1
  <2>3. /\ Blanks(s) \in 0..Len(s) /\ First(s) \in 1..(Len(s) + 1)
        /\ FirstDigit(s, base) \in 1..(Len(s) + 1) /\ Rest(s, base) \in Nat
        /\ Radix(s, base) \in Int
        /\ \A i \in 1..Rest(s, base) : FirstDigit(s, base) + i - 1 \in 1..Len(s)
    BY ONLY <2>1, PlacesAre
  <2> QED BY ONLY <2>2, <2>3 DEF l, a, b, m
<1>5. signed = HasSign(s)  BY DEF HasSign
<1>6. a = Blanks(s) + sign + 1 /\ sign \in {0, 1}
  <2>1. a = Blanks(s) + 1 + sign  BY <1>5 DEF First
  <2> HIDE DEF l, a
  <2> QED BY <1>4, <2>1
<1> HIDE DEF signed, sign
<1>7. body = SubSeq(s, a, l)  BY <1>6
<1> HIDE DEF body, a
<1>8. Len(body) = l + 1 - a /\ body \in Seq(STRING)
      /\ \A i \in 1..(l + 1 - a) : body[i] = s[a + i - 1]
  <2>1. SubSeq(s, a, l) \in Seq(STRING)  BY <1>4
  <2>2. /\ Len(SubSeq(s, a, l)) = l + 1 - a
        /\ \A i \in 1..(l + 1 - a) : SubSeq(s, a, l)[i] = s[a + i - 1]
    <3>1. a <= l + 1 /\ a \in Int /\ l \in Int /\ (a <= l => a >= 1 /\ l <= Len(s))  BY <1>4
    <3> QED BY <1>4, <3>1
  <2> QED BY <1>7, <2>1, <2>2
<1>9. hex <=> Prefixed(s, a)
  <2>1. Prefixed(s, a) <=> a + 1 <= l /\ s[a] = "0" /\ s[a + 1] \in {"x", "X"}
    BY <1>4, PrefixedIs
  <2>2. CASE a + 1 <= l
    <3>1. 1 \in 1..(l + 1 - a) /\ 2 \in 1..(l + 1 - a) /\ Len(body) > 1
          /\ a + 1 - 1 = a /\ a + 2 - 1 = a + 1
      BY <1>4, <1>8, <2>2
    <3>2. body[1] = s[a] /\ body[2] = s[a + 1]
      <4>1. body[1] = s[a + 1 - 1] /\ body[2] = s[a + 2 - 1]  BY <1>8, <3>1
      <4> QED BY <3>1, <4>1
    <3> QED BY <2>1, <2>2, <3>1, <3>2
  <2>3. CASE ~(a + 1 <= l)
    <3>1. ~(Len(body) > 1)  BY <1>4, <1>8, <2>3
    <3> QED BY <2>1, <2>3, <3>1
  <2> QED BY <2>2, <2>3
<1>10. (body # <<>> /\ body[1] = "0") <=> at(s, a) = "0"
  <2>1. body # <<>> <=> Len(body) # 0  BY <1>8
  <2>2. CASE a <= l
    <3>1. 1 \in 1..(l + 1 - a) /\ a + 1 - 1 = a /\ Len(body) # 0 /\ a \in 1..l  BY <1>4, <1>8, <2>2
    <3>2. body[1] = s[a]
      <4>1. body[1] = s[a + 1 - 1]  BY <1>8, <3>1
      <4> QED BY <3>1, <4>1
    <3>3. at(s, a) = s[a]  BY <3>1, AtIs
    <3> QED BY <2>1, <3>1, <3>2, <3>3
  <2>3. CASE ~(a <= l)
    <3>1. Len(body) = 0 /\ a \in Int /\ a > Len(s)  BY <1>4, <1>8, <2>3
    <3>2. at(s, a) = ""  BY <3>1, EndsInNothing
    <3> QED BY <2>1, <3>1, <3>2
  <2> QED BY <2>2, <2>3
<1>11. r = Radix(s, base)  BY <1>9, <1>10 DEF Radix, a
<1> HIDE DEF r
<1>12. prefix = Skipped(s, base)  BY <1>9, <1>11 DEF Skipped, a
<1> HIDE DEF hex, prefix
<1>13. b = a + prefix /\ m = l + 1 - b /\ prefix \in {0, 2}
  BY <1>12, PlacesAre DEF FirstDigit, Rest, a
<1> HIDE DEF b, m, l
<1>14. Len(digits) = m /\ \A i \in 1..m : digits[i] = s[b + i - 1]
  <2>1. Len(body) = l + 1 - a  BY <1>8
  <2>2. prefix + 1 >= 1 /\ prefix + 1 \in Int /\ Len(body) \in Int /\ prefix + 1 <= Len(body) + 1
    BY <1>4, <1>13, <2>1
  <2>3. Len(digits) = Len(body) + 1 - (prefix + 1)
        /\ \A i \in 1..(Len(body) + 1 - (prefix + 1)) : digits[i] = body[prefix + 1 + i - 1]
    BY <1>8, <2>2
  <2> HIDE DEF digits
  <2>4. Len(body) + 1 - (prefix + 1) = m  BY <1>4, <1>13, <2>1
  <2>5. ASSUME NEW i \in 1..m PROVE digits[i] = s[b + i - 1]
    <3>1. prefix + i \in 1..(l + 1 - a) /\ prefix + 1 + i - 1 = prefix + i
          /\ a + (prefix + i) - 1 = b + i - 1
      BY <1>4, <1>13
    <3>2. digits[i] = body[prefix + 1 + i - 1]  BY <2>3, <2>4
    <3>3. body[prefix + i] = s[a + (prefix + i) - 1]  BY <1>8, <3>1
    <3> QED BY <3>1, <3>2, <3>3
  <2> QED BY <2>3, <2>4, <2>5
<1> HIDE DEF digits
<1>15. \A i \in 1..m : Digit(digits[i]) = DigitAt(s, base, i)  BY <1>14 DEF DigitAt, b
<1>16. \A i \in 1..m : i \in Valid(s, base) <=> Digit(digits[i]) < r
  BY <1>11, <1>15 DEF Valid, m
<1>17. Run(m, Valid(s, base), k)  BY DEF m
<1>18. n = k
  <2> DEFINE R(j) == /\ \A i \in 1..j : Digit(digits[i]) < r
                     /\ j < Len(digits) => Digit(digits[j + 1]) >= r
  <2>1. ASSUME NEW j \in 0..m PROVE R(j) <=> Run(m, Valid(s, base), j)
    <3>1. \A i \in 1..j : i \in 1..m  BY <1>4
    <3>2. j < m => j + 1 \in 1..m  BY <1>4
    <3>3. Digit(digits[j + 1]) \in Int
      <4> DEFINE d == Digit(digits[j + 1])
      <4>1. d \in 0..36  BY DigitIs
      <4> HIDE DEF d
      <4>2. d \in Int  BY <4>1
      <4> QED BY <4>2 DEF d
    <3>4. r \in Int  BY <1>4, <1>11
    <3>5. j < m => (Digit(digits[j + 1]) >= r <=> ~(Digit(digits[j + 1]) < r))  BY <3>3, <3>4
    <3>6. R(j) <=> /\ \A i \in 1..j : Digit(digits[i]) < r
                   /\ j < m => Digit(digits[j + 1]) >= r
      BY <1>14
    <3> HIDE DEF R
    <3> QED BY <1>16, <3>1, <3>2, <3>5, <3>6 DEF Run
  <2>2. n = CHOOSE j \in 0..m : R(j)  BY <1>3, <1>14
  <2> HIDE DEF R
  <2>3. k \in 0..m  BY <1>17 DEF Run
  <2>4. \A j \in 0..m : Run(m, Valid(s, base), j) => j = k  BY <1>4, <1>17, RunUnique
  <2>5. (CHOOSE j \in 0..m : R(j)) = k  BY <1>17, <2>1, <2>3, <2>4
  <2> QED BY <2>2, <2>5
<1>19. CASE r \notin 2..36 \/ k = 0
  <2>1. x = [value |-> 0, end |-> 0]  BY <1>1, <1>18, <1>19
  <2>2. ~(r \in 2..36 /\ k > 0)  BY <1>19
  <2> QED BY <1>11, <2>1, <2>2 DEF ReadAs, x
<1>20. CASE r \in 2..36 /\ k # 0
  <2> DEFINE e == Weights(s, base, k)
  <2>1. k \in Nat /\ k <= m /\ \A i \in 1..k : e[i] \in 0..(r - 1)
    BY <1>11, <1>17, <1>20, WeightsAre DEF m
  <2>2. \A i \in 1..k : e[i] = Digit(digits[i])
    <3> TAKE i \in 1..k
    <3>1. i \in 1..m  BY <1>4, <2>1
    <3>2. e[i] = DigitAt(s, base, i)  BY DEF Weights
    <3> QED BY <1>15, <3>1, <3>2
  <2>3. \A i \in 1..k : e[i] \in Nat  BY <1>20, <2>1
  <2>4. PICK f : f = [i \in 0..k |-> IF i = 0 THEN 0 ELSE f[i - 1] * r + e[i]]
    <3>1. Radix(s, base) \in 2..36  BY <1>11, <1>20
    <3>2. \A i \in 1..k : Weights(s, base, k)[i] \in Nat  BY <2>3
    <3>3. \E f : f = [i \in 0..k |-> IF i = 0 THEN 0
                                     ELSE f[i - 1] * Radix(s, base) + Weights(s, base, k)[i]]
      BY <2>1, <3>1, <3>2, ValueExists
    <3> QED BY <1>11, <3>3
  <2> HIDE DEF e
  <2>5. \A g : [i \in 0..k |-> IF i = 0 THEN 0 ELSE g[i - 1] * r + e[i]]
               = [i \in 0..k |-> IF i = 0 THEN 0 ELSE g[i - 1] * r + Digit(digits[i])]
    <3> TAKE g
    <3>1. \A i \in 0..k : (IF i = 0 THEN 0 ELSE g[i - 1] * r + e[i])
                          = IF i = 0 THEN 0 ELSE g[i - 1] * r + Digit(digits[i])
      <4> TAKE i \in 0..k
      <4>1. i # 0 => i \in 1..k  BY <2>1
      <4> QED BY <2>2, <4>1
    <3> QED BY <3>1
  <2>6. f = [i \in 0..k |-> IF i = 0 THEN 0 ELSE f[i - 1] * r + Digit(digits[i])]
    BY <2>4, <2>5
  <2>7. value = [i \in 0..k |-> IF i = 0 THEN 0 ELSE value[i - 1] * r + Digit(digits[i])]
    BY <1>2, <1>18, <2>6
  <2>8. value = [i \in 0..k |-> IF i = 0 THEN 0 ELSE value[i - 1] * r + e[i]]  BY <2>5, <2>7
  <2>9. Weighs(value, k, r, e)  BY <2>8 DEF Weighs
  <2>10. Blanks(s) + sign + prefix + k = b + k - 1
    <3>1. Blanks(s) \in Int /\ sign \in Int /\ prefix \in Int /\ k \in Int
      BY <1>4, <1>6, <1>13, <2>1
    <3>2. a = Blanks(s) + sign + 1 /\ b = a + prefix  BY <1>6, <1>13
    <3> DEFINE c == Blanks(s)
    <3>3. c \in Int /\ a = c + sign + 1  BY <3>1, <3>2
    <3> HIDE DEF c
    <3>4. c + sign + prefix + k = b + k - 1  BY ONLY <3>1, <3>2, <3>3, SMTT(30)
    <3> QED BY <3>4 DEF c
  <2>11. x = Valued(s, base, k, value[k])
    BY <1>1, <1>5, <1>18, <1>20, <2>10 DEF Valued, b
  <2> QED BY <1>11, <1>20, <2>9, <2>11 DEF ReadAs, x, e
<1> QED BY <1>19, <1>20

LEMMA RunExists ==
  ASSUME NEW l \in Nat, NEW Q
  PROVE  \E n : Run(l, Q, n)
<1> DEFINE T == {n \in 0..l : n < l => n + 1 \notin Q}
<1>1. l \in T  OBVIOUS
<1>2. T \subseteq Nat  OBVIOUS
<1>3. PICK n \in T : \A x \in T : n <= x
  <2> HIDE DEF T
  <2> QED BY <1>1, <1>2, Least
<1>4. n \in 0..l /\ n \in Nat /\ (n < l => n + 1 \notin Q)  OBVIOUS
<1>5. ASSUME NEW i \in 1..n PROVE i \in Q
  <2>1. i - 1 \in 0..l /\ ~(n <= i - 1) /\ i - 1 < l /\ (i - 1) + 1 = i  BY <1>4
  <2>2. i - 1 \notin T
    <3> HIDE DEF T
    <3> QED BY <1>3, <2>1
  <2> QED BY <2>1, <2>2
<1>6. Run(l, Q, n)  BY <1>4, <1>5 DEF Run
<1> QED BY <1>6

LEMMA NegatedIs ==
  ASSUME NEW w \in Nat, NEW x \in Nat, x < w
  PROVE  (-x) % w = IF x > 0 THEN w - x ELSE 0
<1>1. CASE x > 0
  <2> DEFINE y == w - x
  <2>1. w > 0 /\ y \in 0..(w - 1) /\ -x = (-1) * w + y  BY <1>1
  <2> HIDE DEF y
  <2>2. ((-1) * w + y) % w = y  BY <2>1
  <2> QED BY <1>1, <2>1, <2>2 DEF y
<1>2. CASE x = 0
  <2>1. 0 % w = 0  BY InWord
  <2>2. -x = 0
    <3> DEFINE y == -x
    <3>1. y = 0 - x  OBVIOUS
    <3> HIDE DEF y
    <3>2. y = 0  BY <1>2, <3>1
    <3> QED BY <3>2 DEF y
  <2> QED BY <1>2, <2>1, <2>2
<1> QED BY <1>1, <1>2

LEMMA DigitValIs == ASSUME NEW c PROVE digit_val(c) \in Int
<1> DEFINE S == {d \in 0..35 : c \in {LOWER[d + 1], UPPER[d + 1]}}
<1>1. digit_val(c) = IF S = {} THEN -1 ELSE CHOOSE d \in S : TRUE  BY DEF digit_val
<1>2. \A d \in S : d \in Int  OBVIOUS
<1> HIDE DEF S
<1> QED BY <1>1, <1>2

\* The loops over the digits, and what they find.
EndsAt(f, s, r) == f = [i \in Nat |-> IF digit_val(at(s, i)) \in 0..(r - 1) THEN f[i + 1] ELSE i]

LEMMA EndIs ==
  ASSUME NEW s \in Seq(STRING), NEW base \in Int, Radix(s, base) \in 2..36,
         NEW f, EndsAt(f, s, Radix(s, base))
  PROVE  \E k : /\ Run(Rest(s, base), Valid(s, base), k)
                /\ f[FirstDigit(s, base)] = FirstDigit(s, base) + k
<1> DEFINE r == Radix(s, base)
           b == FirstDigit(s, base)
           m == Rest(s, base)
           l == Len(s)
           P == {i \in Nat : digit_val(at(s, i)) \notin 0..(r - 1)}
<1>1. /\ l \in Nat /\ b \in 1..(l + 1) /\ m \in Nat /\ m = l + 1 - b
      /\ \A i \in 1..m : b + i - 1 \in 1..l
  <2>1. s \in Seq(STRING) /\ base \in Int  OBVIOUS
  <2>2. Len(s) \in Nat  BY <2>1
  <2>3. /\ FirstDigit(s, base) \in 1..(Len(s) + 1) /\ Rest(s, base) \in Nat
        /\ \A i \in 1..Rest(s, base) : FirstDigit(s, base) + i - 1 \in 1..Len(s)
    BY ONLY <2>1, PlacesAre
  <2>4. Rest(s, base) = Len(s) + 1 - FirstDigit(s, base)  BY DEF Rest
  <2> QED BY ONLY <2>2, <2>3, <2>4 DEF l, b, m
<1>2. r \in 2..36  OBVIOUS
<1>3. \A i \in Nat : f[i] = IF i \in P THEN i ELSE f[i + 1]
  <2>1. f = [i \in Nat |-> IF digit_val(at(s, i)) \in 0..(r - 1) THEN f[i + 1] ELSE i]
    BY DEF EndsAt
  <2> HIDE DEF r
  <2> QED BY <2>1
<1> HIDE DEF b, m, r
<1>4. l + 1 \in P
  <2>1. l + 1 \in Int /\ l + 1 > Len(s)  BY <1>1
  <2>2. at(s, l + 1) = ""  BY <2>1, EndsInNothing
  <2>3. -1 \notin 0..(r - 1)  BY <1>2
  <2>4. digit_val(at(s, l + 1)) \notin 0..(r - 1)
    <3> HIDE DEF l
    <3> QED BY <2>2, <2>3, NoDigit
  <2>5. l + 1 \in Nat  BY <1>1
  <2> HIDE DEF l
  <2> QED BY <2>4, <2>5
<1>5. P \subseteq Nat  OBVIOUS
<1>6. ASSUME NEW j \in 1..l PROVE j \in P <=> ~(Digit(s[j]) < r)
  <2>1. j \in Nat /\ at(s, j) = s[j]  BY <1>1, AtIs
  <2>2. digit_val(s[j]) \in 0..(r - 1) <=> Digit(s[j]) < r  BY <1>2, DigitIs
  <2> QED BY <2>1, <2>2
<1>7. ASSUME NEW i \in 1..m PROVE i \in Valid(s, base) <=> b + i - 1 \notin P
  <2>1. b + i - 1 \in 1..l  BY <1>1
  <2>2. i \in Valid(s, base) <=> Digit(s[b + i - 1]) < r  BY DEF Valid, DigitAt, m, b, r
  <2> QED BY <1>6, <2>1, <2>2
<1> HIDE DEF l, P
<1>8. f[b] \in b..(l + 1) /\ f[b] \in P /\ \A j \in b..(f[b] - 1) : j \notin P
  BY <1>1, <1>3, <1>4, <1>5, TextLoop
<1> DEFINE x == f[b]
           k == x - b
<1>9. x \in b..(l + 1) /\ x \in P /\ \A j \in b..(x - 1) : j \notin P  BY <1>8
<1> HIDE DEF x
<1>10. k \in 0..m /\ x = b + k  BY <1>1, <1>9
<1>11. ASSUME NEW i \in 1..k PROVE i \in Valid(s, base)
  <2>1. i \in 1..m /\ b + i - 1 \in b..(x - 1)  BY <1>1, <1>9, <1>10
  <2> QED BY <1>7, <1>9, <2>1
<1>12. k < m => k + 1 \notin Valid(s, base)
  <2>1. k < m => k + 1 \in 1..m /\ b + (k + 1) - 1 = x  BY <1>1, <1>9, <1>10
  <2> QED BY <1>7, <1>9, <2>1
<1> HIDE DEF k
<1>13. Run(m, Valid(s, base), k)  BY <1>10, <1>11, <1>12 DEF Run
<1>14. f[b] = b + k  BY <1>10 DEF x
<1> QED BY <1>13, <1>14 DEF m, b

\* What is in front of each character.
ReadsOn(f, s, r, b) ==
    f = [i \in 0..(Len(s) + 1) |-> IF i <= b THEN [acc |-> 0, any |-> FALSE, overflow |-> FALSE]
                                   ELSE add(f[i - 1], r, digit_val(at(s, i - 1)))]

LEMMA ReadsExist ==
  ASSUME NEW s \in Seq(STRING), NEW r \in Int, NEW b \in Nat
  PROVE  \E f : ReadsOn(f, s, r, b)
<1> DEFINE n == Len(s) + 1
           d(i) == digit_val(at(s, i - 1))
           h == [i \in 1..n |-> [p \in ReadSoFar |-> add(p, r, d(i))]]
<1>1. n \in Nat  OBVIOUS
<1>2. \A i \in 1..n : d(i) \in Int  BY DigitValIs
<1> HIDE DEF d, n
<1>3. \A i \in 1..n : \A p \in ReadSoFar : h[i][p] = add(p, r, d(i))  OBVIOUS
<1> HIDE DEF h
<1>4. \A i \in 1..n : \A p \in ReadSoFar : h[i][p] \in ReadSoFar  BY <1>2, <1>3, AddTypes
<1>5. NothingRead \in ReadSoFar  BY DEF ReadSoFar, NothingRead
<1>6. PICK f : Recurs(f, n, b, NothingRead, h) /\ \A i \in 0..n : f[i] \in ReadSoFar
  BY ONLY <1>1, <1>4, <1>5, b \in Nat, StepsExist
<1>7. f = [i \in 0..n |-> IF i <= b THEN NothingRead ELSE h[i][f[i - 1]]]  BY <1>6 DEF Recurs
<1>8. ASSUME NEW i \in 0..n
      PROVE  (IF i <= b THEN NothingRead ELSE h[i][f[i - 1]]) =
             IF i <= b THEN NothingRead ELSE add(f[i - 1], r, d(i))
  <2>1. CASE i <= b  BY <2>1
  <2>2. CASE ~(i <= b)
    <3>1. i \in 1..n /\ i - 1 \in 0..n  BY <1>1, <2>2
    <3>2. f[i - 1] \in ReadSoFar  BY <1>6, <3>1
    <3>3. h[i][f[i - 1]] = add(f[i - 1], r, d(i))  BY <1>3, <3>1, <3>2
    <3> QED BY <2>2, <3>3
  <2> QED BY <2>1, <2>2
<1>9. [i \in 0..n |-> IF i <= b THEN NothingRead ELSE h[i][f[i - 1]]]
      = [i \in 0..n |-> IF i <= b THEN NothingRead ELSE add(f[i - 1], r, d(i))]
  BY <1>8
<1>10. f = [i \in 0..n |-> IF i <= b THEN NothingRead ELSE add(f[i - 1], r, d(i))]  BY <1>7, <1>9
<1>11. ReadsOn(f, s, r, b)  BY <1>10 DEF ReadsOn, NothingRead, n, d
<1> QED BY <1>11

LEMMA ReadOnIs ==
  ASSUME NEW s \in Seq(STRING), NEW base \in Int, Radix(s, base) \in 2..36,
         NEW k, Run(Rest(s, base), Valid(s, base), k),
         NEW f, ReadsOn(f, s, Radix(s, base), FirstDigit(s, base))
  PROVE  Adds([i \in 0..k |-> f[FirstDigit(s, base) + i]], k, Radix(s, base), Weights(s, base, k))
<1> DEFINE r == Radix(s, base)
           b == FirstDigit(s, base)
           m == Rest(s, base)
           e == Weights(s, base, k)
           g == [i \in 0..k |-> f[b + i]]
           l == Len(s)
<1>1. /\ l \in Nat /\ b \in 1..(l + 1) /\ m \in Nat /\ m = l + 1 - b
      /\ \A i \in 1..m : b + i - 1 \in 1..l
  <2>1. s \in Seq(STRING) /\ base \in Int  OBVIOUS
  <2>2. Len(s) \in Nat  BY <2>1
  <2>3. /\ FirstDigit(s, base) \in 1..(Len(s) + 1) /\ Rest(s, base) \in Nat
        /\ \A i \in 1..Rest(s, base) : FirstDigit(s, base) + i - 1 \in 1..Len(s)
    BY ONLY <2>1, PlacesAre
  <2>4. Rest(s, base) = Len(s) + 1 - FirstDigit(s, base)  BY DEF Rest
  <2> QED BY ONLY <2>2, <2>3, <2>4 DEF l, b, m
<1>2. k \in Nat /\ k <= m  BY WeightsAre
<1>3. \A i \in 1..k : i \in Valid(s, base)  BY DEF Run
<1>4. \A i \in 0..(l + 1) : f[i] = IF i <= b THEN NothingRead
                                   ELSE add(f[i - 1], r, digit_val(at(s, i - 1)))
  <2>1. f = [i \in 0..(l + 1) |-> IF i <= b THEN [acc |-> 0, any |-> FALSE, overflow |-> FALSE]
                                  ELSE add(f[i - 1], r, digit_val(at(s, i - 1)))]
    BY DEF ReadsOn
  <2> HIDE DEF b, r, l
  <2> QED BY <2>1 DEF NothingRead
<1>5. r \in 2..36  OBVIOUS
<1>6. ASSUME NEW i \in 1..k PROVE digit_val(at(s, b + i - 1)) = e[i]
  <2>1. i \in 1..m /\ b + i - 1 \in 1..l
    <3> HIDE DEF b, m, l
    <3> QED BY <1>1, <1>2
  <2>2. at(s, b + i - 1) = s[b + i - 1]  BY <2>1, AtIs
  <2>3. Digit(s[b + i - 1]) < r  BY <1>3 DEF Valid, DigitAt
  <2>4. e[i] = Digit(s[b + i - 1])  BY DEF Weights, DigitAt
  <2> DEFINE c == s[b + i - 1]
  <2>5. Digit(c) < r  BY <2>3
  <2>6. digit_val(c) = Digit(c)
    <3> HIDE DEF c, r
    <3> QED BY <1>5, <2>5, DigitIs
  <2> QED BY <2>2, <2>4, <2>6
<1> HIDE DEF b, m, l, r, e
<1>7. ASSUME NEW i \in 0..k
      PROVE  g[i] = IF i = 0 THEN NothingRead ELSE add(g[i - 1], r, e[i])
  <2>1. g[i] = f[b + i] /\ b + i \in 0..(l + 1)  BY <1>1, <1>2
  <2>2. CASE i = 0
    <3>1. b + i = b /\ b <= b  BY <1>1, <2>2
    <3>2. f[b] = NothingRead  BY <1>4, <2>1, <3>1
    <3> QED BY <2>1, <2>2, <3>1, <3>2
  <2>3. CASE i # 0
    <3>1. i \in 1..k /\ i - 1 \in 0..k /\ ~(b + i <= b) /\ b + (i - 1) = b + i - 1
      BY <1>1, <1>2, <2>3
    <3>2. g[i - 1] = f[b + i - 1]  BY <3>1
    <3>3. f[b + i] = add(f[b + i - 1], r, digit_val(at(s, b + i - 1)))
      <4>1. ASSUME NEW j, j = b + i
            PROVE  f[j] = add(f[b + i - 1], r, digit_val(at(s, b + i - 1)))
        <5>0. b \in Int /\ i \in Int /\ l \in Int  BY <1>1, <1>2
        <5>1. j \in 0..(l + 1) /\ ~(j <= b) /\ j - 1 = b + i - 1
          BY ONLY <2>1, <3>1, <4>1, <5>0
        <5>2. f[j] = add(f[j - 1], r, digit_val(at(s, j - 1)))  BY <1>4, <5>1
        <5> QED BY <5>1, <5>2
      <4> QED BY <4>1
    <3>4. f[b + i] = add(g[i - 1], r, e[i])  BY <1>6, <3>1, <3>2, <3>3
    <3> HIDE DEF g
    <3> QED BY <2>1, <2>3, <3>4
  <2> QED BY <2>2, <2>3
<1> HIDE DEF g
<1>8. Adds(g, k, r, e)  BY <1>7 DEF Adds
<1> QED BY <1>8 DEF g, b, r, e

LEMMA ResolveIs ==
  ASSUME NEW s \in Seq(STRING), NEW base \in Int
  PROVE  /\ resolve(s, First(s), base).base = Radix(s, base)
         /\ resolve(s, First(s), base).s = FirstDigit(s, base)
<1> DEFINE a == First(s)
           hex == Prefixed(s, a)
           x == resolve(s, a, base)
<1>1. x = IF base \in {0, 16} /\ hex THEN [base |-> 16, s |-> a + 2]
          ELSE IF base = 0 THEN [base |-> IF at(s, a) = "0" THEN 8 ELSE 10, s |-> a]
          ELSE [base |-> base, s |-> a]
  BY DEF resolve
<1>2. Radix(s, base) = IF base # 0 THEN base ELSE IF hex THEN 16
                       ELSE IF at(s, a) = "0" THEN 8 ELSE 10
  BY DEF Radix
<1>3. FirstDigit(s, base) = a + (IF hex /\ Radix(s, base) = 16 THEN 2 ELSE 0)
  BY DEF FirstDigit, Skipped
<1>4. a + 0 = a
  <2>1. a \in 1..(Len(s) + 1)  BY PlacesAre
  <2> HIDE DEF a
  <2> QED BY <2>1
<1> HIDE DEF a, hex, x
<1>5. CASE base \in {0, 16} /\ hex
  <2>1. Radix(s, base) = 16  BY <1>2, <1>5
  <2> QED BY <1>1, <1>3, <1>5, <2>1 DEF x, a
<1>6. CASE ~(base \in {0, 16} /\ hex)
  <2>1. ~(hex /\ Radix(s, base) = 16)
    <3>1. CASE ~hex  BY <3>1
    <3>2. CASE base \notin {0, 16}
      <4>1. Radix(s, base) = base  BY <1>2, <3>2
      <4> QED BY <3>2, <4>1
    <3> QED BY <1>6, <3>1, <3>2
  <2>2. FirstDigit(s, base) = a  BY <1>3, <1>4, <2>1
  <2>3. CASE base = 0
    <3>1. ~hex  BY <1>6, <2>3
    <3> QED BY <1>1, <1>2, <1>6, <2>2, <2>3, <3>1 DEF x, a
  <2>4. CASE base # 0
    <3> QED BY <1>1, <1>2, <1>6, <2>2, <2>4 DEF x, a
  <2> QED BY <2>3, <2>4
<1> QED BY <1>5, <1>6

\* Where the sign is, and what it says.
LEMMA SignIs ==
  ASSUME NEW s \in Seq(STRING)
  PROVE  /\ at(s, Blanks(s) + 1) \in {"+", "-"} <=> HasSign(s)
         /\ at(s, Blanks(s) + 1) = "-" <=> HasSign(s) /\ s[Blanks(s) + 1] = "-"
<1> DEFINE c == Blanks(s)
           l == Len(s)
<1>1. l \in Nat /\ c \in 0..l
  <2>1. s \in Seq(STRING) /\ 0 \in Int /\ l \in Nat  OBVIOUS
  <2>2. c \in 0..Len(s)  BY ONLY <2>1, PlacesAre
  <2> QED BY <2>1, <2>2
<1>2. CASE c < l
  <2>1. c + 1 \in 1..l
    <3> HIDE DEF c, l
    <3> QED BY <1>1, <1>2
  <2>2. at(s, c + 1) = s[c + 1]  BY <2>1, AtIs
  <2> QED BY <1>2, <2>2 DEF HasSign
<1>3. CASE ~(c < l)
  <2>1. c + 1 \in Int /\ c + 1 > Len(s)
    <3> HIDE DEF c
    <3> QED BY <1>1, <1>3
  <2>2. at(s, c + 1) = ""  BY <2>1, EndsInNothing
  <2> QED BY <1>3, <2>2 DEF HasSign
<1> QED BY <1>2, <1>3

\* The value of the digits, as strtoul reads it, is what they stand for.
LEMMA ReadIs ==
  ASSUME NEW s \in Seq(STRING), NEW base \in Int, Radix(s, base) \in 2..36,
         NEW k, Run(Rest(s, base), Valid(s, base), k),
         NEW f, ReadsOn(f, s, Radix(s, base), FirstDigit(s, base)),
         NEW v, Weighs(v, k, Radix(s, base), Weights(s, base, k))
  PROVE  /\ v[k] \in Nat /\ StandsFor(f[FirstDigit(s, base) + k], v[k])
         /\ f[FirstDigit(s, base) + k].any <=> k > 0
<1> DEFINE g == [i \in 0..k |-> f[FirstDigit(s, base) + i]]
           r == Radix(s, base)
           e == Weights(s, base, k)
<1>1. Adds(g, k, r, e)  BY ReadOnIs
<1>2. k \in Nat /\ \A i \in 1..k : e[i] \in 0..(r - 1)  BY WeightsAre
<1>3. g[k] = f[FirstDigit(s, base) + k]  BY <1>2
<1>4. r \in 2..36 /\ Weighs(v, k, r, e)  OBVIOUS
<1> HIDE DEF g, r, e
<1>5. v[k] \in Nat /\ StandsFor(g[k], v[k]) /\ (g[k].any <=> k > 0)
  BY <1>1, <1>2, <1>4, ReadsIs
<1> QED BY <1>3, <1>5

LEMMA StrtoulIs ==
  ASSUME NEW s \in Seq(STRING), NEW base \in Int
  PROVE  strtoul(s, base) = Reading(s, base)
<1> DEFINE skip[i \in Nat] == IF is_space(at(s, i)) THEN skip[i + 1] ELSE i
           sign  == skip[1]
           neg   == at(s, sign) = "-"
           first == IF at(s, sign) \in {"+", "-"} THEN sign + 1 ELSE sign
           r     == resolve(s, first, base).base
           b     == resolve(s, first, base).s
           digit(i) == digit_val(at(s, i))
           end[i \in Nat] == IF digit(i) \in 0..(r - 1) THEN end[i + 1] ELSE i
           read[i \in 0..(Len(s) + 1)] ==
             IF i <= b THEN [acc |-> 0, any |-> FALSE, overflow |-> FALSE]
             ELSE add(read[i - 1], r, digit(i - 1))
           got   == read[end[b]]
           value == IF got.overflow THEN ULONG_MAX
                    ELSE IF neg THEN (-got.acc) % (ULONG_MAX + 1) ELSE got.acc
           x == strtoul(s, base)
           y == Reading(s, base)
<1>1. x = IF r \notin 2..36 \/ ~got.any THEN [value |-> 0, end |-> 0]
          ELSE [value |-> value, end |-> end[b] - 1]
  BY DEF strtoul
<1> HIDE DEF x
<1>2. read = CHOOSE f : f = [i \in 0..(Len(s) + 1) |->
                               IF i <= b THEN [acc |-> 0, any |-> FALSE, overflow |-> FALSE]
                               ELSE add(f[i - 1], r, digit(i - 1))]
  OBVIOUS
<1>3. end = CHOOSE f : f = [i \in Nat |-> IF digit(i) \in 0..(r - 1) THEN f[i + 1] ELSE i]
  OBVIOUS
<1>4. skip = CHOOSE f : f = [i \in Nat |-> IF is_space(at(s, i)) THEN f[i + 1] ELSE i]
  OBVIOUS
<1> HIDE DEF read, end, skip
<1>5. /\ Blanks(s) \in 0..Len(s) /\ First(s) \in 1..(Len(s) + 1)
      /\ FirstDigit(s, base) \in 1..(Len(s) + 1) /\ Rest(s, base) \in Nat /\ Radix(s, base) \in Int
      /\ Len(s) \in Nat
  <2>1. s \in Seq(STRING) /\ base \in Int /\ Len(s) \in Nat  OBVIOUS
  <2> QED BY ONLY <2>1, PlacesAre
<1>6. sign = Blanks(s) + 1
  <2> DEFINE P == {i \in Nat : ~is_space(at(s, i))}
  <2>1. PICK f : f = [i \in Nat |-> IF i \in P THEN i ELSE f[i + 1]]
    <3>1. P \subseteq Nat  OBVIOUS
    <3> HIDE DEF P
    <3> QED BY <3>1, UpExists
  <2>2. \A g : [i \in Nat |-> IF i \in P THEN i ELSE g[i + 1]]
        = [i \in Nat |-> IF is_space(at(s, i)) THEN g[i + 1] ELSE i]
    OBVIOUS
  <2>3. f = [i \in Nat |-> IF is_space(at(s, i)) THEN f[i + 1] ELSE i]  BY <2>1, <2>2
  <2>4. skip = [i \in Nat |-> IF is_space(at(s, i)) THEN skip[i + 1] ELSE i]  BY <1>4, <2>3
  <2>5. Skips(skip, s)  BY <2>4 DEF Skips
  <2> QED BY <2>5, SkipIs
<1>7. neg <=> HasSign(s) /\ s[Blanks(s) + 1] = "-"
  <2> HIDE DEF sign
  <2> QED BY <1>6, SignIs
<1>8. first = First(s)
  <2>1. at(s, sign) \in {"+", "-"} <=> HasSign(s)
    <3> HIDE DEF sign
    <3> QED BY <1>6, SignIs
  <2> HIDE DEF sign
  <2> DEFINE c == Blanks(s)
  <2>2. c \in Int /\ sign = c + 1  BY <1>5, <1>6
  <2>3. First(s) = c + 1 + (IF HasSign(s) THEN 1 ELSE 0)  BY DEF First
  <2> HIDE DEF c
  <2> QED BY <2>1, <2>2, <2>3
<1> HIDE DEF sign, neg
<1>9. r = Radix(s, base) /\ b = FirstDigit(s, base)
  <2> HIDE DEF first
  <2> QED BY <1>8, ResolveIs
<1> HIDE DEF first, r, b
<1>10. CASE r \notin 2..36
  <2>1. PICK k : Run(Rest(s, base), Valid(s, base), k)  BY <1>5, RunExists
  <2>2. ReadAs(y, s, base, k)  BY <2>1, ReadingIs
  <2>3. y = [value |-> 0, end |-> 0]  BY <1>9, <1>10, <2>2 DEF ReadAs
  <2>4. x = [value |-> 0, end |-> 0]  BY <1>1, <1>10
  <2> QED BY <2>3, <2>4 DEF x
<1>11. CASE r \in 2..36
  <2> DEFINE P == {i \in Nat : digit(i) \notin 0..(r - 1)}
  <2>1. PICK f : f = [i \in Nat |-> IF i \in P THEN i ELSE f[i + 1]]
    <3>1. P \subseteq Nat  OBVIOUS
    <3> HIDE DEF P
    <3> QED BY <3>1, UpExists
  <2>2. \A g : [i \in Nat |-> IF i \in P THEN i ELSE g[i + 1]]
        = [i \in Nat |-> IF digit(i) \in 0..(r - 1) THEN g[i + 1] ELSE i]
    OBVIOUS
  <2>3. f = [i \in Nat |-> IF digit(i) \in 0..(r - 1) THEN f[i + 1] ELSE i]  BY <2>1, <2>2
  <2>4. end = [i \in Nat |-> IF digit(i) \in 0..(r - 1) THEN end[i + 1] ELSE i]  BY <1>3, <2>3
  <2>5. EndsAt(end, s, Radix(s, base))  BY <1>9, <2>4 DEF EndsAt
  <2>6. Radix(s, base) \in 2..36  BY <1>9, <1>11
  <2>7. PICK k : /\ Run(Rest(s, base), Valid(s, base), k)
                 /\ end[FirstDigit(s, base)] = FirstDigit(s, base) + k
    BY <2>5, <2>6, EndIs
  <2>8. k \in Nat /\ end[b] = b + k /\ b \in Nat
    <3>1. k \in 0..Rest(s, base)  BY <2>7 DEF Run
    <3> QED BY <1>5, <1>9, <2>7, <3>1
  <2>9. \E g : ReadsOn(g, s, r, b)
    <3>1. s \in Seq(STRING) /\ r \in Int /\ b \in Nat  BY <1>11, <2>8
    <3> QED BY ONLY <3>1, ReadsExist
  <2>10. read = [i \in 0..(Len(s) + 1) |->
                   IF i <= b THEN [acc |-> 0, any |-> FALSE, overflow |-> FALSE]
                   ELSE add(read[i - 1], r, digit(i - 1))]
    BY <1>2, <2>9 DEF ReadsOn
  <2>11. ReadsOn(read, s, r, b)  BY <2>10 DEF ReadsOn
  <2>12. ReadsOn(read, s, Radix(s, base), FirstDigit(s, base))  BY <1>9, <2>11
  <2>13. ReadAs(y, s, base, k)  BY <2>7, ReadingIs
  <2>14. \E v : Weighs(v, k, Radix(s, base), Weights(s, base, k)) /\
                (k > 0 => y = Valued(s, base, k, v[k]))
    <3>1. CASE k > 0  BY <2>6, <2>13, <3>1 DEF ReadAs
    <3>2. CASE ~(k > 0)
      <4> DEFINE v == [i \in 0..k |-> 0]
      <4>1. \A i \in 0..k : v[i] = 0 /\ i = 0  BY <2>8, <3>2
      <4>2. Weighs(v, k, Radix(s, base), Weights(s, base, k))  BY <4>1 DEF Weighs
      <4> HIDE DEF v
      <4> QED BY <3>2, <4>2
    <3> QED BY <3>1, <3>2
  <2>15. PICK v : Weighs(v, k, Radix(s, base), Weights(s, base, k)) /\
                  (k > 0 => y = Valued(s, base, k, v[k]))
    BY <2>14
  <2> DEFINE u == v[k]
  <2>16. u \in Nat /\ StandsFor(got, u) /\ (got.any <=> k > 0)
    <3>1. /\ v[k] \in Nat /\ StandsFor(read[FirstDigit(s, base) + k], v[k])
          /\ read[FirstDigit(s, base) + k].any <=> k > 0
      BY <2>6, <2>7, <2>12, <2>15, ReadIs
    <3>2. got = read[FirstDigit(s, base) + k]  BY <1>9, <2>8
    <3> HIDE DEF got
    <3> QED BY <3>1, <3>2
  <2>17. k > 0 => y = Valued(s, base, k, u)  BY <2>15
  <2> HIDE DEF u, got
  <2>18. CASE k = 0
    <3>1. y = [value |-> 0, end |-> 0]  BY <2>13, <2>18 DEF ReadAs
    <3>2. ~got.any
      <4>1. ~(k > 0)  BY <2>18
      <4> QED BY <2>16, <4>1, Zenon
    <3>3. x = [value |-> 0, end |-> 0]  BY <1>1, <3>2
    <3> QED BY <3>1, <3>3 DEF x
  <2>19. CASE k # 0
    <3>1. k > 0  BY <2>8, <2>19
    <3>2. got.any  BY <2>16, <3>1, Zenon
    <3>3. x = [value |-> value, end |-> b + k - 1]  BY <1>1, <1>11, <2>8, <3>2
    <3>4. (got.overflow <=> u > ULONG_MAX) /\ (~got.overflow => got.acc = u)
      BY <2>16 DEF StandsFor
    <3> DEFINE minus == HasSign(s) /\ s[Blanks(s) + 1] = "-"
    <3>5. value = IF u > ULONG_MAX THEN ULONG_MAX
                  ELSE IF minus /\ u > 0 THEN ULONG_MAX + 1 - u ELSE u
      <4>1. ULONG_MAX \in Nat  BY StrtoulAssumption
      <4>2. CASE u > ULONG_MAX
        <5>1. got.overflow  BY <3>4, <4>2, Zenon
        <5> QED BY <4>2, <5>1
      <4>3. CASE ~(u > ULONG_MAX)
        <5>1. ~got.overflow  BY <3>4, <4>3, Zenon
        <5>2. got.acc = u  BY <3>4, <5>1
        <5>3. value = IF neg THEN (-u) % (ULONG_MAX + 1) ELSE u  BY <5>1, <5>2
        <5>4. (-u) % (ULONG_MAX + 1) = IF u > 0 THEN ULONG_MAX + 1 - u ELSE 0
          <6> DEFINE w == ULONG_MAX + 1
          <6>1. w \in Nat /\ u \in Nat /\ u < w  BY <2>16, <4>1, <4>3
          <6> HIDE DEF w
          <6>2. (-u) % w = IF u > 0 THEN w - u ELSE 0  BY <6>1, NegatedIs
          <6>3. w = ULONG_MAX + 1  BY DEF w
          <6>4. u \in Int /\ w \in Int /\ ULONG_MAX \in Int  BY <4>1, <6>1
          <6>5. (-u) % w = (-u) % (ULONG_MAX + 1)  BY <6>3, Zenon
          <6>6. w - u = ULONG_MAX + 1 - u  BY <6>3, <6>4
          <6> QED BY ONLY <6>2, <6>5, <6>6, Zenon
        <5>5. u > 0 \/ u = 0  BY <2>16
        <5> HIDE DEF value, minus
        <5>6. neg <=> minus  BY <1>7 DEF minus
        <5>7. CASE u > 0  BY <4>3, <5>3, <5>4, <5>6, <5>7
        <5>8. CASE u = 0
          <6>1. ~(u > 0)  BY <5>8
          <6> QED BY <4>3, <5>3, <5>4, <5>6, <5>8, <6>1
        <5> QED BY <5>5, <5>7, <5>8
      <4> QED BY <4>2, <4>3
    <3>6. Valued(s, base, k, u) =
            [value |-> IF u > ULONG_MAX THEN ULONG_MAX
                       ELSE IF minus /\ u > 0 THEN ULONG_MAX + 1 - u ELSE u,
             end |-> b + k - 1]
      BY <1>9 DEF Valued
    <3> HIDE DEF value, minus
    <3>7. x = y  BY <2>17, <3>1, <3>3, <3>5, <3>6
    <3> QED BY <3>7 DEF x
  <2> QED BY <2>18, <2>19
<1> QED BY <1>10, <1>11

\* strtoul answers the value of the text in the base asked for or told by its
\* prefix, the greatest number if that does not fit, and where it stopped, for
\* every text, base and word (strtoul.c:20-92).
THEOREM NumbersRead == LibkSpec => []StrtoulReads
<1>1. JobInv => StrtoulReads
  <2> SUFFICES ASSUME JobInv, Answered("strtoul") PROVE answer = Reading(job.s, job.base)
    BY DEF StrtoulReads
  <2>1. PICK j \in StrtoulJobs \cup StringJobs \cup BootJobs :
          j.fn = "strtoul" /\ job = [j EXCEPT !.ret = <<Answer(j)>>] /\ answer = Answer(j)
    BY AnsweredIs
  <2>2. j \in StrtoulJobs  BY <2>1 DEF StringJobs, BootJobs
  <2>3. j.s \in Numerals /\ j.base \in Bases  BY <2>2 DEF StrtoulJobs
  <2>4. j.s \in Seq(STRING) /\ j.base \in Int  BY <2>3, LibkAssumption
  <2>5. job.s = j.s /\ job.base = j.base  BY <2>1, <2>2 DEF StrtoulJobs
  <2>6. Answer(j) = strtoul(j.s, j.base)  BY <2>1 DEF Answer
  <2>7. strtoul(j.s, j.base) = Reading(j.s, j.base)  BY <2>4, StrtoulIs
  <2> QED BY <2>1, <2>5, <2>6, <2>7
<1> QED BY <1>1, JobInvariance, PTL
=============================================================================
