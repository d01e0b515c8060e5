------------------------------- MODULE Strings -------------------------------
(***************************************************************************)
(* The kernel's C library on strings and memory, src/libk/string/string.c  *)
(* and memory.c, and the brand string of the processor,                    *)
(* src/arch/i686/cpu_brand.c, which has string loops of its own.           *)
(*                                                                         *)
(* Memory is a function m from addresses to characters, a pointer an       *)
(* address or NULL, and a function that stores answers the new memory.     *)
(* Loops that look for a place are recursive functions of the address;     *)
(* loops that copy are folds, one store at a time, because source and      *)
(* destination may overlap.                                                *)
(***************************************************************************)
EXTENDS Integers, Sequences, FiniteSets
Seqs == INSTANCE SequencesExt

NULL == -1
NUL == ""    \* the character '\0'

-----------------------------------------------------------------------------
(***************************************************************************)
(* memory.c.                                                               *)
(***************************************************************************)
Steps(n) == [i \in 1..n |-> i - 1]

\* Mutant: the copy runs downwards.
memmove_down(m, dest, src, n) ==
    Seqs!FoldRight(LAMBDA i, mem : [mem EXCEPT ![dest + i] = mem[src + i]], Steps(n), m)

\* Also memcpy: both copy upwards.
memmove(m, dest, src, n) ==
    Seqs!FoldLeft(LAMBDA mem, i : [mem EXCEPT ![dest + i] = mem[src + i]], m, Steps(n))

memset(m, s, c, n) == [i \in DOMAIN m |-> IF i \in s..(s + n - 1) THEN c ELSE m[i]]

-----------------------------------------------------------------------------
(***************************************************************************)
(* string.c.                                                               *)
(***************************************************************************)
strlen(m, s) ==
    LET end[i \in DOMAIN m] == IF m[i] = NUL THEN i ELSE end[i + 1]
    IN  end[s] - s

\* The string at s, as a sequence.
string(m, s) == [i \in 1..strlen(m, s) |-> m[s + i - 1]]

\* The two characters whose difference is answered: alike if it is zero.
strcmp(m, s1, s2) ==
    LET same[i \in Nat] ==
          IF m[s1 + i] # NUL /\ m[s1 + i] = m[s2 + i] THEN same[i + 1] ELSE i
    IN  <<m[s1 + same[0]], m[s2 + same[0]]>>

strchr(m, str, ch) ==
    LET stop[i \in DOMAIN m] == IF m[i] # NUL /\ m[i] # ch THEN stop[i + 1] ELSE i
    IN  IF m[stop[str]] = ch THEN stop[str] ELSE NULL

\* Answers the end of dest, not dest.
strcat(m, dest, src) ==
    LET end == dest + strlen(m, dest)
        n   == strlen(m, src)
    IN  [mem |-> memmove(m, end, src, n + 1), ret |-> end + n]

in_set(c, set) == c # NUL /\ c \in set

\* Mutant: the scan goes on at the delimiter's place, not behind it, and
\* leaves it in the token.
strtok_keeps(m, save, str, delim) ==
    LET from == IF str # NULL THEN str ELSE save
        skip[i \in DOMAIN m] == IF in_set(m[i], delim) THEN skip[i + 1] ELSE i
        past[i \in DOMAIN m] ==
          IF m[i] # NUL /\ ~in_set(m[i], delim) THEN past[i + 1] ELSE i
        end == past[skip[from]]
    IN  IF from = NULL \/ m[skip[from]] = NUL
          THEN [mem |-> m, save |-> NULL, ret |-> NULL]
          ELSE [mem |-> m, save |-> IF m[end] = NUL THEN NULL ELSE end + 1, ret |-> skip[from]]

\* save is s_strtok_save, the only state of the library.
strtok(m, save, str, delim) ==
    LET from == IF str # NULL THEN str ELSE save
        skip[i \in DOMAIN m] == IF in_set(m[i], delim) THEN skip[i + 1] ELSE i
        past[i \in DOMAIN m] ==
          IF m[i] # NUL /\ ~in_set(m[i], delim) THEN past[i + 1] ELSE i
        end == past[skip[from]]
    IN  IF from = NULL \/ m[skip[from]] = NUL
          THEN [mem |-> m, save |-> NULL, ret |-> NULL]
        ELSE IF m[end] = NUL
          THEN [mem |-> m, save |-> NULL, ret |-> skip[from]]
          ELSE [mem |-> [m EXCEPT ![end] = NUL], save |-> end + 1, ret |-> skip[from]]

\* The words of a line, what strtok is for: used to state properties.
Words(s, delim) ==
    LET delimits(i) == i \notin DOMAIN s \/ s[i] \in delim
        starts == {i \in DOMAIN s : ~delimits(i) /\ delimits(i - 1)}
        stop(i) == CHOOSE j \in i..Len(s) : delimits(j + 1) /\ \A k \in i..j : ~delimits(k)
        from(n) == CHOOSE i \in starts : Cardinality(starts \cap 1..i) = n
    IN  [n \in 1..Cardinality(starts) |-> SubSeq(s, from(n), stop(from(n)))]

-----------------------------------------------------------------------------
(***************************************************************************)
(* cpu_brand.c.  raw are the characters cpuid answers, as long as the      *)
(* three leaves give; len >= 1 is the size of buf.                         *)
(***************************************************************************)
Space == " "

\* append_reg stores as long as p <= end, and may leave p one past it.
append(raw, len) ==
    LET end == len - 1
        p   == IF Len(raw) > end THEN end ELSE Len(raw)
    IN  [i \in 0..end |-> IF i < p THEN raw[i + 1] ELSE NUL]

\* The spaces in front and behind are removed in place.
trimmed(buf) ==
    LET s[i \in Nat] == IF buf[i] = Space THEN s[i + 1] ELSE i
        q[i \in Nat] == IF i > s[0] /\ buf[i - 1] = Space THEN q[i - 1] ELSE i
        end == q[s[0] + strlen(buf, s[0])]
        cut == [buf EXCEPT ![end] = NUL]
    IN  IF s[0] = 0 THEN cut ELSE memmove(cut, 0, s[0], end - s[0] + 1)

cpu_get_brand_string(raw, len) ==
    LET buf == trimmed(append(raw, len))
    IN  [buf |-> buf, ret |-> buf[0] # NUL]
=============================================================================
