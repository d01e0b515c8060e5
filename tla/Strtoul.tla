------------------------------- MODULE Strtoul -------------------------------
(***************************************************************************)
(* strtoul, src/libk/stdlib/strtoul.c, which reads every number the user   *)
(* types.  The text is a sequence of characters; behind its end stands the *)
(* character NUL, which nothing is equal to.                               *)
(***************************************************************************)
EXTENDS Integers, Sequences

CONSTANT ULONG_MAX

ASSUME StrtoulAssumption == ULONG_MAX \in Nat /\ ULONG_MAX >= 36  \* every digit fits

at(s, i) == IF i <= Len(s) THEN s[i] ELSE ""

is_space(c) == c \in {" ", "\t", "\n", "\r", "VT", "\f"}

LOWER == <<"0", "1", "2", "3", "4", "5", "6", "7", "8", "9",
           "a", "b", "c", "d", "e", "f", "g", "h", "i", "j", "k", "l", "m",
           "n", "o", "p", "q", "r", "s", "t", "u", "v", "w", "x", "y", "z">>
UPPER == <<"0", "1", "2", "3", "4", "5", "6", "7", "8", "9",
           "A", "B", "C", "D", "E", "F", "G", "H", "I", "J", "K", "L", "M",
           "N", "O", "P", "Q", "R", "S", "T", "U", "V", "W", "X", "Y", "Z">>

digit_val(c) ==
    LET same == {d \in 0..35 : c \in {LOWER[d + 1], UPPER[d + 1]}}
    IN  IF same = {} THEN -1 ELSE CHOOSE d \in same : TRUE

Prefixed(s, i) == at(s, i) = "0" /\ at(s, i + 1) \in {"x", "X"}

\* The base, and the index of the first digit.
resolve(s, i, base) ==
    IF base \in {0, 16} /\ Prefixed(s, i) THEN [base |-> 16, s |-> i + 2]
    ELSE IF base = 0 THEN [base |-> IF at(s, i) = "0" THEN 8 ELSE 10, s |-> i]
    ELSE [base |-> base, s |-> i]

\* Mutant: the last digit is not compared with cutlim.
add_unguarded(p, base, d) ==
    IF p.acc > ULONG_MAX \div base THEN [p EXCEPT !.overflow = TRUE]
    ELSE [p EXCEPT !.acc = (@ * base + d) % (ULONG_MAX + 1), !.any = TRUE]

\* One digit; nothing is added that would not fit.
add(p, base, d) ==
    LET cutoff == ULONG_MAX \div base
        cutlim == ULONG_MAX % base
    IN  IF p.acc > cutoff \/ (p.acc = cutoff /\ d > cutlim)
          THEN [p EXCEPT !.overflow = TRUE]
          ELSE [p EXCEPT !.acc = @ * base + d, !.any = TRUE]

\* Answers the value and how many characters *endptr is behind nptr; overflow
\* prints a message.
strtoul(nptr, base0) ==
    LET skip[i \in Nat] == IF is_space(at(nptr, i)) THEN skip[i + 1] ELSE i
        sign  == skip[1]
        neg   == at(nptr, sign) = "-"
        first == IF at(nptr, sign) \in {"+", "-"} THEN sign + 1 ELSE sign
        base  == resolve(nptr, first, base0).base
        body  == resolve(nptr, first, base0).s
        digit(i) == digit_val(at(nptr, i))
        end[i \in Nat] == IF digit(i) \in 0..(base - 1) THEN end[i + 1] ELSE i
        \* What has been read in front of character i.
        read[i \in 0..(Len(nptr) + 1)] ==
          IF i <= body THEN [acc |-> 0, any |-> FALSE, overflow |-> FALSE]
          ELSE add(read[i - 1], base, digit(i - 1))
        got   == read[end[body]]
        value == IF got.overflow THEN ULONG_MAX
                 ELSE IF neg THEN (-got.acc) % (ULONG_MAX + 1) ELSE got.acc
    IN  IF base \notin 2..36 \/ ~got.any THEN [value |-> 0, end |-> 0]
        ELSE [value |-> value, end |-> end[body] - 1]
=============================================================================
