------------------------------- MODULE MCLibk -------------------------------
(***************************************************************************)
(* The C library for TLC: each behaviour is one call of vfprintf_fd (see   *)
(* MCOutBuf) or one job of Libk.                                           *)
(***************************************************************************)
EXTENDS MCOutBuf, Libk

MCLibkFormats == MCFormats \cup {<<>>}

Texts(C, n) == UNION {[1..k -> C] : k \in 0..n}

MCNumerals == Texts({"0", "1", "7", "9", "F", "x", "-", " "}, 4)
MCLines == Texts({"x", " ", "\t"}, 5)
MCMemories == {m \in [0..TOP -> {NUL, "x", "y"}] : m[TOP] = NUL}
MCBrands == Texts({NUL, "x", " "}, 4)

MMAP_ENTRY == 24
Entries == {<<>>} \cup {<<e>> : e \in {[addr |-> 0, len |-> 9, type |-> 1],
                                       [addr |-> 250, len |-> 5, type |-> 1]}}
             \cup {<<d, e>> : d, e \in {[addr |-> 16, len |-> 30, type |-> 1],
                                        [addr |-> 60, len |-> 8, type |-> 2],
                                        [addr |-> 256, len |-> 40, type |-> 1],
                                        [addr |-> 600, len |-> 8, type |-> 2]}}
Maps == {[type |-> TAG_MMAP, size |-> MMAP_HEADER + MMAP_ENTRY * Len(e),
          entry_size |-> MMAP_ENTRY, entries |-> e] : e \in Entries}
Infos == [type : {TAG_BASIC_MEMINFO}, size : {16}, mem_upper : {0, 3, 60, 63}]
Others == {[type |-> 1, size |-> 11], [type |-> 2, size |-> 16],
           [type |-> TAG_FRAMEBUFFER, size |-> 33, params |-> "fb"]}
TagLists == UNION {[1..n -> Maps \cup Infos \cup Others] : n \in 0..2}
              \cup {<<o, m, i>> : o \in Others, m \in Maps, i \in Infos}
              \cup {<<i, o, m>> : o \in Others, m \in Maps, i \in Infos}
MCBootTags == {l \in TagLists : TagsFit(l)}

-----------------------------------------------------------------------------
NoJob == [fn |-> "none"]

MCInit == Init /\ \/ job = NoJob
                  \/ call = [fmt |-> <<>>, ap |-> call.ap, writable |-> TRUE]
                       /\ call.ap = <<0, 0, 0, 0>> /\ LibkInit

MCNext == \/ job = NoJob /\ Next /\ UNCHANGED job
          \/ job # NoJob /\ LibkNext /\ UNCHANGED vars

MCSpec == MCInit /\ [][MCNext]_<<vars, job>>
=============================================================================
