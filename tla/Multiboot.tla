------------------------------ MODULE Multiboot ------------------------------
(***************************************************************************)
(* The boot information, src/include/arch/i686/multiboot.h: how the tags   *)
(* are found and the top of the memory is computed from them.  info is     *)
(* what the boot loader leaves: total_size, and the tag that starts at an  *)
(* offset; tag[o] is defined where a tag starts.  Sizes are in bytes, in   *)
(* 32-bit words; the memory map's addresses have two words.                *)
(***************************************************************************)
EXTENDS Integers, Sequences
Sets == INSTANCE FiniteSetsExt

CONSTANTS MB_WORD,  \* 2^32
          MiB, KiB, \* 2^20 and 2^10
          MMAP_HEADER \* 16

ASSUME MultibootAssumption ==
    /\ {MB_WORD, MiB, KiB, MMAP_HEADER} \subseteq Nat \ {0}
    /\ MMAP_HEADER >= 8

TAG_END == 0
TAG_BASIC_MEMINFO == 4
TAG_MMAP == 6
TAG_FRAMEBUFFER == 8

NoTag == -1

-----------------------------------------------------------------------------
mb2_align8(x) == (((x + 7) % MB_WORD) \div 8) * 8

mb2_next_tag(info, t) == t + mb2_align8(info.tag[t].size)

\* The offset of the first tag of the type.
mb2_find_tag(info, type) ==
    LET find[t \in DOMAIN info.tag] ==
          IF t >= info.total_size \/ info.tag[t].type = TAG_END THEN NoTag
          ELSE IF info.tag[t].type = type THEN t
          ELSE find[mb2_next_tag(info, t)]
    IN  find[8]

\* The entries that fit in the tag.
entries(mm) ==
    {mm.entries[i] : i \in {n \in DOMAIN mm.entries :
                              MMAP_HEADER + n * mm.entry_size <= mm.size}}

\* Mutant: every entry counts, not only memory that is available.
ends_all(mm) == {(me.addr + me.len) % (MB_WORD * MB_WORD) : me \in entries(mm)}

ends(mm) ==
    {(me.addr + me.len) % (MB_WORD * MB_WORD) : me \in {e \in entries(mm) : e.type = 1}}

\* The highest end, clamped to 32 bits; 0 if there is none.
mmap_top(mm) == Sets!Min({Sets!Max(ends(mm) \cup {0}), MB_WORD - 1})

mb2_mem_top_bytes(info) ==
    LET mm == mb2_find_tag(info, TAG_MMAP)
        bi == mb2_find_tag(info, TAG_BASIC_MEMINFO)
    IN  IF mm # NoTag /\ mmap_top(info.tag[mm]) # 0 THEN mmap_top(info.tag[mm])
        ELSE IF bi # NoTag THEN (MiB + (info.tag[bi].mem_upper * KiB)) % MB_WORD
        ELSE MiB

\* The parameters it stores; the same if there is no tag and it answers 0.
mb2_get_framebuffer(info, before) ==
    LET fb == mb2_find_tag(info, TAG_FRAMEBUFFER)
    IN  IF fb = NoTag THEN [ret |-> 0, params |-> before]
                      ELSE [ret |-> 1, params |-> info.tag[fb].params]

-----------------------------------------------------------------------------
(***************************************************************************)
(* The boot loader: tags one after the other, each starting at a multiple  *)
(* of 8, with an end tag.                                                  *)
(***************************************************************************)
Padded(size) == IF size % 8 = 0 THEN size ELSE size + 8 - (size % 8)

Layout(tags) ==
    LET all == Append(tags, [type |-> TAG_END, size |-> 8])
        start[i \in 1..Len(all)] ==
          IF i = 1 THEN 8 ELSE start[i - 1] + Padded(all[i - 1].size)
        n == Len(all)
    IN  [total_size |-> start[n] + 8,
         tag |-> [t \in {start[i] : i \in 1..n} |->
                    all[CHOOSE i \in 1..n : start[i] = t]]]
=============================================================================
