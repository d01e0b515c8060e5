------------------------------- MODULE Memory -------------------------------
(***************************************************************************)
(* The physical frame allocator and the kernel page mapping of             *)
(* src/arch/i686/memory.c.  Frames are numbers; the bitmap is the set of   *)
(* frames whose bit is clear.  Frames are never given back: the code has   *)
(* no operation for it.  page_dir holds the directory entries the heap     *)
(* uses and page_table the entries of the tables they point to, both keyed *)
(* relative to KERNEL_MALLOC and both partial: an absent key is an entry   *)
(* whose PRESENT bit is clear.  The switch to initial_page_dir and back    *)
(* and sync_page_dirs have no effect, as no other directory is ever used.  *)
(***************************************************************************)
EXTENDS Naturals, Integers, FiniteSets

CONSTANTS WORD,         \* 2^32: every uint32_t is taken modulo WORD
          PAGE_SIZE,    \* bytes of a page frame
          PT_ENTRIES,   \* pages one page table maps (1024)
          MemLow,       \* pmm_init's mem_low: first byte after the kernel
          MemHigh       \* pmm_init's mem_high: top of RAM in bytes

VARIABLES free_frames,  \* frames in [min, max) whose bitmap bit is clear
          total_alloc,  \* frames handed out
          page_dir,     \* directory index -> frame of its page table
          page_table    \* page index -> frame it maps to

memVars == <<free_frames, total_alloc, page_dir, page_table>>

\* The function f with x mapped to y, x in its domain or not.
With(f, x, y) == [z \in DOMAIN f \cup {x} |-> IF z = x THEN y ELSE f[z]]

CEIL_DIV(a, b) == ((a + b - 1) % WORD) \div b

page_frame_min == CEIL_DIV(MemLow, PAGE_SIZE)
page_frame_max == MemHigh \div PAGE_SIZE

Frames == page_frame_min..(page_frame_max - 1)

(***************************************************************************)
(* pmm_alloc_page_frame: first fit over the set s of free frames, 0 when   *)
(* there is none.  The result is given as a one-element set.               *)
(***************************************************************************)
pmm_alloc_page_frame(s) ==
    IF s = {} THEN {0} ELSE {f \in s : \A g \in s : f <= g}

InitMemory ==
    /\ free_frames = Frames
    /\ total_alloc = 0
    /\ page_dir = << >>
    /\ page_table = << >>

\* Mutant: the frame of the table is taken without setting its bit.
mem_map_page_unmarked(p, f, s) ==
    LET pd == p \div PT_ENTRIES IN
    /\ page_table' = With(page_table, p, f)
    /\ free_frames' = s
    /\ \E t \in pmm_alloc_page_frame(s) :
         page_dir' = IF pd \in DOMAIN page_dir THEN page_dir ELSE With(page_dir, pd, t)
    /\ total_alloc' = total_alloc + 1

(***************************************************************************)
(* One round of map_more_until that finds a frame: mem_map_page gives page *)
(* p the frame f, and when the directory entry is absent first takes a     *)
(* frame for the table, without testing the result, and clears the table.  *)
(***************************************************************************)
mem_map_page(p, f, s) ==
    LET pd == p \div PT_ENTRIES IN
    IF pd \in DOMAIN page_dir
      THEN /\ page_table' = With(page_table, p, f)
           /\ free_frames' = s
           /\ total_alloc' = total_alloc + 1
           /\ UNCHANGED page_dir
      ELSE \E t \in pmm_alloc_page_frame(s) :
           /\ page_dir' = With(page_dir, pd, t)
           /\ page_table' = With([q \in {r \in DOMAIN page_table : r \div PT_ENTRIES # pd}
                                    |-> page_table[q]], p, f)
           /\ free_frames' = s \ {t}
           /\ total_alloc' = total_alloc + (IF s = {} THEN 1 ELSE 2)

\* Mutant: the answer "out of frames" is mapped like a frame.
MapPageUnchecked(p) ==
    \E f \in pmm_alloc_page_frame(free_frames) :
      mem_map_page(p, f, free_frames \ {f})

MapPage(p) ==
    \E f \in pmm_alloc_page_frame(free_frames) :
      /\ f # 0
      /\ mem_map_page(p, f, free_frames \ {f})

(***************************************************************************)
(* pmm_get_stats, in frames.                                               *)
(***************************************************************************)
total_frames_usable == (page_frame_max - page_frame_min) % WORD
free_frames_usable  == (total_frames_usable - total_alloc) % WORD

-----------------------------------------------------------------------------
MemTypeOK ==
    /\ free_frames \subseteq Frames
    /\ total_alloc \in Nat
    /\ DOMAIN page_dir \subseteq Nat
    /\ \A d \in DOMAIN page_dir : page_dir[d] \in Frames \cup {0}
    /\ DOMAIN page_table \subseteq Nat
    /\ \A p \in DOMAIN page_table : page_table[p] \in Frames

\* First fit without release leaves the free frames a suffix of the range:
\* the count total_alloc alone says which frames are taken.
FreeIsSuffix == free_frames = (page_frame_min + total_alloc)..(page_frame_max - 1)

\* No frame backs two pages, or a page and a table, or is still free: the
\* bitmap, the tables and the directory agree on who owns a frame.
FramesExclusive ==
    /\ \A p, q \in DOMAIN page_table : p # q => page_table[p] # page_table[q]
    /\ \A d, e \in DOMAIN page_dir : d # e => page_dir[d] # page_dir[e]
    /\ \A p \in DOMAIN page_table, d \in DOMAIN page_dir : page_table[p] # page_dir[d]
    /\ \A p \in DOMAIN page_table : page_table[p] \notin free_frames
    /\ \A d \in DOMAIN page_dir : page_dir[d] \notin free_frames

\* pmm_get_stats counts what the bitmap holds: free_frames_usable is the number
\* of clear bits in [min, max) (pmm_stats.h:5 and :7).
StatsCountFrames == free_frames_usable = Cardinality(free_frames)

\* Every page table lives in a frame the allocator owns; 0 is the allocator's
\* answer "out of frames" (memory.c:51), not a frame to use.
TablesOwned == \A d \in DOMAIN page_dir : page_dir[d] \in Frames
=============================================================================
