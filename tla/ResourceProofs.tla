--------------------------- MODULE ResourceProofs ---------------------------
(***************************************************************************)
(* The kernel's two tables of things with owners, the heap's blocks and    *)
(* the descriptor table.                                                   *)
(*                                                                         *)
(* The heap, for every machine that meets the assumptions of HeapSized:    *)
(* the invariants TLC checks on a small one, and that it implements the    *)
(* abstract allocator.  The descriptor table, for every size and every set *)
(* of files: reference counts, and who closes a file.                      *)
(***************************************************************************)
EXTENDS HeapSized, FdTable, TLAPS, FiniteSetTheorems, SequenceTheorems


-----------------------------------------------------------------------------
(* Rounding *)

\* What align_up returns when the sum does not wrap around: the least margin
\* above x that kmalloc.c:12-14 promises.
LEMMA AlignUp ==
  ASSUME NEW x \in Nat, NEW a \in Nat \ {0}, x + a - 1 < WORD
  PROVE  /\ align_up(x, a) \in Nat
         /\ x <= align_up(x, a)
         /\ align_up(x, a) <= x + a - 1
<1> DEFINE y == x + (a - 1)
<1>1. y \in Nat /\ y % WORD = y
  BY ConstantTypes
<1>2. y % a \in 0..(a - 1)
  BY <1>1
<1>3. align_up(x, a) = y - (y % a)
  BY <1>1 DEF align_up
<1> HIDE DEF y
<1>4. y = x + (a - 1)
  BY DEF y
<1> QED BY <1>2, <1>3, <1>4

LEMMA AlignUpNat ==
  ASSUME NEW x \in Nat, NEW a \in Nat \ {0}
  PROVE  align_up(x, a) \in Nat
<1> DEFINE y == (x + (a - 1)) % WORD
<1>1. y \in Nat
  BY ConstantTypes
<1>2. y % a \in 0..(a - 1) /\ y % a <= y
  BY <1>1
<1> QED BY <1>1, <1>2 DEF align_up

\* kmalloc.c:31-33 and :83: the header has at least the size of block_t, the
\* payload at least the size asked for, and neither much more.
LEMMA Header ==
  /\ header_size \in Nat \ {0}
  /\ header_size <= SIZEOF_BLOCK + ALIGN - 1
<1>1. SIZEOF_BLOCK + ALIGN - 1 < WORD
  <2>1. INITIAL \in Requests \cup {INITIAL} /\ INITIAL \in Nat
    BY ConstantTypes
  <2>2. HEAP_PAGES * PAGE_SIZE \in Nat
    BY ConstantTypes
  <2> QED BY <2>1, <2>2, NoWrap, ConstantTypes
<1> QED BY <1>1, AlignUp, ConstantTypes DEF header_size

LEMMA Payload ==
  ASSUME NEW n \in Requests
  PROVE  /\ align_up(n, ALIGN) \in Nat
         /\ n <= align_up(n, ALIGN)
         /\ align_up(n, ALIGN) <= n + ALIGN - 1
<1>1. HEAP_PAGES * PAGE_SIZE \in Nat /\ n \in Nat
  BY ConstantTypes
<1>2. n + ALIGN - 1 < WORD
  BY <1>1, NoWrap, ConstantTypes
<1> QED BY <1>1, <1>2, AlignUp, ConstantTypes

\* RemoveAt drops the i-th block and keeps the order of the others.
LEMMA RemoveAtElements ==
  ASSUME NEW S, NEW s \in Seq(S), NEW i \in DOMAIN s
  PROVE  /\ RemoveAt(s, i) \in Seq(S)
         /\ Len(RemoveAt(s, i)) = Len(s) - 1
         /\ \A j \in 1..(Len(s) - 1) :
              RemoveAt(s, i)[j] = IF j < i THEN s[j] ELSE s[j + 1]
<1>1. i \in 1..Len(s) /\ Len(s) \in Nat
  BY LenProperties
<1> DEFINE a == SubSeq(s, 1, i - 1)
           b == SubSeq(s, i + 1, Len(s))
<1>2. /\ a \in Seq(S) /\ Len(a) = i - 1
      /\ \A j \in 1..(i - 1) : a[j] = s[j]
  BY <1>1, SubSeqProperties
<1>3. /\ b \in Seq(S) /\ Len(b) = Len(s) - i
      /\ \A j \in 1..(Len(s) - i) : b[j] = s[i + j]
  BY <1>1, SubSeqProperties
<1>4. RemoveAt(s, i) = a \o b
  BY DEF RemoveAt
<1> HIDE DEF a, b
<1> DEFINE r == a \o b
<1>5. /\ r \in Seq(S) /\ Len(r) = Len(a) + Len(b)
      /\ \A j \in 1..(Len(a) + Len(b)) :
           r[j] = IF j <= Len(a) THEN a[j] ELSE b[j - Len(a)]
  BY <1>2, <1>3, ConcatProperties
<1> HIDE DEF r
<1>6. /\ r \in Seq(S) /\ Len(r) = Len(s) - 1
      /\ \A j \in 1..(Len(s) - 1) :
           r[j] = IF j <= i - 1 THEN a[j] ELSE b[j - (i - 1)]
  <2>1. Len(a) + Len(b) = Len(s) - 1
    BY <1>1, <1>2, <1>3
  <2> QED BY <2>1, <1>2, <1>5
<1>7. ASSUME NEW j \in 1..(Len(s) - 1)
      PROVE r[j] = IF j < i THEN s[j] ELSE s[j + 1]
  <2>1. CASE j < i
    <3>1. j \in 1..(i - 1) /\ j <= i - 1
      BY <2>1, <1>1
    <3> QED BY <2>1, <3>1, <1>2, <1>6
  <2>2. CASE ~(j < i)
    <3>1. /\ ~(j <= i - 1)
          /\ j - (i - 1) \in 1..(Len(s) - i)
          /\ i + (j - (i - 1)) = j + 1
      BY <2>2, <1>1
    <3>2. b[j - (i - 1)] = s[j + 1]
      BY <3>1, <1>3
    <3>3. r[j] = b[j - (i - 1)]
      BY <3>1, <1>6
    <3> QED BY <2>2, <3>2, <3>3
  <2> QED BY <2>1, <2>2
<1>8. RemoveAt(s, i) = r
  BY <1>4 DEF r
<1> QED BY <1>6, <1>7, <1>8

-----------------------------------------------------------------------------
(* The inductive invariant *)

\* Who may be in a call, and with what size.
CallOK == /\ req \in Requests \cup {INITIAL}
          /\ pc = "kmalloc" => req \in Requests \ {0}

\* The pages mapped are the first mapped_pages ones; each took a frame.
PagesCounted ==
    /\ DOMAIN page_table = 0..(mapped_pages - 1)
    /\ mapped_pages <= total_alloc
    /\ page_frame_min + total_alloc <= page_frame_max

\* Frame 0 becomes a page table only when it is the answer "out of frames".
ZeroTableLast == \A d \in DOMAIN page_dir : page_dir[d] = 0 => free_frames = {}

\* The size an owner asked for fits in its block.
LiveFits == \A b \in DOMAIN live : live[b] <= size[b]

IInv == /\ TypeOK
        /\ CallOK
        /\ FreeIsSuffix
        /\ PagesCounted
        /\ FramesExclusive
        /\ ZeroTableLast
        /\ BlocksDisjoint
        /\ BelowBreakMapped
        /\ OwnedOrFree
        /\ LiveFits

LEMMA InitIInv == Init => IInv
<1> SUFFICES ASSUME Init PROVE IInv
  OBVIOUS
<1> USE DEF Init, InitMemory
<1>1. TypeOK
  BY ConstantTypes, KernelBelowTop DEF TypeOK, MemTypeOK, Frames
<1>2. CallOK
  BY DEF CallOK
<1>3. FreeIsSuffix
  BY KernelBelowTop DEF FreeIsSuffix, Frames
<1>4. PagesCounted
  BY KernelBelowTop DEF PagesCounted
<1>5. FramesExclusive
  BY DEF FramesExclusive
<1>6. BlocksDisjoint
  BY DEF BlocksDisjoint
<1>7. BelowBreakMapped
  BY ConstantTypes DEF BelowBreakMapped, mapped_bytes
<1>8. OwnedOrFree
  BY DEF OwnedOrFree
<1>9. LiveFits
  BY DEF LiveFits
<1>10. ZeroTableLast
  BY DEF ZeroTableLast
<1> QED BY <1>1, <1>2, <1>3, <1>4, <1>5, <1>6, <1>7, <1>8, <1>9, <1>10 DEF IInv

-----------------------------------------------------------------------------
(* The frame allocator's steps *)

\* First fit (memory.c:41-52) on a run of free frames answers the lowest.
LEMMA FirstFrame ==
  ASSUME NEW lo \in Nat, NEW hi \in Nat, lo < hi
  PROVE  /\ pmm_alloc_page_frame(lo..(hi - 1)) = {lo}
         /\ (lo..(hi - 1)) \ {lo} = (lo + 1)..(hi - 1)
<1>1. lo \in lo..(hi - 1) /\ \A g \in lo..(hi - 1) : lo <= g
  OBVIOUS
<1>2. \A f \in lo..(hi - 1) : (\A g \in lo..(hi - 1) : f <= g) => f = lo
  BY <1>1
<1> QED BY <1>1, <1>2 DEF pmm_alloc_page_frame

\* Frames already in use lie below the free ones.
LEMMA UsedBelow ==
  ASSUME IInv
  PROVE  /\ \A p \in DOMAIN page_table : page_table[p] < page_frame_min + total_alloc
         /\ \A d \in DOMAIN page_dir : page_dir[d] < page_frame_min + total_alloc
BY KernelBelowTop
   DEF IInv, TypeOK, MemTypeOK, Frames, FreeIsSuffix, FramesExclusive, PagesCounted

\* The memory half of the invariant, and what the heap relies on.
MemInv == MemTypeOK /\ FreeIsSuffix /\ PagesCounted /\ FramesExclusive /\ ZeroTableLast

AllMapped == \A p \in 0..(mapped_pages - 1) :
               p \in DOMAIN page_table /\ p \div PT_ENTRIES \in DOMAIN page_dir

LEMMA PageIndex ==
  ASSUME NEW p \in Nat
  PROVE  p \div PT_ENTRIES \in Nat
BY ConstantTypes

LEMMA MapNextMem ==
  ASSUME IInv, MapNext
  PROVE  MemInv' /\ AllMapped' /\ mapped_pages' = mapped_pages + 1
<1> DEFINE lo == page_frame_min + total_alloc
           hi == page_frame_max
           pd == mapped_pages \div PT_ENTRIES
<1>1. /\ lo \in Nat \ {0} /\ hi \in Nat /\ mapped_pages \in Nat /\ total_alloc \in Nat
      /\ page_frame_min \in Nat \ {0}
      /\ lo <= hi /\ mapped_pages <= total_alloc
      /\ free_frames = lo..(hi - 1)
      /\ DOMAIN page_table = 0..(mapped_pages - 1)
  BY KernelBelowTop DEF IInv, TypeOK, MemTypeOK, PagesCounted, FreeIsSuffix
<1>2. pd \in Nat
  BY <1>1, PageIndex
<1>3. PICK f \in pmm_alloc_page_frame(free_frames) :
        f # 0 /\ mem_map_page(mapped_pages, f, free_frames \ {f})
  BY DEF MapNext, MapPage
<1>4. lo < hi
  <2>1. ASSUME lo = hi PROVE FALSE
    <3>1. free_frames = {}
      BY <1>1, <2>1
    <3> QED BY <1>3, <3>1 DEF pmm_alloc_page_frame
  <2> QED BY <1>1, <2>1
<1>5. f = lo /\ free_frames \ {f} = (lo + 1)..(hi - 1)
  BY <1>1, <1>3, <1>4, FirstFrame
<1>6. mapped_pages' = mapped_pages + 1
  BY DEF MapNext
<1>7. /\ MemTypeOK /\ FramesExclusive
      /\ \A p \in DOMAIN page_table : page_table[p] < lo
      /\ \A d \in DOMAIN page_dir : page_dir[d] < lo
      /\ \A p \in 0..(mapped_pages - 1) : p \div PT_ENTRIES \in DOMAIN page_dir
  BY UsedBelow DEF IInv, TypeOK, BelowBreakMapped
<1>8. lo \in Frames /\ lo + 1 \in Nat
  BY <1>1, <1>4, KernelBelowTop DEF Frames
<1>11. /\ \A p \in 0..(mapped_pages - 1) : page_table[p] \in Nat \ {0}
       /\ \A d \in DOMAIN page_dir : page_dir[d] \in Nat \ {0}
  <2>1. lo \in free_frames
    BY <1>1, <1>4
  <2>2. ZeroTableLast
    BY DEF IInv
  <2>3. \A d \in DOMAIN page_dir : page_dir[d] # 0
    BY <2>1, <2>2 DEF ZeroTableLast
  <2>4. Frames \subseteq Nat \ {0}
    BY <1>1 DEF Frames
  <2>5. /\ \A p \in DOMAIN page_table : page_table[p] \in Frames
        /\ \A d \in DOMAIN page_dir : page_dir[d] \in Frames \cup {0}
    BY <1>7 DEF MemTypeOK
  <2> QED BY <2>3, <2>4, <2>5, <1>1
<1>12. /\ \A p, q \in 0..(mapped_pages - 1) : p # q => page_table[p] # page_table[q]
       /\ \A d, e \in DOMAIN page_dir : d # e => page_dir[d] # page_dir[e]
       /\ \A p \in 0..(mapped_pages - 1), d \in DOMAIN page_dir :
            page_table[p] # page_dir[d]
  BY <1>1, <1>7 DEF FramesExclusive
<1>13. /\ \A p \in 0..(mapped_pages - 1) : page_table[p] < lo
       /\ \A d \in DOMAIN page_dir : page_dir[d] < lo
  BY <1>1, <1>7
<1> HIDE DEF lo, hi, pd
<1>9. CASE pd \in DOMAIN page_dir
  <2>1. /\ page_table' = With(page_table, mapped_pages, lo)
        /\ free_frames' = (lo + 1)..(hi - 1)
        /\ total_alloc' = total_alloc + 1
        /\ page_dir' = page_dir
    BY <1>3, <1>5, <1>9 DEF mem_map_page, pd
  <2>2. DOMAIN page_table' = 0..mapped_pages
    BY <2>1, <1>1 DEF With
  <2>3. \A p \in 0..mapped_pages :
          page_table'[p] = IF p = mapped_pages THEN lo ELSE page_table[p]
    BY <2>1, <1>1 DEF With
  <2>4. MemTypeOK'
    <3>1. (lo + 1)..(hi - 1) \subseteq Frames
      BY <1>1 DEF Frames, lo, hi
    <3> QED BY <3>1, <2>1, <2>2, <2>3, <1>1, <1>7, <1>8 DEF MemTypeOK
  <2>5. FreeIsSuffix'
    BY <2>1, <1>1 DEF FreeIsSuffix, lo, hi
  <2>6. PagesCounted'
    BY <2>1, <2>2, <1>1, <1>4, <1>6 DEF PagesCounted, lo, hi
  <2>7. FramesExclusive'
    <3>1. \A p, q \in 0..mapped_pages : p # q => page_table'[p] # page_table'[q]
      BY <2>3, <1>1, <1>11, <1>12, <1>13
    <3>2. \A p \in 0..mapped_pages, d \in DOMAIN page_dir : page_table'[p] # page_dir[d]
      BY <2>3, <1>1, <1>11, <1>12, <1>13
    <3>3. /\ \A p \in 0..mapped_pages : page_table'[p] \notin free_frames'
          /\ \A d \in DOMAIN page_dir : page_dir[d] \notin free_frames'
      BY <2>1, <2>3, <1>1, <1>11, <1>13
    <3> QED BY <3>1, <3>2, <3>3, <2>1, <2>2, <1>12 DEF FramesExclusive
  <2>8. AllMapped'
    BY <2>1, <2>2, <1>1, <1>6, <1>7, <1>9 DEF AllMapped, pd
  <2>9. ZeroTableLast'
    BY <2>1, <1>11 DEF ZeroTableLast
  <2> QED BY <2>4, <2>5, <2>6, <2>7, <2>8, <2>9, <1>6 DEF MemInv
<1>10. CASE pd \notin DOMAIN page_dir
  <2>1. PICK t \in pmm_alloc_page_frame((lo + 1)..(hi - 1)) :
          /\ page_dir' = With(page_dir, pd, t)
          /\ page_table' = With([q \in {r \in DOMAIN page_table : r \div PT_ENTRIES # pd}
                                   |-> page_table[q]], mapped_pages, lo)
          /\ free_frames' = ((lo + 1)..(hi - 1)) \ {t}
          /\ total_alloc' = total_alloc + (IF (lo + 1)..(hi - 1) = {} THEN 1 ELSE 2)
    BY <1>3, <1>5, <1>10 DEF mem_map_page, pd
  <2>2. {r \in DOMAIN page_table : r \div PT_ENTRIES # pd} = 0..(mapped_pages - 1)
    BY <1>1, <1>7, <1>10
  <2>3. /\ DOMAIN page_table' = 0..mapped_pages
        /\ \A p \in 0..mapped_pages :
             page_table'[p] = IF p = mapped_pages THEN lo ELSE page_table[p]
    <3> DEFINE g == [q \in 0..(mapped_pages - 1) |-> page_table[q]]
    <3>1. page_table' = With(g, mapped_pages, lo)
      BY <2>1, <2>2
    <3>2. /\ DOMAIN page_table' = {mapped_pages} \cup DOMAIN g
          /\ \A p \in {mapped_pages} \cup DOMAIN g :
               page_table'[p] = IF p = mapped_pages THEN lo ELSE g[p]
      BY <3>1 DEF With
    <3>3. /\ DOMAIN g = 0..(mapped_pages - 1)
          /\ \A p \in 0..(mapped_pages - 1) : g[p] = page_table[p]
      OBVIOUS
    <3> HIDE DEF g
    <3> QED BY <3>2, <3>3, <1>1
  <2>4. /\ DOMAIN page_dir' = DOMAIN page_dir \cup {pd}
        /\ \A d \in DOMAIN page_dir \cup {pd} :
             page_dir'[d] = IF d = pd THEN t ELSE page_dir[d]
    BY <2>1 DEF With
  <2>5. \/ /\ t = lo + 1 /\ lo + 1 < hi
           /\ free_frames' = (lo + 2)..(hi - 1)
           /\ total_alloc' = total_alloc + 2
        \/ /\ t = 0 /\ lo + 1 = hi
           /\ free_frames' = {}
           /\ total_alloc' = total_alloc + 1
    <3>1. CASE lo + 1 < hi
      <4>1. (lo + 1)..(hi - 1) # {}
        <5>1. lo + 1 \in (lo + 1)..(hi - 1)
          BY <3>1, <1>1, <1>8
        <5> QED BY <5>1
      <4>2. t = lo + 1 /\ ((lo + 1)..(hi - 1)) \ {t} = (lo + 2)..(hi - 1)
        <5> DEFINE l == lo + 1
        <5>0. l \in Nat /\ l < hi
          BY <3>1, <1>1
        <5> HIDE DEF l
        <5>1. /\ pmm_alloc_page_frame(l..(hi - 1)) = {l}
              /\ (l..(hi - 1)) \ {l} = (l + 1)..(hi - 1)
          BY <5>0, <1>1, FirstFrame
        <5>2. l = lo + 1 /\ l + 1 = lo + 2
          BY <1>1 DEF l
        <5> QED BY <5>1, <5>2, <2>1
      <4> QED BY <2>1, <3>1, <4>1, <4>2
    <3>2. CASE lo + 1 = hi
      <4>1. (lo + 1)..(hi - 1) = {}
        BY <3>2, <1>1
      <4> QED BY <2>1, <3>2, <4>1 DEF pmm_alloc_page_frame
    <3> QED BY <3>1, <3>2, <1>1, <1>4
  <2>6. MemTypeOK'
    <3>1. t \in Frames \cup {0}
      BY <2>5, <1>1, <1>8 DEF Frames, lo, hi
    <3>2. free_frames' \subseteq Frames
      BY <2>5, <1>1 DEF Frames, lo, hi
    <3>3. total_alloc' \in Nat
      BY <2>5, <1>1
    <3> QED BY <3>1, <3>2, <3>3, <2>3, <2>4, <1>1, <1>2, <1>7, <1>8 DEF MemTypeOK
  <2>7. FreeIsSuffix'
    <3>1. CASE free_frames' = (lo + 2)..(hi - 1) /\ total_alloc' = total_alloc + 2
      <4>1. lo + 2 = page_frame_min + (total_alloc + 2)
        BY <1>1 DEF lo
      <4> QED BY <3>1, <4>1 DEF FreeIsSuffix, hi
    <3>2. CASE free_frames' = {} /\ lo + 1 = hi /\ total_alloc' = total_alloc + 1
      <4>1. page_frame_min + (total_alloc + 1) = page_frame_max
        BY <3>2, <1>1 DEF lo, hi
      <4> QED BY <3>2, <4>1, <1>1 DEF FreeIsSuffix
    <3> QED BY <3>1, <3>2, <2>5
  <2>8. PagesCounted'
    BY <2>3, <2>5, <1>1, <1>4, <1>6 DEF PagesCounted, lo, hi
  <2>9. FramesExclusive'
    <3>1. t \in {lo + 1, 0} /\ \A q \in free_frames' : q >= lo + 1 /\ q # t
      BY <2>5, <1>1
    <3>2. \A p, q \in 0..mapped_pages : p # q => page_table'[p] # page_table'[q]
      BY <2>3, <1>1, <1>11, <1>12, <1>13
    <3>3. \A d, e \in DOMAIN page_dir' : d # e => page_dir'[d] # page_dir'[e]
      BY <3>1, <2>4, <1>1, <1>11, <1>12, <1>13
    <3>4. \A p \in 0..mapped_pages, d \in DOMAIN page_dir' : page_table'[p] # page_dir'[d]
      <4>1. ASSUME NEW p \in 0..mapped_pages, NEW d \in DOMAIN page_dir
            PROVE page_table'[p] # page_dir[d]
        BY <2>3, <1>1, <1>11, <1>12, <1>13
      <4>2. ASSUME NEW p \in 0..mapped_pages
            PROVE page_table'[p] # t
        BY <3>1, <2>3, <1>1, <1>11, <1>13
      <4> QED BY <4>1, <4>2, <2>4
    <3>5. /\ \A p \in 0..mapped_pages : page_table'[p] \notin free_frames'
          /\ \A d \in DOMAIN page_dir' : page_dir'[d] \notin free_frames'
      <4>1. \A q \in free_frames' : q \in Nat /\ q > lo /\ q # t
        BY <2>5, <1>1
      <4>2. \A p \in 0..mapped_pages : page_table'[p] \notin free_frames'
        BY <4>1, <2>3, <1>1, <1>11, <1>13
      <4>3. \A d \in DOMAIN page_dir : page_dir[d] \notin free_frames'
        BY <4>1, <1>1, <1>11, <1>13
      <4> QED BY <4>1, <4>2, <4>3, <2>4
    <3> QED BY <3>2, <3>3, <3>4, <3>5, <2>3 DEF FramesExclusive
  <2>10. AllMapped'
    BY <2>3, <2>4, <1>1, <1>6, <1>7 DEF AllMapped, pd
  <2>11. ZeroTableLast'
    BY <2>4, <2>5, <1>1, <1>11 DEF ZeroTableLast
  <2> QED BY <2>6, <2>7, <2>8, <2>9, <2>10, <2>11, <1>6 DEF MemInv
<1> QED BY <1>9, <1>10

-----------------------------------------------------------------------------
(* The heap's steps *)

\* The block half of the invariant: untouched while pages are mapped.
BlockTypeOK ==
    /\ brk_offset \in Nat
    /\ DOMAIN size \subseteq Nat
    /\ \A b \in DOMAIN size : size[b] \in Nat
    /\ free_list \in Seq(DOMAIN size)
    /\ DOMAIN live \subseteq DOMAIN size
    /\ \A b \in DOMAIN live : live[b] \in Nat

BlockInv == BlockTypeOK /\ BlocksDisjoint /\ OwnedOrFree /\ LiveFits

CallTypeOK == pc \in {"init", "idle", "kmalloc"} /\ mapped_pages \in Nat /\ CallOK

LEMMA InvParts ==
  IInv <=> /\ MemInv /\ AllMapped /\ CallTypeOK /\ BlockInv
           /\ brk_offset <= mapped_bytes
<1>1. CallOK => req \in Nat
  BY ConstantTypes DEF CallOK
<1> QED BY <1>1 DEF IInv, TypeOK, MemInv, AllMapped, CallTypeOK, BlockInv, BlockTypeOK, BelowBreakMapped

LEMMA InvPartsNext ==
  ASSUME MemInv', AllMapped', CallTypeOK', BlockInv', (brk_offset <= mapped_bytes)'
  PROVE  IInv'
<1>1. req' \in Nat
  BY ConstantTypes DEF CallTypeOK, CallOK
<1> QED BY <1>1 DEF IInv, TypeOK, MemInv, AllMapped, CallTypeOK, BlockInv, BlockTypeOK, BelowBreakMapped

\* mapped_bytes never exceeds the window the frames of the machine fill.
LEMMA MappedBound ==
  ASSUME MemInv, CallTypeOK
  PROVE  /\ mapped_bytes \in Nat
         /\ mapped_pages <= HEAP_PAGES
         /\ mapped_bytes <= HEAP_PAGES * PAGE_SIZE
<1>1. mapped_pages \in Nat /\ mapped_pages <= HEAP_PAGES
  BY KernelBelowTop, RamFitsWindow, ConstantTypes DEF MemInv, PagesCounted, CallTypeOK, MemTypeOK
<1>2. PAGE_SIZE \in Nat \ {0} /\ HEAP_PAGES \in Nat
  BY ConstantTypes
<1>3. mapped_pages * PAGE_SIZE <= HEAP_PAGES * PAGE_SIZE
  BY <1>1, <1>2
<1> QED BY <1>1, <1>2, <1>3 DEF mapped_bytes

LEMMA MappedBoundNext ==
  ASSUME MemInv', CallTypeOK'
  PROVE  mapped_pages' \in Nat /\ mapped_pages' <= HEAP_PAGES
<1>1. /\ mapped_pages' \in Nat /\ total_alloc' \in Nat
      /\ mapped_pages' <= total_alloc'
      /\ page_frame_min + total_alloc' <= page_frame_max
  BY DEF MemInv, PagesCounted, CallTypeOK, MemTypeOK
<1>2. ASSUME NEW m \in Nat, NEW t \in Nat,
             m <= t, page_frame_min + t <= page_frame_max
      PROVE m <= HEAP_PAGES
  BY <1>2, KernelBelowTop, RamFitsWindow, ConstantTypes
<1> QED BY <1>1, <1>2

\* kmalloc's start, end and need for a call that does not wrap around.
LEMMA Sizes ==
  ASSUME IInv, pc = "kmalloc"
  PROVE  /\ start \in Nat /\ brk_offset <= start
         /\ need \in Nat /\ req <= need
         /\ end = start + header_size + need
         /\ end <= want
<1>1. req \in Requests /\ req \in Nat
  BY ConstantTypes DEF IInv, CallOK
<1>2. brk_offset \in Nat /\ brk_offset <= HEAP_PAGES * PAGE_SIZE
  <2>1. /\ MemInv /\ CallTypeOK /\ brk_offset \in Nat
        /\ brk_offset <= mapped_bytes
    BY InvParts DEF BlockInv, BlockTypeOK
  <2>2. /\ mapped_bytes \in Nat /\ HEAP_PAGES * PAGE_SIZE \in Nat
        /\ mapped_bytes <= HEAP_PAGES * PAGE_SIZE
    BY <2>1, MappedBound, ConstantTypes
  <2> QED BY <2>1, <2>2
<1>3. HEAP_PAGES * PAGE_SIZE \in Nat
  BY ConstantTypes
<1> DEFINE top == HEAP_PAGES * PAGE_SIZE
<1>4. top \in Nat /\ top + req + SIZEOF_BLOCK + 3 * ALIGN + PAGE_SIZE <= WORD
  BY <1>1, <1>3, NoWrap
<1> HIDE DEF top
<1>5. brk_offset <= top
  BY <1>2 DEF top
<1>6. /\ start \in Nat /\ brk_offset <= start /\ start <= brk_offset + ALIGN - 1
  <2>1. brk_offset + ALIGN - 1 < WORD
    BY <1>1, <1>2, <1>4, <1>5, ConstantTypes
  <2> QED BY <2>1, <1>2, AlignUp, ConstantTypes DEF start
<1>7. need \in Nat /\ req <= need /\ need <= req + ALIGN - 1
  BY <1>1, Payload DEF need
<1> DEFINE e == start + header_size + need
<1>8. e \in Nat /\ e + PAGE_SIZE - 1 < WORD /\ e < WORD
  BY <1>1, <1>2, <1>4, <1>5, <1>6, <1>7, Header, ConstantTypes
<1>9. end = e
  BY <1>8, ConstantTypes DEF end
<1> HIDE DEF e
<1>10. want = align_up(e, PAGE_SIZE)
  BY <1>9 DEF want
<1>11. e <= align_up(e, PAGE_SIZE)
  BY <1>8, AlignUp, ConstantTypes
<1> QED BY <1>6, <1>7, <1>9, <1>10, <1>11 DEF e

LEMMA MapNextIInv == IInv /\ MapNext => IInv'
<1> SUFFICES ASSUME IInv, MapNext PROVE IInv'
  OBVIOUS
<1>1. MemInv' /\ AllMapped' /\ mapped_pages' = mapped_pages + 1
  BY MapNextMem
<1>2. CallTypeOK'
  BY <1>1, InvParts DEF MapNext, CallTypeOK, CallOK
<1>3. BlockInv'
  BY InvParts DEF MapNext, BlockInv, BlockTypeOK, BlocksDisjoint, BlockEnd, OwnedOrFree, LiveFits
<1>4. brk_offset' <= mapped_bytes'
  <2>1. /\ mapped_pages \in Nat /\ PAGE_SIZE \in Nat /\ brk_offset \in Nat
        /\ brk_offset <= mapped_pages * PAGE_SIZE
    BY ConstantTypes, InvParts DEF CallTypeOK, BlockInv, BlockTypeOK, mapped_bytes
  <2>2. mapped_pages * PAGE_SIZE <= (mapped_pages + 1) * PAGE_SIZE
    BY <2>1
  <2>3. /\ mapped_pages * PAGE_SIZE \in Nat /\ (mapped_pages + 1) * PAGE_SIZE \in Nat
    BY <2>1
  <2>4. brk_offset <= (mapped_pages + 1) * PAGE_SIZE
    BY <2>1, <2>2, <2>3
  <2> QED BY <1>1, <2>4 DEF MapNext, mapped_bytes
<1> QED BY <1>1, <1>2, <1>3, <1>4, InvPartsNext

\* A step that leaves the memory, the pages and the break alone.
LEMMA MemUnchanged ==
  ASSUME IInv, UNCHANGED <<memVars, mapped_pages>>
  PROVE  MemInv' /\ AllMapped' /\ mapped_bytes' = mapped_bytes
BY InvParts DEF memVars, MemInv, MemTypeOK, FreeIsSuffix, PagesCounted, FramesExclusive,
                ZeroTableLast, AllMapped, mapped_bytes

LEMMA BlocksUnchanged ==
  ASSUME IInv, UNCHANGED <<memVars, mapped_pages, brk_offset, size, free_list, live>>, CallTypeOK'
  PROVE  IInv'
<1>1. BlockInv'
  BY InvParts DEF BlockInv, BlockTypeOK, BlocksDisjoint, BlockEnd, OwnedOrFree, LiveFits
<1>2. (brk_offset <= mapped_bytes)'
  BY MemUnchanged, InvParts
<1> QED BY <1>1, <1>2, MemUnchanged, InvPartsNext

LEMMA ReuseIInv ==
  ASSUME IInv, NEW n \in Requests, KmallocReuse(n)
  PROVE  IInv'
<1>1. BlockTypeOK /\ BlocksDisjoint /\ OwnedOrFree /\ LiveFits
  BY InvParts DEF BlockInv
<1>2. PICK i \in FirstFit(align_up(n, ALIGN)) :
        /\ free_list' = RemoveAt(free_list, i)
        /\ live' = With(live, free_list[i], n)
  BY DEF KmallocReuse
<1>3. UNCHANGED <<memVars, pc, req, mapped_pages, brk_offset, size>>
  BY DEF KmallocReuse
<1>4. i \in DOMAIN free_list /\ size[free_list[i]] >= align_up(n, ALIGN)
  BY DEF FirstFit
<1>5. DOMAIN free_list = 1..Len(free_list) /\ Len(free_list) \in Nat
  BY <1>1, LenProperties DEF BlockTypeOK
<1> DEFINE b == free_list[i]
<1>6. b \in DOMAIN size
  BY <1>1, <1>4, ElementOfSeq DEF BlockTypeOK
<1>7. /\ free_list' \in Seq(DOMAIN size)
      /\ Len(free_list') = Len(free_list) - 1
      /\ \A j \in 1..(Len(free_list) - 1) :
           free_list'[j] = IF j < i THEN free_list[j] ELSE free_list[j + 1]
  BY <1>1, <1>2, <1>4, RemoveAtElements DEF BlockTypeOK
<1>8. DOMAIN free_list' = 1..(Len(free_list) - 1)
  BY <1>5, <1>7, LenProperties
<1>9. /\ DOMAIN live' = DOMAIN live \cup {b}
      /\ \A c \in DOMAIN live' : live'[c] = IF c = b THEN n ELSE live[c]
  BY <1>2 DEF With
<1>10. n \in Nat /\ n <= size[b]
  <2>1. n \in Nat /\ align_up(n, ALIGN) \in Nat /\ n <= align_up(n, ALIGN)
    BY Payload, ConstantTypes
  <2>2. size[b] \in Nat
    BY <1>1, <1>6 DEF BlockTypeOK
  <2> QED BY <2>1, <2>2, <1>4
<1>11. \A k, l \in DOMAIN free_list : k # l => free_list[k] # free_list[l]
  BY <1>1 DEF OwnedOrFree
<1> HIDE DEF b
<1>12. BlockTypeOK'
  BY <1>1, <1>3, <1>6, <1>7, <1>9, <1>10 DEF BlockTypeOK
<1>13. BlocksDisjoint'
  BY <1>1, <1>3 DEF BlocksDisjoint, BlockEnd
<1>14. OwnedOrFree'
  <2>1. \A k, l \in DOMAIN free_list' : k # l => free_list'[k] # free_list'[l]
    <3>1. \A k \in DOMAIN free_list' :
            free_list'[k] = free_list[IF k < i THEN k ELSE k + 1]
      BY <1>7, <1>8
    <3>2. \A k \in DOMAIN free_list' :
            (IF k < i THEN k ELSE k + 1) \in DOMAIN free_list
      BY <1>4, <1>5, <1>8
    <3>3. \A k, l \in DOMAIN free_list' :
            k # l => (IF k < i THEN k ELSE k + 1) # (IF l < i THEN l ELSE l + 1)
      BY <1>4, <1>5, <1>8
    <3> QED BY <3>1, <3>2, <3>3, <1>11
  <2>2. ASSUME NEW c \in DOMAIN size
        PROVE (\A k \in DOMAIN free_list' : free_list'[k] # c)
                <=> c = b \/ \A k \in DOMAIN free_list : free_list[k] # c
    <3>1. ASSUME NEW k \in DOMAIN free_list, k # i
          PROVE \E j \in DOMAIN free_list' : free_list'[j] = free_list[k]
      <4>1. CASE k < i
        <5>1. k \in DOMAIN free_list' /\ free_list'[k] = free_list[k]
          BY <4>1, <1>4, <1>5, <1>7, <1>8
        <5> QED BY <5>1
      <4>2. CASE k > i
        <5>1. k - 1 \in DOMAIN free_list' /\ ~(k - 1 < i) /\ k - 1 + 1 = k
          BY <4>2, <1>4, <1>5, <1>8
        <5>2. free_list'[k - 1] = free_list[k]
          BY <5>1, <1>7, <1>8
        <5> QED BY <5>1, <5>2
      <4> QED BY <3>1, <4>1, <4>2, <1>4, <1>5
    <3>2. ASSUME NEW j \in DOMAIN free_list'
          PROVE \E k \in DOMAIN free_list : k # i /\ free_list'[j] = free_list[k]
      <4>1. CASE j < i
        <5>1. j \in DOMAIN free_list /\ j # i /\ free_list'[j] = free_list[j]
          BY <4>1, <1>4, <1>5, <1>7, <1>8
        <5> QED BY <5>1
      <4>2. CASE ~(j < i)
        <5>1. j + 1 \in DOMAIN free_list /\ j + 1 # i /\ free_list'[j] = free_list[j + 1]
          BY <4>2, <1>4, <1>5, <1>7, <1>8
        <5> QED BY <5>1
      <4> QED BY <4>1, <4>2
    <3> QED BY <3>1, <3>2, <1>4, <1>11 DEF b
  <2>3. \A c \in DOMAIN size :
          c \in DOMAIN live <=> \A k \in DOMAIN free_list : free_list[k] # c
    BY <1>1 DEF OwnedOrFree
  <2>4. \A c \in DOMAIN size :
          c \in DOMAIN live' <=> \A k \in DOMAIN free_list' : free_list'[k] # c
    BY <2>2, <2>3, <1>9
  <2> QED BY <2>1, <2>4, <1>3 DEF OwnedOrFree
<1>15. LiveFits'
  BY <1>1, <1>3, <1>9, <1>10 DEF LiveFits
<1>16. CallTypeOK'
  BY <1>3, InvParts DEF CallTypeOK, CallOK
<1>17. MemInv' /\ AllMapped' /\ (brk_offset <= mapped_bytes)'
  BY <1>3, MemUnchanged, InvParts
<1> QED BY <1>12, <1>13, <1>14, <1>15, <1>16, <1>17, InvPartsNext DEF BlockInv

LEMMA CommitIInv ==
  ASSUME IInv, KmallocCommit
  PROVE  IInv' /\ start \notin DOMAIN size
<1>1. BlockTypeOK /\ BlocksDisjoint /\ OwnedOrFree /\ LiveFits
  BY InvParts DEF BlockInv
<1>2. /\ mapped_bytes >= want
      /\ size' = With(size, start, need)
      /\ live' = With(live, start, req)
      /\ brk_offset' = end
      /\ pc' = "idle"
      /\ UNCHANGED <<memVars, req, mapped_pages, free_list>>
  BY DEF KmallocCommit
<1>3. /\ start \in Nat /\ brk_offset <= start
      /\ need \in Nat /\ req <= need
      /\ end = start + header_size + need
      /\ end <= want
  BY Sizes DEF KmallocCommit
<1>4. /\ header_size \in Nat \ {0} /\ end \in Nat /\ brk_offset \in Nat
      /\ req \in Nat
  BY <1>1, <1>3, Header DEF BlockTypeOK, IInv, TypeOK
<1>5. /\ DOMAIN size' = DOMAIN size \cup {start}
      /\ \A b \in DOMAIN size' : size'[b] = IF b = start THEN need ELSE size[b]
      /\ DOMAIN live' = DOMAIN live \cup {start}
      /\ \A b \in DOMAIN live' : live'[b] = IF b = start THEN req ELSE live[b]
  BY <1>2 DEF With
<1>6. \A b \in DOMAIN size : /\ b \in Nat /\ size[b] \in Nat
                              /\ b + header_size + size[b] <= brk_offset
                              /\ b < start
  BY <1>1, <1>3, <1>4 DEF BlockTypeOK, BlocksDisjoint, BlockEnd
<1>7. start \notin DOMAIN size
  BY <1>3, <1>6
<1>8. \A j \in DOMAIN free_list : free_list[j] \in DOMAIN size
  BY <1>1, ElementOfSeq, LenProperties DEF BlockTypeOK
<1>9. BlockTypeOK'
  <2>1. free_list' \in Seq(DOMAIN size')
    BY <1>1, <1>2, <1>5, SeqMonotonic DEF BlockTypeOK
  <2> QED BY <2>1, <1>1, <1>2, <1>3, <1>4, <1>5 DEF BlockTypeOK
<1> DEFINE h == header_size
<1>10. BlocksDisjoint'
  <2>1. ASSUME NEW b \in DOMAIN size', NEW c \in DOMAIN size', b < c
        PROVE b + header_size + size'[b] <= c
    <3>1. b # start
      BY <2>1, <1>3, <1>5, <1>6
    <3>2. b \in DOMAIN size /\ size'[b] = size[b]
      BY <3>1, <1>5
    <3>3. CASE c = start
      BY <3>2, <3>3, <1>3, <1>4, <1>6
    <3>4. CASE c # start
      BY <3>2, <3>4, <2>1, <1>1, <1>5 DEF BlocksDisjoint, BlockEnd
    <3> QED BY <3>3, <3>4
  <2>2. ASSUME NEW b \in DOMAIN size'
        PROVE b + header_size + size'[b] <= brk_offset'
    BY <2>2, <1>2, <1>3, <1>4, <1>5, <1>6
  <2> QED BY <2>1, <2>2 DEF BlocksDisjoint, BlockEnd
<1>11. OwnedOrFree'
  BY <1>1, <1>2, <1>5, <1>7, <1>8 DEF OwnedOrFree
<1>12. LiveFits'
  BY <1>1, <1>3, <1>5, <1>7 DEF LiveFits, BlockTypeOK
<1>13. CallTypeOK'
  BY <1>2, InvParts DEF CallTypeOK, CallOK
<1>14. (brk_offset <= mapped_bytes)'
  <2>1. mapped_bytes' = mapped_bytes /\ mapped_bytes \in Nat
    BY <1>2, InvParts, MappedBound, MemUnchanged
  <2>2. want \in Nat
    BY <1>4, AlignUpNat, ConstantTypes DEF want, KmallocCommit
  <2> QED BY <2>1, <2>2, <1>2, <1>3, <1>4
<1> QED BY <1>2, <1>7, <1>9, <1>10, <1>11, <1>12, <1>13, <1>14, MemUnchanged, InvPartsNext
        DEF BlockInv

LEMMA KfreeIInv ==
  ASSUME IInv, NEW b \in DOMAIN live, Kfree(b)
  PROVE  IInv'
<1>1. BlockTypeOK /\ BlocksDisjoint /\ OwnedOrFree /\ LiveFits
  BY InvParts DEF BlockInv
<1>2. /\ free_list' = <<b>> \o free_list
      /\ live' = [c \in DOMAIN live \ {b} |-> live[c]]
      /\ UNCHANGED <<memVars, pc, req, mapped_pages, brk_offset, size>>
  BY DEF Kfree
<1>3. b \in DOMAIN size /\ \A j \in DOMAIN free_list : free_list[j] # b
  BY <1>1 DEF BlockTypeOK, OwnedOrFree
<1>4. free_list \in Seq(DOMAIN size) /\ <<b>> \in Seq(DOMAIN size) /\ Len(<<b>>) = 1
  BY <1>1, <1>3 DEF BlockTypeOK
<1>5. Len(free_list) \in Nat /\ DOMAIN free_list = 1..Len(free_list)
  BY <1>4, LenProperties
<1>6. /\ free_list' \in Seq(DOMAIN size)
      /\ Len(free_list') = 1 + Len(free_list)
      /\ \A j \in 1..(1 + Len(free_list)) :
           free_list'[j] = IF j <= 1 THEN <<b>>[j] ELSE free_list[j - 1]
  BY <1>2, <1>4, ConcatProperties
<1>7. DOMAIN free_list' = 1..(1 + Len(free_list))
  BY <1>5, <1>6, LenProperties
<1>8. \A j \in DOMAIN free_list' :
        free_list'[j] = IF j = 1 THEN b ELSE free_list[j - 1]
  BY <1>5, <1>6, <1>7
<1>9. \A j \in DOMAIN free_list' : j # 1 => j - 1 \in DOMAIN free_list
  BY <1>5, <1>7
<1>10. BlockTypeOK'
  BY <1>1, <1>2, <1>6 DEF BlockTypeOK
<1>11. BlocksDisjoint'
  BY <1>1, <1>2 DEF BlocksDisjoint, BlockEnd
<1>12. OwnedOrFree'
  <2>1. ASSUME NEW j \in DOMAIN free_list', NEW k \in DOMAIN free_list', j # k
        PROVE free_list'[j] # free_list'[k]
    <3>1. CASE j = 1 \/ k = 1
      BY <3>1, <2>1, <1>3, <1>8, <1>9
    <3>2. CASE j # 1 /\ k # 1
      <4>1. j - 1 # k - 1 /\ j - 1 \in DOMAIN free_list /\ k - 1 \in DOMAIN free_list
        BY <3>2, <2>1, <1>5, <1>7, <1>9
      <4> QED BY <4>1, <3>2, <1>1, <1>8 DEF OwnedOrFree
    <3> QED BY <3>1, <3>2
  <2>2. ASSUME NEW c \in DOMAIN size
        PROVE (\A j \in DOMAIN free_list' : free_list'[j] # c)
                <=> c # b /\ \A j \in DOMAIN free_list : free_list[j] # c
    <3>1. \A j \in DOMAIN free_list :
            j + 1 \in DOMAIN free_list' /\ free_list'[j + 1] = free_list[j]
      <4>1. ASSUME NEW j \in DOMAIN free_list
            PROVE j + 1 \in DOMAIN free_list' /\ free_list'[j + 1] = free_list[j]
        <5> DEFINE k == j + 1
        <5>1. k \in DOMAIN free_list' /\ k # 1 /\ k - 1 = j
          BY <1>5, <1>7
        <5> HIDE DEF k
        <5>2. free_list'[k] = free_list[j]
          BY <5>1, <1>8
        <5> QED BY <5>1, <5>2 DEF k
      <4> QED BY <4>1
    <3>2. 1 \in DOMAIN free_list' /\ free_list'[1] = b
      BY <1>5, <1>7, <1>8
    <3> QED BY <3>1, <3>2, <1>8, <1>9
  <2>3. \A c \in DOMAIN size :
          c \in DOMAIN live' <=> \A j \in DOMAIN free_list' : free_list'[j] # c
    BY <2>2, <1>1, <1>2 DEF OwnedOrFree
  <2> QED BY <2>1, <2>3, <1>2 DEF OwnedOrFree
<1>13. LiveFits'
  BY <1>1, <1>2 DEF LiveFits
<1>14. CallTypeOK'
  BY <1>2, InvParts DEF CallTypeOK, CallOK
<1>15. MemInv' /\ AllMapped' /\ (brk_offset <= mapped_bytes)'
  BY <1>2, MemUnchanged, InvParts
<1> QED BY <1>10, <1>11, <1>12, <1>13, <1>14, <1>15, InvPartsNext DEF BlockInv

LEMMA NextIInv == IInv /\ [Next]_vars => IInv'
<1> SUFFICES ASSUME IInv, [Next]_vars PROVE IInv'
  OBVIOUS
<1> CallTypeOK
  BY InvParts
<1>1. CASE MapNext
  BY <1>1, MapNextIInv
<1>2. CASE MapFail
  BY <1>2, BlocksUnchanged DEF MapFail, CallTypeOK, CallOK
<1>3. CASE InitDone
  BY <1>3, BlocksUnchanged DEF InitDone, CallTypeOK, CallOK
<1>4. CASE \E n \in Requests : KmallocReuse(n)
  BY <1>4, ReuseIInv
<1>5. CASE \E n \in Requests : KmallocBump(n)
  BY <1>5, BlocksUnchanged DEF KmallocBump, CallTypeOK, CallOK
<1>6. CASE KmallocCommit
  BY <1>6, CommitIInv
<1>7. CASE \E b \in DOMAIN live : Kfree(b)
  BY <1>7, KfreeIInv
<1>8. CASE UNCHANGED vars
  BY <1>8, BlocksUnchanged DEF vars, heapVars, CallTypeOK, CallOK
<1> QED BY <1>1, <1>2, <1>3, <1>4, <1>5, <1>6, <1>7, <1>8 DEF Next

-----------------------------------------------------------------------------
(* The theorems *)

\* The invariant holds throughout: kmalloc, kfree and the mapping keep the
\* heap well formed on every machine of HeapSized.
THEOREM Invariance == Spec => []IInv
<1>1. Init => IInv
  BY InitIInv
<1>2. IInv /\ [Next]_vars => IInv'
  BY NextIInv
<1> QED BY <1>1, <1>2, PTL DEF Spec

\* Every variable keeps its type.
THEOREM TypeCorrect == Spec => []TypeOK
<1>1. IInv => TypeOK
  BY DEF IInv
<1> QED BY <1>1, Invariance, PTL

\* No frame serves two pages, two tables, or a page and a table, and none of
\* them is still free (memory.c:41-116).
THEOREM FrameOwnership == Spec => []FramesExclusive
<1>1. IInv => FramesExclusive
  BY DEF IInv
<1> QED BY <1>1, Invariance, PTL

\* kmalloc never carves a block out of another one (kmalloc.c:96-109).
THEOREM Disjointness == Spec => []BlocksDisjoint
<1>1. IInv => BlocksDisjoint
  BY DEF IInv
<1> QED BY <1>1, Invariance, PTL

\* Everything below the break is mapped (kmalloc.c:36-62).
THEOREM Mapping == Spec => []BelowBreakMapped
<1>1. IInv => BelowBreakMapped
  BY DEF IInv
<1> QED BY <1>1, Invariance, PTL

\* A block has one owner or is on the free list exactly once (kmalloc.c:86-119).
THEOREM Ownership == Spec => []OwnedOrFree
<1>1. IInv => OwnedOrFree
  BY DEF IInv
<1> QED BY <1>1, Invariance, PTL

\* Whoever holds a block has all the bytes it asked for, mapped.
THEOREM Serves == Spec => []KmallocServes
<1>1. IInv => KmallocServes
  <2> SUFFICES ASSUME IInv, NEW b \in DOMAIN live
               PROVE /\ live[b] <= size[b]
                     /\ b + header_size + live[b] <= mapped_bytes
    BY DEF KmallocServes
  <2>1. /\ b \in DOMAIN size /\ b \in Nat /\ size[b] \in Nat /\ live[b] \in Nat
        /\ live[b] <= size[b] /\ brk_offset \in Nat
        /\ b + header_size + size[b] <= brk_offset
    BY DEF IInv, TypeOK, LiveFits, BlocksDisjoint, BlockEnd
  <2>2. brk_offset <= mapped_bytes /\ mapped_bytes \in Nat
    BY InvParts, MappedBound
  <2> QED BY <2>1, <2>2, Header
<1> QED BY <1>1, Invariance, PTL

\* A byte below the end of the mapped pages lies in one of them.
LEMMA PageOfByte ==
  ASSUME NEW x \in Nat, NEW m \in Nat, x < m * PAGE_SIZE
  PROVE  x \div PAGE_SIZE \in 0..(m - 1)
<1>1. PAGE_SIZE \in Nat \ {0}  BY ConstantTypes
<1> DEFINE q == x \div PAGE_SIZE
<1>2. q \in Nat /\ PAGE_SIZE * q <= x  BY <1>1
<1> HIDE DEF q
<1> DEFINE below == PAGE_SIZE * q
           top   == m * PAGE_SIZE
<1>3. top \in Nat /\ below \in Nat /\ below <= x /\ x < top  BY <1>1, <1>2
<1>4. q >= m => below >= PAGE_SIZE * m  BY <1>1, <1>2
<1>5. PAGE_SIZE * m = top  BY <1>1
<1> HIDE DEF below, top
<1>6. ~(q >= m)  BY <1>3, <1>4, <1>5
<1> QED BY <1>2, <1>6 DEF q

\* All the bytes of a block, header included, are in mapped pages.
THEOREM BlockMapping == Spec => []BlocksMapped
<1>1. IInv => BlocksMapped
  <2> SUFFICES ASSUME IInv, NEW b \in DOMAIN size, NEW p \in PagesOf(b)
               PROVE  p \in DOMAIN page_table /\ p \div PT_ENTRIES \in DOMAIN page_dir
    BY DEF BlocksMapped
  <2> DEFINE last == BlockEnd(b) - 1
  <2>1. b \in Nat /\ size[b] \in Nat /\ BlockEnd(b) <= brk_offset /\ brk_offset \in Nat
    BY DEF IInv, TypeOK, BlocksDisjoint
  <2>2. BlockEnd(b) = b + header_size + size[b] /\ header_size \in Nat \ {0}
    BY Header DEF BlockEnd
  <2>3. last \in Nat /\ b <= last /\ last < brk_offset  BY <2>1, <2>2
  <2>4. mapped_pages \in Nat /\ brk_offset <= mapped_pages * PAGE_SIZE
    BY DEF IInv, TypeOK, BelowBreakMapped, mapped_bytes
  <2>5. last < mapped_pages * PAGE_SIZE /\ b < mapped_pages * PAGE_SIZE
    <3>1. mapped_pages * PAGE_SIZE \in Nat  BY <2>4, ConstantTypes
    <3> HIDE DEF last
    <3> QED BY <2>1, <2>3, <2>4, <3>1
  <2>6. /\ b \div PAGE_SIZE \in 0..(mapped_pages - 1)
        /\ last \div PAGE_SIZE \in 0..(mapped_pages - 1)
    BY <2>1, <2>3, <2>4, <2>5, PageOfByte
  <2>7. p \in (b \div PAGE_SIZE)..(last \div PAGE_SIZE)  BY DEF PagesOf
  <2> HIDE DEF last
  <2>8. p \in 0..(mapped_pages - 1)  BY <2>4, <2>6, <2>7
  <2> QED BY <2>8 DEF IInv, BelowBreakMapped
<1> QED BY <1>1, Invariance, PTL

\* pmm_get_stats reports the number of free frames (memory.c:142-156).
THEOREM Stats == Spec => []StatsCountFrames
<1>1. IInv => StatsCountFrames
  <2> SUFFICES ASSUME IInv PROVE StatsCountFrames
    OBVIOUS
  <2> DEFINE lo == page_frame_min + total_alloc
  <2>1. /\ page_frame_min \in Nat /\ page_frame_max \in Nat /\ total_alloc \in Nat
        /\ lo \in Nat /\ lo <= page_frame_max
        /\ free_frames = lo..(page_frame_max - 1)
    BY KernelBelowTop DEF IInv, TypeOK, MemTypeOK, FreeIsSuffix, PagesCounted
  <2>2. Cardinality(free_frames) = page_frame_max - lo
    <3>1. CASE lo <= page_frame_max - 1
      <4>1. Cardinality(lo..(page_frame_max - 1)) = page_frame_max - 1 - lo + 1
        BY <2>1, <3>1, FS_Interval
      <4> QED BY <2>1, <4>1
    <3>2. CASE lo = page_frame_max
      <4>1. lo..(page_frame_max - 1) = {}
        BY <2>1, <3>2
      <4> QED BY <2>1, <3>2, <4>1, FS_EmptySet
    <3> QED BY <2>1, <3>1, <3>2
  <2>3. /\ page_frame_max - page_frame_min \in 0..(WORD - 1)
        /\ page_frame_max - page_frame_min - total_alloc \in 0..(WORD - 1)
    BY <2>1, RamFitsWindow, ConstantTypes
  <2>4. total_frames_usable = page_frame_max - page_frame_min
    BY <2>3, ConstantTypes DEF total_frames_usable
  <2>5. free_frames_usable = page_frame_max - page_frame_min - total_alloc
    BY <2>3, <2>4, ConstantTypes DEF free_frames_usable
  <2> QED BY <2>1, <2>2, <2>5 DEF StatsCountFrames
<1> QED BY <1>1, Invariance, PTL

\* Each frame has one use, and those pmm_get_stats reports as free have none
\* (memory.c:41-156).
THEOREM FramesAreSound == Spec => []FramesSound
<1>1. FramesExclusive /\ StatsCountFrames => FramesSound
  BY DEF FramesSound
<1> QED BY <1>1, FrameOwnership, Stats, PTL

\* Blocks are apart, owned or free, and as long as asked (kmalloc.c:79-119).
THEOREM BlocksAreSound == Spec => []BlocksSound
<1>1. BlocksDisjoint /\ OwnedOrFree /\ KmallocServes => BlocksSound
  BY DEF BlocksSound
<1> QED BY <1>1, Disjointness, Ownership, Serves, PTL

\* The heap is mapped up to the break, and so is each byte of every block, owned
\* or free, also after frames ran out in the middle (kmalloc.c:36-54, 96-109).
THEOREM HeapIsMapped == Spec => []HeapMapped
<1>1. BelowBreakMapped /\ BlocksMapped => HeapMapped
  BY DEF HeapMapped
<1> QED BY <1>1, Mapping, BlockMapping, PTL

\* kmalloc answers NULL only when the last frame is gone, and the heap is then
\* as it was (kmalloc.c:100-103).
THEOREM NullOnlyWhenOut == Spec => FailsOnlyWhenOut
<1>1. IInv /\ [Next]_vars =>
        [(pc = "kmalloc" /\ pc' = "idle" /\ live' = live) =>
           free_frames = {} /\ UNCHANGED <<size, free_list, brk_offset>>]_vars
  <2> SUFFICES ASSUME IInv, Next, pc = "kmalloc", pc' = "idle", live' = live
               PROVE free_frames = {} /\ UNCHANGED <<size, free_list, brk_offset>>
    OBVIOUS
  <2>1. CASE KmallocCommit
    <3>1. start \notin DOMAIN live
      BY <2>1, CommitIInv DEF IInv, TypeOK
    <3>2. start \in DOMAIN live'
      BY <2>1 DEF KmallocCommit, With
    <3> QED BY <3>1, <3>2
  <2>2. CASE MapFail
    BY <2>2 DEF MapFail
  <2> QED BY <2>1, <2>2 DEF Next, MapNext, InitDone, KmallocReuse, KmallocBump, Kfree
<1> QED BY <1>1, Invariance, PTL DEF Spec, FailsOnlyWhenOut

\* A block handed out is a region the abstract allocator may grant.
LEMMA GrantIsAlloc ==
  ASSUME IInv, IInv', NEW b \in DOMAIN size', NEW n \in Requests, n # 0,
         b \notin DOMAIN live, live' = With(live, b, n), n <= size'[b],
         \A c \in DOMAIN live : size'[c] = size[c]
  PROVE  A!Alloc(n)
<1> DEFINE h == header_size
           Arena == HEAP_PAGES * PAGE_SIZE
           len == size'[b]
<1>1. h \in Nat \ {0} /\ Arena \in Nat /\ n \in Nat
  BY Header, ConstantTypes
<1>2. /\ b \in Nat /\ len \in Nat /\ n <= len
      /\ b + h + len <= brk_offset'
  BY DEF IInv, TypeOK, BlocksDisjoint, BlockEnd
<1>3. brk_offset' \in Nat /\ brk_offset' <= Arena
  <2>1. mapped_pages' \in Nat /\ mapped_pages' <= HEAP_PAGES
    <3>1. MemInv' /\ CallTypeOK'
      BY DEF IInv, TypeOK, MemInv, CallTypeOK
    <3> QED BY <3>1, MappedBoundNext
  <2>2. mapped_pages' * PAGE_SIZE <= Arena /\ mapped_pages' * PAGE_SIZE \in Nat
    BY <2>1, ConstantTypes
  <2>3. brk_offset' \in Nat /\ brk_offset' <= mapped_pages' * PAGE_SIZE
    BY DEF IInv, TypeOK, BelowBreakMapped, mapped_bytes
  <2> QED BY <2>2, <2>3, <1>1
<1>4. b + h \in 0..(Arena - 1) /\ len \in n..(Arena - (b + h))
  BY <1>1, <1>2, <1>3
<1>5. ASSUME NEW p \in DOMAIN Regions
      PROVE A!Disjoint(b + h, len, p, Regions[p])
  <2>1. PICK c \in DOMAIN live : p = c + h
    BY DEF Regions
  <2>2. /\ c \in DOMAIN size /\ c \in Nat /\ size[c] \in Nat /\ p - h = c
        /\ c \in DOMAIN size' /\ c # b /\ size'[c] = size[c]
    BY <2>1, <1>1 DEF IInv, TypeOK, With
  <2>3. Regions[p] = size[c]
    BY <2>1, <2>2 DEF Regions
  <2>4. CASE c < b
    <3>1. c + h + size[c] <= b
      BY <2>2, <2>4 DEF IInv, BlocksDisjoint, BlockEnd
    <3> QED BY <3>1, <2>1, <2>2, <2>3, <1>1, <1>2 DEF A!Disjoint
  <2>5. CASE b < c
    <3>1. b + h + len <= c
      BY <2>2, <2>5 DEF IInv, BlocksDisjoint, BlockEnd
    <3> QED BY <3>1, <2>1, <2>2, <2>3, <1>1, <1>2 DEF A!Disjoint
  <2> QED BY <2>2, <2>4, <2>5, <1>2
<1>6. Regions' = A!With(Regions, b + h, len)
  <2>1. DOMAIN live' = DOMAIN live \cup {b}
    BY DEF With
  <2>2. DOMAIN live \subseteq Nat
    BY DEF IInv, TypeOK
  <2>3. Regions' = [p \in {c + h : c \in DOMAIN live \cup {b}} |-> size'[p - h]]
    BY <2>1 DEF Regions
  <2>4. {c + h : c \in DOMAIN live \cup {b}} = DOMAIN Regions \cup {b + h}
    BY DEF Regions
  <2>5. ASSUME NEW p \in DOMAIN Regions \cup {b + h}
        PROVE size'[p - h] = IF p = b + h THEN len ELSE Regions[p]
    <3>1. CASE p = b + h
      BY <3>1, <1>1, <1>2
    <3>2. CASE p # b + h
      <4>1. PICK c \in DOMAIN live : p = c + h
        BY <3>2 DEF Regions
      <4>2. p - h = c /\ Regions[p] = size[p - h]
        BY <4>1, <2>2, <1>1 DEF Regions
      <4> QED BY <3>2, <4>1, <4>2
    <3> QED BY <3>1, <3>2
  <2> QED BY <2>3, <2>4, <2>5 DEF A!With
<1> QED BY <1>4, <1>5, <1>6 DEF A!Alloc

LEMMA StepRefines == IInv /\ IInv' /\ [Next]_vars => [A!Next]_Regions
<1> SUFFICES ASSUME IInv, IInv', [Next]_vars
             PROVE  A!Next \/ Regions' = Regions
  OBVIOUS
<1>1. CASE MapNext \/ MapFail \/ InitDone \/ (\E n \in Requests : KmallocBump(n)) \/ UNCHANGED vars
  BY <1>1 DEF MapNext, MapFail, InitDone, KmallocBump, vars, heapVars, Regions
<1>2. ASSUME NEW n \in Requests, KmallocReuse(n)
      PROVE A!Alloc(n)
  <2>1. PICK i \in FirstFit(align_up(n, ALIGN)) : live' = With(live, free_list[i], n)
    BY <1>2 DEF KmallocReuse
  <2>2. n # 0 /\ UNCHANGED size
    BY <1>2 DEF KmallocReuse
  <2>3. i \in DOMAIN free_list /\ size[free_list[i]] >= align_up(n, ALIGN)
    BY DEF FirstFit
  <2>4. free_list[i] \in DOMAIN size /\ free_list[i] \notin DOMAIN live
    BY <2>3, ElementOfSeq, LenProperties DEF IInv, TypeOK, OwnedOrFree
  <2>5. n <= size[free_list[i]]
    <3>1. n \in Nat /\ align_up(n, ALIGN) \in Nat /\ n <= align_up(n, ALIGN)
      BY Payload, ConstantTypes
    <3>2. size[free_list[i]] \in Nat
      BY <2>4 DEF IInv, TypeOK
    <3> QED BY <3>1, <3>2, <2>3
  <2> QED BY <2>1, <2>2, <2>4, <2>5, GrantIsAlloc
<1>3. ASSUME KmallocCommit
      PROVE req \in Requests /\ A!Alloc(req)
  <2>1. /\ start \notin DOMAIN size /\ pc = "kmalloc"
        /\ size' = With(size, start, need) /\ live' = With(live, start, req)
    BY <1>3, CommitIInv DEF KmallocCommit
  <2>2. req \in Requests /\ req # 0
    BY <2>1 DEF IInv, CallOK
  <2>3. req <= need
    BY <2>1, Sizes
  <2>4. /\ start \in DOMAIN size' /\ size'[start] = need
        /\ \A c \in DOMAIN size : size'[c] = size[c]
    BY <2>1 DEF With
  <2>5. DOMAIN live \subseteq DOMAIN size
    BY DEF IInv, TypeOK
  <2> QED BY <2>1, <2>2, <2>3, <2>4, <2>5, GrantIsAlloc
<1>4. ASSUME NEW b \in DOMAIN live, Kfree(b)
      PROVE b + header_size \in DOMAIN Regions /\ A!Release(b + header_size)
  <2> DEFINE h == header_size
  <2>1. live' = [c \in DOMAIN live \ {b} |-> live[c]] /\ UNCHANGED size
    BY <1>4 DEF Kfree
  <2>2. DOMAIN live \subseteq Nat /\ h \in Nat
    BY Header DEF IInv, TypeOK
  <2>3. {c + h : c \in DOMAIN live \ {b}} = {c + h : c \in DOMAIN live} \ {b + h}
    BY <2>2
  <2>4. Regions' = [p \in {c + h : c \in DOMAIN live \ {b}} |-> size[p - h]]
    BY <2>1 DEF Regions
  <2>5. b + h \in DOMAIN Regions
    BY DEF Regions
  <2> QED BY <2>3, <2>4, <2>5 DEF A!Release, Regions
<1> QED BY <1>1, <1>2, <1>3, <1>4 DEF Next, A!Next

\* The heap implements the abstract allocator: blocks handed out are regions
\* granted, and only kfree takes one back.
THEOREM Refinement == Spec => ImplementsAllocator
<1>1. Init => A!Init
  BY DEF Init, A!Init, Regions
<1>2. IInv /\ IInv' /\ [Next]_vars => [A!Next]_Regions
  BY StepRefines
<1> QED BY <1>1, <1>2, Invariance, PTL DEF Spec, ImplementsAllocator, A!Spec

-----------------------------------------------------------------------------
(***************************************************************************)
(* The descriptor table.                                                   *)
(***************************************************************************)
\* The descriptors of table t that name file f.
Slots(t, f) == {fd \in Fds : t[fd] = f}

\* What a slot that names v counts for file f.
Ref(v, f) == IF v = f THEN 1 ELSE 0

\* Who is counted when slot i of a table is overwritten: the file it named
\* loses one descriptor and the file it names now gains one.
LEMMA Overwrite ==
  ASSUME NEW t \in [Fds -> Files \cup {NULL}], NEW i \in Fds,
         NEW v \in Files \cup {NULL}, NEW f \in Files,
         NEW u, u = [t EXCEPT ![i] = v]
  PROVE  /\ Cardinality(Slots(t, f)) \in Nat
         /\ Cardinality(Slots(u, f)) =
              Cardinality(Slots(t, f)) - Ref(t[i], f)
                                       + Ref(v, f)
<1> DEFINE S == Slots(t, f)
           T == Slots(u, f)
<1>1. IsFiniteSet(Fds)
  BY FdAssumption, FS_Interval DEF Fds
<1>2. IsFiniteSet(S) /\ Cardinality(S) \in Nat
  BY <1>1, FS_Subset, FS_CardinalityType DEF Slots
<1>3. \/ t[i] = f /\ v = f /\ T = S
      \/ t[i] # f /\ v # f /\ T = S
      \/ t[i] = f /\ v # f /\ T = S \ {i} /\ i \in S
      \/ t[i] # f /\ v = f /\ T = S \cup {i} /\ i \notin S
  BY DEF Slots
<1> HIDE DEF S, T
<1>4. /\ i \in S => Cardinality(S \ {i}) = Cardinality(S) - 1
      /\ i \notin S => Cardinality(S \cup {i}) = Cardinality(S) + 1
  BY <1>2, FS_RemoveElement, FS_AddElement
<1>5. Cardinality(T) = Cardinality(S) - Ref(t[i], f)
                                      + Ref(v, f)
  <2> DEFINE m == Cardinality(S)
             n == Cardinality(T)
  <2>1. m \in Nat
    BY <1>2
  <2>2. \/ t[i] = f /\ v = f /\ n = m
        \/ t[i] # f /\ v # f /\ n = m
        \/ t[i] = f /\ v # f /\ n = m - 1
        \/ t[i] # f /\ v = f /\ n = m + 1
    BY <1>3, <1>4
  <2> HIDE DEF m, n
  <2>3. n = m - Ref(t[i], f) + Ref(v, f)
    BY <2>1, <2>2 DEF Ref
  <2> QED BY <2>3 DEF m, n
<1> QED BY <1>2, <1>5 DEF S, T

\* A file has descriptors exactly when their number is positive.
LEMMA Referenced ==
  ASSUME NEW t \in [Fds -> Files \cup {NULL}], NEW f \in Files
  PROVE  /\ Cardinality(Slots(t, f)) \in Nat
         /\ Cardinality(Slots(t, f)) = 0 <=> Slots(t, f) = {}
<1>1. IsFiniteSet(Fds)
  BY FdAssumption, FS_Interval DEF Fds
<1>2. IsFiniteSet(Slots(t, f))
  BY <1>1, FS_Subset DEF Slots
<1> QED BY <1>2, FS_CardinalityType, FS_EmptySet

\* Until dev_tty_install_std has run the table is empty.
EmptyBeforeBoot ==
    ~booted => /\ \A fd \in Fds : g_fds[fd] = NULL
               /\ \A f \in Files : refcnt[f] = 0
               /\ open = {}

Counts == \A f \in Files : refcnt[f] = Cardinality(Slots(g_fds, f))

Reachable == \A f \in open : Slots(g_fds, f) # {}

FdIInv == FdTypeOK /\ EmptyBeforeBoot /\ Counts /\ Reachable

LEMMA InitFdIInv == FdInit => FdIInv
<1> SUFFICES ASSUME FdInit PROVE FdIInv
  OBVIOUS
<1>1. FdTypeOK /\ EmptyBeforeBoot /\ Reachable
  BY DEF FdInit, FdTypeOK, EmptyBeforeBoot, Reachable
<1>2. ASSUME NEW f \in Files PROVE refcnt[f] = Cardinality(Slots(g_fds, f))
  <2>1. Slots(g_fds, f) = {}
    BY FdAssumption DEF FdInit, Slots
  <2> QED BY <2>1, FS_EmptySet DEF FdInit
<1> QED BY <1>1, <1>2 DEF FdIInv, Counts

LEMMA InstallIInv ==
  ASSUME FdIInv, NEW f \in Files, fd_install(f)
  PROVE  FdIInv'
<1>1. PICK i \in FirstFree(g_fds) : g_fds' = [g_fds EXCEPT ![i] = f]
  BY DEF fd_install
<1>2. /\ i \in Fds /\ g_fds[i] = NULL
      /\ \A j \in Fds : g_fds[j] # f
      /\ refcnt' = [refcnt EXCEPT ![f] = 1]
      /\ open' = open \cup {f} /\ booted /\ booted' = booted
      /\ g_fds \in [Fds -> Files \cup {NULL}] /\ refcnt \in [Files -> Nat]
  BY DEF fd_install, FirstFree, FdIInv, FdTypeOK
<1>3. refcnt[f] = 0
  <2>1. Slots(g_fds, f) = {}
    BY <1>2 DEF Slots
  <2> QED BY <2>1, <1>2, Referenced DEF FdIInv, Counts
<1>4. Counts'
  <2> SUFFICES ASSUME NEW h \in Files
               PROVE refcnt'[h] = Cardinality(Slots(g_fds', h))
    BY DEF Counts, Slots
  <2>1. Cardinality(Slots(g_fds', h)) = refcnt[h] + Ref(h, f)
    <3>1. g_fds[i] # h /\ f \in Files \cup {NULL}
      BY <1>2, FdAssumption
    <3>2. refcnt[h] = Cardinality(Slots(g_fds, h)) /\ refcnt[h] \in Nat
      BY <1>2 DEF FdIInv, Counts
    <3>6. g_fds \in [Fds -> Files \cup {NULL}] /\ i \in Fds
      BY <1>2
    <3>3. Cardinality(Slots(g_fds', h)) =
            Cardinality(Slots(g_fds, h)) - Ref(g_fds[i], h)
                                         + Ref(f, h)
      BY <3>6, <3>1, <1>1, Overwrite
    <3> DEFINE c == Cardinality(Slots(g_fds', h))
    <3>4. c = refcnt[h] - 0 + Ref(f, h)
      BY <3>1, <3>2, <3>3 DEF Ref
    <3> HIDE DEF c
    <3>5. c = refcnt[h] + Ref(h, f)
      BY <3>2, <3>4 DEF Ref
    <3> QED BY <3>5 DEF c
  <2> QED BY <2>1, <1>2, <1>3 DEF Ref
<1>5. Reachable'
  <2>1. \A h \in open : Slots(g_fds', h) # {}
    BY <1>1, <1>2, FdAssumption DEF FdIInv, Reachable, Slots, FdTypeOK
  <2>2. Slots(g_fds', f) # {}
    BY <1>1, <1>2 DEF Slots
  <2> QED BY <2>1, <2>2, <1>2 DEF Reachable, Slots
<1> QED BY <1>1, <1>2, <1>4, <1>5 DEF FdIInv, FdTypeOK, EmptyBeforeBoot

\* Overwrite, of the table itself.
LEMMA OverwriteNow ==
  ASSUME g_fds \in [Fds -> Files \cup {NULL}], NEW i \in Fds,
         NEW v \in Files \cup {NULL}, g_fds' = [g_fds EXCEPT ![i] = v],
         NEW h \in Files
  PROVE  Cardinality(Slots(g_fds', h)) =
           Cardinality(Slots(g_fds, h)) - Ref(g_fds[i], h) + Ref(v, h)
BY Overwrite

\* fd_close and the closing half of dup2: slot i gives up file g, then takes v.
LEMMA ReplaceIInv ==
  ASSUME FdIInv, booted, NEW i \in Fds, NEW v \in Files \cup {NULL},
         g_fds' = [g_fds EXCEPT ![i] = v],
         refcnt' \in [Files -> Nat], booted' = booted,
         \A h \in Files :
           refcnt'[h] = refcnt[h] - Ref(g_fds[i], h)
                                  + Ref(v, h),
         open' \subseteq open,
         \A h \in open : g_fds[i] = h /\ v # h /\ refcnt[h] = 1 => h \notin open'
  PROVE  FdIInv'
<1>1. /\ g_fds \in [Fds -> Files \cup {NULL}] /\ refcnt \in [Files -> Nat]
      /\ open \subseteq Files
  BY DEF FdIInv, FdTypeOK
<1>2. Counts'
  <2> SUFFICES ASSUME NEW h \in Files
               PROVE refcnt'[h] = Cardinality(Slots(g_fds', h))
    BY DEF Counts, Slots
  <2>1. refcnt[h] = Cardinality(Slots(g_fds, h))
    BY DEF FdIInv, Counts
  <2>2. Cardinality(Slots(g_fds', h)) =
          Cardinality(Slots(g_fds, h)) - Ref(g_fds[i], h)
                                       + Ref(v, h)
    BY <1>1, OverwriteNow
  <2> QED BY <2>1, <2>2
<1>3. FdTypeOK'
  BY <1>1 DEF FdTypeOK, FdIInv
<1>4. Reachable'
  <2> SUFFICES ASSUME NEW h \in open' PROVE Slots(g_fds', h) # {}
    BY DEF Reachable, Slots
  <2>1. h \in open /\ h \in Files
    BY <1>1
  <2>2. refcnt[h] \in Nat /\ refcnt[h] # 0
    BY <1>1, <2>1, Referenced DEF FdIInv, Counts, Reachable
  <2>3. refcnt'[h] = Cardinality(Slots(g_fds', h)) /\ refcnt'[h] \in Nat
    BY <1>2, <2>1 DEF Counts, Slots
  <2>4. refcnt'[h] # 0
    BY <2>1, <2>2 DEF Ref
  <2>5. g_fds' \in [Fds -> Files \cup {NULL}]
    BY <1>3 DEF FdTypeOK
  <2> QED BY <2>1, <2>3, <2>4, <2>5, Referenced
<1> QED BY <1>2, <1>3, <1>4 DEF FdIInv, EmptyBeforeBoot

\* A slot in use names a file with a positive count.
LEMMA InUse ==
  ASSUME FdIInv, NEW i \in Fds, g_fds[i] # NULL
  PROVE  g_fds[i] \in Files /\ refcnt[g_fds[i]] \in Nat \ {0}
<1>1. /\ g_fds \in [Fds -> Files \cup {NULL}] /\ refcnt \in [Files -> Nat]
      /\ g_fds[i] \in Files
  BY DEF FdIInv, FdTypeOK
<1>2. Slots(g_fds, g_fds[i]) # {}
  BY DEF Slots
<1>3. refcnt[g_fds[i]] = Cardinality(Slots(g_fds, g_fds[i]))
  BY <1>1 DEF FdIInv, Counts
<1> QED BY <1>1, <1>2, <1>3, Referenced

LEMMA InstallStdIInv ==
  ASSUME FdIInv, dev_tty_install_std
  PROVE  FdIInv'
<1>1. PICK i \in FirstFree(g_fds) :
        \E j \in FirstFree([g_fds EXCEPT ![i] = tty_in]) :
          g_fds' = [g_fds EXCEPT ![i] = tty_in, ![j] = tty_out]
  BY DEF dev_tty_install_std
<1>2. PICK j \in FirstFree([g_fds EXCEPT ![i] = tty_in]) :
        g_fds' = [g_fds EXCEPT ![i] = tty_in, ![j] = tty_out]
  BY <1>1
<1>3. /\ tty_in \in Files /\ tty_out \in Files /\ tty_in # tty_out
      /\ NULL \notin Files
  BY FdAssumption
<1>4. /\ g_fds \in [Fds -> Files \cup {NULL}] /\ refcnt \in [Files -> Nat]
      /\ \A fd \in Fds : g_fds[fd] = NULL
      /\ \A f \in Files : refcnt[f] = 0
      /\ open = {} /\ booted'
      /\ open' = {tty_in, tty_out}
      /\ refcnt' = [refcnt EXCEPT ![tty_in] = 1, ![tty_out] = 1]
  BY DEF dev_tty_install_std, FdIInv, FdTypeOK, EmptyBeforeBoot
<1>5. i \in Fds /\ j \in Fds /\ i # j
  BY <1>3, <1>4 DEF FirstFree
<1>6. /\ Slots(g_fds', tty_in) = {i} /\ Slots(g_fds', tty_out) = {j}
      /\ \A f \in Files \ {tty_in, tty_out} : Slots(g_fds', f) = {}
  BY <1>2, <1>3, <1>4, <1>5 DEF Slots
<1>7. Counts'
  <2> SUFFICES ASSUME NEW f \in Files
               PROVE refcnt'[f] = Cardinality(Slots(g_fds', f))
    BY DEF Counts, Slots
  <2>1. Cardinality({i}) = 1 /\ Cardinality({j}) = 1 /\ Cardinality({}) = 0
    BY FS_Singleton, FS_EmptySet
  <2>2. CASE f \in {tty_in, tty_out}
    BY <2>2, <2>1, <1>3, <1>4, <1>6
  <2>3. CASE f \notin {tty_in, tty_out}
    BY <2>3, <2>1, <1>3, <1>4, <1>6
  <2> QED BY <2>2, <2>3
<1>8. Reachable'
  BY <1>4, <1>6 DEF Reachable, Slots
<1>9. FdTypeOK'
  BY <1>2, <1>3, <1>4, <1>5 DEF FdTypeOK
<1> QED BY <1>4, <1>7, <1>8, <1>9 DEF FdIInv, EmptyBeforeBoot

\* What closing a descriptor leaves of the counts: used for fd_close.
LEMMA CloseIInv ==
  ASSUME FdIInv, NEW fd \in AnyFd, fd_close(fd)
  PROVE  FdIInv'
<1>1. fd \in Fds /\ g_fds[fd] # NULL /\ fd_get(fd) = g_fds[fd]
  BY DEF fd_close, fd_get
<1> DEFINE f == g_fds[fd]
<1>2. f \in Files /\ refcnt[f] \in Nat \ {0}
  BY <1>1, InUse
<1>3. /\ booted /\ booted' = booted
      /\ g_fds' = [g_fds EXCEPT ![fd] = NULL]
      /\ open' = IF refcnt[f] = 1 THEN open \ {f} ELSE open
      /\ refcnt' = [refcnt EXCEPT ![f] = IF @ > 0 THEN @ - 1 ELSE @]
      /\ refcnt \in [Files -> Nat]
  BY <1>1 DEF fd_close, FdIInv, FdTypeOK
<1> HIDE DEF f
<1>4. refcnt' \in [Files -> Nat]
  BY <1>2, <1>3
<1>5. ASSUME NEW h \in Files
      PROVE refcnt'[h] = refcnt[h] - Ref(f, h) + Ref(NULL, h)
  BY <1>2, <1>3, FdAssumption DEF Ref
<1>6. \A h \in open : f = h /\ NULL # h /\ refcnt[h] = 1 => h \notin open'
  BY <1>3
<1>7. open' \subseteq open
  BY <1>3
<1> QED BY <1>1, <1>3, <1>4, <1>5, <1>6, <1>7, ReplaceIInv DEF f

LEMMA DupIInv ==
  ASSUME FdIInv, NEW fd \in AnyFd, dup(fd)
  PROVE  FdIInv'
<1>1. fd \in Fds /\ g_fds[fd] # NULL /\ fd_get(fd) = g_fds[fd]
  BY DEF dup, fd_get
<1> DEFINE f == g_fds[fd]
<1>2. f \in Files /\ refcnt[f] \in Nat \ {0}
  BY <1>1, InUse
<1>3. PICK i \in FirstFree(g_fds) : g_fds' = [g_fds EXCEPT ![i] = f]
  BY <1>1 DEF dup
<1>4. /\ booted /\ booted' = booted /\ open' = open
      /\ i \in Fds /\ g_fds[i] = NULL
      /\ refcnt' = [refcnt EXCEPT ![f] = @ + 1]
      /\ refcnt \in [Files -> Nat]
  BY <1>1 DEF dup, FirstFree, FdIInv, FdTypeOK
<1> HIDE DEF f
<1>5. refcnt' \in [Files -> Nat]
  BY <1>2, <1>4
<1>6. ASSUME NEW h \in Files
      PROVE refcnt'[h] = refcnt[h] - Ref(g_fds[i], h) + Ref(f, h)
  BY <1>2, <1>4, FdAssumption DEF Ref
<1>7. \A h \in open : g_fds[i] = h /\ f # h /\ refcnt[h] = 1 => h \notin open'
  BY <1>4, FdAssumption DEF FdIInv, FdTypeOK
<1>8. f \in Files \cup {NULL} /\ open' \subseteq open
  BY <1>2, <1>4
<1> QED BY <1>3, <1>4, <1>5, <1>6, <1>7, <1>8, ReplaceIInv

LEMMA Dup2IInv ==
  ASSUME FdIInv, NEW oldfd \in AnyFd, NEW newfd \in AnyFd, dup2(oldfd, newfd)
  PROVE  FdIInv'
<1>1. /\ oldfd \in Fds /\ newfd \in Fds /\ g_fds[oldfd] # NULL
      /\ fd_get(oldfd) = g_fds[oldfd] /\ fd_get(newfd) = g_fds[newfd]
  BY DEF dup2, fd_get
<1> DEFINE f == g_fds[oldfd]
           g == g_fds[newfd]
<1>2. f \in Files /\ refcnt[f] \in Nat \ {0}
  BY <1>1, InUse
<1>3. g # NULL => g \in Files /\ refcnt[g] \in Nat \ {0}
  BY <1>1, InUse
<1>4. /\ booted /\ booted' = booted
      /\ g_fds' = [g_fds EXCEPT ![newfd] = f]
      /\ open' = IF g # NULL /\ refcnt[g] = 1 THEN open \ {g} ELSE open
      /\ refcnt \in [Files -> Nat]
  BY <1>1 DEF dup2, FdIInv, FdTypeOK
<1>7. NULL \notin open
  BY FdAssumption DEF FdIInv, FdTypeOK
<1>5. CASE g = NULL
  <2>1. refcnt' = [refcnt EXCEPT ![f] = @ + 1]
    BY <1>1, <1>5 DEF dup2
  <2> HIDE DEF f, g
  <2>2. refcnt' \in [Files -> Nat]
    BY <2>1, <1>2, <1>4
  <2>3. ASSUME NEW h \in Files
        PROVE refcnt'[h] = refcnt[h] - Ref(g, h) + Ref(f, h)
    BY <2>1, <1>2, <1>4, <1>5, FdAssumption DEF Ref
  <2>4. /\ open' \subseteq open /\ f \in Files \cup {NULL}
        /\ \A h \in open : g = h /\ f # h /\ refcnt[h] = 1 => h \notin open'
    BY <1>2, <1>4, <1>7
  <2> QED BY <1>1, <1>4, <2>2, <2>3, <2>4, ReplaceIInv DEF g
<1>6. CASE g # NULL
  <2> DEFINE closed == [refcnt EXCEPT ![g] = IF @ > 0 THEN @ - 1 ELSE @]
  <2>1. refcnt' = [closed EXCEPT ![f] = @ + 1]
    BY <1>1, <1>6 DEF dup2
  <2> HIDE DEF f, g
  <2>2. refcnt' \in [Files -> Nat]
    BY <2>1, <1>2, <1>3, <1>4, <1>6
  <2>3. ASSUME NEW h \in Files
        PROVE refcnt'[h] = refcnt[h] - Ref(g, h) + Ref(f, h)
    BY <2>1, <1>2, <1>3, <1>4, <1>6 DEF Ref
  <2>4. /\ open' \subseteq open /\ f \in Files \cup {NULL}
        /\ \A h \in open : g = h /\ f # h /\ refcnt[h] = 1 => h \notin open'
    BY <1>2, <1>4, <1>7
  <2> QED BY <1>1, <1>4, <2>2, <2>3, <2>4, ReplaceIInv DEF g
<1> QED BY <1>5, <1>6

LEMMA NextFdIInv == FdIInv /\ [FdNext]_fdVars => FdIInv'
<1> SUFFICES ASSUME FdIInv, [FdNext]_fdVars PROVE FdIInv'
  OBVIOUS
<1>1. CASE dev_tty_install_std
  BY <1>1, InstallStdIInv
<1>2. CASE \E f \in Files : fd_install(f)
  BY <1>2, InstallIInv
<1>3. CASE \E fd \in AnyFd : fd_close(fd)
  BY <1>3, CloseIInv
<1>4. CASE \E fd \in AnyFd : dup(fd)
  BY <1>4, DupIInv
<1>5. CASE \E o, n \in AnyFd : dup2(o, n)
  BY <1>5, Dup2IInv
<1>6. CASE UNCHANGED fdVars
  BY <1>6 DEF fdVars, FdIInv, FdTypeOK, EmptyBeforeBoot, Counts, Reachable, Slots
<1> QED BY <1>1, <1>2, <1>3, <1>4, <1>5, <1>6 DEF FdNext

THEOREM FdInvariance == FdSpec => []FdIInv
BY InitFdIInv, NextFdIInv, PTL DEF FdSpec

\* The four variables keep their types.
THEOREM FdTypeCorrect == FdSpec => []FdTypeOK
<1>1. FdIInv => FdTypeOK
  BY DEF FdIInv
<1> QED BY FdInvariance, <1>1, PTL

LEMMA SlotsAreFds == ASSUME NEW f PROVE Slots(g_fds, f) = FdsOf(f)
BY DEF Slots, FdsOf

\* Counts of fd.c, dup.c and dup2.c: for every table size, every set of files
\* and every sequence of calls, refcnt is the number of descriptors.
THEOREM CountsExact == FdSpec => []RefcntCounts
<1>1. FdIInv => RefcntCounts
  BY SlotsAreFds DEF FdIInv, Counts, RefcntCounts
<1> QED BY FdInvariance, <1>1, PTL

\* A file not closed yet can still be reached through some descriptor.
THEOREM NoLeak == FdSpec => []OpenReachable
<1>1. FdIInv => OpenReachable
  BY SlotsAreFds DEF FdIInv, Reachable, OpenReachable
<1> QED BY FdInvariance, <1>1, PTL

\* Both, as the run checks them.
THEOREM CountsAreSound == FdSpec => []CountsSound
<1>1. RefcntCounts /\ OpenReachable => CountsSound
  BY DEF CountsSound
<1> QED BY <1>1, CountsExact, NoLeak, PTL

\* fd_close and dup2 run the close operation of a file only with its last
\* descriptor, or in a dup2(fd, fd) that leaves the table as it was.
THEOREM ClosedOnLast == FdSpec => CloseOnLast
<1> DEFINE Safe == \A f \in open \ open' : FdsOf(f)' = {} \/ g_fds' = g_fds
<1>1. ASSUME FdIInv, [FdNext]_fdVars, FdIInv' PROVE Safe
  <2>1. ASSUME NEW f \in open \ open', refcnt'[f] = 0 PROVE FdsOf(f)' = {}
    <3>1. f \in Files /\ g_fds' \in [Fds -> Files \cup {NULL}]
      BY <1>1 DEF FdIInv, FdTypeOK
    <3>2. Cardinality(Slots(g_fds', f)) = 0
      BY <1>1, <2>1, <3>1 DEF FdIInv, Counts, Slots
    <3>3. Slots(g_fds', f) = {}
      BY <3>1, <3>2, Referenced
    <3> QED BY <3>3 DEF Slots, FdsOf
  <2>2. ASSUME NEW fd \in AnyFd, fd_close(fd) PROVE Safe
    <3> SUFFICES ASSUME NEW f \in open \ open' PROVE refcnt'[f] = 0
      BY <2>1
    <3>1. f = fd_get(fd) /\ refcnt[f] = 1
      BY <2>2 DEF fd_close
    <3>2. f \in Files /\ refcnt \in [Files -> Nat]
      BY <1>1 DEF FdIInv, FdTypeOK
    <3> QED BY <2>2, <3>1, <3>2 DEF fd_close
  <2>3. ASSUME NEW o \in AnyFd, NEW n \in AnyFd, dup2(o, n) PROVE Safe
    <3> SUFFICES ASSUME NEW f \in open \ open', g_fds' # g_fds
                 PROVE refcnt'[f] = 0
      BY <2>1
    <3>1. /\ f = fd_get(n) /\ refcnt[f] = 1 /\ f # NULL
          /\ n \in Fds /\ f = g_fds[n]
      BY <2>3 DEF dup2, fd_get
    <3>2. f \in Files /\ refcnt \in [Files -> Nat] /\ g_fds \in [Fds -> Files \cup {NULL}]
      BY <1>1 DEF FdIInv, FdTypeOK
    <3>3. f # fd_get(o)
      BY <2>3, <3>1, <3>2 DEF dup2
    <3>4. refcnt'[f] = [refcnt EXCEPT ![f] = IF @ > 0 THEN @ - 1 ELSE @][f]
      BY <2>3, <3>1, <3>2, <3>3 DEF dup2
    <3> QED BY <3>1, <3>2, <3>4
  <2>4. CASE dev_tty_install_std
    BY <2>4 DEF dev_tty_install_std
  <2>5. CASE \E f \in Files : fd_install(f)
    BY <2>5 DEF fd_install
  <2>6. CASE \E fd \in AnyFd : dup(fd)
    BY <2>6 DEF dup
  <2>7. CASE UNCHANGED fdVars
    BY <2>7 DEF fdVars
  <2> QED BY <1>1, <2>2, <2>3, <2>4, <2>5, <2>6, <2>7 DEF FdNext
<1>2. FdIInv /\ FdIInv' /\ [FdNext]_fdVars => [Safe]_fdVars
  BY <1>1
<1> QED BY FdInvariance, <1>2, PTL DEF FdSpec, CloseOnLast
=============================================================================
