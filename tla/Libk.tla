-------------------------------- MODULE Libk --------------------------------
(***************************************************************************)
(* The kernel's C library: each behaviour is one job of one function,      *)
(* which is called once, or, if it is strtok, until it has answered NULL   *)
(* twice.  What each answers is compared with what the function means,     *)
(* written without its loops.                                              *)
(***************************************************************************)
EXTENDS Strings, Strtoul, Multiboot

CONSTANTS
    Numerals, Bases,  \* texts and bases strtoul is called with
    Lines,            \* lines strtok is called with, without their NUL
    TOP, Memories,    \* the highest address, and what the memory may hold
    Sought,           \* characters strchr looks for
    Brands, Sizes,    \* characters cpuid answers, and sizes of the buffer for them
    BootTags          \* tags a boot loader leaves, in order

\* Boot loaders give a tag once, and its size is that of what is in it.
TagsFit(tags) ==
    /\ \A i, j \in DOMAIN tags : tags[i].type = tags[j].type => i = j
    /\ \A i \in DOMAIN tags :
         /\ tags[i].type # TAG_END /\ tags[i].size \in 8..(MB_WORD - 8)
         /\ tags[i].type = TAG_BASIC_MEMINFO =>
              tags[i].mem_upper \in Nat /\ MiB + tags[i].mem_upper * KiB < 2 * MB_WORD
         /\ tags[i].type = TAG_MMAP =>
              /\ tags[i].entry_size \in Nat \ {0}
              /\ tags[i].size = MMAP_HEADER + Len(tags[i].entries) * tags[i].entry_size
              /\ \A n \in DOMAIN tags[i].entries :
                   LET e == tags[i].entries[n] IN
                     {e.addr, e.len} \subseteq Nat /\ e.addr + e.len < MB_WORD * MB_WORD

Elements(s) == {s[i] : i \in DOMAIN s}
Sequence(s) == s \in Seq(Elements(s))

ASSUME LibkAssumption ==
    /\ Numerals \subseteq Seq(STRING) /\ Bases \subseteq Int
    /\ Lines \subseteq Seq(STRING \ {NUL})
    /\ TOP \in Nat /\ Sought \subseteq STRING
    /\ \A m \in Memories : m \in [0..TOP -> STRING] /\ m[TOP] = NUL
    /\ Brands \subseteq Seq(STRING) /\ Sizes \subseteq Nat \ {0}
    /\ \A tags \in BootTags :
         /\ Sequence(tags) /\ TagsFit(tags)
         /\ \A i \in DOMAIN tags : tags[i].type = TAG_MMAP => Sequence(tags[i].entries)

VARIABLE job

-----------------------------------------------------------------------------
(***************************************************************************)
(* The jobs.                                                               *)
(***************************************************************************)
StrtoulJobs == [fn : {"strtoul"}, s : Numerals, base : Bases, ret : {<<>>}]

\* Lines end in NUL; what is behind it in the buffer is not looked at.
Line(s) == [i \in 0..Len(s) |-> IF i < Len(s) THEN s[i + 1] ELSE NUL]
StrtokJobs ==
    UNION {[fn : {"strtok"}, line : {s}, mem : {Line(s)}, save : {NULL} \cup (0..Len(s)),
            ret : {<<>>}] : s \in Lines}

Cells == 0..TOP
\* Copies stay in the memory, and strcat is called with room behind dest and a
\* source it does not reach.
CopyFits(j) == {j.d + j.n - 1, j.s + j.n - 1} \subseteq Cells
CatFits(j) ==
    LET from == j.d + strlen(j.mem, j.d)
        n    == strlen(j.mem, j.s)
    IN  from + n \in Cells /\ (from + n < j.s \/ j.s + n < from)
StringJobs ==
    [fn : {"strcmp"}, mem : Memories, d : Cells, s : Cells, ret : {<<>>}]
      \cup [fn : {"strchr"}, mem : Memories, s : Cells, ch : Sought, ret : {<<>>}]
      \cup {j \in [fn : {"memmove"}, mem : Memories, d : Cells, s : Cells, n : 1..(TOP + 1),
                   ret : {<<>>}] : CopyFits(j)}
      \cup {j \in [fn : {"strcat"}, mem : Memories, d : Cells, s : Cells, ret : {<<>>}] :
              CatFits(j)}
      \cup [fn : {"cpu_brand"}, raw : Brands, len : Sizes, ret : {<<>>}]

BootJobs == [fn : {"boot"}, tags : BootTags, ret : {<<>>}]

Jobs == StrtoulJobs \cup StrtokJobs \cup StringJobs \cup BootJobs

-----------------------------------------------------------------------------
(***************************************************************************)
(* The calls.                                                              *)
(***************************************************************************)
Answer(j) ==
    CASE j.fn = "strtoul"   -> strtoul(j.s, j.base)
      [] j.fn = "strcmp"    -> strcmp(j.mem, j.d, j.s)
      [] j.fn = "strchr"    -> strchr(j.mem, j.s, j.ch)
      [] j.fn = "strcat"    -> strcat(j.mem, j.d, j.s)
      [] j.fn = "memmove"   -> memmove(j.mem, j.d, j.s, j.n)
      [] j.fn = "cpu_brand" -> cpu_get_brand_string(j.raw, j.len)
      [] j.fn = "boot"      -> [top |-> mb2_mem_top_bytes(Layout(j.tags)),
                                fb |-> mb2_get_framebuffer(Layout(j.tags), "before")]

Call ==
    /\ job.fn # "strtok" /\ job.ret = <<>>
    /\ job' = [job EXCEPT !.ret = <<Answer(job)>>]

\* strtok(line), then strtok(NULL) again and again.
Delimiters == {" ", "\t", "\r", "\n"}
Over(ret_) == Len(ret_) > 1 /\ ret_[Len(ret_) - 1] = NULL
CallStrtok ==
    /\ job.fn = "strtok" /\ ~Over(job.ret)
    /\ LET r == strtok(job.mem, job.save, IF job.ret = <<>> THEN 0 ELSE NULL, Delimiters)
       IN  job' = [job EXCEPT !.mem = r.mem, !.save = r.save, !.ret = Append(@, r.ret)]

Done ==
    /\ IF job.fn = "strtok" THEN Over(job.ret) ELSE job.ret # <<>>
    /\ UNCHANGED job

LibkInit == job \in Jobs
LibkNext == Call \/ CallStrtok \/ Done
LibkSpec == LibkInit /\ [][LibkNext]_job

-----------------------------------------------------------------------------
Answered(fn) == job.fn = fn /\ job.ret # <<>>
answer == job.ret[1]

\* The value of a numeral: of its longest part that is one, in the base asked
\* for or the one its prefix tells; the greatest number if it does not fit.
Digit(c) == LET digits == {d \in 0..35 : c = LOWER[d + 1] \/ c = UPPER[d + 1]}
            IN  IF digits = {} THEN 36 ELSE CHOOSE d \in digits : TRUE
White == {" ", "\t", "\n", "\r", "VT", "\f"}
Blanks(s) == CHOOSE n \in 0..Len(s) : /\ \A i \in 1..n : s[i] \in White
                                      /\ n < Len(s) => s[n + 1] \notin White
Reading(s, base) ==
    LET signed == Blanks(s) < Len(s) /\ s[Blanks(s) + 1] \in {"+", "-"}
        sign   == IF signed THEN 1 ELSE 0
        body   == SubSeq(s, Blanks(s) + sign + 1, Len(s))
        hex    == Len(body) > 1 /\ body[1] = "0" /\ body[2] \in {"x", "X"}
        r      == IF base # 0 THEN base ELSE IF hex THEN 16
                  ELSE IF body # <<>> /\ body[1] = "0" THEN 8 ELSE 10
        prefix == IF hex /\ r = 16 THEN 2 ELSE 0
        digits == SubSeq(body, prefix + 1, Len(body))
        n      == CHOOSE n \in 0..Len(digits) :
                    /\ \A i \in 1..n : Digit(digits[i]) < r
                    /\ n < Len(digits) => Digit(digits[n + 1]) >= r
        value[i \in 0..n] == IF i = 0 THEN 0 ELSE value[i - 1] * r + Digit(digits[i])
    IN  IF r \notin 2..36 \/ n = 0 THEN [value |-> 0, end |-> 0]
        ELSE [value |-> IF value[n] > ULONG_MAX THEN ULONG_MAX
                        ELSE IF signed /\ s[Blanks(s) + 1] = "-" /\ value[n] > 0
                          THEN ULONG_MAX + 1 - value[n]
                        ELSE value[n],
              end |-> Blanks(s) + sign + prefix + n]

\* strtoul answers the value of every text, up to the greatest long and past
\* it, and where it stopped reading.
StrtoulReads == Answered("strtoul") => answer = Reading(job.s, job.base)

\* The calls of strtok answer the words of the line in order and then NULL for
\* ever, and the words answered stay as they are while later ones are cut,
\* whatever an earlier line has left in s_strtok_save.
TokensCut ==
    job.fn = "strtok" =>
      \A k \in DOMAIN job.ret :
        IF k <= Len(Words(job.line, Delimiters))
          THEN job.ret[k] # NULL /\ string(job.mem, job.ret[k]) = Words(job.line, Delimiters)[k]
          ELSE job.ret[k] = NULL

\* The text without the spaces around it, and without what is behind a NUL.
Trimmed(s) ==
    LET end   == CHOOSE n \in 0..Len(s) : /\ \A i \in 1..n : s[i] # NUL
                                          /\ n < Len(s) => s[n + 1] = NUL
        inner == {i \in 1..end : s[i] # Space}
        from  == CHOOSE i \in inner : \A j \in inner : i <= j
        to    == CHOOSE i \in inner : \A j \in inner : j <= i
    IN  IF inner = {} THEN <<>> ELSE SubSeq(s, from, to)

\* The functions on strings in memory: equality and place of a character,
\* what strcat and memmove leave in every cell (memmove as long as the
\* destination is not inside the source behind its start: it only copies
\* upwards, memory.c:4), and the processor's name trimmed in place.
StringsAgree ==
    /\ Answered("strcmp") =>
         (answer[1] = answer[2] <=> string(job.mem, job.d) = string(job.mem, job.s))
    /\ Answered("strchr") =>
         answer = IF job.ch = NUL THEN job.s + strlen(job.mem, job.s)
                   ELSE LET at_ == {i \in Cells : /\ i >= job.s /\ job.mem[i] = job.ch
                                                  /\ i < job.s + strlen(job.mem, job.s)}
                        IN  IF at_ = {} THEN NULL
                            ELSE CHOOSE i \in at_ : \A j \in at_ : i <= j
    /\ Answered("strcat") =>
         /\ string(answer.mem, job.d) = string(job.mem, job.d) \o string(job.mem, job.s)
         /\ \A i \in Cells : i \notin job.d..answer.ret => answer.mem[i] = job.mem[i]
    /\ Answered("memmove") /\ job.d \notin (job.s + 1)..(job.s + job.n - 1) =>
         \A i \in Cells :
           answer[i] = IF i \in job.d..(job.d + job.n - 1)
                          THEN job.mem[i - job.d + job.s] ELSE job.mem[i]
    /\ Answered("cpu_brand") =>
         LET kept == IF Len(job.raw) < job.len THEN job.raw ELSE SubSeq(job.raw, 1, job.len - 1)
         IN  /\ string(answer.buf, 0) = Trimmed(kept)
             /\ answer.ret <=> Trimmed(kept) # <<>>

\* The top of the memory is the end of the highest available region of the
\* memory map, or the last address there is; without a map the size the
\* loader tells, short by 2^32 if it does not fit in a word (multiboot.h:130);
\* whatever tags, of whatever sizes, stand in front.
OfType(type) == {i \in DOMAIN job.tags : job.tags[i].type = type}
BootInfoRead ==
    Answered("boot") =>
      LET regions == UNION {Elements(job.tags[i].entries) : i \in OfType(TAG_MMAP)}
          tops    == {r.addr + r.len : r \in {e \in regions : e.type = 1}} \ {0}
          uppers  == {job.tags[i].mem_upper : i \in OfType(TAG_BASIC_MEMINFO)}
      IN  /\ IF tops # {}
               THEN \/ answer.top \in tops /\ \A t \in tops : t <= answer.top
                    \/ answer.top = MB_WORD - 1 /\ \E t \in tops : t >= MB_WORD
               ELSE \/ uppers = {} /\ answer.top = MiB
                    \/ \E u \in uppers : MiB + u * KiB \in {answer.top, answer.top + MB_WORD}
          /\ IF OfType(TAG_FRAMEBUFFER) = {} THEN answer.fb = [ret |-> 0, params |-> "before"]
             ELSE \E i \in OfType(TAG_FRAMEBUFFER) :
                    answer.fb = [ret |-> 1, params |-> job.tags[i].params]
=============================================================================
