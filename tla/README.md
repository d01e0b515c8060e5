# ZirconOS in TLA+

A model of the ZirconOS kernel (a 32-bit x86 kernel with a text console, a
keyboard, a heap, a descriptor table, an IDE driver and a shell), checked with
TLC and, where it pays, proved with TLAPS. Paths are relative to the
repository; `memory.c:96` means line 96 of that file.

## How the system runs

One i686 processor. The main program is `init` (kinit.c), then the shell's
`loop` (shell.c), which never returns. There are no threads. Concurrency comes
from two interrupt lines only, IRQ 0 (timer) and IRQ 1 (keyboard): all others
stay masked. Every gate is an interrupt gate, so a handler runs to its end with
interrupts off, between any two instructions of the main program. Nothing is
stored on disk; nothing is restarted.

```
 keyboard --IRQ1--> i686_irq_handler --> keyboard_handler --> kbd ring --> keyboard_getchar --> tty_read --> read --> shell
                                               |                                                                       |
                                               +--> terminal_scroll_* --> tty.c <-- _putc <-- tty_write <-- printf <----+
 timer -----IRQ0--> i686_irq_handler --> time_tick --> countdown <-- sleep <-- shell, ide_init
 shell, dsk --> kmalloc/kfree --> mem_map_page --> pmm_alloc_page_frame
```

## Inventory

| component | state | operations | what makes it correct |
|---|---|---|---|
| frames and mapping (`memory.c`) | bitmap, `total_alloc`, page directory and tables | `pmm_init`, `pmm_alloc_page_frame`, `mem_map_page`, `pmm_get_stats` | a frame has one owner; the statistics agree with the bitmap |
| heap (`kmalloc.c`) | `mapped_bytes`, `brk_offset`, block headers, `free_list` | `kmalloc_init`, `kmalloc`, `kfree` | blocks are disjoint, mapped, as long as asked, owned once; failure only when memory is out |
| descriptors (`fd.c`, `dup.c`, `dup2.c`, `dev_tty.c`) | `g_fds`, `refcnt` of each file | `fd_install`, `fd_get`, `fd_close`, `dup`, `dup2`, `dev_tty_install_std` | the count is the number of descriptors; `close` runs on the last |
| keyboard (`keyboard.c`) | `shift_pressed`, `capslock_enabled`, `ext_prefix`, the ring | `keyboard_handler`, `keyboard_getchar` | the ring is a FIFO queue; what is queued is what was typed |
| console (`tty.c`) | caret, scrollback ring, `tail_line`, `sb_count`, `view_offset`, VGA memory, cursor | `_putc`, `terminal_clear_screen`, `terminal_set_color`, `terminal_scroll_*` | screen = the window of the ring; history is not altered; a scroll key inside `_putc` does bounded harm |
| interrupts (`irq.c`, `i8259.c`) | mask, request and service registers, `irq_handlers`, IF | `i686_init_irq`, `i686_irq_handler`, `i686_irq_register_handler` | one interrupt in service; each ended once; nothing delivered without its driver |
| sleep (`sleep.c`) | `countdown` | `sleep`, `time_tick` | sleeps the time asked for, always returns |
| IDE (`ide.c`) | channels, devices, `ide_irq_invoked`, `package` | `ide_init`, `ide_read_sectors`, `ide_write_sectors` | no access out of range; a wait ends, unless the drive withholds what ends it |
| shell (`shell.c`) | `input_buf` | `loop`, `analyze_cmd` | the line executed is the line shown |
| formatted output (`vfprintf_fd.c`) | `outbuf_t` | `ob_putc`, `ob_write`, `ob_flush` | every character written once, in order, never past the buffer |
| boot information (`multiboot.h`) | none | `mb2_find_tag`, `mb2_mem_top_bytes`, `mb2_get_framebuffer` | the top of RAM is what the memory map says, whatever tags surround it |
| C library, CPU brand (`string.c`, `memory.c`, `strtoul.c`, `cpu_brand.c`) | `s_strtok_save` | `strlen` .. `strtok`, `memmove`, `memset`, `strtoul`, `cpu_get_brand_string` | each answers what its name promises, at every bound and overlap |
| GDT, IDT, ISR stubs, start-up | fixed tables | | |

Hard behaviours: interrupts between any two accesses of the main program to the
keyboard ring, the console, the CRT controller's registers and `countdown`; the order of unmasking and
registration at boot; running out of frames halfway through a call; 32-bit
wrap-around; long sequences of legal calls on the descriptor table, the free
list and the scrollback ring. `PROJECT.json` lists each at its line.

## Modules

**Memory** and **Heap** (with **HeapSized**, **Allocator**). A frame is a number;
`free_frames` is the set of clear bits; `page_dir` and `page_table` are partial
functions keyed relative to `KERNEL_MALLOC`; an absent key is a cleared PRESENT
bit. Addresses in the heap are offsets from `heap_base`; a block is the offset of
its header. `mem_map_page` is modelled whole, with the untested frame for a new
table. `Heap` runs `map_more_until` one page per step, so that running out
halfway is a state of its own. All sizes are computed modulo `WORD`, which stands for
2^32. `HeapSized` adds what the code takes for granted as named assumptions (no
size wraps around, RAM is smaller than the heap's window, the kernel ends below the
top of RAM and not in frame 0) and the refinement of **Allocator**: an arena from
which disjoint regions at least as long as requested are granted and released.

**FdTable**. `g_fds` maps descriptors to files, `refcnt` is the field of each
file, `open` (not in the code) the files whose `close` has not run. Callers pass
every descriptor and one invalid one on each side. A file is installed only
while it is in no slot, as the two `fd_install` calls of the kernel do.

**Keyboard** (with **BoundedQueue**). The keyboard's bytes wait on `wire`; the handler takes one
per step, one disjunct per early return; `keyboard_getchar` takes three steps (test,
read, advance), and the handler may run between them. Scan codes are records
that carry the state of the physical keys when they were sent, to compare with the
driver's belief; `kbdus` is reduced to letters, other characters, shifts, caps
lock and navigation keys. Refines **BoundedQueue** with capacity
`KBD_BUFFER_SIZE - 1`.

**Tty**. The console is one record and each function of `tty.c` an operator
from record to record, because they call each other on the same variables. Cells
are pairs of a character and a colour.

**TtyIrq** extends it: `_putc` of every kind of character, tabs with their nested calls included, and
`terminal_clear_screen` are cut at their accesses to what they share with the keyboard interrupt,
whose scroll functions run in one step anywhere between. The order of the accesses (`blit_view`
reads `tail_line`, `sb_count` and `view_offset` once; the ring is written before the screen) is that
of the -O2 build of the Makefile. The cursor is four registers of the CRT controller behind an index
and a data port, one access per step, so that a redraw may come between index and data. `torn`,
`bad` and `heals` are not in the code: they record what an interrupt may have spoiled, and
what a sequence that is left alone puts right again.

**Shell** (with **MCShell**). `loop` and `analyze_cmd` over **Tty** and a bounded queue (which Keyboard
is shown to be), one `_putc` per step, so that a key falls between any two characters of an echo. The
buffer is memory in the sense of Strings and is edited and cut by `strlen`, `memset` and `strtok` themselves.
`color` and `clear` are modelled by what they do to the console, the others by what they print
and how many words they cut. `keys` and `plain` are not in the code. The run starts at the first prompt, on an empty screen.

**Strings**, **Strtoul** and **Multiboot** (with **Libk**, **MCLibk**). Functions without concurrency, as operators:
memory is a function from addresses to characters, a copy a fold of single stores (source and
destination may overlap), a search a recursive function of the address. `strtok`'s static position is an
argument and a result. `Libk` is a specification that makes one call of one of them (of strtok, until it has answered NULL twice),
and states what each means without its loops; `MCLibk` gives it texts, memories and tags, and runs it beside `OutBuf`.
`strtoul`'s loop is written as what has been read in front of each character and where the digits end; the walk over the tags is defined at the places where a tag is.

**Ide** (with **MCIde**). Probe, the boot's read of the first drive, and the shell's
`dsk read`, against external drives: present or not, ATA (with or without LBA, of any
size), packet, neither, or mute. `dev` is the set of status bits of the drive selected, and each of the
driver's four waits is left only on what the code tests: the probe's on ERR, or on DRQ without BSY (199-207; a mute
drive ends IDENTIFY with neither), the one before a command on DRDY without BSY (337-341; a drive may be slow to get
ready, or never get so), the two others on BSY alone (77, 327). The shell leaves a read by one of two ways, each with its `kfree`
(`GiveUp`, `Show`). Addresses and sector counts are real numbers, modulo `WORD = BYTE^4`, so that the three
addressings, the two-deep registers and the range test are computed, not assumed. A
sector is the pair of its drive's place and its number, which lets `SectorsAsked` say that what
arrives is what was asked for. `ide_write_sectors` and `ide_atapi_eject` are called from nowhere and left out.

**OutBuf** (with **Format**, **MCOutBuf**). `vfprintf_fd` as it runs: the parser takes one character of the
format per step, conversions become text still to put, `ob_putc` and each round of `ob_write` are
steps. `ob_write` never advances its string (line 53), so that of a string put across the buffer's end what follows is its
start again. `Format` defines what a format means without states or buffer, with the place at which each
string is put, and says what is written in its place (`Written`); `MCOutBuf` only gives it formats and arguments. Words
are arguments of `%c` and `%s` through `Chr` and `Text`; every list of arguments is long enough for its format, as the callers' are.

**Interrupts**. Boot from `i8259_probe` to `init_sleep`, the interrupt
controller as sets of lines, `i686_irq_handler` in stages (handler, end of
interrupt, iret), and `sleep` with test and `hlt` apart. Timer and keyboard
controller are external. `target` and `elapsed` are not in the code: they count the ticks asked for and seen.

## Runs

Bounds are in the .cfg files; each is the smallest at which the case of interest happens.

| run | bounds | shows |
|---|---|---|
| heap | 8-byte pages, 3 pages per table, 6 frames, requests 0, 3, 11 | frames run out both inside a call and exactly at its end, a second table is needed, blocks of two sizes are reused and skipped |
| heap_no_frame | one frame fewer | the missing frame is the one for a table: **violated**, memory.c:96 |
| fds | 4 slots, 4 files | table full, every pair of descriptors for dup2 |
| keyboard | ring of 3, one letter, one other key, two shifts, Up, two bytes in flight | the ring wraps around, fills, and is read across all interleavings; E0 pairs, fake shifts, repeated keys, translation |
| shell | 6 x 2 screen, ring of 3, buffer of 4, 4 keys between prompts, keys `a`, space, tab, newline, backspace | lines that fill the buffer, over-long ones, erasing across them, `color` and `clear` with scrolling and typing ahead |
| tty_scroll | 2 x 3 screen, ring of 5 lines, tab 2, 7 lines of text | **violated**, tty.c:76: the first scroll after a clear blanks the screen |
| tty_irq | 2 x 2 screen, ring of 3, 4 lines, bytes of 0..1 | a scroll key between any two accesses to memory or ports, the ring wrapping around, tabs and backspaces across rows, clears |
| disk | bytes of 0..3, 2 heads, 3 sectors per track, reads of at most 2; four places, each empty or with any of five drives; 10 addresses | each addressing at its first and last sector, both sides of the 28-bit limit, drives that fail, hang or are never ready, any table of drives |
| disk_boot | same, packet drives only | **violated**, ide.c:162: the boot's read of the first drive never ends |
| libk | printf: buffer of 3, words of 0..15, every pair of 22 directives and literals, words 0, 8, 15. strtoul: every text of up to 4 of 8 characters, six bases, largest number 77. strtok: every line of up to 5. strings: every memory of 5 cells. Boot: words of 0..255, up to 3 tags | texts shorter and longer than the buffer, every length prefix, the most negative numbers; numbers at and past the largest; every overlap; maps whose ends pass 2^32 |
| interrupts | sleeps of 0, 1 and 3 ticks | every order of ticks, keys, test and halt |
| interrupts_boot | keys may be hit during boot | **violated**, irq.c:56 |

(printf, strtoul, strings and boot information share the run libk because none of them shares state with another.)

Small bounds are enough because the code is uniform in them: rings are indexed modulo their
size, pages and descriptors are treated alike, and each bound leaves room
for one wrap-around, one full and one empty case. `MaxTail` and `MaxWire` bound counters
that the code lets grow; TLC deadlock checking stays on everywhere.

What the violations say of the code:

- *memory.c:96*: the frame for a new page table is not tested; with memory just
  exhausted the page directory points to physical frame 0 and `kmalloc` goes on.
- *tty.c:76-77 against 139*: until the text has filled a screen, its lines are stored
  at logical numbers below zero (modulo the ring) while `blit_view` clips at zero,
  so the first scroll, and the Home and End keys, redraw the screen without them.
- *ide.c:162, 453*: `ide_wait_irq` spins on a flag set only by `ide_irq`, which is registered for no line, with
  IRQ 14 and 15 masked. If the first drive is a packet drive, as when booting from the Makefile's CD-ROM alone
  (Makefile:116-122), the read at kinit.c:69 never returns.
- *irq.c:56-60 before kinit.c:36-37*: a key hit in the window is acknowledged
  but never read, and the controller raises no further interrupt: the keyboard stays dead.

Seen while modelling and left without a run:

- kmalloc.c:98: a size within `header + 7` of 2^32 wraps around to a small block; the assumption `NoWrap` of HeapSized excludes it.
- tty.c:195: a scroll key after `_putc`'s snap back leaves the view up while the character
  is drawn over an older line; one between the store of `view_offset` and the read in `blit_view` does so for the characters to come. `DamageConfined` shows that the next undisturbed redraw repairs it.
- tty.c:32-47: a redraw between an index and its data leaves another register selected, and the data goes there;
  `CursorConfined` shows that the next sequence left alone repairs the cursor.
- tty.c:176-178: a key in the middle of a clear lets `blit_view`'s differences wrap around; rows are then blank, and nothing outside the ring is read.
  `ViewWindowIrq` claims the view itself only once the clear has reset all three.
- tty.c:102 says that the caret is on the last line stored, which is not true before the first scroll; `CursorConfined` exempts the place until a sequence puts it right.
- shell.c:256, 264: a tab is erased as one cell, and a line longer than 63 characters is shown but not kept. `LineShown` and `ExecutesShown` exempt both.
- strtoul.c:87: the message goes to descriptor 2, which is never installed; "0x" without digits reads nothing.
- memory.c:3: `memmove` copies upwards whatever the overlap; string.c:31: `strcat` answers the end, not the start, of dest.
- multiboot.h:111-117: the top ignores holes below it; line 130 wraps around from 4 GiB on, which `BootInfoRead` accepts.
- kmalloc.c:45: nothing compares the heap's end with the recursive page tables at 0xFFC00000; the assumption `RamFitsWindow` of HeapSized takes it for granted.
- dup2.c:9: `dup2(fd, fd)` closes the file and installs it again; `CloseOnLast` exempts it.
- kinit.c:57: `%08X` is printed as it stands, the parser knows no widths.
- keyboard.c:136: one flag for two shift keys; releasing one clears it while the other is held. `CaseAsTyped` is stated accordingly.
- ide.c:199-207: a drive that ends IDENTIFY with neither an error nor data, a device fault for one, hangs the boot; ide.c:337-341: one that
  is not busy but never ready hangs the shell. Without the exceptions in `Returns` (`MuteDrive`, `UnreadyDrive`) TLC finds both.
- ide.c:478, shell.c:196: the range test is taken modulo 2^32, so a range that ends past 2^32 passes; `CommandInRange` exempts it.
- ide.c:290: the mode is chosen by the first sector alone, so a transfer across sector 2^28 uses the short addressing. `CommandInRange` does not forbid
  that; `AnswerTrue` says that the answer is not 0 if the drive refuses it.
- vfprintf_fd.c:53: a string put across the end of the 512 characters goes on with its own start. `Printed` says exactly that, and with the
  text that was meant TLC finds it violated (`%s%%`); no caller prints as much yet.
- vfprintf_fd.c:42: after a failed `write` the buffer stays full and the next character is stored behind it; `BufferHolds` is stated for the time before.
- vfprintf_fd.c: `%hd` and `%hhd` print the whole `int`.
- memory.c:144: `pmm_get_stats` wraps around when the kernel ends above the assumed 1 MiB.
- dev_tty.c:49: `dev_tty_install_std` installs no descriptor 2 (dev_tty.h:4).
- `g_fds` is `static` in fd.c, so `dup.c` and `dup2.c` would not link when used; `i8259_read_*_register`
  read the second controller twice (i8259.c:120, 127).

## Fairness

- *Heap*: the processor keeps executing a call it has entered (weak fairness of
  the loop's steps). Nothing forces a caller to call.
- *Ide*: the driver's polling loops go on, and a drive eventually leaves its busy state, with whatever status it likes; that nothing
  else is promised of a drive (`SpinsUp` has no fairness, a mute drive stays mute) is why `Returns` names the two loops, of which only the drive can
  bring an end, and says that the driver hangs there only while the drive withholds just that. No one has to type a command.
- *Interrupts*: the timer ticks for ever; handlers and the main program advance. Main is assumed
  to run, or to be halted, between two ticks (10 ms) and between two keyboard bytes (about 1 ms).
  Keys come only if they come.
- *Shell*: the loop goes on between interrupts. `Fairness` is `WF_vars(Loop)` with ENABLED written out, which TLC evaluates faster.
- *Keyboard*, *Tty*, *TtyIrq*, *Libk* and *FdTable* have safety properties only and assume nothing.

## Proofs

**ResourceProofs** has the two tables of resources. The heap, for all sizes that satisfy the assumptions of HeapSized. The
inductive invariant adds to the stated ones that the mapped pages are exactly
`0..mapped_pages-1`, that their tables are in the directory, and that the free frames are a suffix of the range
(`FreeIsSuffix`: first fit without release), from which exclusive ownership and the statistics follow.
One lemma per action and conjunct. Proved: the four invariants of the run (`FramesSound`, `BlocksSound`, `HeapMapped` are each conjunctions of named parts), `FailsOnlyWhenOut`, and that every step of
the heap is a step of Allocator or a stutter. `HeapMapped` is about bytes: the break is below what is counted as mapped, every page counted is mapped with
its table, and so is each page that a block, owned or free, has a byte in (`PageOfByte`). That the heap stays below the recursive page tables is not among the results: it is the assumption `RamFitsWindow`.

The descriptor table (also **ResourceProofs**), for any number of slots and any set of files: the table's type, `CountsSound` (`RefcntCounts`, its own
inductive invariant together with the type; the work is in how the cardinality
of the set of descriptors changes by one, with `OpenReachable`) and `CloseOnLast`.

**KeyboardProofs**, for any ring size from 2: `ImplementsQueue`, `DropsOnlyWhenFull`, `CaseAsTyped` and the types. The inductive invariant says that
between the emptiness test and the move of the tail a character waits, and that once read it is still the one in the
slot: the handler moves the head only, and never onto the tail. The rest is arithmetic of slots modulo the size
(`PutSlots`, `GetSlots`): writing adds a last waiting character in a slot none of the others has, advancing drops the first.
For the last two, `History` says what is on the wire: a sequence of modifiers that begins with the driver's flags, takes one step
for each byte in flight, and ends with the keyboard's own state and no E0 pending. A byte behind an E0 is a shift's or a navigation
key's (`Fits`), so that no prefix swallows a typed key.

**TtyIrqProofs**, for any size of screen, ring, word and byte that satisfies `TtyAssumption` and `CrtcAssumption`, with a key
between any two accesses: all five properties of the run, by three invariants, each resting on the one before.
`IInv` says what `advance_lines` and `terminal_clear_screen`
have already written where they are interrupted (`Stored`), and where the redraw under way stands (`Redrawing`). That
history is kept is then arithmetic: the lines stored are less than `SCROLLBACK_LINES` apart, so that no
other has the place of the caret's (`RingApart`), also where `line_for_view_y` wraps around, because
2^32 is a multiple of the ring's size (`RingSize`). `CInv` is about the cursor: `Final`, the controller as the
accesses still to be made would leave it, has the caret's place and the shape that the view asks for, unless a key has spoiled
it and no redraw has come since. `DInv` is about the screen: which rows are those of the ring, and that
one that differs is known to be damaged, is the one being written, or is redrawn by the copy under way.

**InterruptsProofs**, for any durations: the types, `OneInService` and `SleepLength`. Between the test of `countdown` and `hlt`
a tick may fall; the invariant keeps it in one place at most (owed by the timer, latched, or in its
handler), and says what may be left of it when the countdown has reached zero, whence at most one tick too many.

**IdeProofs**, for any drives, addresses and counts: the five safety properties of the run. `IInv`: sectors stored and sectors the
drive has still to give are together those asked for (the sector count register, read back in the mode, is the number asked for: `CountKept`), which the buffer holds (`BufferFits`, `AnswerTrue`). `Probed`: the table holds
the drives of the places already probed, in their order (`DevicesFound`); the wait of the probe ends only for drives that are not mute, and what it then reads
tells the ones the kernel can use (`KnownUsable`). `Asked`: what was written to the registers, read
back in the addressing chosen, is the address asked for, by the arithmetic of bytes, cylinders, heads and sectors
(`SectorsAsked`, `CommandInRange`).

**OutBufProofs**, of `vfprintf_fd`, for every format, arguments and size of the buffer: `BufferHolds`, that the answer is the number of characters
written (`AnswersWhatItWrote`), and that what `write` has taken followed by what the buffer holds grows by exactly the
characters a step puts, and never otherwise, as long as writing succeeds (`PutInOrder`). The invariant has three parts: the words left suffice for what is left of the format (`Parsed`), the
buffer is within its bounds and `total` counts what was written (`Sunk`), and what was answered (`HasAnswered`).
On it rests `Printed` (`FormatPrinted`): the text written is the one the format means, for every format, arguments and buffer size.
Its invariant `FInv` says where the parser is in the format (`Placed`: the characters read of the directive are those in front of what is left)
and that the whole text is what has been put, what is being put and what the rest of the format still means (`Underway`: `Begun` for what
`write` has taken and the buffer holds, `Owes` for the rest, which of a string that crossed a buffer's end starts again). Each step of the parser reads the
text of its directive off what remains (`ParserReads`, from the recursion of `TextFrom`), each step of the sink moves characters from `Owes` to
`Begun` (`OwesPutc`, `OwesWrite`). Where a string goes on after the buffer's end is arithmetic modulo `OUTBUF_CAP` (`GoesOn`), and
the digits of `ob_put_u64`, taken from the last, are the shortest numeral of its value (`NumeralsPut`, `DigitsUnique`).

**LibkProofs**, of the other functions, for every text, memory, line, name and list of tags, and for any size of a word: `StringsAgree`, `TokensCut`, `StrtoulReads` and `BootInfoRead`. The invariant of `LibkSpec` (`JobInv`) is short, a job is as it was
or answered, except for strtok, where `Progress` says how far the line is cut: the words answered are the first ones, their
characters and the '\0' behind each are in place, and the static position is behind the last. What carries these proofs is what a loop answers. A loop is a recursive function, so
it must be shown that one exists that satisfies its equation (`LoopExists`, `UpExists`, `PlacesExist`, `StepsExist`) and what any such function is
(`LoopFinds`, `LoopValue`, `TextLoop`, `ReadsIs`). No induction principle can be instantiated with a predicate here; each of these is by the least
counterexample instead, a set of naturals without a least element being empty (`Least`, from the well-foundedness of <).
`memmove` is a fold of single stores: `CopyStep` and `MemmoveIs` say what each has left for the next to read. `strtoul`: the guard before a
digit is exactly that the number would not fit (`FitsIs`), so that what has been read stands for the numeral up to there or has overflowed (`StandsFor`), as it must for good.
The tags: tags as `Layout` puts them are far enough apart (`PlacesRise`) that the walk meets each once and stops at the end tag.

**ShellProofs**, for any size of screen, ring and input buffer, any set of commands and whatever they print: `ShellTypeOK`,
`LineShown` and the action property `ExecutesShown`, that is, all of the run's safety. `Good` says of the console that its screen is
the window of its ring, and of each function of `_putc` it is proved what it keeps of that and which cell it writes (`Writes`). `Stage` is the
strengthening of `LineShown` for the time an echo is under way: how far the screen is behind the buffer, for each text still to be put
(prompt, character, or backspace, space, backspace). Keys may scroll the view at any time, because a scroll leaves the
text alone (`ScrollIs`) and the next character put snaps back. `StrtokCuts` says what one call of `strtok` does with any buffer that ends in
a '\0': the loops are recursive functions of an address, and that they exist and find the first place they look for follows from the least
element of a set of naturals (`LoopExists`, `LoopFinds`). Two calls then answer the first two words, as counted by where words start.
`ShellAssumption` names what is taken of the environment: a '\0' is never queued (keyboard.c:150), commands print what their formats and
`hexdump` let through, and colours are colours.

Every invariant and every safety action property that a passing run checks is thus proved. Only model-checked: the liveness properties
`KmallocReturns`, `SleepReturns`, `KeyRead`, `KeysHandled` and `Returns`, because fairness is out of the prover's reach.

## Not modelled, and the plan

1. A heap run with a caller that frees twice, or a block it does not own, as the shell's `kfree` command may (kmalloc.c:117).
2. `ide_write_sectors`, should it get a caller.

Not planned: descriptor tables, generated stubs, start-up code and the stack protector (constant or straight-line code).
