--------------------------------- MODULE Ide ---------------------------------
(***************************************************************************)
(* The IDE driver of src/arch/i686/drivers/ide.c and its two callers:      *)
(* kinit, which probes for drives and reads sector 0 of the first one, and *)
(* the shell's "dsk read".  The drives are external.  At most one command  *)
(* is under way, as the driver waits for each to end.                      *)
(*                                                                         *)
(* A sector is the pair of the place of its drive and its number there.    *)
(* The driver sees of a drive its status bits, and waits for them without  *)
(* a limit in four places.  The control register is left out: it only      *)
(* turns off interrupts that are masked in the controller anyway.          *)
(***************************************************************************)
EXTENDS Integers, Sequences, FiniteSets

CONSTANTS BYTE, HEADS, SPT,  \* 256, 16, 63
          MAX_SECS,          \* the shell's max_secs_to_read, 32
          Models,            \* drives that may be attached, "none" among them; what
                             \* a drive is shows in how it ends IDENTIFY
          Lbas, Counts       \* arguments of dsk read

BYTE2 == BYTE * BYTE
BYTE3 == BYTE * BYTE2
WORD  == BYTE * BYTE3       \* 2^32
LBA28 == HEADS * BYTE3      \* 0x10000000

Places == {0, 1} \X {0, 1}               \* channel, master or slave
NoDrive == [type |-> "none"]

ASSUME IdeAssumption ==
    /\ BYTE \in Nat \ {0} /\ {HEADS, SPT, MAX_SECS} \subseteq 1..(BYTE - 1)
    /\ \A model \in Models :
         /\ model.type \in {"none", "ATA", "ATAPI", "other", "mute"}
         /\ model.type = "ATA" =>
              /\ {model.lba, model.ext} \subseteq BOOLEAN /\ model.size \in 0..(WORD - 1)
              /\ model.size > LBA28 => model.ext
              \* as much as its cylinders, heads and sectors can name
              /\ ~model.lba => model.size <= HEADS * SPT * BYTE2
    /\ Lbas \subseteq 0..(WORD - 1) /\ Counts \subseteq 1..(WORD - 1)

VARIABLES
    hw,            \* place -> the drive attached there
    dev,           \* status bits of the drive selected
    cmd,           \* the command it executes: place, extended, next sector, sectors left
    ide_devices,   \* drives found, in order; the code's count is its length
    scan,          \* places ide_init has dealt with
    pc,
    call,          \* arguments of ide_read_sectors: drive, lba, numsects
    buf,           \* what has been stored at edi
    block,         \* sectors the caller's buffer has room for
    err,           \* what ide_ata_access or ide_atapi_read returned
    package        \* package[0]

driveVars == <<hw, dev, cmd>>
vars == <<driveVars, ide_devices, scan, pc, call, buf, block, err, package>>

NoCmd  == [at |-> <<0, 0>>, ext |-> FALSE, next |-> 0, left |-> 0]
NoCall == [drive |-> 0, lba |-> 0, numsects |-> 0]

Init ==
    /\ hw \in [Places -> Models]
    /\ dev = {"DRDY"} /\ cmd = NoCmd
    /\ ide_devices = <<>> /\ scan = 0
    /\ pc = "ide_init"
    /\ call = NoCall /\ buf = <<>> /\ block = 0
    /\ err = 0 /\ package = 0

Selected(k) == ide_devices[k + 1]
reserved(k) == k < Len(ide_devices)

-----------------------------------------------------------------------------
(***************************************************************************)
(* ide_init, one place per round: select, IDENTIFY, wait for an error or   *)
(* for data.  A drive that answers with an error is asked for its packet   *)
(* signature, and if it has one is sent a second command, which nothing    *)
(* waits for.                                                              *)
(***************************************************************************)
Place(n) == <<n \div 2, n % 2>>

Busy == "BSY" \in dev

Identify ==
    /\ pc = "ide_init" /\ scan < 4
    /\ IF hw[Place(scan)].type = "none"
         THEN scan' = scan + 1 /\ UNCHANGED <<dev, pc>>     \* status 0
         ELSE dev' = {"BSY"} /\ pc' = "identify" /\ UNCHANGED scan
    /\ UNCHANGED <<hw, cmd, ide_devices, call, buf, block, err, package>>

\* Mutant: the loop waits for data only.
HasIdentified_data == ~Busy /\ "DRQ" \in dev

HasIdentified == "ERR" \in dev \/ (~Busy /\ "DRQ" \in dev)

\* With an error, the signature in the address registers tells.
Known(at) == "ERR" \notin dev \/ hw[at].type = "ATAPI"

IdentifiedStatus(at) ==
    CASE ~Known(at) -> dev
      [] Known(at) /\ "ERR" \in dev -> {"BSY"}
      [] OTHER -> {"DRDY"}

\* Mutant: the same place is probed again after a drive was found.
Identified_again ==
    /\ pc = "identify" /\ HasIdentified
    /\ LET at == Place(scan) IN
         /\ IF Known(at)
              THEN /\ ide_devices' = Append(ide_devices, [at |-> at, model |-> hw[at]])
                   /\ UNCHANGED scan
              ELSE scan' = scan + 1 /\ UNCHANGED ide_devices
         /\ dev' = IdentifiedStatus(at)
    /\ pc' = "ide_init"
    /\ UNCHANGED <<hw, cmd, call, buf, block, err, package>>

Identified ==
    /\ pc = "identify" /\ HasIdentified
    /\ LET at == Place(scan) IN
         /\ ide_devices' = IF Known(at)
                             THEN Append(ide_devices, [at |-> at, model |-> hw[at]])
                             ELSE ide_devices
         /\ dev' = IdentifiedStatus(at)
    /\ scan' = scan + 1
    /\ pc' = "ide_init"
    /\ UNCHANGED <<hw, cmd, call, buf, block, err, package>>

\* while (1), without a limit.
WaitIdentified == pc = "identify" /\ ~HasIdentified /\ UNCHANGED vars

-----------------------------------------------------------------------------
(***************************************************************************)
(* The address registers 0, 1, 2 and the sector count, 3.  Each is two     *)
(* bytes deep: a write moves what was there to the second place, which     *)
(* extended commands use too.                                              *)
(***************************************************************************)
Put(tf, r, v) == [tf EXCEPT ![r] = <<v, @[1]>>]

COUNT == 3

\* The number the drive computes for a command of the mode, and how many.
Addressed(tf, mode, h) ==
    LET low  == tf[0][1] + BYTE * tf[1][1] + BYTE2 * tf[2][1]
        high == tf[0][2] + BYTE * tf[1][2] + BYTE2 * tf[2][2]
        c    == tf[1][1] + BYTE * tf[2][1]
    IN  CASE mode = 2 -> low + BYTE3 * high
          [] mode = 1 -> low + BYTE3 * h
          [] mode = 0 -> (c * HEADS + h) * SPT + tf[0][1] - 1

Counted(tf, mode) == tf[COUNT][1] + (IF mode = 2 THEN BYTE * tf[COUNT][2] ELSE 0)

lba_mode(model, lba) == IF lba >= LBA28 THEN 2 ELSE IF model.lba THEN 1 ELSE 0

byte(n, unit) == (n \div unit) % BYTE

sect(lba) == (lba % SPT) + 1
cyl(lba)  == ((lba + 1 - sect(lba)) \div (HEADS * SPT)) % (BYTE * BYTE)

head(mode, lba) ==
    CASE mode = 2 -> 0
      [] mode = 1 -> byte(lba, BYTE3) % HEADS
      [] mode = 0 -> ((lba + 1 - sect(lba)) \div SPT) % HEADS

lba_io(mode, lba) ==
    IF mode = 0 THEN <<sect(lba), byte(cyl(lba), 1), byte(cyl(lba), BYTE)>>
                ELSE <<byte(lba, 1), byte(lba, BYTE), byte(lba, BYTE2)>>

\* Three writes to the address registers.
PutAddress(tf, io) == Put(Put(Put(tf, 0, io[1]), 1, io[2]), 2, io[3])

high_io(lba) == <<byte(lba, BYTE3), 0, 0>>

\* Mutant: the high bytes of an extended address after the low ones.
Taskfile_high_last(tf, mode, lba, n) ==
    LET lo == PutAddress(Put(tf, COUNT, n), lba_io(mode, lba))
    IN  IF mode = 2 THEN PutAddress(Put(lo, COUNT, 0), high_io(lba)) ELSE lo

\* The registers once the task file is programmed, from whatever they held.
Taskfile(tf, mode, lba, n) ==
    LET hi == IF mode = 2 THEN PutAddress(Put(tf, COUNT, 0), high_io(lba)) ELSE tf
    IN  PutAddress(Put(hi, COUNT, n), lba_io(mode, lba))

-----------------------------------------------------------------------------
(***************************************************************************)
(* ide_read_sectors, entered by ReadSectors and left by Return.            *)
(***************************************************************************)
\* Mutant: one sector too many.
InRange_late(k, lba, numsects) ==
    (lba + numsects) % WORD <= Selected(k).model.size + 1

InRange(k, lba, numsects) == (lba + numsects) % WORD <= Selected(k).model.size

\* ide_ata_access reads at least one sector.
explicit(numsects) == IF numsects = 0 THEN 1 ELSE numsects

\* The answer is 1 for no such drive, 2 for a sector out of range.
ReadSectors(k, numsects, lba, room) ==
    /\ block' = room
    /\ IF ~reserved(k)
         THEN pc' = "returned" /\ package' = 1 /\ UNCHANGED call
       ELSE IF Selected(k).model.type = "ATA" /\ ~InRange(k, lba, numsects)
         THEN pc' = "returned" /\ package' = 2 /\ UNCHANGED call
       ELSE /\ pc' = IF Selected(k).model.type = "ATA" THEN "ata" ELSE "atapi"
            /\ call' = [drive |-> k, lba |-> lba, numsects |-> explicit(numsects)]
            /\ package' = 0

\* kinit: sector 0 of the first drive, into mbr.
ReadMbr ==
    /\ pc = "ide_init" /\ scan = 4
    /\ ReadSectors(0, 1, 0, 1)
    /\ UNCHANGED <<driveVars, ide_devices, scan, buf, err>>

Readable(k, lba, nsec) ==
    reserved(k) /\ Selected(k).model.type = "ATA" /\ InRange(k, lba, nsec)

capped(nsec) == IF nsec > MAX_SECS THEN MAX_SECS ELSE nsec

\* Mutant: the buffer is for the capped number, the read is not.
DskRead_uncapped(k, lba, nsec) ==
    /\ pc = "shell"
    /\ \/ Readable(k, lba, nsec) /\ ReadSectors(k, nsec % BYTE, lba, capped(nsec))
       \/ UNCHANGED <<pc, call, block, package>>
    /\ UNCHANGED <<driveVars, ide_devices, scan, buf, err>>

\* dsk read: refused if a test or kmalloc fails.
DskRead(k, lba, nsec) ==
    /\ pc = "shell"
    /\ \/ Readable(k, lba, nsec) /\ ReadSectors(k, capped(nsec) % BYTE, lba, capped(nsec))
       \/ UNCHANGED <<pc, call, block, package>>
    /\ UNCHANGED <<driveVars, ide_devices, scan, buf, err>>

(***************************************************************************)
(* ide_ata_access: wait until the drive selected before is not busy,       *)
(* select, wait until the drive is ready, both without a limit, program    *)
(* the registers, which held anything before, and write the command.       *)
(***************************************************************************)
SelectDrive ==
    /\ pc = "ata" /\ ~Busy
    /\ pc' = "select"
    /\ dev' \in {{"BSY"}, {"DRDY"}, {}}
    /\ UNCHANGED <<hw, cmd, ide_devices, scan, call, buf, block, err, package>>

IsReady == ~Busy /\ "DRDY" \in dev

WaitReady == pc = "select" /\ ~IsReady /\ UNCHANGED vars

AtaCommand ==
    /\ pc = "select" /\ IsReady
    /\ \E stale \in {0, BYTE - 1} :
         LET drive == Selected(call.drive)
             mode  == lba_mode(drive.model, call.lba)
             tf    == Taskfile([r \in 0..COUNT |-> <<stale, stale>>], mode, call.lba, call.numsects)
         IN  cmd' = [at |-> drive.at, ext |-> mode = 2, left |-> Counted(tf, mode),
                     next |-> Addressed(tf, mode, head(mode, call.lba))]
    /\ dev' = {"BSY"}
    /\ pc' = "poll"
    /\ UNCHANGED <<hw, ide_devices, scan, call, buf, block, err, package>>

\* ide_polling's answer once the drive is not busy.
Polled ==
    IF "ERR" \in dev THEN 2
    ELSE IF "DF" \in dev THEN 1
    ELSE IF "DRQ" \notin dev THEN 3
    ELSE 0

Transfer ==
    /\ pc = "poll" /\ ~Busy /\ Polled = 0
    /\ buf' = Append(buf, <<cmd.at, cmd.next>>)
    /\ cmd' = [cmd EXCEPT !.next = @ + 1, !.left = @ - 1]
    /\ dev' = IF cmd.left = 1 THEN {"DRDY"} ELSE {"BSY"}
    /\ IF Len(buf) + 1 = call.numsects THEN pc' = "done" /\ err' = 0
                                       ELSE UNCHANGED <<pc, err>>
    /\ UNCHANGED <<hw, ide_devices, scan, call, block, package>>

\* Mutants: an error ends the loop without being returned; it is polled again.
Failed_silent ==
    /\ pc = "poll" /\ ~Busy /\ Polled # 0
    /\ pc' = "done" /\ err' = 0
    /\ UNCHANGED <<driveVars, ide_devices, scan, call, buf, block, package>>

Failed_again ==
    /\ pc = "poll" /\ ~Busy /\ Polled # 0
    /\ UNCHANGED vars

Failed ==
    /\ pc = "poll" /\ ~Busy /\ Polled # 0
    /\ pc' = "done" /\ err' = Polled
    /\ UNCHANGED <<driveVars, ide_devices, scan, call, buf, block, package>>

\* ide_atapi_read of one sector, the only use: the packet command is polled
\* for, then an interrupt is waited for.  Only ide_irq ends that wait; it is
\* registered for no line (irq.c, kinit.c), so what follows is never reached.
PacketCommand ==
    /\ pc = "atapi"
    /\ cmd' = [NoCmd EXCEPT !.at = Selected(call.drive).at]
    /\ dev' = {"BSY"} /\ pc' = "packet"
    /\ UNCHANGED <<hw, ide_devices, scan, call, buf, block, err, package>>

SendPacket ==
    /\ pc = "packet" /\ ~Busy
    /\ IF Polled # 0 THEN pc' = "done" /\ err' = Polled
                     ELSE pc' = "ide_wait_irq" /\ UNCHANGED err
    /\ UNCHANGED <<driveVars, ide_devices, scan, call, buf, block, package>>

ide_wait_irq == pc = "ide_wait_irq" /\ UNCHANGED vars

ide_print_error(e) ==
    CASE e = 0 -> {0} [] e = 1 -> {19} [] e = 3 -> {23}
      [] e = 2 -> {2, 3, 7, 13, 20, 21, 22}     \* from the error register

Return ==
    /\ pc = "done"
    /\ package' \in ide_print_error(err)
    /\ pc' = "returned"
    /\ UNCHANGED <<driveVars, ide_devices, scan, call, buf, block, err>>

-----------------------------------------------------------------------------
(***************************************************************************)
(* The caller's two ways on.  The shell frees its buffer on each; the      *)
(* boot's is its own.                                                      *)
(***************************************************************************)
kfree == block' = 0 /\ buf' = <<>>

Leave == pc' = "shell" /\ call' = NoCall /\ err' = 0 /\ cmd' = NoCmd

\* Mutant: the buffer is kept after an error.
GiveUp_keeps ==
    /\ pc = "returned" /\ package # 0
    /\ Leave /\ buf' = <<>>
    /\ UNCHANGED <<hw, dev, ide_devices, scan, block, package>>

GiveUp ==
    /\ pc = "returned" /\ package # 0
    /\ Leave /\ kfree
    /\ UNCHANGED <<hw, dev, ide_devices, scan, package>>

Show ==
    /\ pc = "returned" /\ package = 0
    /\ Leave /\ kfree
    /\ UNCHANGED <<hw, dev, ide_devices, scan, package>>

-----------------------------------------------------------------------------
(***************************************************************************)
(* The drives.  One is busy for a while and then answers as it likes, but  *)
(* for IDENTIFY, which an ATA drive ends with data, a packet drive or one  *)
(* the kernel does not know with an error, and a mute one with neither.    *)
(***************************************************************************)
Failing == {{"DRDY", "ERR"}, {"DRDY", "DRQ", "ERR"}}
Silent  == {{"DRDY"}, {"DF"}, {}}

IdentifyEnds(type) ==
    CASE type = "ATA" -> {{"DRDY", "DRQ"}}
      [] type \in {"ATAPI", "other"} -> {{"DRDY", "ERR"}}
      [] OTHER -> Silent

\* A drive has the sector, unless it is one the drive does not know.
Has(model, c) ==
    /\ c.next < model.size
    /\ IF c.ext THEN model.ext ELSE c.next < LBA28

DriveAnswers ==
    /\ Busy
    /\ dev' \in CASE pc = "identify" -> IdentifyEnds(hw[Place(scan)].type)
                  [] pc = "select" -> {{"DRDY"}, {}}
                  [] pc = "poll" /\ ~Has(hw[cmd.at], cmd) -> Failing
                  [] OTHER -> {{"DRDY", "DRQ"}} \cup Failing \cup Silent
    /\ UNCHANGED <<hw, cmd, ide_devices, scan, pc, call, buf, block, err, package>>

\* A drive may become ready of itself; nothing makes it.
SpinsUp ==
    /\ pc = "select" /\ dev = {}
    /\ dev' = {"DRDY"}
    /\ UNCHANGED <<hw, cmd, ide_devices, scan, pc, call, buf, block, err, package>>

Driver ==
    \/ Identify \/ Identified \/ WaitIdentified \/ ReadMbr
    \/ SelectDrive \/ WaitReady \/ AtaCommand \/ Transfer \/ Failed
    \/ PacketCommand \/ SendPacket \/ ide_wait_irq
    \/ Return \/ GiveUp \/ Show

Next ==
    \/ Driver
    \/ DriveAnswers
    \/ SpinsUp
    \/ \E k \in 0..3, lba \in Lbas, nsec \in Counts : DskRead(k, lba, nsec)

Spec == Init /\ [][Next]_vars /\ WF_vars(Driver) /\ WF_vars(DriveAnswers)

-----------------------------------------------------------------------------
\* The table lists the drives the kernel can use, each once, in the order of
\* the places and under the place it is attached to (ide_init's count).
Usable(p) == hw[p].type \in {"ATA", "ATAPI"}
DevicesFound ==
    /\ Len(ide_devices) = Cardinality({n \in 0..(scan - 1) : Usable(Place(n))})
    /\ \A k \in DOMAIN ide_devices :
         \E n \in 0..(scan - 1) :
           /\ Usable(Place(n))
           /\ ide_devices[k] = [at |-> Place(n), model |-> hw[Place(n)]]
           /\ k = 1 + Cardinality({i \in 0..(n - 1) : Usable(Place(i))})

\* What arrives in the buffer are the sectors asked for, in order and from the
\* drive asked for, in whichever of the three addressings.
SectorsAsked ==
    \A k \in DOMAIN buf : buf[k] = <<Selected(call.drive).at, call.lba + k - 1>>

\* No command names a sector the drive does not have, or uses an addressing
\* the drive does not know; but for ranges that end past 2^32, which the test
\* of ide.c:478 takes modulo 2^32 and lets pass.
CommandInRange ==
    pc = "poll" /\ cmd.left > 0 /\ call.lba + call.numsects < WORD =>
      /\ cmd.next + cmd.left <= hw[cmd.at].size
      /\ cmd.ext => hw[cmd.at].ext

\* A read never stores beyond its buffer, and the shell's next command line
\* finds no buffer held, whichever way the read ended (shell.c:209-236).
BufferFits == Len(buf) <= block /\ (pc = "shell" => block = 0)

\* package[0] is 0 after a read exactly if every sector asked for has arrived.
AnswerTrue ==
    [][pc = "done" => (package' = 0 <=> Len(buf) = call.numsects)]_vars

\* What the two loops of the driver that have no other end wait for in vain: a
\* drive that has ended IDENTIFY with neither error nor data (ide.c:199-207),
\* and one that is not busy but never ready (ide.c:337-341).
MuteDrive    == pc = "identify" /\ dev \cap {"BSY", "DRQ", "ERR"} = {}
UnreadyDrive == pc = "select" /\ dev \cap {"BSY", "DRDY"} = {}

\* The probe ends, and every read of an ATA drive comes back to the shell,
\* wherever it fails: the driver stays for ever only in one of those two loops,
\* and only while the drive withholds just that.
Returns ==
    /\ <>(scan = 4) \/ <>[]MuteDrive
    /\ []<>(pc \notin {"ata", "select", "poll", "done", "returned"}) \/ <>[]UnreadyDrive

\* kinit.c:69 "read mbr on first disk": the boot comes to the shell's prompt.
BootEnds == <>(pc = "shell")
=============================================================================
