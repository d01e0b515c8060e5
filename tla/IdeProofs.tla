------------------------------ MODULE IdeProofs ------------------------------
(***************************************************************************)
(* The probe lists the drives it finds.  A disk read asks each drive for   *)
(* the right sectors and for none it does not have, never overruns its     *)
(* buffer, gives it back, and answers 0 exactly if every sector has        *)
(* arrived: for any drives, any sectors asked for and any failures.        *)
(*                                                                         *)
(* The invariants follow the sectors: those stored and those the drive has *)
(* still to give are together the ones asked for, which the buffer holds,  *)
(* and the next one is as far from the first as many are stored.  That the *)
(* command begins at the right one is arithmetic: the bytes of a number,   *)
(* or its cylinder, head and sector, put together again are the number.    *)
(***************************************************************************)
EXTENDS Ide, FiniteSetTheorems, TLAPS

Idle == {"ide_init", "identify", "shell"}

\* Between reads, or after one.
Over == Idle \cup {"returned"}

\* The state of the read of which pc is inside.
Reading ==
    /\ pc \in Idle => buf = <<>> /\ block = 0
    /\ pc \in {"ata", "select", "atapi", "packet", "ide_wait_irq"} => buf = <<>>
    /\ pc \notin Over => call.numsects \in Nat \ {0} /\ call.numsects <= block
    /\ pc = "poll" => cmd.left \in Nat \ {0} /\ Len(buf) + cmd.left = call.numsects
    /\ pc = "done" =>
         /\ err \in 0..3 /\ Len(buf) <= call.numsects
         /\ err = 0 <=> Len(buf) = call.numsects
         /\ ~Busy
    /\ pc = "returned" => Len(buf) <= block

IInv ==
    /\ pc \in Over \cup {"ata", "select", "poll", "atapi", "packet", "ide_wait_irq", "done"}
    /\ block \in Nat
    /\ \E S : buf \in Seq(S)
    /\ Reading

\* The places dealt with so far that hold a drive the kernel can use.
Found(m) == {n \in 0..(m - 1) : Usable(Place(n))}

\* The table ds lists the drives of the first m places.
Lists(ds, m) ==
    /\ Len(ds) = Cardinality(Found(m))
    /\ \A k \in DOMAIN ds :
         \E n \in 0..(m - 1) :
           /\ Usable(Place(n))
           /\ ds[k] = [at |-> Place(n), model |-> hw[Place(n)]]
           /\ k = 1 + Cardinality(Found(n))

\* What the probe has found, at each of its steps.
Probed ==
    /\ hw \in [Places -> Models] /\ scan \in 0..4
    /\ \E S : ide_devices \in Seq(S)
    /\ pc = "identify" =>
         /\ scan < 4 /\ hw[Place(scan)].type # "none"
         /\ dev = {"BSY"} \/ dev \in IdentifyEnds(hw[Place(scan)].type)
    /\ Lists(ide_devices, scan)

\* What a read was asked for, and how far the drive's command has come.
Asked ==
    /\ pc \notin Over =>
         /\ call.drive \in Nat /\ reserved(call.drive)
         /\ call.lba \in 0..(WORD - 1) /\ call.numsects \in 1..MAX_SECS
    /\ pc \in {"ata", "select", "poll"} =>
         /\ Selected(call.drive).model.type = "ATA"
         /\ InRange(call.drive, call.lba, call.numsects)
    /\ pc = "poll" =>
         /\ cmd.at = Selected(call.drive).at
         /\ cmd.ext = (call.lba >= LBA28)
         /\ cmd.next = call.lba + Len(buf)
    /\ SectorsAsked

-----------------------------------------------------------------------------
(***************************************************************************)
(* Arithmetic of addresses.                                                *)
(***************************************************************************)
LEMMA ModRange ==
  ASSUME NEW a \in Int, NEW n \in Nat \ {0}
  PROVE  /\ a % n \in 0..(n - 1)
         /\ a \div n \in Int
         /\ a = n * (a \div n) + (a % n)
OBVIOUS

LEMMA Times ==
  ASSUME NEW n \in Nat \ {0}, NEW d \in Int, n * d < n, - n < n * d
  PROVE  d = 0
<1>1. d >= 1 => n * d >= n
  OBVIOUS
<1>2. d <= -1 => n * d <= - n
  OBVIOUS
<1> QED BY <1>1, <1>2

\* Quotient and remainder are the only such numbers.
LEMMA DivUnique ==
  ASSUME NEW n \in Nat \ {0}, NEW q \in Int, NEW r \in 0..(n - 1),
         NEW a \in Int, a = n * q + r
  PROVE  a \div n = q /\ a % n = r
<1> DEFINE d == (a \div n) - q
<1>1. d \in Int /\ a \div n \in Int /\ a % n \in 0..(n - 1) /\ a = n * (a \div n) + (a % n)
  BY ModRange
<1>2. n * d = n * (a \div n) - n * q
  BY <1>1
<1>3. n * d = r - (a % n)
  BY <1>1, <1>2
<1>4. d = 0
  BY <1>1, <1>3, Times
<1>5. a \div n = q
  BY <1>1, <1>4
<1> QED BY <1>1, <1>5

LEMMA NatDiv ==
  ASSUME NEW a \in Nat, NEW n \in Nat \ {0}
  PROVE  /\ a \div n \in Nat /\ a % n \in 0..(n - 1)
         /\ a = n * (a \div n) + (a % n)
<1>1. a \div n \in Int /\ a % n \in 0..(n - 1) /\ a = n * (a \div n) + (a % n)
  BY ModRange
<1>2. a \div n <= -1 => n * (a \div n) <= - n
  BY <1>1
<1> QED BY <1>1, <1>2

LEMMA DivDiv ==
  ASSUME NEW a \in Nat, NEW m \in Nat \ {0}, NEW n \in Nat \ {0}
  PROVE  (a \div m) \div n = a \div (m * n)
<1> DEFINE q == a \div m
           r == a % m
           p == q \div n
           s == q % n
<1>1. q \in Nat /\ r \in 0..(m - 1) /\ a = m * q + r
  BY NatDiv
<1>2. p \in Nat /\ s \in 0..(n - 1) /\ q = n * p + s
  BY <1>1, NatDiv
<1> HIDE DEF q, r, p, s
<1>3. m * n \in Nat \ {0} /\ m * s \in Nat
  BY <1>2
<1>4. a = (m * n) * p + (m * s + r)
  BY <1>1, <1>2
<1>5. m * s <= m * (n - 1)
  BY <1>2
<1>6. m * s + r \in 0..(m * n - 1)
  BY <1>1, <1>3, <1>5
<1>7. a \div (m * n) = p
  BY <1>2, <1>3, <1>4, <1>6, DivUnique
<1> QED BY <1>7 DEF q, p

\* A quotient is below a bound if the number is below as many times it.
LEMMA DivBound ==
  ASSUME NEW a \in Nat, NEW n \in Nat \ {0}, NEW m \in Nat, a < n * m
  PROVE  a \div n < m
<1>1. a \div n \in Nat /\ a % n \in 0..(n - 1) /\ a = n * (a \div n) + (a % n)
  BY NatDiv
<1>2. a \div n >= m => n * (a \div n) >= n * m
  BY <1>1
<1> QED BY <1>1, <1>2

LEMMA Units ==
  /\ BYTE \in Nat \ {0} /\ BYTE2 \in Nat \ {0} /\ BYTE3 \in Nat \ {0}
  /\ HEADS \in Nat \ {0} /\ SPT \in Nat \ {0} /\ HEADS < BYTE /\ MAX_SECS < BYTE
  /\ WORD \in Nat /\ LBA28 \in Nat
<1>1. BYTE \in Nat \ {0} /\ HEADS \in 1..(BYTE - 1) /\ SPT \in 1..(BYTE - 1)
      /\ MAX_SECS \in 1..(BYTE - 1)
  BY IdeAssumption
<1>2. BYTE2 \in Nat \ {0}  BY <1>1 DEF BYTE2
<1>3. BYTE3 \in Nat \ {0}  BY <1>1, <1>2 DEF BYTE3
<1> QED BY <1>1, <1>2, <1>3 DEF WORD, LBA28

LEMMA ByteDiv ==
  ASSUME NEW a \in Nat
  PROVE  /\ a \div BYTE \in Nat /\ a % BYTE \in Nat
         /\ a = BYTE * (a \div BYTE) + (a % BYTE)
<1>1. BYTE \in Nat \ {0}  BY Units
<1> QED BY <1>1, NatDiv

\* A number is put together again from its low bytes and the rest.
LEMMA Bytes ==
  ASSUME NEW n \in Nat
  PROVE  /\ n = byte(n, 1) + BYTE * byte(n, BYTE) + BYTE2 * (n \div BYTE2)
         /\ n \div BYTE2 = byte(n, BYTE2) + BYTE * (n \div BYTE3)
         /\ byte(n, 1) \in Nat /\ byte(n, BYTE) \in Nat /\ byte(n, BYTE2) \in Nat
         /\ n \div BYTE2 \in Nat /\ n \div BYTE3 \in Nat
<1> DEFINE q == n \div BYTE
           p == n \div BYTE2
           r == n \div BYTE3
<1>1. p = q \div BYTE  BY Units, DivDiv DEF BYTE2
<1>2. r = p \div BYTE
  <2>1. p \div BYTE = n \div (BYTE2 * BYTE)  BY Units, DivDiv
  <2>2. BYTE2 * BYTE = BYTE * BYTE2  BY Units
  <2> QED BY <2>1, <2>2 DEF BYTE3
<1>3. byte(n, 1) = n % BYTE /\ byte(n, BYTE) = q % BYTE /\ byte(n, BYTE2) = p % BYTE
  <2>1. n \div 1 = n  OBVIOUS
  <2> QED BY <2>1 DEF byte
<1>4. q \in Nat /\ n % BYTE \in Nat /\ n = BYTE * q + (n % BYTE)
  BY ByteDiv
<1> HIDE DEF p, q, r
<1>5. p \in Nat /\ q % BYTE \in Nat
  <2>1. q \in Nat  BY <1>4
  <2> QED BY <2>1, <1>1, ByteDiv
<1>6. q = BYTE * p + (q % BYTE)
  <2>1. q \in Nat  BY <1>4
  <2> QED BY <2>1, <1>1, ByteDiv
<1>7. r \in Nat /\ p % BYTE \in Nat
  <2>1. p \in Nat  BY <1>5
  <2> QED BY <2>1, <1>2, ByteDiv
<1>8. p = BYTE * r + (p % BYTE)
  <2>1. p \in Nat  BY <1>5
  <2> QED BY <2>1, <1>2, ByteDiv
<1>9. BYTE * q = BYTE2 * p + BYTE * (q % BYTE)
  <2>1. BYTE * q = BYTE * (BYTE * p) + BYTE * (q % BYTE)  BY <1>5, <1>6, Units
  <2>2. BYTE * (BYTE * p) = (BYTE * BYTE) * p  BY <1>5, Units
  <2> QED BY <2>1, <2>2 DEF BYTE2
<1>10. BYTE2 * p \in Nat /\ BYTE * (q % BYTE) \in Nat /\ BYTE * r \in Nat
  BY <1>5, <1>7, Units
<1>11. n = (n % BYTE) + BYTE * (q % BYTE) + BYTE2 * p
  BY <1>4, <1>9, <1>10
<1>12. p = (p % BYTE) + BYTE * r
  BY <1>7, <1>8, <1>10
<1> QED BY <1>3, <1>4, <1>5, <1>7, <1>11, <1>12 DEF p, r

LEMMA Small ==
  ASSUME NEW n \in Nat \ {0}, NEW a \in Nat, a < n
  PROVE  a % n = a /\ a \div n = 0
<1>1. a = n * 0 + a /\ a \in 0..(n - 1) /\ a \in Int  OBVIOUS
<1> QED BY <1>1, DivUnique

LEMMA ThreeBytes ==
  ASSUME NEW n \in Nat
  PROVE  n = byte(n, 1) + BYTE * byte(n, BYTE) + BYTE2 * byte(n, BYTE2)
               + BYTE3 * (n \div BYTE3)
<1> DEFINE b == byte(n, BYTE2)
           p == n \div BYTE2
           r == n \div BYTE3
<1>1. p = b + BYTE * r /\ b \in Nat /\ r \in Nat /\ BYTE \in Nat /\ BYTE2 \in Nat
  BY Bytes, Units
<1>2. n = byte(n, 1) + BYTE * byte(n, BYTE) + BYTE2 * p /\ byte(n, 1) \in Nat /\ byte(n, BYTE) \in Nat
  BY Bytes
<1> HIDE DEF b, p, r
<1>3. BYTE2 * p = BYTE2 * b + BYTE2 * (BYTE * r)  BY <1>1
<1>4. BYTE2 * (BYTE * r) = BYTE3 * r
  <2>1. BYTE2 * (BYTE * r) = (BYTE * BYTE2) * r  BY <1>1
  <2> QED BY <2>1 DEF BYTE3
<1>5. BYTE2 * b \in Nat /\ BYTE3 * r \in Nat /\ BYTE * byte(n, BYTE) \in Nat
  BY <1>1, <1>2, Units
<1>6. n = byte(n, 1) + BYTE * byte(n, BYTE) + BYTE2 * b + BYTE3 * r
  BY <1>2, <1>3, <1>4, <1>5
<1> QED BY <1>6 DEF b, r

\* Cylinder, head and sector of a number name that number, as long as the
\* cylinder fits in its two bytes.
LEMMA Cylinders ==
  ASSUME NEW lba \in Nat, lba < HEADS * SPT * BYTE2
  PROVE  /\ sect(lba) \in Nat /\ cyl(lba) \in Nat /\ head(0, lba) \in Nat
         /\ cyl(lba) = byte(cyl(lba), 1) + BYTE * byte(cyl(lba), BYTE)
         /\ (cyl(lba) * HEADS + head(0, lba)) * SPT + sect(lba) - 1 = lba
<1> DEFINE q == lba \div SPT
           s == lba % SPT
           c == q \div HEADS
           h == q % HEADS
<1>1. HEADS \in Nat \ {0} /\ SPT \in Nat \ {0} /\ BYTE \in Nat \ {0} /\ BYTE2 \in Nat \ {0}
  BY Units
<1>2. q \in Nat /\ s \in 0..(SPT - 1) /\ lba = SPT * q + s
  BY <1>1, NatDiv
<1>3. sect(lba) = s + 1 /\ lba + 1 - sect(lba) = SPT * q
  <2>1. sect(lba) = s + 1  BY DEF sect
  <2> HIDE DEF q, s
  <2>2. SPT * q \in Nat /\ s \in Nat  BY <1>1, <1>2
  <2>3. lba + 1 - (s + 1) = SPT * q  BY <1>2, <2>2
  <2> QED BY <2>1, <2>3
<1>4. c = lba \div (HEADS * SPT)
  <2>1. c = lba \div (SPT * HEADS)  BY <1>1, DivDiv
  <2>2. SPT * HEADS = HEADS * SPT  BY <1>1
  <2> QED BY <2>1, <2>2
<1>5. c < BYTE2
  <2>1. HEADS * SPT \in Nat \ {0} /\ lba < (HEADS * SPT) * BYTE2  BY <1>1
  <2>2. lba \div (HEADS * SPT) < BYTE2  BY <1>1, <2>1, DivBound
  <2> QED BY <2>2, <1>4
<1>6. (SPT * q) \div SPT = q
  <2> HIDE DEF q, s
  <2>1. SPT * q \in Int /\ SPT * q = SPT * q + 0 /\ 0 \in 0..(SPT - 1) /\ q \in Int
    BY <1>1, <1>2
  <2> QED BY <1>1, <2>1, DivUnique
<1>7. (SPT * q) \div (HEADS * SPT) = c
  <2>1. SPT * q \in Nat  BY <1>1, <1>2
  <2>2. (SPT * q) \div (SPT * HEADS) = ((SPT * q) \div SPT) \div HEADS
    BY <1>1, <2>1, DivDiv
  <2>3. SPT * HEADS = HEADS * SPT  BY <1>1
  <2> QED BY <2>2, <2>3, <1>6
<1> HIDE DEF q, s
<1>8. c \in Nat /\ h \in 0..(HEADS - 1) /\ q = HEADS * c + h
  <2>1. q \in Nat  BY <1>2
  <2> QED BY <1>1, <2>1, NatDiv
<1>9. head(0, lba) = h
  <2>1. head(0, lba) = ((lba + 1 - sect(lba)) \div SPT) % HEADS  BY DEF head
  <2> QED BY <2>1, <1>3, <1>6
<1>10. cyl(lba) = c % BYTE2
  BY <1>3, <1>7 DEF cyl, BYTE2
<1> HIDE DEF c, h
<1>11. c % BYTE2 = c
  BY <1>1, <1>5, <1>8, Small
<1>12. cyl(lba) = c  BY <1>10, <1>11
<1>13. c = byte(c, 1) + BYTE * byte(c, BYTE)
  <2>1. c \div BYTE2 = 0  BY <1>1, <1>5, <1>8, Small
  <2>2. c = byte(c, 1) + BYTE * byte(c, BYTE) + BYTE2 * (c \div BYTE2)
        /\ byte(c, 1) \in Nat /\ byte(c, BYTE) \in Nat
    BY <1>8, Bytes
  <2>3. BYTE2 * (c \div BYTE2) = 0  BY <2>1, <1>1
  <2>4. BYTE * byte(c, BYTE) \in Nat  BY <2>2, <1>1
  <2> QED BY <2>2, <2>3, <2>4
<1>14. (c * HEADS + h) * SPT + s = lba
  <2>1. c * HEADS + h = q  BY <1>1, <1>8
  <2>2. q * SPT = SPT * q  BY <1>1, <1>2
  <2> QED BY <1>2, <2>1, <2>2
<1>15. (c * HEADS + h) * SPT + (s + 1) - 1 = lba
  <2>1. (c * HEADS + h) * SPT \in Nat /\ s \in Nat  BY <1>1, <1>2, <1>8
  <2> QED BY <1>14, <2>1
<1>16. sect(lba) \in Nat /\ head(0, lba) \in Nat
  BY <1>1, <1>2, <1>3, <1>8, <1>9
<1> QED BY <1>3, <1>8, <1>9, <1>12, <1>13, <1>15, <1>16

LEMMA PutIs ==
  ASSUME NEW tf, DOMAIN tf = 0..COUNT, NEW r \in 0..COUNT, NEW v
  PROVE  /\ DOMAIN Put(tf, r, v) = 0..COUNT
         /\ Put(tf, r, v)[r] = <<v, tf[r][1]>>
         /\ \A s \in (0..COUNT) \ {r} : Put(tf, r, v)[s] = tf[s]
BY DEF Put

\* Three writes leave in the first places what was written last.
LEMMA PutThree ==
  ASSUME NEW tf, DOMAIN tf = 0..COUNT, NEW io
  PROVE  LET w == PutAddress(tf, io)
         IN  /\ DOMAIN w = 0..COUNT
             /\ w[0] = <<io[1], tf[0][1]>> /\ w[1] = <<io[2], tf[1][1]>>
             /\ w[2] = <<io[3], tf[2][1]>> /\ w[COUNT] = tf[COUNT]
<1> DEFINE u == Put(tf, 0, io[1])
           v == Put(u, 1, io[2])
           w == Put(v, 2, io[3])
<1>0. /\ 0 \in 0..COUNT /\ 1 \in 0..COUNT /\ 2 \in 0..COUNT /\ COUNT \in 0..COUNT
      /\ COUNT \notin {0, 1, 2}
  BY DEF COUNT
<1>1. /\ DOMAIN u = 0..COUNT /\ u[0] = <<io[1], tf[0][1]>> /\ u[1] = tf[1] /\ u[2] = tf[2]
      /\ u[COUNT] = tf[COUNT]
  BY <1>0, PutIs
<1> HIDE DEF u
<1>2. /\ DOMAIN v = 0..COUNT /\ v[0] = u[0] /\ v[1] = <<io[2], u[1][1]>> /\ v[2] = u[2]
      /\ v[COUNT] = u[COUNT]
  BY <1>0, <1>1, PutIs
<1> HIDE DEF v
<1>3. /\ DOMAIN w = 0..COUNT /\ w[0] = v[0] /\ w[1] = v[1] /\ w[2] = <<io[3], v[2][1]>>
      /\ w[COUNT] = v[COUNT]
  BY <1>0, <1>2, PutIs
<1> QED BY <1>1, <1>2, <1>3 DEF u, v, PutAddress

LEMMA PutCount ==
  ASSUME NEW tf, DOMAIN tf = 0..COUNT, NEW n
  PROVE  LET w == Put(tf, COUNT, n)
         IN  /\ DOMAIN w = 0..COUNT
             /\ w[0] = tf[0] /\ w[1] = tf[1] /\ w[2] = tf[2]
             /\ w[COUNT] = <<n, tf[COUNT][1]>>
<1>1. /\ 0 \in 0..COUNT /\ 1 \in 0..COUNT /\ 2 \in 0..COUNT /\ COUNT \in 0..COUNT
      /\ COUNT \notin {0, 1, 2}
  BY DEF COUNT
<1> QED BY <1>1, PutIs

LEMMA Programmed ==
  ASSUME NEW tf, DOMAIN tf = 0..COUNT, NEW mode, NEW lba, NEW n
  PROVE  LET w  == Taskfile(tf, mode, lba, n)
             io == lba_io(mode, lba)
         IN  /\ w[0][1] = io[1] /\ w[1][1] = io[2] /\ w[2][1] = io[3] /\ w[COUNT][1] = n
             /\ mode = 2 => /\ w[0][2] = byte(lba, BYTE3) /\ w[1][2] = 0 /\ w[2][2] = 0
                            /\ w[COUNT][2] = 0
<1> DEFINE top == high_io(lba)
           put == PutAddress(Put(tf, COUNT, 0), top)
           hi == IF mode = 2 THEN put ELSE tf
           counted == Put(hi, COUNT, n)
           io == lba_io(mode, lba)
           w  == PutAddress(counted, io)
<1>1. /\ DOMAIN put = 0..COUNT /\ put[COUNT][1] = 0
      /\ put[0][1] = top[1] /\ put[1][1] = top[2] /\ put[2][1] = top[3]
  <2> DEFINE zero == Put(tf, COUNT, 0)
  <2>1. DOMAIN zero = 0..COUNT /\ zero[COUNT] = <<0, tf[COUNT][1]>>  BY PutCount
  <2> HIDE DEF zero, top
  <2>2. /\ DOMAIN PutAddress(zero, top) = 0..COUNT
        /\ PutAddress(zero, top)[0] = <<top[1], zero[0][1]>>
        /\ PutAddress(zero, top)[1] = <<top[2], zero[1][1]>>
        /\ PutAddress(zero, top)[2] = <<top[3], zero[2][1]>>
        /\ PutAddress(zero, top)[COUNT] = zero[COUNT]
    BY <2>1, PutThree
  <2> QED BY <2>1, <2>2 DEF zero
<1>2. top[1] = byte(lba, BYTE3) /\ top[2] = 0 /\ top[3] = 0  BY DEF high_io
<1> HIDE DEF put, top
<1>3. DOMAIN hi = 0..COUNT /\ (mode = 2 => hi = put)  BY <1>1
<1> HIDE DEF hi, io
<1>4. /\ DOMAIN counted = 0..COUNT /\ counted[COUNT] = <<n, hi[COUNT][1]>>
      /\ counted[0] = hi[0] /\ counted[1] = hi[1] /\ counted[2] = hi[2]
  BY <1>3, PutCount
<1> HIDE DEF counted
<1>5. /\ w[0] = <<io[1], counted[0][1]>> /\ w[1] = <<io[2], counted[1][1]>>
      /\ w[2] = <<io[3], counted[2][1]>> /\ w[COUNT] = counted[COUNT]
  BY <1>4, PutThree
<1>6. Taskfile(tf, mode, lba, n) = w  BY DEF Taskfile, counted, hi, put, top, io
<1> HIDE DEF w
<1>7. /\ w[0][1] = io[1] /\ w[1][1] = io[2] /\ w[2][1] = io[3] /\ w[COUNT][1] = n
      /\ w[0][2] = hi[0][1] /\ w[1][2] = hi[1][1] /\ w[2][2] = hi[2][1]
      /\ w[COUNT][2] = hi[COUNT][1]
  BY <1>4, <1>5
<1> QED BY <1>1, <1>2, <1>3, <1>6, <1>7 DEF io

-----------------------------------------------------------------------------
\* The registers say as many sectors as asked for,
LEMMA CountKept ==
  ASSUME NEW tf, DOMAIN tf = 0..COUNT, NEW mode, NEW lba, NEW n \in Nat
  PROVE  Counted(Taskfile(tf, mode, lba, n), mode) = n
<1> DEFINE w == Taskfile(tf, mode, lba, n)
<1>1. w[COUNT][1] = n /\ (mode = 2 => w[COUNT][2] = 0)  BY Programmed
<1> HIDE DEF w
<1>2. Counted(w, mode) = n  BY <1>1, Units DEF Counted
<1> QED BY <1>2 DEF w

\* and name the sector asked for, in each of the three modes.
LEMMA Names ==
  ASSUME NEW model, NEW lba \in 0..(WORD - 1), NEW n, NEW stale,
         ~model.lba => lba >= LBA28 \/ lba < HEADS * SPT * BYTE2
  PROVE  LET mode == lba_mode(model, lba)
             tf   == Taskfile([r \in 0..COUNT |-> <<stale, stale>>], mode, lba, n)
         IN  Addressed(tf, mode, head(mode, lba)) = lba
<1> DEFINE mode == lba_mode(model, lba)
           tf0  == [r \in 0..COUNT |-> <<stale, stale>>]
           tf   == Taskfile(tf0, mode, lba, n)
           io   == lba_io(mode, lba)
           top  == lba \div BYTE3
<1>1. lba \in Nat /\ lba < BYTE * BYTE3  BY Units DEF WORD
<1>2. /\ tf[0][1] = io[1] /\ tf[1][1] = io[2] /\ tf[2][1] = io[3]
      /\ mode = 2 => tf[0][2] = byte(lba, BYTE3) /\ tf[1][2] = 0 /\ tf[2][2] = 0
  <2>1. DOMAIN tf0 = 0..COUNT  OBVIOUS
  <2> HIDE DEF tf0, mode
  <2> QED BY <2>1, Programmed
<1>3. /\ mode \in {0, 1, 2}
      /\ mode = 2 <=> lba >= LBA28
      /\ mode = 0 => ~model.lba
  BY DEF lba_mode
<1>4. top \in Nat /\ top < BYTE
  <2>1. BYTE3 \in Nat \ {0} /\ BYTE \in Nat /\ lba < BYTE3 * BYTE  BY <1>1, Units
  <2> QED BY <1>1, <2>1, NatDiv, DivBound
<1>5. byte(lba, BYTE3) = top
  <2> HIDE DEF top
  <2>1. top % BYTE = top  BY <1>4, Units, Small
  <2> QED BY <2>1 DEF byte, top
<1>6. lba = byte(lba, 1) + BYTE * byte(lba, BYTE) + BYTE2 * byte(lba, BYTE2) + BYTE3 * top
  BY <1>1, ThreeBytes
<1> HIDE DEF mode, tf0, tf, io, top
<1>10. SUFFICES Addressed(tf, mode, head(mode, lba)) = lba
  BY DEF tf, mode, tf0
<1>7. CASE mode = 2
  <2>1. io[1] = byte(lba, 1) /\ io[2] = byte(lba, BYTE) /\ io[3] = byte(lba, BYTE2)
    BY <1>7 DEF io, lba_io
  <2>2. top + BYTE * 0 + BYTE2 * 0 = top  BY <1>4, Units
  <2>3. Addressed(tf, mode, head(mode, lba))
          = byte(lba, 1) + BYTE * byte(lba, BYTE) + BYTE2 * byte(lba, BYTE2)
              + BYTE3 * (top + BYTE * 0 + BYTE2 * 0)
    BY <1>2, <1>5, <1>7, <2>1 DEF Addressed
  <2> QED BY <1>6, <2>2, <2>3
<1>8. CASE mode = 1
  <2>1. io[1] = byte(lba, 1) /\ io[2] = byte(lba, BYTE) /\ io[3] = byte(lba, BYTE2)
    BY <1>8 DEF io, lba_io
  <2>2. head(mode, lba) = top
    <3>1. lba < BYTE3 * HEADS  BY <1>1, <1>3, <1>8, Units DEF LBA28
    <3>2. top < HEADS  BY <1>1, <3>1, Units, DivBound DEF top
    <3>3. top % HEADS = top  BY <1>4, <3>2, Units, Small
    <3> QED BY <1>5, <1>8, <3>3 DEF head
  <2>3. Addressed(tf, mode, top)
          = byte(lba, 1) + BYTE * byte(lba, BYTE) + BYTE2 * byte(lba, BYTE2) + BYTE3 * top
    BY <1>2, <1>8, <2>1 DEF Addressed
  <2> QED BY <1>6, <2>2, <2>3
<1>9. CASE mode = 0
  <2>1. /\ io[1] = sect(lba) /\ io[2] = byte(cyl(lba), 1) /\ io[3] = byte(cyl(lba), BYTE)
    BY <1>9 DEF io, lba_io
  <2>2. lba < HEADS * SPT * BYTE2
    <3>1. ~model.lba /\ ~(lba >= LBA28)  BY <1>3, <1>9
    <3> QED BY <3>1
  <2>3. Addressed(tf, mode, head(mode, lba))
          = ((byte(cyl(lba), 1) + BYTE * byte(cyl(lba), BYTE)) * HEADS + head(0, lba)) * SPT
              + sect(lba) - 1
    BY <1>2, <1>9, <2>1 DEF Addressed
  <2>4. /\ cyl(lba) = byte(cyl(lba), 1) + BYTE * byte(cyl(lba), BYTE)
        /\ (cyl(lba) * HEADS + head(0, lba)) * SPT + sect(lba) - 1 = lba
    BY <1>1, <2>2, Cylinders
  <2> QED BY <2>3, <2>4
<1> QED BY <1>3, <1>7, <1>8, <1>9

-----------------------------------------------------------------------------
LEMMA AppendLen ==
  ASSUME NEW s, NEW S, s \in Seq(S), NEW x
  PROVE  Len(Append(s, x)) = Len(s) + 1 /\ \E T : Append(s, x) \in Seq(T)
<1>1. s \in Seq(S \cup {x}) /\ x \in S \cup {x}  OBVIOUS
<1>2. Append(s, x) \in Seq(S \cup {x}) /\ Len(Append(s, x)) = Len(s) + 1  BY <1>1
<1> QED BY <1>2

LEMMA CappedCount ==
  ASSUME NEW nsec \in Counts
  PROVE  /\ capped(nsec) \in Nat \ {0}
         /\ capped(nsec) % BYTE = capped(nsec)
<1>1. capped(nsec) \in Nat \ {0} /\ capped(nsec) < BYTE /\ BYTE \in Nat \ {0}
  <2>1. nsec \in Nat \ {0} /\ MAX_SECS \in Nat \ {0} /\ BYTE \in Nat \ {0} /\ MAX_SECS < BYTE
    BY IdeAssumption
  <2> QED BY <2>1 DEF capped
<1>2. ASSUME NEW n \in Nat, n < BYTE PROVE n % BYTE = n
  BY <1>1, <1>2
<1> QED BY <1>1, <1>2

LEMMA InitInv == Init => IInv
<1> SUFFICES ASSUME Init PROVE IInv  OBVIOUS
<1>1. buf \in Seq({})  BY DEF Init
<1> QED BY <1>1 DEF Init, IInv, Reading, Idle, Over

\* Entering a read, with room for what is asked for.
LEMMA ReadEnter ==
  ASSUME IInv, pc \in Idle, NEW k, NEW lba, NEW n \in Nat \ {0},
         ReadSectors(k, n, lba, n), UNCHANGED buf
  PROVE  IInv'
<1>1. buf' = <<>> /\ block' = n /\ Len(buf') = 0 /\ \E S : buf' \in Seq(S)
  BY DEF IInv, Reading, ReadSectors
<1>2. CASE pc' = "returned"
  BY <1>1, <1>2 DEF IInv, Reading, Idle, Over
<1>3. CASE pc' # "returned"
  <2>1. pc' \in {"ata", "atapi"} /\ call'.numsects = n
    BY <1>3 DEF ReadSectors, explicit
  <2> QED BY <1>1, <2>1 DEF IInv, Reading, Idle, Over
<1> QED BY <1>2, <1>3

\* The caller goes on with nothing held.
LEMMA Left ==
  ASSUME IInv, pc' = "shell", kfree
  PROVE  IInv'
<1>1. <<>> \in Seq({})  OBVIOUS
<1> QED BY <1>1 DEF kfree, IInv, Reading, Idle, Over

LEMMA StepInv == IInv /\ [Next]_vars => IInv'
<1> SUFFICES ASSUME IInv, [Next]_vars PROVE IInv'  OBVIOUS
<1> USE DEF driveVars
<1>1. CASE Identify \/ Identified
  BY <1>1 DEF Identify, Identified, IInv, Reading, Idle, Over
<1>2. CASE ReadMbr
  <2>1. pc \in Idle /\ ReadSectors(0, 1, 0, 1) /\ UNCHANGED buf
    BY <1>2 DEF ReadMbr, Idle
  <2> QED BY <2>1, ReadEnter
<1>3. ASSUME NEW k \in 0..3, NEW lba \in Lbas, NEW nsec \in Counts, DskRead(k, lba, nsec)
      PROVE  IInv'
  <2>1. CASE ReadSectors(k, capped(nsec) % BYTE, lba, capped(nsec))
    <3>1. ReadSectors(k, capped(nsec), lba, capped(nsec)) /\ capped(nsec) \in Nat \ {0}
      BY <2>1, CappedCount
    <3>2. pc \in Idle /\ UNCHANGED buf  BY <1>3 DEF DskRead, Idle
    <3> QED BY <3>1, <3>2, ReadEnter
  <2>2. CASE UNCHANGED <<pc, call, block, package>>
    BY <1>3, <2>2 DEF DskRead, IInv, Reading, Idle, Over
  <2> QED BY <1>3, <2>1, <2>2 DEF DskRead
<1>4. CASE SelectDrive
  BY <1>4 DEF SelectDrive, IInv, Reading, Idle, Over
<1>5. CASE AtaCommand
  <2>1. pc = "select" /\ pc' = "poll" /\ UNCHANGED <<call, buf, block>>
    BY <1>5 DEF AtaCommand
  <2>2. call.numsects \in Nat \ {0} /\ call.numsects <= block
    BY <2>1 DEF IInv, Reading, Idle, Over
  <2>3. cmd'.left = call.numsects
    <3> DEFINE drive == Selected(call.drive)
               mode  == lba_mode(drive.model, call.lba)
               regs(b) == [r \in 0..COUNT |-> <<b, b>>]
               tf(b) == Taskfile(regs(b), mode, call.lba, call.numsects)
    <3>1. PICK stale \in {0, BYTE - 1} :
            cmd' = [at |-> drive.at, ext |-> mode = 2, left |-> Counted(tf(stale), mode),
                    next |-> Addressed(tf(stale), mode, head(mode, call.lba))]
      BY <1>5 DEF AtaCommand
    <3>2. cmd'.left = Counted(tf(stale), mode)  BY <3>1
    <3>3. call.numsects \in Nat /\ DOMAIN regs(stale) = 0..COUNT  BY <2>2
    <3> HIDE DEF mode, regs
    <3>4. Counted(tf(stale), mode) = call.numsects  BY <3>3, CountKept
    <3> QED BY <3>2, <3>4
  <2>4. buf = <<>> /\ Len(buf) = 0  BY <2>1 DEF IInv, Reading
  <2> QED BY <2>1, <2>2, <2>3, <2>4 DEF IInv, Reading, Idle, Over
<1>6. CASE Transfer
  <2>1. PICK S : buf \in Seq(S)  BY DEF IInv
  <2>2. Len(buf') = Len(buf) + 1 /\ \E T : buf' \in Seq(T)
    BY <1>6, <2>1, AppendLen DEF Transfer
  <2>3. cmd.left \in Nat \ {0} /\ Len(buf) + cmd.left = call.numsects /\ Len(buf) \in Nat
    BY <1>6, <2>1 DEF Transfer, IInv, Reading
  <2>4. pc' = "poll" => cmd'.left = cmd.left - 1
    BY <1>6 DEF Transfer
  <2>5. CASE Len(buf) + 1 = call.numsects
    <3>1. cmd.left = 1  BY <2>3, <2>5
    <3>2. pc' = "done" /\ err' = 0 /\ dev' = {"DRDY"} /\ UNCHANGED <<call, block>>
      BY <1>6, <2>5, <3>1 DEF Transfer
    <3>3. call.numsects \in Nat \ {0} /\ call.numsects <= block /\ block \in Nat
      BY <1>6 DEF Transfer, IInv, Reading, Idle, Over
    <3> QED BY <2>2, <2>3, <2>5, <3>2, <3>3 DEF IInv, Reading, Idle, Over, Busy
  <2>6. CASE Len(buf) + 1 # call.numsects
    <3>1. pc' = "poll" /\ UNCHANGED <<call, block>>
      BY <1>6, <2>6 DEF Transfer
    <3>2. cmd'.left = cmd.left - 1  BY <2>4, <3>1
    <3>3. cmd'.left \in Nat \ {0} /\ Len(buf') + cmd'.left = call.numsects
      BY <2>2, <2>3, <2>6, <3>2
    <3>4. call.numsects \in Nat \ {0} /\ call.numsects <= block /\ block \in Nat
      BY <1>6 DEF Transfer, IInv, Reading, Idle, Over
    <3> QED BY <2>2, <3>1, <3>3, <3>4 DEF IInv, Reading, Idle, Over
  <2> QED BY <2>5, <2>6
<1>7. CASE Failed
  <2>1. Len(buf) \in Nat  BY DEF IInv
  <2>2. err' \in 1..3  BY <1>7 DEF Failed, Polled
  <2> QED BY <1>7, <2>1, <2>2 DEF Failed, IInv, Reading, Idle, Over, Busy
<1>8. CASE PacketCommand  BY <1>8 DEF PacketCommand, IInv, Reading, Idle, Over
<1>9. CASE SendPacket
  <2>1. Len(buf) = 0  BY <1>9 DEF SendPacket, IInv, Reading
  <2>2. pc' = "done" => err' \in 1..3  BY <1>9 DEF SendPacket, Polled
  <2> QED BY <1>9, <2>1, <2>2 DEF SendPacket, IInv, Reading, Idle, Over, Busy
<1>10. CASE Return
  <2>1. pc = "done" /\ pc' = "returned" /\ UNCHANGED <<call, buf, block>>
    BY <1>10 DEF Return
  <2>2. Len(buf) <= call.numsects /\ call.numsects <= block /\ call.numsects \in Nat
        /\ Len(buf) \in Nat /\ block \in Nat
    BY <2>1 DEF IInv, Reading, Idle, Over
  <2>3. Len(buf) <= block  BY <2>2
  <2> QED BY <2>1, <2>3 DEF IInv, Reading, Idle, Over
<1>11. CASE GiveUp \/ Show
  BY <1>11, Left DEF GiveUp, Show, Leave
<1>12. CASE DriveAnswers
  <2>1. pc # "done"  BY <1>12 DEF DriveAnswers, IInv, Reading
  <2> QED BY <1>12, <2>1 DEF DriveAnswers, IInv, Reading, Idle, Over
<1>13. CASE SpinsUp
  BY <1>13 DEF SpinsUp, IInv, Reading, Idle, Over
<1>14. CASE WaitIdentified \/ WaitReady \/ ide_wait_irq \/ UNCHANGED vars
  BY <1>14 DEF WaitIdentified, WaitReady, ide_wait_irq, vars, IInv, Reading, Idle, Over, Busy
<1> QED BY <1>1, <1>2, <1>3, <1>4, <1>5, <1>6, <1>7, <1>8, <1>9, <1>10, <1>11, <1>12,
           <1>13, <1>14 DEF Next, Driver

LEMMA Invariance == Spec => []IInv
  BY InitInv, StepInv, PTL DEF Spec

-----------------------------------------------------------------------------
(***************************************************************************)
(* The probe.                                                              *)
(***************************************************************************)
LEMMA FoundNext ==
  ASSUME NEW m \in Nat
  PROVE  /\ Cardinality(Found(m)) \in Nat
         /\ Cardinality(Found(m + 1))
              = IF Usable(Place(m)) THEN Cardinality(Found(m)) + 1 ELSE Cardinality(Found(m))
<1>1. IsFiniteSet(0..(m - 1))  BY FS_Interval
<1>2. Found(m) \in SUBSET (0..(m - 1))  BY DEF Found
<1>3. IsFiniteSet(Found(m)) /\ Cardinality(Found(m)) \in Nat
  BY <1>1, <1>2, FS_Subset, FS_CardinalityType
<1>4. CASE Usable(Place(m))
  <2>1. Found(m + 1) = Found(m) \cup {m}  BY <1>4 DEF Found
  <2>2. m \notin Found(m)  BY DEF Found
  <2> QED BY <1>3, <1>4, <2>1, <2>2, FS_AddElement
<1>5. CASE ~Usable(Place(m))
  <2>1. Found(m + 1) = Found(m)  BY <1>5 DEF Found
  <2> QED BY <1>3, <1>5, <2>1
<1> QED BY <1>4, <1>5

\* A place without a usable drive leaves the table as it is.
LEMMA ListsSkip ==
  ASSUME NEW ds, NEW m \in Nat, Lists(ds, m), ~Usable(Place(m))
  PROVE  Lists(ds, m + 1)
<1>1. Cardinality(Found(m + 1)) = Cardinality(Found(m))  BY FoundNext
<1>2. 0..(m - 1) \subseteq 0..(m + 1 - 1)  OBVIOUS
<1> QED BY <1>1, <1>2 DEF Lists

LEMMA ListsAdd ==
  ASSUME NEW S, NEW ds \in Seq(S), NEW m \in Nat, Lists(ds, m), Usable(Place(m)),
         NEW e, e = [at |-> Place(m), model |-> hw[Place(m)]]
  PROVE  Lists(Append(ds, e), m + 1)
<1> DEFINE T == S \cup {e}
           new == Append(ds, e)
<1>1. ds \in Seq(T) /\ e \in T  OBVIOUS
<1>2. /\ Len(ds) \in Nat /\ DOMAIN ds = 1..Len(ds)
      /\ Len(new) = Len(ds) + 1 /\ DOMAIN new = 1..(Len(ds) + 1)
      /\ new[Len(ds) + 1] = e /\ \A k \in 1..Len(ds) : new[k] = ds[k]
  BY <1>1
<1>3. Len(ds) = Cardinality(Found(m))  BY DEF Lists
<1> HIDE DEF new
<1>4. Len(new) = Cardinality(Found(m + 1))  BY <1>2, <1>3, FoundNext
<1>5. ASSUME NEW k \in DOMAIN new
      PROVE  \E n \in 0..(m + 1 - 1) :
               /\ Usable(Place(n))
               /\ new[k] = [at |-> Place(n), model |-> hw[Place(n)]]
               /\ k = 1 + Cardinality(Found(n))
  <2>1. CASE k = Len(ds) + 1
    <3>1. m \in 0..(m + 1 - 1)  OBVIOUS
    <3>2. new[k] = e /\ k = 1 + Cardinality(Found(m))  BY <1>2, <1>3, <2>1
    <3> QED BY <3>1, <3>2
  <2>2. CASE k # Len(ds) + 1
    <3>1. k \in DOMAIN ds /\ new[k] = ds[k]  BY <1>2, <1>5, <2>2
    <3>2. PICK n \in 0..(m - 1) :
                /\ Usable(Place(n))
                /\ ds[k] = [at |-> Place(n), model |-> hw[Place(n)]]
                /\ k = 1 + Cardinality(Found(n))
      BY <3>1 DEF Lists
    <3>3. n \in 0..(m + 1 - 1)  OBVIOUS
    <3> QED BY <3>1, <3>2, <3>3
  <2> QED BY <2>1, <2>2
<1> QED BY <1>4, <1>5 DEF Lists, new

LEMMA ProbedInit == Init => Probed
<1> SUFFICES ASSUME Init PROVE Probed  OBVIOUS
<1>1. ide_devices = <<>> /\ scan = 0 /\ ide_devices \in Seq({})  BY DEF Init
<1>2. Found(0) = {}  BY DEF Found
<1>3. Cardinality(Found(0)) = 0  BY <1>2, FS_EmptySet
<1>4. Lists(<<>>, 0)  BY <1>3 DEF Lists
<1> QED BY <1>1, <1>4 DEF Init, Probed

LEMMA ListsLater ==
  ASSUME UNCHANGED hw, Lists(ide_devices', scan')
  PROVE  Lists(ide_devices, scan)'
<1>1. ASSUME NEW n PROVE Found(n)' = Found(n)
  <2>1. \A p : Usable(p)' <=> Usable(p)  BY DEF Usable
  <2> QED BY <2>1 DEF Found
<1>2. \A p : (Usable(p)' <=> Usable(p)) /\ hw'[p] = hw[p]  BY DEF Usable
<1>3. Len(ide_devices') = Cardinality(Found(scan)')
  <2>1. Found(scan)' = Found(scan')  BY <1>2 DEF Found
  <2> QED BY <2>1 DEF Lists
<1>4. ASSUME NEW k \in DOMAIN ide_devices'
      PROVE  \E n \in 0..(scan' - 1) :
               /\ Usable(Place(n))'
               /\ ide_devices'[k] = [at |-> Place(n), model |-> hw'[Place(n)]]
               /\ k = 1 + Cardinality(Found(n)')
  BY <1>1, <1>2, <1>4 DEF Lists
<1> QED BY <1>3, <1>4 DEF Lists

\* IDENTIFY ends such that the wait of ide_init ends exactly for the drives that
\* are not mute, and tells those the kernel can use.
LEMMA KnownUsable ==
  ASSUME Probed, pc = "identify", HasIdentified
  PROVE  Known(Place(scan)) <=> Usable(Place(scan))
<1> DEFINE type == hw[Place(scan)].type
<1>1. type \in {"ATA", "ATAPI", "other", "mute"}
  <2>1. scan \in {0, 1, 2, 3}  BY DEF Probed
  <2>2. Place(scan) \in Places
    <3>1. scan \div 2 \in {0, 1} /\ scan % 2 \in {0, 1}  BY <2>1
    <3> QED BY <3>1 DEF Place, Places
  <2>3. hw[Place(scan)] \in Models /\ type # "none"  BY <2>2 DEF Probed
  <2> QED BY <2>3, IdeAssumption
<1>2. dev \in IdentifyEnds(type)  BY DEF Probed, HasIdentified, Busy
<1>3. CASE type = "ATA"
  <2>1. dev = {"DRDY", "DRQ"}  BY <1>2, <1>3 DEF IdentifyEnds
  <2> QED BY <1>3, <2>1 DEF Known, Usable
<1>4. CASE type \in {"ATAPI", "other"}
  <2>1. dev = {"DRDY", "ERR"}  BY <1>2, <1>4 DEF IdentifyEnds
  <2> QED BY <1>4, <2>1 DEF Known, Usable
<1>5. CASE type = "mute"
  <2>1. dev \in Silent  BY <1>2, <1>5 DEF IdentifyEnds
  <2> QED BY <2>1 DEF Silent, HasIdentified
<1> QED BY <1>1, <1>3, <1>4, <1>5

LEMMA ProbedStep == Probed /\ [Next]_vars => Probed'
<1> SUFFICES ASSUME Probed, [Next]_vars PROVE Probed'  OBVIOUS
<1>1. ASSUME UNCHANGED <<hw, ide_devices>>, scan' \in 0..4, Lists(ide_devices, scan'),
             pc' = "identify" =>
               /\ scan' < 4 /\ hw[Place(scan')].type # "none"
               /\ dev' = {"BSY"} \/ dev' \in IdentifyEnds(hw[Place(scan')].type)
      PROVE  Probed'
  <2>1. Lists(ide_devices', scan')  BY <1>1
  <2>2. Lists(ide_devices, scan)'  BY <1>1, <2>1, ListsLater
  <2> QED BY <1>1, <2>2 DEF Probed
<1>2. CASE Identify
  <2>1. CASE hw[Place(scan)].type = "none"
    <3>1. scan' = scan + 1 /\ UNCHANGED <<hw, ide_devices, pc>> /\ pc = "ide_init"
          /\ scan \in Nat /\ scan' \in 0..4
      BY <1>2, <2>1 DEF Identify, Probed
    <3>2. ~Usable(Place(scan))  BY <2>1 DEF Usable
    <3>3. Lists(ide_devices, scan + 1)  BY <3>1, <3>2, ListsSkip DEF Probed
    <3> QED BY <1>1, <3>1, <3>3
  <2>2. CASE hw[Place(scan)].type # "none"
    <3>1. scan' = scan /\ scan' < 4 /\ dev' = {"BSY"} /\ UNCHANGED <<hw, ide_devices>>
      BY <1>2, <2>2 DEF Identify
    <3> QED BY <1>1, <2>2, <3>1 DEF Probed
  <2> QED BY <2>1, <2>2
<1>3. CASE Identified
  <2>1. scan' = scan + 1 /\ UNCHANGED hw /\ pc' = "ide_init" /\ scan \in Nat /\ scan' \in 0..4
    BY <1>3 DEF Identified, Probed
  <2>2. Known(Place(scan)) <=> Usable(Place(scan))  BY <1>3, KnownUsable DEF Identified
  <2>3. CASE Usable(Place(scan))
    <3> DEFINE e == [at |-> Place(scan), model |-> hw[Place(scan)]]
    <3>1. ide_devices' = Append(ide_devices, e)  BY <1>3, <2>3, <2>2 DEF Identified
    <3>2. PICK S : ide_devices \in Seq(S)  BY DEF Probed
    <3> HIDE DEF e
    <3>3. Lists(Append(ide_devices, e), scan + 1)
      BY <2>1, <2>3, <3>2, ListsAdd DEF Probed, e
    <3>4. Lists(ide_devices', scan')  BY <2>1, <3>1, <3>3
    <3>5. \E T : ide_devices' \in Seq(T)  BY <3>1, <3>2, AppendLen
    <3>6. Lists(ide_devices, scan)'
      BY <2>1, <3>4, ListsLater
    <3> QED BY <2>1, <3>5, <3>6 DEF Probed
  <2>4. CASE ~Usable(Place(scan))
    <3>1. UNCHANGED ide_devices  BY <1>3, <2>4, <2>2 DEF Identified
    <3>2. Lists(ide_devices, scan + 1)  BY <2>1, <2>4, ListsSkip DEF Probed
    <3> QED BY <1>1, <2>1, <3>1, <3>2
  <2> QED BY <2>3, <2>4
<1>4. ASSUME UNCHANGED <<hw, ide_devices, scan>>,
             pc' = "identify" => pc = "identify" /\ UNCHANGED dev
      PROVE  Probed'
  BY <1>1, <1>4 DEF Probed
<1>5. CASE \/ ReadMbr \/ SelectDrive \/ AtaCommand \/ Transfer \/ Failed \/ PacketCommand
           \/ SendPacket \/ Return \/ GiveUp \/ Show \/ SpinsUp
  <2>1. UNCHANGED <<hw, ide_devices, scan>> /\ pc' # "identify"
    BY <1>5 DEF ReadMbr, ReadSectors, SelectDrive, AtaCommand, Transfer, Failed, PacketCommand,
       SendPacket, Return, GiveUp, Show, Leave, SpinsUp, driveVars
  <2> QED BY <1>4, <2>1
<1>6. ASSUME NEW k \in 0..3, NEW lba \in Lbas, NEW nsec \in Counts, DskRead(k, lba, nsec)
      PROVE  Probed'
  <2>1. UNCHANGED <<hw, ide_devices, scan>> /\ pc' # "identify"
    BY <1>6 DEF DskRead, ReadSectors, driveVars
  <2> QED BY <1>4, <2>1
<1>7. CASE DriveAnswers
  <2>1. UNCHANGED <<hw, ide_devices, scan, pc>>  BY <1>7 DEF DriveAnswers
  <2>2. pc = "identify" => dev' \in IdentifyEnds(hw[Place(scan)].type)
    BY <1>7 DEF DriveAnswers
  <2>3. pc' = "identify" => scan < 4 /\ hw[Place(scan)].type # "none"
    BY <2>1 DEF Probed
  <2> QED BY <1>1, <2>1, <2>2, <2>3 DEF Probed
<1>8. CASE WaitIdentified \/ WaitReady \/ ide_wait_irq \/ UNCHANGED vars
  BY <1>4, <1>8 DEF WaitIdentified, WaitReady, ide_wait_irq, driveVars, vars
<1> QED BY <1>2, <1>3, <1>5, <1>6, <1>7, <1>8 DEF Next, Driver

LEMMA ProbedInvariance == Spec => []Probed
  BY ProbedInit, ProbedStep, PTL DEF Spec

-----------------------------------------------------------------------------
(***************************************************************************)
(* The sectors a command names.                                            *)
(***************************************************************************)
\* The test of the range is exact below the limit of the 28-bit addresses.
LEMMA NoWrap ==
  ASSUME NEW lba \in Nat, lba < LBA28, NEW n \in 1..MAX_SECS
  PROVE  (lba + n) % WORD = lba + n
<1>1. BYTE \in Nat \ {0} /\ BYTE3 \in Nat \ {0} /\ HEADS \in Nat /\ HEADS <= BYTE - 1
      /\ MAX_SECS \in Nat /\ MAX_SECS <= BYTE - 1
  BY Units, IdeAssumption
<1>2. BYTE <= BYTE3
  <2>1. BYTE2 \in Nat \ {0} /\ BYTE3 = BYTE * BYTE2  BY Units DEF BYTE3
  <2> QED BY <1>1, <2>1
<1>3. HEADS * BYTE3 <= (BYTE - 1) * BYTE3  BY <1>1
<1>4. (BYTE - 1) * BYTE3 = WORD - BYTE3  BY <1>1 DEF WORD
<1>5. WORD \in Nat /\ LBA28 \in Nat /\ LBA28 <= WORD - BYTE3
  BY <1>3, <1>4, Units DEF LBA28
<1>6. lba + n < WORD /\ lba + n \in Nat /\ WORD \in Nat \ {0}
  BY <1>1, <1>2, <1>5
<1> QED BY <1>6, Small

\* Drives in the table are drives that are attached.
LEMMA Attached ==
  ASSUME Probed, NEW k \in Nat, reserved(k)
  PROVE  /\ Selected(k).model \in Models
         /\ Selected(k).model = hw[Selected(k).at]
<1>1. k + 1 \in DOMAIN ide_devices
  <2>1. PICK S : ide_devices \in Seq(S)  BY DEF Probed
  <2> QED BY <2>1 DEF reserved
<1>2. PICK n \in 0..(scan - 1) :
            ide_devices[k + 1] = [at |-> Place(n), model |-> hw[Place(n)]]
  BY <1>1 DEF Probed, Lists
<1>3. Place(n) \in Places
  <2>1. n \in {0, 1, 2, 3}  BY DEF Probed
  <2>2. n \div 2 \in {0, 1} /\ n % 2 \in {0, 1}  BY <2>1
  <2> QED BY <2>2 DEF Place, Places
<1> QED BY <1>2, <1>3 DEF Selected, Probed

LEMMA AskedInit == Init => Asked
BY DEF Init, Asked, Idle, Over, SectorsAsked

LEMMA AskedEnter ==
  ASSUME IInv, Asked, pc \in Idle, NEW k \in Nat, NEW lba \in 0..(WORD - 1),
         NEW n \in 1..MAX_SECS, NEW room, ReadSectors(k, n, lba, room),
         UNCHANGED <<buf, ide_devices>>
  PROVE  Asked'
<1>1. buf' = <<>>  BY DEF IInv, Reading
<1>2. SectorsAsked'  BY <1>1 DEF SectorsAsked
<1>3. CASE pc' = "returned"  BY <1>2, <1>3 DEF Asked, Over
<1>4. CASE pc' # "returned"
  <2>1. /\ reserved(k) /\ call' = [drive |-> k, lba |-> lba, numsects |-> explicit(n)]
        /\ pc' = IF Selected(k).model.type = "ATA" THEN "ata" ELSE "atapi"
        /\ Selected(k).model.type = "ATA" => InRange(k, lba, n)
    BY <1>4 DEF ReadSectors
  <2>2. explicit(n) = n  BY DEF explicit
  <2>3. call'.drive = k /\ call'.lba = lba /\ call'.numsects = n  BY <2>1, <2>2
  <2>4. reserved(k)' /\ Selected(k)' = Selected(k) /\ (InRange(k, lba, n)' <=> InRange(k, lba, n))
    BY <2>1 DEF reserved, Selected, InRange
  <2> QED BY <1>2, <2>1, <2>3, <2>4 DEF Asked, reserved, Selected, InRange
<1> QED BY <1>3, <1>4

LEMMA AskedStep == IInv /\ Probed /\ Asked /\ [Next]_vars => Asked'
<1> SUFFICES ASSUME IInv, Probed, Asked, [Next]_vars PROVE Asked'  OBVIOUS
<1> USE DEF driveVars
\* Steps between reads.
<1>1. ASSUME pc' \in Over, buf' = <<>> PROVE Asked'
  BY <1>1 DEF Asked, Over, Idle, SectorsAsked
\* Steps that touch neither the command nor what was stored.
<1>2. ASSUME UNCHANGED <<ide_devices, call, buf>>, pc' \in Over \/ pc \notin Over,
             pc' = "poll" => pc = "poll" /\ UNCHANGED cmd,
             pc' \in {"ata", "select"} => pc \in {"ata", "select"}
      PROVE  Asked'
  <2>1. SectorsAsked'  BY <1>2 DEF Asked, SectorsAsked, Selected
  <2> QED BY <1>2, <2>1 DEF Asked, Over, Idle, reserved, Selected, InRange
<1>3. CASE Identify \/ Identified
  <2>1. pc' \in Over /\ buf' = <<>>
    BY <1>3 DEF Identify, Identified, Idle, Over, IInv, Reading
  <2> QED BY <1>1, <2>1
<1>4. CASE ReadMbr
  <2>1. pc \in Idle /\ ReadSectors(0, 1, 0, 1) /\ UNCHANGED <<buf, ide_devices>>
    BY <1>4 DEF ReadMbr, Idle
  <2>2. 0 \in 0..(WORD - 1) /\ 1 \in 1..MAX_SECS
    <3>1. WORD \in Nat \ {0}  BY Units DEF WORD
    <3> QED BY <3>1, IdeAssumption
  <2> QED BY <2>1, <2>2, AskedEnter
<1>5. ASSUME NEW k \in 0..3, NEW lba \in Lbas, NEW nsec \in Counts, DskRead(k, lba, nsec)
      PROVE  Asked'
  <2>1. CASE ReadSectors(k, capped(nsec) % BYTE, lba, capped(nsec))
    <3>1. capped(nsec) \in 1..MAX_SECS
      <4>1. nsec \in Nat \ {0} /\ MAX_SECS \in Nat \ {0}  BY IdeAssumption
      <4> QED BY <4>1 DEF capped
    <3>2. ReadSectors(k, capped(nsec), lba, capped(nsec))  BY <2>1, CappedCount
    <3>3. pc \in Idle /\ UNCHANGED <<buf, ide_devices>>  BY <1>5 DEF DskRead, Idle
    <3>4. k \in Nat /\ lba \in 0..(WORD - 1)  BY IdeAssumption
    <3> QED BY <3>1, <3>2, <3>3, <3>4, AskedEnter
  <2>2. CASE UNCHANGED <<pc, call, block, package>>
    BY <1>5, <2>2, <1>1 DEF DskRead, Idle, Over, IInv, Reading
  <2> QED BY <1>5, <2>1, <2>2 DEF DskRead
<1>6. CASE AtaCommand
  <2> DEFINE k == call.drive
             drive == Selected(k)
             mode == lba_mode(drive.model, call.lba)
  <2>1. /\ pc = "select" /\ pc' = "poll" /\ UNCHANGED <<call, buf, ide_devices>>
    BY <1>6 DEF AtaCommand
  <2>2. /\ k \in Nat /\ reserved(k) /\ call.lba \in 0..(WORD - 1)
        /\ call.numsects \in 1..MAX_SECS
        /\ drive.model.type = "ATA" /\ InRange(k, call.lba, call.numsects)
    BY <2>1 DEF Asked, Idle, Over
  <2>3. drive.model \in Models  BY <2>2, Attached
  <2>4. ~drive.model.lba => call.lba >= LBA28 \/ call.lba < HEADS * SPT * BYTE2
    <3> SUFFICES ASSUME ~drive.model.lba, call.lba < LBA28
                 PROVE  call.lba < HEADS * SPT * BYTE2
      BY <2>2, Units
    <3>1. call.lba \in Nat /\ call.numsects \in Nat \ {0}
      BY <2>2, Units, IdeAssumption
    <3>2. call.lba + call.numsects <= drive.model.size
      <4>1. (call.lba + call.numsects) % WORD = call.lba + call.numsects
        BY <2>2, <3>1, NoWrap
      <4> QED BY <2>2, <4>1 DEF InRange
    <3>3. drive.model.size <= HEADS * SPT * BYTE2 /\ drive.model.size \in Nat
      BY <2>2, <2>3, Units, IdeAssumption
    <3>4. HEADS * SPT * BYTE2 \in Nat  BY Units
    <3> QED BY <3>1, <3>2, <3>3, <3>4
  <2> DEFINE tf(b) == Taskfile([r \in 0..COUNT |-> <<b, b>>], mode, call.lba, call.numsects)
  <2>5. PICK stale \in {0, BYTE - 1} :
          cmd' = [at |-> drive.at, ext |-> mode = 2, left |-> Counted(tf(stale), mode),
                  next |-> Addressed(tf(stale), mode, head(mode, call.lba))]
    BY <1>6 DEF AtaCommand
  <2>6. cmd'.next = call.lba  BY <2>2, <2>4, <2>5, Names
  <2>7. cmd'.ext = (call.lba >= LBA28)
    <3>1. cmd'.ext = (mode = 2)  BY <2>5
    <3>2. mode = 2 <=> call.lba >= LBA28  BY DEF lba_mode
    <3> QED BY <3>1, <3>2
  <2>8. cmd'.at = drive.at  BY <2>5
  <2>9. buf = <<>>  BY <2>1 DEF IInv, Reading
  <2>10. SectorsAsked'  BY <2>1, <2>9 DEF SectorsAsked
  <2>11. call'.lba = call.lba + Len(buf')
    BY <2>1, <2>2, <2>9
  <2> QED BY <2>1, <2>2, <2>6, <2>7, <2>8, <2>10, <2>11
          DEF Asked, Idle, Over, reserved, Selected, InRange
<1>7. CASE Transfer
  <2>1. /\ pc = "poll" /\ pc' \in {"poll", "done"} /\ UNCHANGED <<call, ide_devices>>
        /\ buf' = Append(buf, <<cmd.at, cmd.next>>)
        /\ cmd' = [cmd EXCEPT !.next = @ + 1, !.left = @ - 1]
    BY <1>7 DEF Transfer
  <2>2. /\ cmd.at = Selected(call.drive).at /\ cmd.ext = (call.lba >= LBA28)
        /\ cmd.next = call.lba + Len(buf) /\ call.lba \in Nat
    BY <2>1, Units DEF Asked, Idle, Over
  <2>3. PICK S : buf \in Seq(S)  BY DEF IInv
  <2> DEFINE e == <<cmd.at, cmd.next>>
  <2>4. buf \in Seq(S \cup {e}) /\ e \in S \cup {e}  BY <2>3
  <2> HIDE DEF e
  <2>5. /\ Len(buf') = Len(buf) + 1 /\ Len(buf) \in Nat
        /\ DOMAIN buf' = 1..(Len(buf) + 1) /\ DOMAIN buf = 1..Len(buf)
        /\ buf'[Len(buf) + 1] = e /\ \A k \in 1..Len(buf) : buf'[k] = buf[k]
    BY <2>1, <2>4 DEF e
  <2>6. SectorsAsked'
    <3> SUFFICES ASSUME NEW k \in DOMAIN buf'
                 PROVE  buf'[k] = <<Selected(call.drive).at, call.lba + k - 1>>
      BY <2>1 DEF SectorsAsked, Selected
    <3>1. CASE k = Len(buf) + 1
      <4>1. call.lba + k - 1 = call.lba + Len(buf)  BY <2>2, <2>5, <3>1
      <4> QED BY <2>2, <2>5, <3>1, <4>1 DEF e
    <3>2. CASE k # Len(buf) + 1
      <4>1. k \in DOMAIN buf /\ buf'[k] = buf[k]  BY <2>5, <3>2
      <4> QED BY <4>1 DEF Asked, SectorsAsked
    <3> QED BY <3>1, <3>2
  <2>7. pc' = "poll" => cmd'.next = call.lba + Len(buf')
    <3>1. pc' = "poll" => cmd'.next = cmd.next + 1  BY <1>7 DEF Transfer
    <3>2. call.lba + Len(buf) + 1 = call.lba + Len(buf')  BY <2>2, <2>5
    <3> QED BY <2>2, <3>1, <3>2
  <2>8. cmd'.at = cmd.at /\ cmd'.ext = cmd.ext  BY <2>1
  <2> QED BY <2>1, <2>2, <2>6, <2>7, <2>8 DEF Asked, Idle, Over, reserved, Selected, InRange
<1>8. CASE SelectDrive \/ Failed \/ PacketCommand \/ SendPacket \/ Return
  <2>1. /\ UNCHANGED <<ide_devices, call, buf>> /\ pc \notin Over /\ pc' # "poll"
        /\ pc' \in {"ata", "select"} => pc = "ata"
    BY <1>8 DEF SelectDrive, Failed, PacketCommand, SendPacket, Return, Over, Idle
  <2> QED BY <1>2, <2>1
<1>9. CASE GiveUp \/ Show
  <2>1. pc' = "shell" /\ buf' = <<>>  BY <1>9 DEF GiveUp, Show, Leave, kfree
  <2> QED BY <1>1, <2>1 DEF Over, Idle
<1>10. CASE \/ WaitIdentified \/ WaitReady \/ ide_wait_irq \/ DriveAnswers \/ SpinsUp
            \/ UNCHANGED vars
  <2>1. UNCHANGED <<ide_devices, call, buf, pc, cmd>>
    BY <1>10 DEF WaitIdentified, WaitReady, ide_wait_irq, DriveAnswers, SpinsUp, vars
  <2> QED BY <1>2, <2>1
<1> QED BY <1>3, <1>4, <1>5, <1>6, <1>7, <1>8, <1>9, <1>10 DEF Next, Driver

LEMMA AskedInvariance == Spec => []Asked
<1>1. IInv /\ Probed /\ Asked /\ [Next]_vars => Asked'  BY AskedStep
<1> QED BY <1>1, AskedInit, Invariance, ProbedInvariance, PTL DEF Spec

-----------------------------------------------------------------------------
\* A read stores at most as many sectors as its buffer has room for, and at the
\* shell's prompt no buffer is held (shell.c:209-236).
THEOREM NoOverrun == Spec => []BufferFits
<1>1. IInv => BufferFits
  <2> SUFFICES ASSUME IInv PROVE BufferFits  OBVIOUS
  <2>1. Len(buf) \in Nat /\ (buf = <<>> => Len(buf) = 0)  BY DEF IInv
  <2>2. pc \in Over => Len(buf) <= block
    BY <2>1 DEF IInv, Reading, Idle, Over
  <2>3. pc \notin Over => Len(buf) <= call.numsects /\ call.numsects <= block
    BY <2>1 DEF IInv, Reading, Idle, Over
  <2>4. pc \notin Over => Len(buf) <= block
    <3>1. pc \notin Over => call.numsects \in Nat /\ block \in Nat  BY DEF IInv, Reading
    <3> QED BY <2>1, <2>3, <3>1
  <2>5. pc = "shell" => block = 0  BY DEF IInv, Reading, Idle
  <2> QED BY <2>2, <2>4, <2>5 DEF BufferFits
<1> QED BY Invariance, <1>1, PTL

\* The answer of a read is 0 exactly if all sectors have arrived, wherever the
\* drive failed (ide.c:375, 489).
THEOREM TrueAnswer == Spec => AnswerTrue
<1>1. IInv /\ [Next]_vars =>
        [pc = "done" => (package' = 0 <=> Len(buf) = call.numsects)]_vars
  <2> SUFFICES ASSUME IInv, Next, pc = "done"
               PROVE  package' = 0 <=> Len(buf) = call.numsects
    OBVIOUS
  <2>1. Return
    BY DEF Next, Driver, Identify, Identified, WaitIdentified, ReadMbr, SelectDrive, WaitReady,
           AtaCommand, Transfer, Failed, PacketCommand, SendPacket, ide_wait_irq, GiveUp, Show,
           DskRead, DriveAnswers, SpinsUp, IInv, Reading
  <2>2. package' = 0 <=> err = 0
    BY <2>1 DEF Return, ide_print_error, IInv, Reading
  <2> QED BY <2>2 DEF IInv, Reading
<1> QED BY Invariance, <1>1, PTL DEF Spec, AnswerTrue

\* The table lists the drives that can be used, each once, in the order of the
\* places and under its own place, after each step of ide_init (ide.c:169-252).
THEOREM TableComplete == Spec => []DevicesFound
<1>1. Probed => DevicesFound  BY DEF Probed, Lists, Found, DevicesFound
<1> QED BY ProbedInvariance, <1>1, PTL

\* What a read stores are the sectors asked for, in order and of the drive asked
\* for, whichever addressing ide_ata_access chooses (ide.c:290-353).
THEOREM RightSectors == Spec => []SectorsAsked
<1>1. Asked => SectorsAsked  BY DEF Asked
<1> QED BY AskedInvariance, <1>1, PTL

\* A read whose range does not pass 2^32 names only sectors the drive has, in an
\* addressing it knows (the test of ide.c:478 is exact then).
THEOREM RangeRespected == Spec => []CommandInRange
<1>1. IInv /\ Probed /\ Asked => CommandInRange
  <2> SUFFICES ASSUME IInv, Probed, Asked, pc = "poll", cmd.left > 0,
                      call.lba + call.numsects < WORD
               PROVE  /\ cmd.next + cmd.left <= hw[cmd.at].size
                      /\ cmd.ext => hw[cmd.at].ext
    BY DEF CommandInRange
  <2> DEFINE k == call.drive
             model == Selected(k).model
  <2>1. /\ k \in Nat /\ reserved(k) /\ call.lba \in Nat /\ call.numsects \in Nat \ {0}
        /\ model.type = "ATA" /\ InRange(k, call.lba, call.numsects)
        /\ cmd.at = Selected(k).at /\ cmd.next = call.lba + Len(buf)
        /\ cmd.ext = (call.lba >= LBA28)
    <3>1. MAX_SECS \in Nat  BY IdeAssumption
    <3> QED BY <3>1 DEF Asked, Idle, Over
  <2>2. model \in Models /\ model = hw[cmd.at]  BY <2>1, Attached
  <2>3. call.lba + call.numsects <= model.size
    <3>1. WORD \in Nat \ {0} /\ call.lba + call.numsects \in Nat  BY <2>1, Units
    <3>2. (call.lba + call.numsects) % WORD = call.lba + call.numsects  BY <3>1, Small
    <3> QED BY <2>1, <3>2 DEF InRange
  <2>4. cmd.next + cmd.left = call.lba + call.numsects
    <3>1. cmd.left \in Nat /\ Len(buf) + cmd.left = call.numsects /\ Len(buf) \in Nat
      BY DEF IInv, Reading
    <3> QED BY <2>1, <3>1
  <2>5. call.lba >= LBA28 => model.ext
    <3>1. model.size \in Nat /\ (model.size > LBA28 => model.ext)
      BY SMTT(30), <2>1, <2>2, Units, IdeAssumption
    <3> QED BY <2>1, <2>3, <3>1, Units
  <2> QED BY <2>1, <2>2, <2>3, <2>4, <2>5
<1> QED BY Invariance, ProbedInvariance, AskedInvariance, <1>1, PTL
=============================================================================
