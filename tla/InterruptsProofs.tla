-------------------------- MODULE InterruptsProofs --------------------------
(***************************************************************************)
(* One interrupt in service at a time, and the length of sleep, for any    *)
(* durations.                                                              *)
(*                                                                         *)
(* SleepLength needs to know where a tick may be: still owed by the timer  *)
(* (0 \in ran), latched (0 \in irr), or in its handler.  Once the kernel   *)
(* is booted it is in at most one of these places, because main moves on   *)
(* only when nothing is latched.  Countdown says what may be left of it    *)
(* when the countdown has reached zero.                                    *)
(***************************************************************************)
EXTENDS Interrupts, TLAPS

Sleeping == {"test", "hlt", "halted"}
Up == Sleeping \cup {"ready"}

\* From its unmasking on IRQ 0 is open; after sti main runs with interrupts on.
Booted ==
    /\ pc \in Up \cup {"unmask1", "sti", "keyboard_init", "init_sleep"} => 0 \notin imr
    /\ pc \in Up \cup {"keyboard_init", "init_sleep"} /\ cpu = "main" => IF_
    /\ pc \in Up => 0 \in irq_handlers

InHandler == cpu = "handler" /\ irq = 0

\* A tick is in one place at most, and only a halted processor has none owed
\* and none latched while main could run.
OneTick ==
    /\ pc \in Up =>
         /\ 0 \in irr => 0 \notin ran /\ ~InHandler
         /\ cpu # "main" /\ irq = 0 => 0 \notin ran
    /\ pc = "halted" => cpu = "main" /\ (0 \in ran \/ 0 \in irr)

\* No tick is left to come before main moves on.
NoTick == 0 \notin ran /\ 0 \notin irr /\ ~InHandler

Countdown ==
    pc \in Sleeping =>
      /\ countdown > 0 => elapsed + countdown = target
      /\ countdown = 0 /\ pc = "test" =>
           elapsed = target \/ (elapsed = target + 1 /\ NoTick)
      /\ countdown = 0 /\ pc = "hlt" => elapsed = target /\ NoTick
      /\ countdown = 0 /\ pc = "halted" => elapsed = target

IInv == TypeOK /\ OneInService /\ Booted /\ OneTick /\ Countdown

-----------------------------------------------------------------------------
LEMMA InitInv == Init => IInv
<1> SUFFICES ASSUME Init PROVE IInv  OBVIOUS
<1>1. TypeOK
  <2>1. 0 \in 0..(WORD - 1)  BY InterruptsAssumption
  <2>2. irq \in Lines  BY DEF Init, Lines
  <2>3. ran \subseteq {0, 1} /\ {obf, IF_} \subseteq BOOLEAN  BY DEF Init
  <2> QED BY <2>1, <2>2, <2>3 DEF Init, TypeOK, Boot
<1>2. OneInService  BY DEF Init, OneInService
<1>3. Booted /\ OneTick /\ Countdown
  BY DEF Init, Booted, OneTick, Countdown, Sleeping, Up
<1> QED BY <1>1, <1>2, <1>3 DEF IInv

\* The number of ticks of a sleep fits its variable.
LEMMA TicksType == ASSUME NEW ms \in Durations PROVE ticks(ms) \in 0..(WORD - 1)
<1> DEFINE x == ms * 100 + 999
<1>1. x \in Nat  BY InterruptsAssumption
<1>2. x % WORD \in 0..(WORD - 1)  BY <1>1, InterruptsAssumption
<1> HIDE DEF x
<1> DEFINE y == x % WORD
<1>3. y \in Nat /\ y <= WORD - 1  BY <1>2, InterruptsAssumption
<1> HIDE DEF y
<1>4. y \div 1000 \in Nat /\ y \div 1000 <= y  BY <1>3
<1>5. y \div 1000 \in 0..(WORD - 1)  BY <1>3, <1>4, InterruptsAssumption
<1> QED BY <1>5 DEF y, x, ticks

LEMMA TypeStep == TypeOK /\ [Next]_vars => TypeOK'
<1> SUFFICES ASSUME TypeOK, [Next]_vars PROVE TypeOK'  OBVIOUS
<1> USE InterruptsAssumption DEF TypeOK, pic, sleepVars, Lines, Boot
<1>1. CASE Tick  BY <1>1 DEF Tick
<1>2. CASE Key  BY <1>2 DEF Key
<1>3. ASSUME NEW i \in Lines, Accept(i) PROVE TypeOK'  BY <1>3 DEF Accept
<1>4. CASE i686_irq_handler
  <2>1. CASE irq = 0 /\ 0 \in irq_handlers
    <3>1. time_tick  BY <1>4, <2>1 DEF i686_irq_handler
    <3>2. countdown' \in 0..(WORD - 1) /\ elapsed' \in Nat  BY <3>1 DEF time_tick, Asleep
    <3> QED BY <1>4, <3>1, <3>2 DEF i686_irq_handler, time_tick
  <2>2. CASE ~(irq = 0 /\ 0 \in irq_handlers)
    BY <1>4, <2>2 DEF i686_irq_handler, read_port60
  <2> QED BY <2>1, <2>2
<1>5. CASE send_end_of_interrupt  BY <1>5 DEF send_end_of_interrupt
<1>6. CASE Iret  BY <1>6 DEF Iret
<1>7. CASE Probe \/ Configure
  <2>1. {0, 1, 2, 4, 5, 8, 9, 12} \subseteq 0..15 /\ {0, 1} \subseteq {0, 1}  OBVIOUS
  <2>2. CASE Probe  BY <2>1, <2>2 DEF Probe, At
  <2>3. CASE Configure  BY <2>1, <2>3 DEF Configure, At
  <2> QED BY <1>7, <2>2, <2>3
<1>8. CASE unmask(0, "unmask0", "unmask1") \/ unmask(1, "unmask1", "sti")
  BY <1>8 DEF unmask, At
<1>9. CASE i686_interrupts_enable  BY <1>9 DEF i686_interrupts_enable, At
<1>10. CASE \/ i686_irq_register_handler(1, "keyboard_init", "init_sleep")
            \/ i686_irq_register_handler(0, "init_sleep", "ready")
  <2>1. ASSUME NEW i \in {0, 1}, NEW here, NEW next \in {"init_sleep", "ready"},
               i686_irq_register_handler(i, here, next)
        PROVE  TypeOK'
    <3>1. irq_handlers' \subseteq 0..15  BY <2>1 DEF i686_irq_register_handler
    <3> QED BY <2>1, <3>1 DEF i686_irq_register_handler, At
  <2> QED BY <1>10, <2>1
<1>11. ASSUME NEW ms \in Durations, Sleep(ms) PROVE TypeOK'
  BY <1>11, TicksType DEF Sleep, At
<1>12. CASE Test \/ Hlt  BY <1>12 DEF Test, Hlt, At
<1>13. CASE UNCHANGED vars  BY <1>13 DEF vars
<1> QED BY <1>1, <1>2, <1>3, <1>4, <1>5, <1>6, <1>7, <1>8, <1>9, <1>10, <1>11, <1>12, <1>13
        DEF Next, Interrupt, Main

LEMMA ServiceStep == TypeOK /\ OneInService /\ [Next]_vars => OneInService'
<1> SUFFICES ASSUME TypeOK, OneInService, [Next]_vars PROVE OneInService'  OBVIOUS
<1> USE DEF OneInService, pic
<1>1. CASE Tick \/ Key  BY <1>1 DEF Tick, Key
<1>2. ASSUME NEW i \in Lines, Accept(i) PROVE OneInService'  BY <1>2 DEF Accept
<1>3. CASE i686_irq_handler  BY <1>3 DEF i686_irq_handler
<1>4. CASE send_end_of_interrupt
  <2>1. in_service = {irq} /\ irq \in Int  BY <1>4 DEF send_end_of_interrupt, TypeOK, Lines
  <2>2. {i \in in_service : \E j \in in_service : j < i} = {}  BY <2>1
  <2> QED BY <1>4, <2>2 DEF send_end_of_interrupt
<1>5. CASE Iret  BY <1>5 DEF Iret
<1>6. CASE Probe \/ Configure  BY <1>6 DEF Probe, Configure, At
<1>7. CASE Main /\ ~Probe /\ ~Configure
  BY <1>7 DEF Main, At, unmask, i686_interrupts_enable, i686_irq_register_handler, Sleep, Test, Hlt
<1>8. CASE UNCHANGED vars  BY <1>8 DEF vars
<1> QED BY <1>1, <1>2, <1>3, <1>4, <1>5, <1>6, <1>7, <1>8 DEF Next, Interrupt, Main

\* Main moves on only when no tick is latched, once interrupts are on.
LEMMA MainWaits ==
  ASSUME TypeOK, OneInService, Booted, NEW here \in Up \cup {"init_sleep"}, NEW next, At(here, next)
  PROVE  0 \notin irr
<1>1. cpu = "main" /\ IF_ /\ 0 \notin imr /\ in_service = {}
  BY DEF At, Booted, OneInService
<1>2. 0 \in irr => 0 \in Deliverable
  BY <1>1 DEF Deliverable, TypeOK, Lines
<1> QED BY <1>1, <1>2 DEF At

LEMMA BootedStep == TypeOK /\ Booted /\ OneInService /\ [Next]_vars => Booted'
<1> SUFFICES ASSUME TypeOK, Booted, OneInService, [Next]_vars PROVE Booted'  OBVIOUS
<1> USE DEF Booted, pic, Up, Sleeping
<1>1. CASE Tick \/ Key  BY <1>1 DEF Tick, Key
<1>2. ASSUME NEW i \in Lines, Accept(i) PROVE Booted'  BY <1>2 DEF Accept
<1>3. CASE i686_irq_handler \/ send_end_of_interrupt \/ Iret
  BY <1>3 DEF i686_irq_handler, send_end_of_interrupt, Iret
<1>4. CASE Probe \/ Configure  BY <1>4 DEF Probe, Configure, At
<1>5. CASE unmask(0, "unmask0", "unmask1") \/ unmask(1, "unmask1", "sti")
  BY <1>5 DEF unmask, At
<1>6. CASE i686_interrupts_enable  BY <1>6 DEF i686_interrupts_enable, At
<1>7. CASE \/ i686_irq_register_handler(1, "keyboard_init", "init_sleep")
           \/ i686_irq_register_handler(0, "init_sleep", "ready")
  BY <1>7 DEF i686_irq_register_handler, At
<1>8. CASE (\E ms \in Durations : Sleep(ms)) \/ Test \/ Hlt  BY <1>8 DEF Sleep, Test, Hlt, At
<1>9. CASE UNCHANGED vars  BY <1>9 DEF vars
<1> QED BY <1>1, <1>2, <1>3, <1>4, <1>5, <1>6, <1>7, <1>8, <1>9 DEF Next, Interrupt, Main

LEMMA OneTickStep == IInv /\ [Next]_vars => OneTick'
<1> SUFFICES ASSUME IInv, [Next]_vars PROVE OneTick'  OBVIOUS
<1> USE DEF OneTick, InHandler, pic, Up, Sleeping
<1>0. TypeOK /\ OneInService /\ Booted /\ OneTick  BY DEF IInv
<1>1. CASE Tick  BY <1>0, <1>1 DEF Tick, OneInService
<1>2. CASE Key  BY <1>0, <1>2 DEF Key
<1>3. ASSUME NEW i \in Lines, Accept(i) PROVE OneTick'
  BY <1>0, <1>3 DEF Accept, Deliverable, Lines
<1>4. CASE i686_irq_handler \/ send_end_of_interrupt \/ Iret
  BY <1>0, <1>4 DEF i686_irq_handler, send_end_of_interrupt, Iret
<1>5. CASE Probe \/ Configure  BY <1>5 DEF Probe, Configure, At
<1>6. CASE unmask(0, "unmask0", "unmask1") \/ unmask(1, "unmask1", "sti")
  BY <1>6 DEF unmask, At
<1>7. CASE i686_interrupts_enable  BY <1>7 DEF i686_interrupts_enable, At
<1>8. CASE i686_irq_register_handler(1, "keyboard_init", "init_sleep")
  BY <1>8 DEF i686_irq_register_handler, At
<1>9. CASE i686_irq_register_handler(0, "init_sleep", "ready")
  <2>1. At("init_sleep", "ready") /\ irr' = irr
    BY <1>9 DEF i686_irq_register_handler
  <2>2. 0 \notin irr  BY <1>0, <2>1, MainWaits
  <2> QED BY <2>1, <2>2 DEF At
<1>10. ASSUME NEW ms \in Durations, Sleep(ms) PROVE OneTick'
  <2>1. At("ready", "test") /\ irr' = irr  BY <1>10 DEF Sleep
  <2>2. 0 \notin irr  BY <1>0, <2>1, MainWaits
  <2> QED BY <2>1, <2>2 DEF At
<1>11. CASE Test
  <2>1. PICK next \in {"hlt", "ready"} : At("test", next) /\ irr' = irr  BY <1>11 DEF Test
  <2>2. 0 \notin irr  BY <1>0, <2>1, MainWaits
  <2> QED BY <2>1, <2>2 DEF At
<1>12. CASE Hlt
  <2>1. At("hlt", "halted") /\ irr' = irr  BY <1>12 DEF Hlt
  <2>2. 0 \notin irr  BY <1>0, <2>1, MainWaits
  <2> QED BY <2>1, <2>2 DEF At
<1>13. CASE UNCHANGED vars  BY <1>0, <1>13 DEF vars
<1> QED BY <1>1, <1>2, <1>3, <1>4, <1>5, <1>6, <1>7, <1>8, <1>9, <1>10, <1>11, <1>12, <1>13
        DEF Next, Interrupt, Main

LEMMA CountdownStep == IInv /\ [Next]_vars => Countdown'
<1> SUFFICES ASSUME IInv, [Next]_vars PROVE Countdown'  OBVIOUS
<1> USE DEF Countdown, NoTick, InHandler, pic, sleepVars, Sleeping
<1>0. TypeOK /\ OneInService /\ Booted /\ OneTick /\ Countdown  BY DEF IInv
<1>a. /\ countdown \in Nat /\ target \in Nat /\ elapsed \in Nat
      /\ pc \in Boot \cup Up
  BY <1>0, InterruptsAssumption DEF TypeOK, Up
<1>1. CASE Tick
  BY <1>0, <1>a, <1>1 DEF Tick, OneTick, Up
<1>2. CASE Key  BY <1>0, <1>2 DEF Key
<1>3. ASSUME NEW i \in Lines, Accept(i) PROVE Countdown'
  BY <1>0, <1>a, <1>3 DEF Accept, Deliverable, OneTick, Up, Lines
<1>4. CASE i686_irq_handler
  <2>1. CASE irq = 0 /\ pc \in Sleeping
    <3>1. time_tick /\ cpu = "handler" /\ cpu' = "eoi" /\ UNCHANGED <<irr, ran, pc>>
      BY <1>0, <1>4, <2>1 DEF i686_irq_handler, Booted, Up
    <3>2. 0 \notin irr /\ 0 \notin ran /\ pc # "halted" /\ Asleep = 1
      BY <1>0, <2>1, <3>1 DEF OneTick, Up, Asleep
    <3>3. target' = target /\ elapsed' = elapsed + 1
          /\ countdown' = IF countdown > 0 THEN countdown - 1 ELSE 0
      BY <3>1, <3>2 DEF time_tick
    <3>4. countdown > 0 => elapsed + countdown = target  BY <1>0, <2>1
    <3>5. countdown = 0 => pc = "test" /\ elapsed = target  BY <1>0, <2>1, <3>1, <3>2
    <3> QED BY <1>a, <3>1, <3>2, <3>3, <3>4, <3>5
  <2>2. CASE irq # 0
    BY <1>0, <1>4, <2>2 DEF i686_irq_handler, read_port60
  <2>3. CASE pc \notin Sleeping  BY <1>4, <2>3 DEF i686_irq_handler
  <2> QED BY <2>1, <2>2, <2>3
<1>5. CASE send_end_of_interrupt \/ Iret
  BY <1>0, <1>5 DEF send_end_of_interrupt, Iret
<1>6. CASE Probe \/ Configure  BY <1>6 DEF Probe, Configure, At
<1>7. CASE unmask(0, "unmask0", "unmask1") \/ unmask(1, "unmask1", "sti")
  BY <1>7 DEF unmask, At
<1>8. CASE i686_interrupts_enable  BY <1>8 DEF i686_interrupts_enable, At
<1>9. CASE \/ i686_irq_register_handler(1, "keyboard_init", "init_sleep")
           \/ i686_irq_register_handler(0, "init_sleep", "ready")
  BY <1>9 DEF i686_irq_register_handler, At
<1>10. ASSUME NEW ms \in Durations, Sleep(ms) PROVE Countdown'
  <2>1. ticks(ms) \in Nat  BY TicksType, InterruptsAssumption
  <2> QED BY <1>10, <2>1 DEF Sleep, At
<1>11. CASE Test  BY <1>0, <1>a, <1>11 DEF Test, At
<1>12. CASE Hlt  BY <1>0, <1>a, <1>12 DEF Hlt, At
<1>13. CASE UNCHANGED vars  BY <1>0, <1>13 DEF vars
<1> QED BY <1>1, <1>2, <1>3, <1>4, <1>5, <1>6, <1>7, <1>8, <1>9, <1>10, <1>11, <1>12, <1>13
        DEF Next, Interrupt, Main

LEMMA Invariance == Spec => []IInv
<1>1. IInv /\ [Next]_vars => IInv'
  BY TypeStep, ServiceStep, BootedStep, OneTickStep, CountdownStep DEF IInv
<1> QED BY InitInv, <1>1, PTL DEF Spec

-----------------------------------------------------------------------------
\* Every variable of the interrupt model keeps its type, for any durations.
THEOREM TypeCorrect == Spec => []TypeOK
  BY Invariance, PTL DEF IInv

\* The controller has a line in service exactly while its handler runs, with
\* interrupts off: each interrupt is ended once, whatever arrives meanwhile.
THEOREM Serial == Spec => []OneInService
  BY Invariance, PTL DEF IInv

\* A sleep of any duration lasts the ticks asked for, or one more (sleep.c:10).
THEOREM SleepsLong == Spec => SleepLength
<1>1. IInv /\ [Next]_vars =>
        [pc = "test" /\ pc' = "ready" => elapsed \in target..(target + 1)]_vars
  <2> SUFFICES ASSUME IInv, pc = "test", pc' = "ready", Next
               PROVE  elapsed \in target..(target + 1)
    OBVIOUS
  <2>1. Test /\ ~(countdown > 0)
    BY DEF Next, Tick, Key, Interrupt, Accept, i686_irq_handler, send_end_of_interrupt, Iret,
           Main, At, Probe, Configure, unmask, i686_interrupts_enable,
           i686_irq_register_handler, Sleep, Test, Hlt
  <2>2. countdown = 0 /\ target \in Nat /\ elapsed \in Nat
    BY <2>1, InterruptsAssumption DEF IInv, TypeOK
  <2> QED BY <2>2 DEF IInv, Countdown, Sleeping
<1> QED BY Invariance, <1>1, PTL DEF Spec, SleepLength
=============================================================================
