----------------------------- MODULE Interrupts -----------------------------
(***************************************************************************)
(* Interrupt delivery and what is built on it: the boot sequence of        *)
(* i686_init_irq and kinit (src/arch/i686/irq.c, drivers/i8259.c,          *)
(* src/kernel/kinit.c), the dispatch of an IRQ to the driver registered    *)
(* for it, and sleep with its timer handler (src/kernel/sleep.c).          *)
(*                                                                         *)
(* The hardware is modelled from how the kernel programs it: an interrupt  *)
(* controller whose edges are latched in irr, even when masked; a timer;   *)
(* and a keyboard controller that raises IRQ 1 when its output buffer      *)
(* fills and is silent until port 0x60 is read.                            *)
(***************************************************************************)
EXTENDS Integers, FiniteSets

CONSTANTS WORD,       \* 2^32
          Durations,  \* arguments of sleep, in milliseconds
          KeysEarly   \* whether keys may be hit before the kernel is booted

ASSUME InterruptsAssumption ==
    /\ WORD \in Nat \ {0} /\ Durations \subseteq 0..(WORD - 1)
    /\ KeysEarly \in BOOLEAN

VARIABLES
    imr, irr, in_service,     \* interrupt controller, as sets of lines
    obf,                      \* the keyboard's output buffer is full
    IF_,                      \* the processor's interrupt flag
    cpu, irq,                 \* "main" or the stage of the handler of irq
    irq_handlers,             \* lines with a driver's handler
    pc,                       \* the main program
    countdown,
    target, elapsed,          \* ticks asked for and seen (not in the code)
    ran                       \* devices since whose last interrupt main has run

pic   == <<imr, irr, in_service>>
sleepVars == <<countdown, target, elapsed>>
vars == <<pic, obf, IF_, cpu, irq, irq_handlers, pc, sleepVars, ran>>

Lines == 0..15

Boot == {"probe", "configure", "unmask0", "unmask1", "sti",
         "keyboard_init", "init_sleep"}

Init ==
    /\ imr = {} /\ irr = {} /\ in_service = {}
    /\ obf = FALSE /\ IF_ = FALSE
    /\ cpu = "main" /\ irq = 0
    /\ irq_handlers = {}
    /\ pc = "probe"
    /\ countdown = 0 /\ target = 0 /\ elapsed = 0
    /\ ran = {0, 1}

-----------------------------------------------------------------------------
(***************************************************************************)
(* Devices.  Assumed: main gets to run, or is halted, between two ticks    *)
(* (10 ms) and between two bytes of the keyboard (about 1 ms).             *)
(***************************************************************************)
Tick ==
    /\ 0 \in ran \/ pc = "halted"
    /\ irr' = irr \cup {0}
    /\ ran' = ran \ {0}
    /\ UNCHANGED <<imr, in_service, obf, IF_, cpu, irq, irq_handlers, pc, sleepVars>>

Key ==
    /\ KeysEarly \/ pc \notin Boot
    /\ ~obf /\ (1 \in ran \/ pc = "halted")
    /\ obf' = TRUE
    /\ irr' = irr \cup {1}
    /\ ran' = ran \ {1}
    /\ UNCHANGED <<imr, in_service, IF_, cpu, irq, irq_handlers, pc, sleepVars>>

-----------------------------------------------------------------------------
(***************************************************************************)
(* An interrupt, from its acceptance to iret.  A line is delivered when it *)
(* is pending, not masked, and above everything in service.                *)
(***************************************************************************)
Deliverable ==
    {i \in irr \ imr : /\ \A j \in irr \ imr : i <= j
                       /\ \A j \in in_service : i < j}

Accept(i) ==
    /\ cpu = "main" /\ IF_
    /\ i \in Deliverable
    /\ irr' = irr \ {i}
    /\ in_service' = in_service \cup {i}
    /\ IF_' = FALSE
    /\ cpu' = "handler" /\ irq' = i
    /\ pc' = IF pc = "halted" THEN "test" ELSE pc
    /\ UNCHANGED <<imr, obf, irq_handlers, sleepVars, ran>>

Asleep == IF pc \in {"test", "hlt"} THEN 1 ELSE 0

\* Mutant: the countdown is not compared with zero.
time_tick_unguarded ==
    /\ countdown' = countdown - 1
    /\ elapsed' = elapsed + Asleep
    /\ UNCHANGED <<target, obf>>

time_tick ==
    /\ countdown' = IF countdown > 0 THEN countdown - 1 ELSE 0
    /\ elapsed' = elapsed + Asleep
    /\ UNCHANGED <<target, obf>>

\* Mutant: the handler returns without reading the byte.
read_port60_not == UNCHANGED <<obf, sleepVars>>

\* The one thing keyboard_handler does that matters here: it reads port 0x60.
read_port60 == obf' = FALSE /\ UNCHANGED sleepVars

i686_irq_handler ==
    /\ cpu = "handler"
    /\ CASE irq = 0 /\ 0 \in irq_handlers -> time_tick
         [] irq = 1 /\ 1 \in irq_handlers -> read_port60
         [] OTHER -> UNCHANGED <<obf, sleepVars>>      \* "Unhandled IRQ"
    /\ cpu' = "eoi"
    /\ UNCHANGED <<pic, IF_, irq, irq_handlers, pc, ran>>

\* Mutant: no end of interrupt.
send_end_of_interrupt_never ==
    /\ cpu = "eoi"
    /\ cpu' = "iret"
    /\ UNCHANGED <<pic, obf, IF_, irq, irq_handlers, pc, sleepVars, ran>>

\* Non-specific: ends the highest line in service.
send_end_of_interrupt ==
    /\ cpu = "eoi"
    /\ in_service' = {i \in in_service : \E j \in in_service : j < i}
    /\ cpu' = "iret"
    /\ UNCHANGED <<imr, irr, obf, IF_, irq, irq_handlers, pc, sleepVars, ran>>

Iret ==
    /\ cpu = "iret"
    /\ IF_' = TRUE
    /\ cpu' = "main"
    /\ UNCHANGED <<pic, obf, irq, irq_handlers, pc, sleepVars, ran>>

Interrupt == (\E i \in Lines : Accept(i)) \/ i686_irq_handler
               \/ send_end_of_interrupt \/ Iret

-----------------------------------------------------------------------------
(***************************************************************************)
(* The main program runs when no interrupt can be delivered.               *)
(***************************************************************************)
At(here, next) ==
    /\ cpu = "main" /\ ~(IF_ /\ Deliverable # {})
    /\ pc = here /\ pc' = next
    /\ ran' = {0, 1}
    /\ UNCHANGED <<obf, cpu, irq>>

\* i8259_probe leaves the mask 0x1337; i8259_configure initializes the
\* controller, which forgets the edges it had latched, and masks everything.
Probe ==
    /\ At("probe", "configure")
    /\ imr' = {0, 1, 2, 4, 5, 8, 9, 12}
    /\ UNCHANGED <<irr, in_service, IF_, irq_handlers, sleepVars>>

Configure ==
    /\ At("configure", "unmask0")
    /\ imr' = Lines /\ irr' = {} /\ in_service' = {}
    /\ UNCHANGED <<IF_, irq_handlers, sleepVars>>

unmask(i, here, next) ==
    /\ At(here, next)
    /\ imr' = imr \ {i}
    /\ UNCHANGED <<irr, in_service, IF_, irq_handlers, sleepVars>>

i686_interrupts_enable ==
    /\ At("sti", "keyboard_init")
    /\ IF_' = TRUE
    /\ UNCHANGED <<pic, irq_handlers, sleepVars>>

i686_irq_register_handler(i, here, next) ==
    /\ At(here, next)
    /\ irq_handlers' = irq_handlers \cup {i}
    /\ UNCHANGED <<pic, IF_, sleepVars>>

ticks(ms) == ((ms * 100 + 999) % WORD) \div 1000

Sleep(ms) ==
    /\ At("ready", "test")
    /\ countdown' = ticks(ms) /\ target' = ticks(ms) /\ elapsed' = 0
    /\ UNCHANGED <<pic, IF_, irq_handlers>>

\* Mutant: one tick before the end is enough.
Test_early ==
    /\ At("test", IF countdown > 1 THEN "hlt" ELSE "ready")
    /\ UNCHANGED <<pic, IF_, irq_handlers, sleepVars>>

Test ==
    /\ At("test", IF countdown > 0 THEN "hlt" ELSE "ready")
    /\ UNCHANGED <<pic, IF_, irq_handlers, sleepVars>>

Hlt ==
    /\ At("hlt", "halted")
    /\ UNCHANGED <<pic, IF_, irq_handlers, sleepVars>>

Main ==
    \/ Probe \/ Configure
    \/ unmask(0, "unmask0", "unmask1") \/ unmask(1, "unmask1", "sti")
    \/ i686_interrupts_enable
    \/ i686_irq_register_handler(1, "keyboard_init", "init_sleep")
    \/ i686_irq_register_handler(0, "init_sleep", "ready")
    \/ \E ms \in Durations : Sleep(ms)
    \/ Test \/ Hlt

Next == Tick \/ Key \/ Interrupt \/ Main

Spec == Init /\ [][Next]_vars /\ WF_vars(Tick) /\ WF_vars(Interrupt) /\ WF_vars(Main)

-----------------------------------------------------------------------------
TypeOK ==
    /\ imr \subseteq Lines /\ irr \subseteq Lines /\ in_service \subseteq Lines
    /\ irq_handlers \subseteq Lines /\ irq \in Lines
    /\ {obf, IF_} \subseteq BOOLEAN /\ ran \subseteq {0, 1}
    /\ cpu \in {"main", "handler", "eoi", "iret"}
    /\ pc \in Boot \cup {"ready", "test", "hlt", "halted"}
    /\ countdown \in 0..(WORD - 1) /\ target \in 0..(WORD - 1) /\ elapsed \in Nat

\* One interrupt at a time: the controller has a line in service exactly while
\* its handler runs with interrupts off, so that no tick and no key is held
\* back after iret (i686_irq_handler, one end of interrupt for each).
OneInService ==
    /\ in_service = IF cpu \in {"handler", "eoi"} THEN {irq} ELSE {}
    /\ cpu # "main" => ~IF_

\* sleep(ms) returns after ticks(ms) timer interrupts, or one more: a tick
\* between the test of countdown and hlt is only noticed at the next wake-up.
SleepLength ==
    [][pc = "test" /\ pc' = "ready" => elapsed \in target..(target + 1)]_vars

\* Nothing but the countdown's own handler wakes the sleeper for good; with a
\* tick to come it always returns.
SleepReturns == pc = "test" ~> pc = "ready"

\* Every byte of the keyboard is read, so that the next one can come.
KeyRead == obf ~> ~obf

\* i8259.c:101 "mask all interrupts until they are enabled by the device
\* driver": a line that can be delivered has its driver.
UnmaskedHaveDriver == IF_ => Lines \ imr \subseteq irq_handlers
=============================================================================
