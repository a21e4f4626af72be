----------------------------- MODULE Interrupts -----------------------------
(***************************************************************************)
(* Interrupts (c/interrupts.c, asm/interruptsasm.asm): setting up the two  *)
(* interrupt controllers, the default handler and its acknowledgement, the *)
(* three software interrupts of the start, and exceptions.                 *)
(*                                                                         *)
(* The controllers are external: a request waits until it is unmasked and  *)
(* nothing of its priority or above is in service on its controller; the   *)
(* slave is input 2 of the master; an end of interrupt clears the highest  *)
(* priority in service.  A smaller number is a higher priority.            *)
(***************************************************************************)
EXTENDS Integers, Sequences, FiniteSetsExt

CONSTANTS
  Lines,    \* the inputs that have a device
  MaxRaises \* bound: requests devices make; the slowest handler is far
            \* faster than the clock, which interrupts 100 times a second

Master == 0 .. 7
Slave == 8 .. 15
Cascade == 2
Software == 16   \* in place of the input, for an int instruction

ASSUME InterruptsAssumption ==
  Lines \subseteq (Master \union Slave) \ {Cascade} /\ MaxRaises \in Nat

VARIABLES
  pc,            \* where the kernel's thread is
  interruptFlag, \* the processor's IF
  frames,        \* the interrupts being handled: their vectors and inputs
  requested,     \* external: inputs whose request waits
  inService,     \* external: inputs in service
  masked,        \* external: inputs masked, by the firmware
  raises         \* history: requests made

interruptVars == <<pc, interruptFlag, frames, requested, inService, masked, raises>>

(* boot.asm has disabled interrupts; the firmware chose the mask. *)
InterruptsInit ==
  /\ pc = "remap"
  /\ interruptFlag = FALSE
  /\ frames = <<>>
  /\ requested = {}
  /\ inService = {}
  /\ masked \in SUBSET (Lines \union {Cascade})
  /\ raises = 0
-----------------------------------------------------------------------------
(* A device requests an interrupt. *)
Raise(irq) ==
  /\ raises < MaxRaises
  /\ raises' = raises + 1
  /\ requested' = requested \union {irq}
  /\ UNCHANGED <<pc, interruptFlag, frames, inService, masked>>

(* remap_pic( 0x20, 0x28 ) *)
Vector(irq) == IF irq \in Master THEN 32 + irq ELSE 40 + irq - 8

(* The inputs of a controller that may interrupt, of those it is asked by. *)
Eligible(asked, side) ==
  {irq \in asked \intersect side :
     irq \notin masked /\ \A other \in inService \intersect side : irq < other}
SlaveEligible == Eligible(requested, Slave)
MasterEligible ==
  Eligible(requested \union (IF SlaveEligible = {} THEN {} ELSE {Cascade}), Master)

(* An interrupt's bits, on one controller or on both. *)
Bits(irq) == CASE irq \in Master -> {irq}
               [] irq \in Slave  -> {irq, Cascade}
               [] OTHER          -> {}

IntGate_Trap == interruptFlag

(* What a gate leaves in IF: INT_0 and INT_3 are interrupt gates. *)
IntGate == FALSE

Enter(vector, irq) ==
  /\ frames' = Append(frames, [vector |-> vector, irq |-> irq])
  /\ interruptFlag' = IntGate

(* The processor takes the interrupt the controllers offer. *)
Accept ==
  /\ interruptFlag /\ MasterEligible # {} /\ pc # "halted"
  /\ LET first == Min(MasterEligible)
         irq == IF first = Cascade THEN Min(SlaveEligible) ELSE first
     IN /\ Enter(Vector(irq), irq)
        /\ requested' = requested \ {irq}
        /\ inService' = inService \union Bits(irq)
  /\ UNCHANGED <<pc, masked, raises>>

(* An end of interrupt sent to one controller. *)
EndOfInterrupt(bits, side) ==
  IF bits \intersect side = {} THEN bits ELSE bits \ {Min(bits \intersect side)}

Acknowledged_MasterOnly(vector) == EndOfInterrupt(inService, Master)
Acknowledged_ClockNever(vector) ==
  IF vector = 32 THEN inService ELSE EndOfInterrupt(inService, Master)
Acknowledged_LastSlaves(vector) ==
  EndOfInterrupt(IF vector > 41 THEN EndOfInterrupt(inService, Slave) ELSE inService, Master)

(* pic_acknowledge: the slave is told of vectors above 0x28. *)
Acknowledged(vector) ==
  EndOfInterrupt(IF vector > 40 THEN EndOfInterrupt(inService, Slave) ELSE inService, Master)

(* interrupt_default_handler for an interrupt, and the return from it. *)
Handle ==
  /\ frames # <<>>
  /\ inService' = Acknowledged(frames[Len(frames)].vector)
  /\ frames' = SubSeq(frames, 1, Len(frames) - 1)
  /\ interruptFlag' = TRUE
  /\ UNCHANGED <<pc, requested, masked, raises>>
-----------------------------------------------------------------------------
Thread == frames = <<>>

(* remap_pic, the clock and the gates.  The controllers start again with   *)
(* no request and nothing in service; their masks are saved and restored.  *)
Remap ==
  /\ Thread /\ pc = "remap"
  /\ requested' = {}
  /\ inService' = {}
  /\ pc' = "sti"
  /\ UNCHANGED <<interruptFlag, frames, masked, raises>>

Sti ==
  /\ Thread /\ pc = "sti"
  /\ interruptFlag' = TRUE
  /\ pc' = "int2E"
  /\ UNCHANGED <<frames, requested, inService, masked, raises>>

(* int 0x2E, 0x2F, 0x30, which are acknowledged like the others. *)
SoftwareInt(at, vector, next) ==
  /\ Thread /\ pc = at
  /\ Enter(vector, Software)
  /\ pc' = next
  /\ UNCHANGED <<requested, inService, masked, raises>>

(* The handler of an exception never returns. *)
Exception ==
  /\ Thread /\ pc = "kernel"
  /\ pc' = "halted"
  /\ interruptFlag' = IntGate
  /\ UNCHANGED <<frames, requested, inService, masked, raises>>

Boot == \/ Remap
        \/ Sti
        \/ SoftwareInt("int2E", 46, "int2F")
        \/ SoftwareInt("int2F", 47, "int30")
        \/ SoftwareInt("int30", 48, "kernel")

InterruptsNext == (\E irq \in Lines : Raise(irq)) \/ Accept \/ Handle \/ Boot \/ Exception

(* The processor takes an interrupt that is offered and runs what it is at.*)
InterruptsSpec ==
  /\ InterruptsInit /\ [][InterruptsNext]_interruptVars
  /\ WF_interruptVars(Accept) /\ WF_interruptVars(Handle) /\ WF_interruptVars(Boot)
-----------------------------------------------------------------------------
(* Types; in particular handlers do not nest. *)
InterruptsTypeOK ==
  /\ pc \in {"remap", "sti", "int2E", "int2F", "int30", "kernel", "halted"}
  /\ interruptFlag \in BOOLEAN
  /\ \A i \in DOMAIN frames : frames[i].vector \in 32 .. 48 /\ frames[i].irq \in 0 .. Software
  /\ Len(frames) <= 1
  /\ requested \subseteq Lines
  /\ inService \subseteq Lines \union {Cascade}
  /\ masked \subseteq Lines \union {Cascade}
  /\ raises \in 0 .. MaxRaises

RealTimeClock == 8

(* When the thread runs, every interrupt it let in is over on both         *)
(* controllers: all but the real-time clock's, whose vector 0x28 is not    *)
(* above 0x28.                                                             *)
NothingLeftInService == Thread => inService \subseteq {RealTimeClock}

(* A handler's acknowledgement ends its own interrupt and no other, the    *)
(* real-time clock's left behind apart: software interrupts are            *)
(* acknowledged too, and share vectors with inputs 14 and 15.              *)
AcknowledgesItsOwn ==
  [][Len(frames') < Len(frames) =>
       LET own == Bits(frames[Len(frames)].irq) IN
       /\ inService \ inService' \subseteq own \union {RealTimeClock}
       /\ own \intersect inService' \subseteq {RealTimeClock}]_interruptVars

Keyboard == 1

(* An unmasked key press reaches the processor, whatever has happened to   *)
(* the other inputs, unless an exception stops the kernel.                 *)
KeyboardIsServed ==
  pc # "remap" /\ Keyboard \in requested \ masked
    ~> Keyboard \notin requested \/ pc = "halted"

(* So does an unmasked request to the slave, unless a real-time clock      *)
(* interrupt has come first: it blocks the slave for good.                 *)
SlaveIsServed ==
  \A irq \in Lines \intersect Slave :
    pc # "remap" /\ irq \in requested \ masked /\ Cascade \notin masked
      ~> irq \notin requested \/ RealTimeClock \in inService \/ pc = "halted"
=============================================================================
