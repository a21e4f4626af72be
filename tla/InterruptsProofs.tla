-------------------------- MODULE InterruptsProofs --------------------------
(***************************************************************************)
(* Whatever devices there are and whatever the firmware masks: handlers do *)
(* not nest, each acknowledgement ends its own interrupt, and only the     *)
(* real-time clock's is left in service.                                   *)
(***************************************************************************)
EXTENDS Interrupts, TLAPS

Pcs == {"remap", "sti", "int2E", "int2F", "int30", "kernel", "halted"}

(* What is in service while an interrupt of this vector and input is       *)
(* handled: the input itself, and what the real-time clock left, which     *)
(* keeps every input of the slave out.                                     *)
HandlerInv(vector, irq) ==
  \/ irq = Software /\ vector \in 41 .. 48 /\ inService \subseteq {RealTimeClock}
  \/ /\ irq \in Lines \intersect Master /\ vector = Vector(irq)
     /\ inService \ {RealTimeClock} = {irq}
  \/ irq \in Lines \intersect Slave /\ vector = Vector(irq) /\ inService = {irq, Cascade}

(* One handler at most runs, with interrupts off. *)
FrameInv ==
  /\ frames = <<>> => inService \subseteq {RealTimeClock} \intersect Lines
  /\ frames # <<>> =>
       /\ ~interruptFlag /\ pc \in Pcs \ {"remap", "halted"}
       /\ inService \subseteq Lines \union {Cascade}
       /\ \E vector \in 32 .. 48, irq \in 0 .. Software :
            /\ frames = <<[vector |-> vector, irq |-> irq]>>
            /\ HandlerInv(vector, irq)

InterruptsInv ==
  /\ pc \in Pcs
  /\ interruptFlag \in BOOLEAN
  /\ pc \in {"remap", "halted"} => ~interruptFlag
  /\ requested \subseteq Lines
  /\ masked \subseteq Lines \union {Cascade}
  /\ raises \in 0 .. MaxRaises
  /\ FrameInv
-----------------------------------------------------------------------------
(* The controllers choose: a set of inputs has a highest priority. *)
LEMMA MinOfInputs ==
  ASSUME NEW S \in SUBSET (0 .. 15), S # {}
  PROVE  Min(S) \in S /\ \A other \in S : Min(S) <= other
<1>1. \E x \in S : \A y \in S : x <= y
  <2> SUFFICES ASSUME \A x \in S : \E y \in S : y < x PROVE FALSE
    OBVIOUS
  <2>0. \A y \in S : y \in Int /\ 0 <= y /\ y <= 15
    OBVIOUS
  <2>1. \A y \in S : y # 0 /\ y # 1 /\ y # 2 /\ y # 3
    BY <2>0
  <2>2. \A y \in S : y # 4 /\ y # 5 /\ y # 6 /\ y # 7
    BY <2>0, <2>1
  <2>3. \A y \in S : y # 8 /\ y # 9 /\ y # 10 /\ y # 11
    BY <2>0, <2>1, <2>2
  <2>4. \A y \in S : y # 12 /\ y # 13 /\ y # 14 /\ y # 15
    BY <2>0, <2>1, <2>2, <2>3
  <2>5. PICK y \in S : TRUE
    OBVIOUS
  <2>6. y \in Int /\ 0 <= y /\ y <= 15
    BY <2>0
  <2> QED BY <2>1, <2>2, <2>3, <2>4, <2>6
<1> QED BY <1>1 DEF Min

LEMMA OneFrame ==
  ASSUME NEW frame
  PROVE  /\ <<frame>> # <<>> /\ Len(<<frame>>) = 1 /\ <<frame>>[1] = frame
         /\ DOMAIN <<frame>> = {1} /\ SubSeq(<<frame>>, 1, 0) = <<>>
<1>1. Len(<<frame>>) = 1 /\ Len(<<>>) = 0 /\ <<frame>>[1] = frame
  OBVIOUS
<1>2. DOMAIN <<frame>> = {1}
  OBVIOUS
<1>3. SubSeq(<<frame>>, 1, 0) = <<>>
  OBVIOUS
<1> QED BY <1>1, <1>2, <1>3

LEMMA MinOfOne == ASSUME NEW n \in Int PROVE Min({n}) = n
BY DEF Min

(* What an acknowledgement leaves in service. *)
LEMMA AcknowledgedLeaves ==
  ASSUME InterruptsInv, NEW vector \in 32 .. 48, NEW irq \in 0 .. Software,
         HandlerInv(vector, irq), inService \subseteq Lines \union {Cascade}
  PROVE  /\ Acknowledged(vector) \subseteq {RealTimeClock} \intersect Lines
         /\ inService \ Acknowledged(vector) \subseteq Bits(irq) \union {RealTimeClock}
<1> USE DEF Master, Slave, Cascade, Software, RealTimeClock
<1>1. Lines \subseteq (0 .. 7 \union 8 .. 15) \ {2}
  BY InterruptsAssumption
<1>2. CASE irq = Software
  <2>0. inService \subseteq {8} /\ vector > 40
    BY <1>1, <1>2 DEF HandlerInv
  <2>1. (inService = {} \/ inService = {8}) /\ vector > 40
    BY <2>0
  <2>2. EndOfInterrupt(inService, 8 .. 15) = {}
    <3>1. CASE inService = {}
      BY <3>1 DEF EndOfInterrupt
    <3>2. CASE inService = {8}
      BY <3>2, MinOfOne DEF EndOfInterrupt
    <3> QED BY <2>1, <3>1, <3>2
  <2>3. EndOfInterrupt({}, 0 .. 7) = {}
    BY DEF EndOfInterrupt
  <2>4. Acknowledged(vector) = {}
    BY <2>1, <2>2, <2>3 DEF Acknowledged
  <2> QED BY <2>1, <2>4
<1>3. CASE irq \in Lines \intersect Master
  <2>1. /\ inService \in {{irq}, {irq, 8}} /\ vector = 32 + irq /\ ~(vector > 40)
        /\ inService \intersect (0 .. 7) = {irq} /\ irq \in 0 .. 7
        /\ inService \ {irq} \subseteq {8} \intersect Lines
    BY <1>1, <1>3 DEF HandlerInv, Vector
  <2>2. Acknowledged(vector) = inService \ {irq}
    BY <2>1, MinOfOne DEF Acknowledged, EndOfInterrupt
  <2> QED BY <2>1, <2>2 DEF Bits
<1>4. CASE irq \in Lines \intersect Slave
  <2>1. inService = {irq, 2} /\ vector = 40 + irq - 8 /\ irq \in 8 .. 15
    BY <1>1, <1>4 DEF HandlerInv, Vector
  <2>2. CASE irq = 8
    <3>1. ~(vector > 40) /\ inService \intersect (0 .. 7) = {2}
      BY <2>1, <2>2
    <3>2. Acknowledged(vector) = {8}
      BY <2>1, <2>2, <3>1, MinOfOne DEF Acknowledged, EndOfInterrupt
    <3> QED BY <1>4, <2>1, <2>2, <3>2 DEF Bits
  <2>3. CASE irq # 8
    <3>a. vector > 40
      BY <2>1, <2>3
    <3>b. inService \intersect (8 .. 15) = {irq}
      <4>1. 2 \notin 8 .. 15
        OBVIOUS
      <4> QED BY <2>1, <4>1, Zenon
    <3>1. vector > 40 /\ inService \intersect (8 .. 15) = {irq}
      BY <3>a, <3>b
    <3>2. EndOfInterrupt(inService, 8 .. 15) = {2}
      BY <2>1, <3>1, MinOfOne DEF EndOfInterrupt
    <3>3. EndOfInterrupt({2}, 0 .. 7) = {}
      <4>1. {2} \intersect (0 .. 7) = {2}
        OBVIOUS
      <4> QED BY <4>1, MinOfOne DEF EndOfInterrupt
    <3>4. Acknowledged(vector) = {}
      BY <3>1, <3>2, <3>3 DEF Acknowledged
    <3> QED BY <2>1, <3>4 DEF Bits
  <2> QED BY <2>2, <2>3
<1> QED BY <1>2, <1>3, <1>4 DEF HandlerInv
-----------------------------------------------------------------------------
LEMMA InitEstablishesInv == InterruptsInit => InterruptsInv
<1> SUFFICES ASSUME InterruptsInit PROVE InterruptsInv
  OBVIOUS
<1>1. 0 \in 0 .. MaxRaises
  BY InterruptsAssumption
<1> QED BY <1>1 DEF InterruptsInit, InterruptsInv, FrameInv, Pcs

LEMMA AcceptKeepsInv ==
  ASSUME InterruptsInv, Accept
  PROVE  InterruptsInv'
<1> USE DEF Master, Slave, Cascade, Software, RealTimeClock
<1>1. Lines \subseteq (0 .. 7 \union 8 .. 15) \ {2}
  BY InterruptsAssumption
<1>2. /\ frames = <<>> /\ inService \subseteq {8} \intersect Lines
      /\ pc \notin {"remap", "halted"} /\ requested \subseteq Lines
  BY DEF InterruptsInv, FrameInv, Accept
<1> DEFINE first == Min(MasterEligible)
           irq == IF first = Cascade THEN Min(SlaveEligible) ELSE first
<1>3. /\ Enter(Vector(irq), irq) /\ MasterEligible # {}
      /\ requested' = requested \ {irq}
      /\ inService' = inService \union Bits(irq)
      /\ UNCHANGED <<pc, masked, raises>>
  BY DEF Accept
<1>4. SlaveEligible \subseteq requested \intersect 8 .. 15
  BY DEF SlaveEligible, Eligible
<1>5. MasterEligible \subseteq 0 .. 7
      /\ MasterEligible \subseteq requested \union (IF SlaveEligible = {} THEN {} ELSE {2})
  BY DEF MasterEligible, Eligible
<1>6. first \in MasterEligible
  BY <1>3, <1>5, MinOfInputs
<1>7. \/ irq \in Lines \intersect Master
      \/ irq \in Lines \intersect Slave /\ inService = {}
  <2>1. CASE first = 2
    <3>1. SlaveEligible # {}
      BY <1>1, <1>2, <1>5, <1>6, <2>1
    <3>2. Min(SlaveEligible) \in SlaveEligible
      BY <1>4, <3>1, MinOfInputs
    <3>3. inService = {}
      BY <1>2, <3>1 DEF SlaveEligible, Eligible
    <3> QED BY <1>2, <1>4, <2>1, <3>2, <3>3
  <2>2. CASE first # 2
    BY <1>2, <1>5, <1>6, <2>2
  <2> QED BY <2>1, <2>2
<1> HIDE DEF first, irq
<1>8. PICK i \in 0 .. 16 :
        /\ Vector(i) \in 32 .. 48
        /\ frames' = <<[vector |-> Vector(i), irq |-> i]>>
        /\ interruptFlag' = FALSE
        /\ requested' = requested \ {i}
        /\ inService' = inService \union Bits(i)
        /\ i \in Lines \intersect Master \/ (i \in Lines \intersect Slave /\ inService = {})
  <2>1. irq \in 0 .. 16 /\ Vector(irq) \in 32 .. 48
    BY <1>1, <1>7 DEF Vector
  <2>2. frames' = <<[vector |-> Vector(irq), irq |-> irq]>> /\ interruptFlag' = FALSE
    BY <1>2, <1>3 DEF Enter, IntGate
  <2> QED BY <1>3, <1>7, <2>1, <2>2
<1>10. HandlerInv(Vector(i), i)'
  <2>1. CASE i \in Lines \intersect Master
    <3>1. inService' = inService \union {i} /\ i \in 0 .. 7
      BY <1>1, <1>8, <2>1 DEF Bits
    <3>2. inService' \ {8} = {i}
      <4>1. i # 8 /\ inService \subseteq {8}
        BY <1>2, <3>1
      <4> QED BY <3>1, <4>1, Zenon
    <3> QED BY <2>1, <3>2 DEF HandlerInv, Vector
  <2>2. CASE i \in Lines \intersect Slave /\ inService = {}
    <3>1. inService' = {i, 2}
      BY <1>8, <2>2 DEF Bits
    <3> QED BY <2>2, <3>1 DEF HandlerInv, Vector
  <2> QED BY <1>8, <2>1, <2>2
<1>11. inService' \subseteq Lines \union {Cascade}
  BY <1>2, <1>8 DEF Bits
<1>12. FrameInv'
  <2>1. pc' \in Pcs \ {"remap", "halted"}
    BY <1>2, <1>3 DEF InterruptsInv
  <2> QED BY <1>8, <1>10, <1>11, <2>1, OneFrame DEF FrameInv
<1> QED BY <1>2, <1>3, <1>8, <1>12 DEF InterruptsInv

(* An interrupt handled: what the acknowledgement does, and the invariant. *)
LEMMA HandleKeepsInv ==
  ASSUME InterruptsInv, Handle
  PROVE  /\ InterruptsInv'
         /\ LET own == Bits(frames[Len(frames)].irq) IN
            /\ inService \ inService' \subseteq own \union {RealTimeClock}
            /\ own \intersect inService' \subseteq {RealTimeClock}
<1>1. PICK vector \in 32 .. 48, irq \in 0 .. Software :
        /\ frames = <<[vector |-> vector, irq |-> irq]>>
        /\ HandlerInv(vector, irq)
        /\ inService \subseteq Lines \union {Cascade}
        /\ pc \in Pcs \ {"remap", "halted"}
  BY DEF InterruptsInv, FrameInv, Handle
<1>2. /\ Len(frames) = 1 /\ frames[Len(frames)].vector = vector
      /\ frames[Len(frames)].irq = irq /\ SubSeq(frames, 1, Len(frames) - 1) = <<>>
  BY <1>1, OneFrame
<1>3. /\ inService' = Acknowledged(vector) /\ frames' = <<>> /\ interruptFlag' = TRUE
      /\ UNCHANGED <<pc, requested, masked, raises>>
  BY <1>2 DEF Handle
<1>4. /\ inService' \subseteq {RealTimeClock} \intersect Lines
      /\ inService \ inService' \subseteq Bits(irq) \union {RealTimeClock}
  BY <1>1, <1>3, AcknowledgedLeaves
<1>5. InterruptsInv'
  BY <1>1, <1>3, <1>4 DEF InterruptsInv, FrameInv
<1> QED BY <1>2, <1>4, <1>5

(* The kernel's thread. *)
LEMMA SoftwareIntKeepsInv ==
  ASSUME InterruptsInv, NEW from, NEW to \in {"int2F", "int30", "kernel"},
         NEW vector \in 46 .. 48, SoftwareInt(from, vector, to)
  PROVE  InterruptsInv'
<1>1. Thread /\ frames = <<>> /\ inService \subseteq {RealTimeClock} \intersect Lines
  BY DEF SoftwareInt, Thread, InterruptsInv, FrameInv
<1>2. /\ frames' = <<[vector |-> vector, irq |-> Software]>>
      /\ interruptFlag' = FALSE /\ pc' = to
      /\ UNCHANGED <<requested, inService, masked, raises>>
  BY <1>1 DEF SoftwareInt, Enter, IntGate
<1>3. vector \in 32 .. 48 /\ Software \in 0 .. Software /\ vector \in 41 .. 48
  BY DEF Software
<1>4. HandlerInv(vector, Software)'
  BY <1>1, <1>2, <1>3 DEF HandlerInv
<1>5. FrameInv'
  <2>1. inService' \subseteq Lines \union {Cascade} /\ pc' \in Pcs \ {"remap", "halted"}
    BY <1>1, <1>2 DEF Pcs
  <2> QED BY <1>2, <1>3, <1>4, <2>1, OneFrame DEF FrameInv
<1> QED BY <1>2, <1>5 DEF InterruptsInv, Pcs

LEMMA BootKeepsInv ==
  ASSUME InterruptsInv, Boot
  PROVE  InterruptsInv'
<1>1. Thread /\ frames = <<>> /\ inService \subseteq {RealTimeClock} \intersect Lines
  BY DEF Boot, Remap, Sti, SoftwareInt, Thread, InterruptsInv, FrameInv
<1>2. CASE Remap
  BY <1>1, <1>2 DEF Remap, InterruptsInv, FrameInv, Thread, Pcs
<1>3. CASE Sti
  BY <1>1, <1>3 DEF Sti, InterruptsInv, FrameInv, Thread, Pcs
<1>4. 46 \in 46 .. 48 /\ 47 \in 46 .. 48 /\ 48 \in 46 .. 48
  OBVIOUS
<1> QED BY <1>2, <1>3, <1>4, SoftwareIntKeepsInv DEF Boot

LEMMA StepKeepsInv ==
  ASSUME InterruptsInv, [InterruptsNext]_interruptVars
  PROVE  InterruptsInv'
<1>1. CASE UNCHANGED interruptVars
  BY <1>1 DEF interruptVars, InterruptsInv, FrameInv, HandlerInv
<1>2. ASSUME NEW irq \in Lines, Raise(irq) PROVE InterruptsInv'
  <2>1. raises' \in 0 .. MaxRaises
    BY <1>2, InterruptsAssumption DEF Raise, InterruptsInv
  <2>2. FrameInv'
    BY <1>2 DEF Raise, InterruptsInv, FrameInv, HandlerInv
  <2> QED BY <1>2, <2>1, <2>2 DEF Raise, InterruptsInv
<1>3. CASE Exception
  BY <1>3 DEF Exception, Thread, IntGate, InterruptsInv, FrameInv, Pcs
<1> QED BY <1>1, <1>2, <1>3, AcceptKeepsInv, HandleKeepsInv, BootKeepsInv DEF InterruptsNext

(* InterruptsInv is an invariant of the interrupts. *)
THEOREM InterruptsInvariant == InterruptsSpec => []InterruptsInv
<1> QED BY InitEstablishesInv, StepKeepsInv, PTL DEF InterruptsSpec

(* Type correctness: handlers do not nest, their gates turn interrupts off *)
(* (c/interrupts.c:12-46, asm/interruptsasm.asm).                          *)
THEOREM HandlersDoNotNest == InterruptsSpec => []InterruptsTypeOK
<1>1. InterruptsInv => InterruptsTypeOK
  <2> SUFFICES ASSUME InterruptsInv PROVE InterruptsTypeOK
    OBVIOUS
  <2>1. /\ \A i \in DOMAIN frames :
             frames[i].vector \in 32 .. 48 /\ frames[i].irq \in 0 .. Software
        /\ Len(frames) <= 1
        /\ inService \subseteq Lines \union {Cascade}
    <3>1. CASE frames = <<>>
      BY <3>1 DEF InterruptsInv, FrameInv
    <3>2. CASE frames # <<>>
      <4>1. PICK vector \in 32 .. 48, irq \in 0 .. Software :
              frames = <<[vector |-> vector, irq |-> irq]>>
        BY <3>2 DEF InterruptsInv, FrameInv
      <4>2. inService \subseteq Lines \union {Cascade}
        BY <3>2 DEF InterruptsInv, FrameInv
      <4>3. \A i \in DOMAIN frames : i = 1 /\ frames[i] = [vector |-> vector, irq |-> irq]
        BY <4>1, OneFrame
      <4>4. Len(frames) <= 1
        BY <4>1, OneFrame
      <4> QED BY <4>2, <4>3, <4>4
    <3> QED BY <3>1, <3>2
  <2> QED BY <2>1 DEF InterruptsInv, InterruptsTypeOK, Pcs
<1> QED BY <1>1, InterruptsInvariant, PTL

(* Between handlers nothing is in service but the real-time clock's input  *)
(* (c/interrupts.c:105-180).                                                *)
THEOREM OnlyClockLeft == InterruptsSpec => []NothingLeftInService
<1>1. InterruptsInv => NothingLeftInService
  BY DEF InterruptsInv, FrameInv, NothingLeftInService, Thread
<1> QED BY <1>1, InterruptsInvariant, PTL

(* An acknowledgement ends its own interrupt, software ones included.      *)
THEOREM AcknowledgementIsOwn == InterruptsSpec => AcknowledgesItsOwn
<1>1. ASSUME InterruptsInv, [InterruptsNext]_interruptVars, Len(frames') < Len(frames)
      PROVE  Handle
  <2>1. Len(frames) \in Nat /\ frames \in Seq([vector : 32 .. 48, irq : 0 .. Software])
    <3>1. CASE frames = <<>>
      BY <3>1
    <3>2. CASE frames # <<>>
      <4>1. PICK vector \in 32 .. 48, irq \in 0 .. Software :
              frames = <<[vector |-> vector, irq |-> irq]>>
        BY <1>1, <3>2 DEF InterruptsInv, FrameInv
      <4> QED BY <4>1
    <3> QED BY <3>1, <3>2
  <2>2. frames' # frames
    BY <1>1, <2>1
  <2>3. ASSUME NEW vector, NEW irq PROVE ~Enter(vector, irq)
    BY <1>1, <2>1 DEF Enter
  <2> QED BY <1>1, <2>2, <2>3
      DEF InterruptsNext, interruptVars, Raise, Accept, Boot, Remap, Sti, SoftwareInt, Exception
<1>2. InterruptsInv /\ [InterruptsNext]_interruptVars =>
        [Len(frames') < Len(frames) =>
           LET own == Bits(frames[Len(frames)].irq) IN
           /\ inService \ inService' \subseteq own \union {RealTimeClock}
           /\ own \intersect inService' \subseteq {RealTimeClock}]_interruptVars
  BY <1>1, HandleKeepsInv
<1> QED BY <1>2, InterruptsInvariant, PTL DEF InterruptsSpec, AcknowledgesItsOwn
=============================================================================
