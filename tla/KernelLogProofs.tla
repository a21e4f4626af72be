-------------------------- MODULE KernelLogProofs ---------------------------
(***************************************************************************)
(* What the kernel prints and logs, for every screen and whatever faults   *)
(* come between two characters: no handler of a fault gives the processor  *)
(* back to what it interrupted, so that a call of printf, debug_f or       *)
(* debug_f2 that is on the stack alone still has the flag and the port it  *)
(* set; and printing is all the kernel does to the terminal.               *)
(***************************************************************************)
EXTENDS KernelLog, TerminalProofs, SequenceTheorems

Ports == {NoPort, COM1, COM2}
Steps == {Put(c) : c \in Characters} \union {Debug(d) : d \in BOOLEAN}
           \union {Port(port) : port \in {COM1, COM2}} \union {Spin, Iret}
Routine == Seq(Steps) \ {<<>>}

(* Routine r is on top of the stack, and step n of it is next. *)
At(r, n) == n \in 1 .. Len(r) /\ Top = SubSeq(r, n, Len(r))

(* A handler sets the flag that it found in any state. *)
HandlerAt ==
  \E r \in {ExceptionHandler, PageFaultHandler} : \E n \in 1 .. 4 :
    /\ At(r, n)
    /\ n # 1 => (is_debug_output <=> n \in {2, 3})

(* printf, called by the kernel or first in a system call *)
PrintfAt ==
  \E c \in Characters \ LogTexts : \E r \in {printf(c), printf(c) \o debug_f2(Dump)} :
    /\ At(r, 1)
    /\ ~is_debug_output /\ Len(text) < MaxRows
    /\ pc = "kernel" => r = printf(c) /\ default_port = COM1

debug_fAt ==
  \E n \in 1 .. 3 :
    /\ At(debug_f(Log), n)
    /\ is_debug_output <=> n \in {2, 3}
    /\ default_port # COM2
    /\ pc = "kernel" => default_port = COM1

debug_f2At ==
  \E n \in 1 .. 5 :
    /\ At(debug_f2(Dump), n)
    /\ is_debug_output <=> n \in {3, 4}
    /\ n \in 2 .. 4 => default_port = COM2

CallAt == pc # "int30" /\ (PrintfAt \/ debug_fAt \/ debug_f2At)

(* The stack: faults on top of at most one call. *)
StackInv ==
  /\ routines \in Seq(Routine)
  /\ faults \in Nat /\ Len(routines) <= faults + 1
  /\ Running => pc # "wild" /\ (HandlerAt \/ (Len(routines) = 1 /\ CallAt))

(* Until int 0x30 has returned nothing is on the screen. *)
BeforeCalls == pc = "int30" => Len(text) = 1 /\ default_port # COM2

(* The stack, while its routines run and where they return. *)
ControlInv == StackInv /\ BeforeCalls /\ LevelsRestored

(* The inductive invariant, which speaks of the routine on top only. *)
LogInv == TerminalInv /\ LogTypeOK /\ ControlInv /\ GoesWhereMeant
-----------------------------------------------------------------------------
(* No step is two kinds of step. *)
LEMMA StepsDiffer ==
  /\ \A c, e : Put(c) = Put(e) <=> c = e
  /\ \A d, e : Debug(d) = Debug(e) <=> d = e
  /\ \A port, e : Port(port) = Port(e) <=> port = e
  /\ \A c, d : Put(c) # Debug(d)
  /\ \A c, port : Put(c) # Port(port)
  /\ \A d, port : Debug(d) # Port(port)
  /\ \A c : Put(c) # Spin /\ Put(c) # Iret
  /\ \A d : Debug(d) # Spin /\ Debug(d) # Iret
  /\ \A port : Port(port) # Spin /\ Port(port) # Iret
  /\ Spin # Iret
BY DEF Put, Debug, Port, Spin, Iret

LEMMA StepTypes ==
  /\ \A c \in Characters : Put(c) \in Steps
  /\ \A d \in BOOLEAN : Debug(d) \in Steps
  /\ \A port \in {COM1, COM2} : Port(port) \in Steps
  /\ Spin \in Steps /\ Iret \in Steps
  /\ Log \in Characters /\ Dump \in Characters /\ Fault \in Characters
BY KernelLogAssumption DEF Steps, LogTexts, Characters

LEMMA OneStep ==
  ASSUME NEW S, NEW a \in S
  PROVE  <<a>> \in Seq(S) /\ Len(<<a>>) = 1 /\ <<a>>[1] = a
OBVIOUS

LEMMA ThreeSteps ==
  ASSUME NEW S, NEW a \in S, NEW b \in S, NEW c \in S
  PROVE  /\ <<a, b, c>> \in Seq(S) /\ Len(<<a, b, c>>) = 3
         /\ <<a, b, c>>[1] = a /\ <<a, b, c>>[2] = b /\ <<a, b, c>>[3] = c
OBVIOUS

LEMMA Joined ==
  ASSUME NEW S, NEW s \in Seq(S), NEW t \in Seq(S), NEW u, u = s \o t
  PROVE  /\ u \in Seq(S) /\ Len(u) = Len(s) + Len(t)
         /\ \A i \in 1 .. Len(s) : u[i] = s[i]
         /\ \A i \in 1 .. Len(t) : u[Len(s) + i] = t[i]
<1>1. Len(s) \in Nat /\ Len(t) \in Nat
  BY LenProperties
<1>2. u \in Seq(S)
  BY ConcatProperties
<1>3. Len(u) = Len(s) + Len(t)
  BY ConcatProperties
<1>4. ASSUME NEW i \in 1 .. Len(s) PROVE u[i] = s[i]
  <2>1. i \in 1 .. Len(s) + Len(t) /\ i <= Len(s)
    BY <1>1
  <2> QED BY <2>1, ConcatProperties
<1>5. ASSUME NEW i \in 1 .. Len(t), NEW k, k = Len(s) + i PROVE u[k] = t[i]
  <2>1. k \in 1 .. Len(s) + Len(t) /\ ~(k <= Len(s)) /\ k - Len(s) = i
    BY <1>1, <1>5
  <2> QED BY <2>1, ConcatProperties
<1>6. \A i \in 1 .. Len(t) : u[Len(s) + i] = t[i]
  BY <1>5, Zenon
<1> QED BY <1>2, <1>3, <1>4, <1>6, Zenon

(* The routines, step by step. *)
LEMMA PrintfSteps ==
  ASSUME NEW c \in Characters
  PROVE  printf(c) \in Seq(Steps) /\ Len(printf(c)) = 1 /\ printf(c)[1] = Put(c)
<1>1. Put(c) \in Steps
  BY StepTypes
<1> QED BY <1>1, OneStep DEF printf

LEMMA debug_fSteps ==
  ASSUME NEW c \in Characters
  PROVE  /\ debug_f(c) \in Seq(Steps) /\ Len(debug_f(c)) = 3
         /\ debug_f(c)[1] = Debug(TRUE) /\ debug_f(c)[2] = Put(c) /\ debug_f(c)[3] = Debug(FALSE)
<1>1. Put(c) \in Steps /\ Debug(TRUE) \in Steps /\ Debug(FALSE) \in Steps
  BY StepTypes
<1> HIDE DEF Steps
<1> QED BY <1>1, ThreeSteps DEF debug_f

LEMMA debug_f2Steps ==
  ASSUME NEW c \in Characters
  PROVE  /\ debug_f2(c) \in Seq(Steps) /\ Len(debug_f2(c)) = 5
         /\ debug_f2(c)[1] = Port(COM2) /\ debug_f2(c)[2] = Debug(TRUE) /\ debug_f2(c)[3] = Put(c)
         /\ debug_f2(c)[4] = Debug(FALSE) /\ debug_f2(c)[5] = Port(COM1)
<1>1. PICK first : /\ first = <<Port(COM2)>>
                   /\ first \in Seq(Steps) /\ Len(first) = 1 /\ first[1] = Port(COM2)
  <2>1. Port(COM2) \in Steps
    BY StepTypes
  <2> QED BY <2>1, OneStep
<1>2. PICK last : /\ last = <<Port(COM1)>>
                  /\ last \in Seq(Steps) /\ Len(last) = 1 /\ last[1] = Port(COM1)
  <2>1. Port(COM1) \in Steps
    BY StepTypes
  <2> QED BY <2>1, OneStep
<1>3. PICK body : /\ body = debug_f(c)
                  /\ body \in Seq(Steps) /\ Len(body) = 3
                  /\ body[1] = Debug(TRUE) /\ body[2] = Put(c) /\ body[3] = Debug(FALSE)
  BY debug_fSteps
<1>4. PICK start : start = first \o body
  OBVIOUS
<1>5. PICK all : all = start \o last
  OBVIOUS
<1>6. debug_f2(c) = all
  BY <1>1, <1>2, <1>3, <1>4, <1>5 DEF debug_f2
<1>7. /\ start \in Seq(Steps) /\ Len(start) = 4
      /\ start[1] = first[1] /\ start[1 + 1] = body[1]
      /\ start[1 + 2] = body[2] /\ start[1 + 3] = body[3]
  <2>1. /\ start \in Seq(Steps) /\ Len(start) = Len(first) + Len(body)
        /\ \A i \in 1 .. Len(first) : start[i] = first[i]
        /\ \A i \in 1 .. Len(body) : start[Len(first) + i] = body[i]
    <3>1. first \in Seq(Steps) /\ body \in Seq(Steps)
      BY <1>1, <1>3
    <3> QED BY <1>4, <3>1, Joined
  <2>2. Len(first) = 1 /\ Len(body) = 3
    BY <1>1, <1>3
  <2>3. start[1] = first[1]
    BY <2>1, <2>2
  <2>4. start[1 + 1] = body[1]
    BY <2>1, <2>2
  <2>5. start[1 + 2] = body[2]
    BY <2>1, <2>2
  <2>6. start[1 + 3] = body[3]
    BY <2>1, <2>2
  <2>7. start \in Seq(Steps) /\ Len(start) = 4
    BY <2>1, <2>2
  <2> QED BY <2>3, <2>4, <2>5, <2>6, <2>7
<1>8. /\ all \in Seq(Steps) /\ Len(all) = 5
      /\ \A i \in 1 .. 4 : all[i] = start[i]
      /\ all[4 + 1] = last[1]
  <2>1. /\ all \in Seq(Steps) /\ Len(all) = Len(start) + Len(last)
        /\ \A i \in 1 .. Len(start) : all[i] = start[i]
        /\ \A i \in 1 .. Len(last) : all[Len(start) + i] = last[i]
    <3>1. start \in Seq(Steps) /\ last \in Seq(Steps)
      BY <1>2, <1>7
    <3> QED BY <1>5, <3>1, Joined
  <2> QED BY <1>2, <1>7, <2>1
<1>9. /\ all[1] = first[1] /\ all[2] = body[1] /\ all[3] = body[2]
      /\ all[4] = body[3] /\ all[5] = last[1]
  BY <1>7, <1>8
<1> QED BY <1>1, <1>2, <1>3, <1>6, <1>8, <1>9

(* A system call that prints, then dumps. *)
LEMMA SystemCallSteps ==
  ASSUME NEW c \in Characters
  PROVE  LET r == printf(c) \o debug_f2(Dump)
         IN  /\ r \in Seq(Steps) /\ Len(r) = 6 /\ r[1] = Put(c)
             /\ SubSeq(r, 2, 6) = debug_f2(Dump)
<1> DEFINE p == printf(c)
           d == debug_f2(Dump)
           r == p \o d
<1>1. /\ p \in Seq(Steps) /\ Len(p) = 1 /\ p[1] = Put(c)
      /\ d \in Seq(Steps) /\ Len(d) = 5
  BY PrintfSteps, debug_f2Steps, StepTypes
<1> HIDE DEF p, d
<1>2. r \in Seq(Steps) /\ Len(r) = 6 /\ r[1] = p[1]
  <2>1. r \in Seq(Steps)
    BY <1>1, ConcatProperties
  <2>2. Len(r) = Len(p) + Len(d)
    BY <1>1, ConcatProperties
  <2>3. r[1] = p[1]
    BY <1>1, ConcatProperties
  <2> HIDE DEF r
  <2> QED BY <1>1, <2>1, <2>2, <2>3
<1>3. SubSeq(r, 2, 6) = SubSeq(d, 1, 5)
  <2>1. 2 \in Len(p) + 1 .. Len(p) + Len(d) /\ 6 \in Len(p) + 1 .. Len(p) + Len(d)
    BY <1>1
  <2>2. SubSeq(r, 2, 6) = SubSeq(d, 2 - Len(p), 6 - Len(p))
    BY <1>1, <2>1, SubSeqOfConcat2
  <2>3. 2 - Len(p) = 1 /\ 6 - Len(p) = 5
    BY <1>1
  <2> HIDE DEF r
  <2> QED BY <2>2, <2>3
<1>4. SubSeq(d, 1, 5) = d
  BY <1>1, SubSeqFull
<1> QED BY <1>1, <1>2, <1>3, <1>4 DEF p, d

LEMMA HandlerSteps ==
  ASSUME NEW r \in {ExceptionHandler, PageFaultHandler}
  PROVE  /\ r \in Seq(Steps) /\ Len(r) = 4
         /\ r[1] = Debug(TRUE) /\ r[2] = Put(Fault) /\ r[3] = Debug(FALSE)
         /\ r[4] = IF r = ExceptionHandler THEN Spin ELSE Iret
<1>1. PICK body : /\ body = debug_f(Fault)
                  /\ body \in Seq(Steps) /\ Len(body) = 3
                  /\ body[1] = Debug(TRUE) /\ body[2] = Put(Fault) /\ body[3] = Debug(FALSE)
  BY debug_fSteps, StepTypes
<1>2. ASSUME NEW s \in {Spin, Iret}, NEW h, h = body \o <<s>>
      PROVE  /\ h \in Seq(Steps) /\ Len(h) = 4
             /\ h[1] = Debug(TRUE) /\ h[2] = Put(Fault) /\ h[3] = Debug(FALSE)
             /\ h[4] = s
  <2>1. PICK last : last = <<s>> /\ last \in Seq(Steps) /\ Len(last) = 1 /\ last[1] = s
    <3>1. s \in Steps
      BY StepTypes
    <3> QED BY <3>1, OneStep
  <2>2. /\ h \in Seq(Steps) /\ Len(h) = Len(body) + Len(last)
        /\ \A i \in 1 .. Len(body) : h[i] = body[i]
        /\ \A i \in 1 .. Len(last) : h[Len(body) + i] = last[i]
    <3>1. body \in Seq(Steps) /\ last \in Seq(Steps) /\ h = body \o last
      BY <1>1, <1>2, <2>1
    <3> QED BY <3>1, Joined
  <2>3. h[1] = body[1] /\ h[2] = body[2] /\ h[3] = body[3] /\ h[3 + 1] = last[1] /\ Len(h) = 4
    <3>1. Len(body) = 3 /\ Len(last) = 1
      BY <1>1, <2>1
    <3>2. h[1] = body[1] /\ h[2] = body[2] /\ h[3] = body[3]
      BY <2>2, <3>1
    <3>3. h[3 + 1] = last[1]
      BY <2>2, <3>1
    <3>4. Len(h) = 4
      BY <2>2, <3>1
    <3> QED BY <3>2, <3>3, <3>4
  <2> QED BY <1>1, <2>1, <2>2, <2>3
<1>3. ExceptionHandler = body \o <<Spin>> /\ PageFaultHandler = body \o <<Iret>>
  BY <1>1 DEF ExceptionHandler, PageFaultHandler
<1>4. ExceptionHandler[4] = Spin /\ PageFaultHandler[4] = Iret
  BY <1>2, <1>3
<1>5. ExceptionHandler # PageFaultHandler
  BY <1>4, StepsDiffer
<1>6. CASE r = ExceptionHandler
  BY <1>2, <1>3, <1>6
<1>7. CASE r = PageFaultHandler
  BY <1>2, <1>3, <1>5, <1>7
<1> QED BY <1>6, <1>7
-----------------------------------------------------------------------------
(* The routine on top of the stack, and the step it is at. *)
LEMMA TopOfStack ==
  ASSUME routines \in Seq(Routine), Running
  PROVE  /\ Len(routines) \in Nat /\ 1 <= Len(routines)
         /\ Top \in Seq(Steps) /\ Top # <<>>
<1>1. Len(routines) \in Nat /\ 1 <= Len(routines)
  BY EmptySeq, LenProperties DEF Running
<1>2. Top \in Routine
  <2>1. Len(routines) \in 1 .. Len(routines)
    BY <1>1
  <2> QED BY <2>1, ElementOfSeq DEF Top
<1> QED BY <1>1, <1>2 DEF Routine

LEMMA StepNext ==
  ASSUME routines \in Seq(Routine), Running,
         NEW r \in Seq(Steps), NEW n \in Nat, At(r, n)
  PROVE  /\ n \in 1 .. Len(r) /\ Len(r) \in Nat
         /\ Len(Top) = Len(r) - n + 1
         /\ Top[1] = r[n]
         /\ n < Len(r) => Tail(Top) = SubSeq(r, n + 1, Len(r))
<1>1. n \in 1 .. Len(r) /\ Len(r) \in Nat /\ Len(r) \in n .. Len(r)
  BY LenProperties DEF At
<1>2. \A i \in n .. Len(r) : r[i] \in Steps
  BY <1>1, ElementOfSeq
<1>3. Top = SubSeq(r, n, Len(r))
  BY DEF At
<1> DEFINE m == Len(r)
           s == SubSeq(r, n, m)
<1>4. /\ Len(s) = IF n <= m THEN m - n + 1 ELSE 0
      /\ \A i \in 1 .. m - n + 1 : s[i] = r[n + i - 1]
  BY <1>1, <1>2, SubSeqProperties
<1>5. Tail(s) = SubSeq(r, n + 1, m)
  BY <1>1, HeadTailOfSubSeq
<1> HIDE DEF m, s
<1>6. Len(s) = m - n + 1
  BY <1>1, <1>4 DEF m
<1>7. s[1] = r[n]
  <2>1. 1 \in 1 .. m - n + 1 /\ n + 1 - 1 = n
    BY <1>1 DEF m
  <2> QED BY <1>4, <2>1
<1> QED BY <1>1, <1>3, <1>5, <1>6, <1>7 DEF m, s

(* After a step of it the next one is next, or it has returned. *)
LEMMA StepTaken ==
  ASSUME routines \in Seq(Routine), Running,
         NEW r \in Seq(Steps), NEW n \in Nat, At(r, n), Continue
  PROVE  /\ routines' \in Seq(Routine)
         /\ n < Len(r) => /\ Len(routines') = Len(routines) /\ Running'
                          /\ n + 1 \in 1 .. Len(r)
                          /\ Top' = SubSeq(r, n + 1, Len(r))
         /\ n = Len(r) => Len(routines') = Len(routines) - 1
<1>1. /\ Len(routines) \in Nat /\ 1 <= Len(routines)
      /\ Top \in Seq(Steps) /\ Top # <<>>
  BY TopOfStack
<1>2. /\ n \in 1 .. Len(r) /\ Len(r) \in Nat
      /\ Len(Top) = Len(r) - n + 1
      /\ n < Len(r) => Tail(Top) = SubSeq(r, n + 1, Len(r))
  BY StepNext
<1>3. CASE n < Len(r)
  <2> DEFINE rest == Tail(Top)
             k == Len(routines)
  <2>1. routines' = [routines EXCEPT ![k] = rest]
    <3>1. Len(Top) # 1
      BY <1>2, <1>3
    <3> QED BY <3>1 DEF Continue, Top
  <2>2. rest \in Routine
    <3>1. rest \in Seq(Steps) /\ Len(rest) = Len(Top) - 1
      BY <1>1, HeadTailProperties
    <3>2. rest # <<>>
      <4>1. Len(rest) # 0
        BY <1>2, <1>3, <3>1
      <4> QED BY <4>1, EmptySeq
    <3> QED BY <3>1, <3>2 DEF Routine
  <2>3. k \in 1 .. Len(routines)
    BY <1>1
  <2> HIDE DEF rest, k
  <2>4. /\ routines' \in Seq(Routine) /\ Len(routines') = Len(routines)
        /\ routines'[k] = rest
    BY <2>1, <2>2, <2>3, ExceptSeq
  <2>5. routines' # <<>>
    BY <1>1, <2>4
  <2>6. Top' = rest
    BY <2>4 DEF Top, k
  <2>7. n + 1 \in 1 .. Len(r)
    BY <1>2, <1>3
  <2> QED BY <1>2, <1>3, <2>4, <2>5, <2>6, <2>7 DEF Running, rest
<1>4. CASE n = Len(r)
  <2>1. Len(Top) = 1
    BY <1>2, <1>4
  <2>2. routines' = SubSeq(routines, 1, Len(routines) - 1)
    BY <2>1 DEF Continue, Front
  <2>3. \A i \in 1 .. Len(routines) - 1 : routines[i] \in Routine
    BY <1>1, ElementOfSeq
  <2> DEFINE k == Len(routines) - 1
  <2>4. k \in Int /\ 1 \in Int /\ (1 <= k => k - 1 + 1 = k) /\ (~(1 <= k) => k = 0)
    <3>1. PICK m \in Nat : m = Len(routines) /\ 1 <= m
      BY <1>1
    <3>2. k = m - 1
      BY <3>1
    <3> HIDE DEF k
    <3> QED BY <3>1, <3>2
  <2>5. /\ SubSeq(routines, 1, k) \in Seq(Routine)
        /\ Len(SubSeq(routines, 1, k)) = IF 1 <= k THEN k - 1 + 1 ELSE 0
    BY <2>3, <2>4, SubSeqProperties
  <2> HIDE DEF k
  <2>6. routines' \in Seq(Routine) /\ Len(routines') = k
    BY <2>2, <2>4, <2>5 DEF k
  <2> QED BY <1>2, <1>4, <2>6 DEF k
<1> QED BY <1>2, <1>3, <1>4

LEMMA RoutinePushed ==
  ASSUME routines \in Seq(Routine), NEW r \in Seq(Steps), 1 <= Len(r), Push(r)
  PROVE  /\ routines' \in Seq(Routine) /\ Len(routines') = Len(routines) + 1
         /\ Running' /\ At(r, 1)'
<1>1. Len(r) \in Nat /\ r # <<>>
  BY LenProperties
<1>2. r \in Routine
  BY <1>1 DEF Routine
<1>3. /\ routines' \in Seq(Routine) /\ Len(routines') = Len(routines) + 1
      /\ routines'[Len(routines) + 1] = r
  BY <1>2, AppendProperties DEF Push
<1>4. Len(routines) \in Nat
  BY LenProperties
<1>5. Running'
  BY <1>3, <1>4 DEF Running
<1>6. Top' = r
  BY <1>3 DEF Top
<1>7. SubSeq(r, 1, Len(r)) = r
  BY SubSeqFull
<1> QED BY <1>1, <1>3, <1>5, <1>6, <1>7 DEF At

(* Which step a step of the routine on top is. *)
LEMMA StepOfTop ==
  ASSUME RoutineStep
  PROVE  /\ Running /\ Top[1] # Spin
         /\ \A d \in BOOLEAN : Top[1] = Debug(d) => SetDebug(d)
         /\ \A port : Top[1] = Port(port) => SetPort(port)
         /\ \A c : Top[1] = Put(c) => PutStep(c) /\ c \in Characters
         /\ Top[1] = Iret => IretStep
<1>1. CASE \E d \in BOOLEAN : SetDebug(d)
  <2>1. PICK d \in BOOLEAN : SetDebug(d)
    BY <1>1
  <2>2. Running /\ Top[1] = Debug(d)
    BY <2>1 DEF SetDebug, Step
  <2> QED BY <2>1, <2>2, StepsDiffer
<1>2. CASE \E port \in {COM1, COM2} : SetPort(port)
  <2>1. PICK port \in {COM1, COM2} : SetPort(port)
    BY <1>2
  <2>2. Running /\ Top[1] = Port(port)
    BY <2>1 DEF SetPort, Step
  <2> QED BY <2>1, <2>2, StepsDiffer
<1>3. CASE \E c \in Characters : PutStep(c)
  <2>1. PICK c \in Characters : PutStep(c)
    BY <1>3
  <2>2. Running /\ Top[1] = Put(c)
    BY <2>1 DEF PutStep, Step
  <2> QED BY <2>1, <2>2, StepsDiffer
<1>4. CASE IretStep
  <2>1. Running /\ Top[1] = Iret
    BY <1>4 DEF IretStep, Step
  <2> QED BY <1>4, <2>1, StepsDiffer
<1> QED BY <1>1, <1>2, <1>3, <1>4 DEF RoutineStep
-----------------------------------------------------------------------------
(* What a routine prints next goes where it is meant to go. *)
LEMMA NextCharacter ==
  ASSUME StackInv, Running, NEW c \in Characters, Top[1] = Put(c)
  PROVE  IF is_debug_output
           THEN c \in LogTexts /\ (c = Log => default_port # COM2) /\ (c = Dump => default_port = COM2)
           ELSE c \notin LogTexts /\ Len(text) < MaxRows
<1>1. routines \in Seq(Routine) /\ (HandlerAt \/ PrintfAt \/ debug_fAt \/ debug_f2At)
  BY DEF StackInv, CallAt
<1>2. /\ Log # Dump /\ Log # Fault /\ Dump # Fault
      /\ Log \in LogTexts /\ Dump \in LogTexts /\ Fault \in LogTexts
  BY KernelLogAssumption DEF LogTexts
<1>3. CASE HandlerAt
  <2>0. PICK r \in {ExceptionHandler, PageFaultHandler} : \E n \in 1 .. 4 :
          At(r, n) /\ (n # 1 => (is_debug_output <=> n \in {2, 3}))
    BY <1>3 DEF HandlerAt
  <2>1. PICK n \in 1 .. 4 :
          At(r, n) /\ (n # 1 => (is_debug_output <=> n \in {2, 3}))
    BY <2>0
  <2>2. /\ r \in Seq(Steps) /\ r[1] = Debug(TRUE) /\ r[2] = Put(Fault) /\ r[3] = Debug(FALSE)
        /\ r[4] \in {Spin, Iret}
    BY HandlerSteps
  <2>3. Top[1] = r[n]
    BY <1>1, <2>1, <2>2, StepNext
  <2>4. n = 2
    <3>1. r[1] # Put(c) /\ r[3] # Put(c) /\ r[4] # Put(c)
      BY <2>2, StepsDiffer
    <3>2. r[n] = Put(c)
      BY <2>3
    <3> QED BY <3>1, <3>2
  <2>5. c = Fault
    <3>1. Put(Fault) = Put(c)
      BY <2>2, <2>3, <2>4
    <3> QED BY <3>1, StepsDiffer
  <2> QED BY <1>2, <2>1, <2>4, <2>5
<1>4. CASE PrintfAt
  <2>0. PICK e \in Characters \ LogTexts :
          \E r \in {printf(e), printf(e) \o debug_f2(Dump)} :
            At(r, 1) /\ ~is_debug_output /\ Len(text) < MaxRows
    BY <1>4 DEF PrintfAt
  <2>1. PICK r \in {printf(e), printf(e) \o debug_f2(Dump)} :
          At(r, 1) /\ ~is_debug_output /\ Len(text) < MaxRows
    BY <2>0
  <2>2. r \in Seq(Steps) /\ r[1] = Put(e)
    BY PrintfSteps, SystemCallSteps
  <2>3. Top[1] = Put(e)
    BY <1>1, <2>1, <2>2, StepNext
  <2>4. c = e
    BY <2>3, StepsDiffer
  <2> QED BY <2>1, <2>4
<1>5. CASE debug_fAt
  <2>1. PICK n \in 1 .. 3 :
          At(debug_f(Log), n) /\ (is_debug_output <=> n \in {2, 3}) /\ default_port # COM2
    BY <1>5 DEF debug_fAt
  <2> DEFINE r == debug_f(Log)
  <2>2. r \in Seq(Steps) /\ r[1] = Debug(TRUE) /\ r[2] = Put(Log) /\ r[3] = Debug(FALSE)
    BY debug_fSteps, StepTypes
  <2>3. At(r, n)
    BY <2>1
  <2> HIDE DEF r
  <2>4. Top[1] = r[n]
    BY <1>1, <2>2, <2>3, StepNext
  <2>5. n = 2
    <3>1. r[1] # Put(c) /\ r[3] # Put(c)
      BY <2>2, StepsDiffer
    <3>2. r[n] = Put(c)
      BY <2>4
    <3> QED BY <3>1, <3>2
  <2>6. c = Log
    <3>1. Put(Log) = Put(c)
      BY <2>2, <2>4, <2>5
    <3> QED BY <3>1, StepsDiffer
  <2> QED BY <1>2, <2>1, <2>5, <2>6
<1>6. CASE debug_f2At
  <2>1. PICK n \in 1 .. 5 :
          /\ At(debug_f2(Dump), n) /\ (is_debug_output <=> n \in {3, 4})
          /\ n \in 2 .. 4 => default_port = COM2
    BY <1>6 DEF debug_f2At
  <2> DEFINE r == debug_f2(Dump)
  <2>2. /\ r \in Seq(Steps)
        /\ r[1] = Port(COM2) /\ r[2] = Debug(TRUE) /\ r[3] = Put(Dump)
        /\ r[4] = Debug(FALSE) /\ r[5] = Port(COM1)
    BY debug_f2Steps, StepTypes
  <2>3. At(r, n)
    BY <2>1
  <2> HIDE DEF r
  <2>4. Top[1] = r[n]
    BY <1>1, <2>2, <2>3, StepNext
  <2>5. n = 3
    <3>1. r[1] # Put(c) /\ r[2] # Put(c) /\ r[4] # Put(c) /\ r[5] # Put(c)
      BY <2>2, StepsDiffer
    <3>2. r[n] = Put(c)
      BY <2>4
    <3> QED BY <3>1, <3>2
  <2>6. c = Dump
    <3>1. Put(Dump) = Put(c)
      BY <2>2, <2>4, <2>5
    <3> QED BY <3>1, StepsDiffer
  <2> QED BY <1>2, <2>1, <2>5, <2>6
<1> QED BY <1>1, <1>3, <1>4, <1>5, <1>6

(* Each step of the kernel is a step of the terminal or leaves it alone. *)
LEMMA StepOfTerminal ==
  ASSUME StackInv, LevelsRestored, [LogNext]_vars
  PROVE  [TerminalNext]_terminalVars
<1>1. CASE UNCHANGED vars \/ IntThirty \/ initalize_serial \/ Prints \/ Faults
  BY <1>1 DEF vars, IntThirty, initalize_serial, Prints, Faults
<1>2. CASE Erases
  <2>1. ~is_debug_output /\ term_clear_last_char
    BY <1>2 DEF Erases, LevelsRestored
  <2> QED BY <2>1 DEF TerminalNext
<1>3. CASE \E d \in BOOLEAN : SetDebug(d)
  BY <1>3 DEF SetDebug, TerminalNext
<1>4. CASE (\E port \in {COM1, COM2} : SetPort(port)) \/ IretStep
  BY <1>4 DEF SetPort, IretStep
<1>5. CASE \E c \in Characters : PutStep(c)
  <2>1. PICK c \in Characters : PutStep(c)
    BY <1>5
  <2>2. Running /\ Top[1] = Put(c) /\ term_put_char(c)
    BY <2>1 DEF PutStep, Step
  <2>3. CASE is_debug_output
    BY <2>2, <2>3 DEF term_put_char, terminalVars
  <2>4. CASE ~is_debug_output
    BY <2>2, <2>4, NextCharacter DEF TerminalNext
  <2> QED BY <2>3, <2>4
<1> QED BY <1>1, <1>2, <1>3, <1>4, <1>5 DEF LogNext, RoutineStep
-----------------------------------------------------------------------------
(* A step of a handler: it goes on to its end, where it stays. *)
LEMMA HandlerStep ==
  ASSUME ControlInv, HandlerAt, RoutineStep
  PROVE  ControlInv'
<1>1. Running /\ Top[1] # Spin
  BY StepOfTop
<1>2. /\ routines \in Seq(Routine) /\ pc # "wild"
      /\ faults \in Nat /\ Len(routines) <= faults + 1
      /\ BeforeCalls /\ Len(routines) \in Nat /\ 1 <= Len(routines)
  BY <1>1, TopOfStack DEF ControlInv, StackInv
<1>3. PICK r \in {ExceptionHandler, PageFaultHandler} : \E n \in 1 .. 4 :
        At(r, n) /\ (n # 1 => (is_debug_output <=> n \in {2, 3}))
  BY DEF HandlerAt
<1>4. PICK n \in 1 .. 4 :
        At(r, n) /\ (n # 1 => (is_debug_output <=> n \in {2, 3}))
  BY <1>3
<1>5. /\ r \in Seq(Steps) /\ Len(r) = 4
      /\ r[1] = Debug(TRUE) /\ r[2] = Put(Fault) /\ r[3] = Debug(FALSE)
      /\ r[4] = IF r = ExceptionHandler THEN Spin ELSE Iret
  BY HandlerSteps
<1>6. Top[1] = r[n]
  BY <1>1, <1>2, <1>4, <1>5, StepNext
(* It goes on. *)
<1>7. ASSUME n < 4, Continue, pc' = pc, faults' = faults, text' = text,
             default_port' = default_port,
             is_debug_output' <=> n + 1 \in {2, 3}
      PROVE  ControlInv'
  <2>1. /\ routines' \in Seq(Routine) /\ Len(routines') = Len(routines) /\ Running'
        /\ n + 1 \in 1 .. Len(r) /\ Top' = SubSeq(r, n + 1, Len(r))
    <3>1. n \in Nat /\ n < Len(r) /\ Continue
      BY <1>5, <1>7
    <3> QED BY <1>1, <1>2, <1>4, <1>5, <3>1, StepTaken
  <2>2. At(r, n + 1)'
    BY <2>1 DEF At
  <2>3. HandlerAt'
    <3>1. n + 1 \in 1 .. 4
      BY <1>7
    <3>2. r \in {ExceptionHandler, PageFaultHandler}'
      OBVIOUS
    <3> QED BY <1>7, <2>2, <3>1, <3>2 DEF HandlerAt
  <2>4. StackInv'
    BY <1>2, <1>7, <2>1, <2>3 DEF StackInv
  <2>5. BeforeCalls'
    BY <1>2, <1>7 DEF BeforeCalls
  <2>6. LevelsRestored'
    BY <2>1 DEF LevelsRestored
  <2> QED BY <2>4, <2>5, <2>6 DEF ControlInv
<1>8. CASE n = 1
  <2>1. SetDebug(TRUE)
    BY <1>5, <1>6, <1>8, StepOfTop
  <2> QED BY <1>7, <1>8, <2>1 DEF SetDebug, set_debug_output
<1>9. CASE n = 2
  <2>1. PutStep(Fault)
    BY <1>5, <1>6, <1>9, StepOfTop
  <2> QED BY <1>4, <1>7, <1>9, <2>1 DEF PutStep, term_put_char
<1>10. CASE n = 3
  <2>1. SetDebug(FALSE)
    BY <1>5, <1>6, <1>10, StepOfTop
  <2> QED BY <1>7, <1>10, <2>1 DEF SetDebug, set_debug_output
<1>11. CASE n = 4
  <2>1. IretStep
    BY <1>1, <1>5, <1>6, <1>11, StepOfTop
  <2>2. UNCHANGED <<is_debug_output, text, default_port, faults>>
    BY <2>1 DEF IretStep, ReturnFromFault, terminalVars
  <2>3. CASE routines' = <<>> /\ pc' = "wild"
    <3>1. routines' \in Seq(Routine) /\ Len(routines') = 0 /\ ~Running'
      BY <2>3, EmptySeq DEF Running
    <3>2. StackInv'
      <4>1. faults' \in Nat /\ Len(routines') <= faults' + 1
        BY <1>2, <2>2, <3>1
      <4> QED BY <3>1, <4>1 DEF StackInv
    <3> QED BY <2>3, <3>2 DEF ControlInv, BeforeCalls, LevelsRestored
  <2>4. CASE /\ routines' = [routines EXCEPT ![Len(routines)] = ExceptionHandler]
             /\ pc' = pc
    <3> DEFINE h == ExceptionHandler
    <3>1. h \in Seq(Steps) /\ Len(h) = 4
      BY HandlerSteps
    <3>2. h \in Routine
      BY <3>1, EmptySeq DEF Routine
    <3>3. Len(routines) \in 1 .. Len(routines)
      BY <1>2
    <3>4. /\ routines' \in Seq(Routine) /\ Len(routines') = Len(routines)
          /\ routines'[Len(routines)] = h
      <4> HIDE DEF h
      <4>1. routines' = [routines EXCEPT ![Len(routines)] = h]
        BY <2>4 DEF h
      <4> QED BY <1>2, <3>2, <3>3, <4>1, ExceptSeq
    <3>5. Running'
      BY <1>2, <3>4, EmptySeq DEF Running
    <3>6. Top' = SubSeq(h, 1, Len(h))
      <4>1. SubSeq(h, 1, Len(h)) = h
        BY <3>1, SubSeqFull
      <4> QED BY <3>4, <4>1 DEF Top
    <3>7. At(h, 1)'
      BY <3>1, <3>6 DEF At
    <3>8. HandlerAt'
      BY <3>7 DEF HandlerAt
    <3>9. StackInv'
      <4>1. faults' \in Nat /\ Len(routines') <= faults' + 1
        BY <1>2, <2>2, <3>4
      <4>2. pc' # "wild"
        BY <1>2, <2>4
      <4> QED BY <3>4, <3>8, <4>1, <4>2 DEF StackInv
    <3> QED BY <1>2, <2>2, <2>4, <3>5, <3>9 DEF ControlInv, BeforeCalls, LevelsRestored
  <2> QED BY <2>1, <2>3, <2>4 DEF IretStep, ReturnFromFault
<1> QED BY <1>4, <1>8, <1>9, <1>10, <1>11

(* A step of a call that is on the stack alone: it goes on, *)
LEMMA CallGoesOn ==
  ASSUME ControlInv, Running, Len(routines) = 1, pc # "int30",
         NEW r \in Seq(Steps), NEW n \in Nat, At(r, n), n < Len(r), Continue,
         UNCHANGED <<pc, faults>>,
         At(r, n + 1)' => (PrintfAt \/ debug_fAt \/ debug_f2At)'
  PROVE  ControlInv'
<1>1. routines \in Seq(Routine) /\ pc # "wild" /\ faults \in Nat
  BY DEF ControlInv, StackInv
<1>2. /\ routines' \in Seq(Routine) /\ Len(routines') = 1 /\ Running'
      /\ n + 1 \in 1 .. Len(r) /\ Top' = SubSeq(r, n + 1, Len(r))
  BY <1>1, StepTaken
<1>3. At(r, n + 1)'
  BY <1>2 DEF At
<1>4. CallAt'
  BY <1>3 DEF CallAt
<1>5. StackInv'
  BY <1>1, <1>2, <1>4 DEF StackInv
<1> QED BY <1>2, <1>5 DEF ControlInv, BeforeCalls, LevelsRestored

(* or returns, and then the flag is off and the port is the first one. *)
LEMMA CallReturns ==
  ASSUME ControlInv, Running, Len(routines) = 1, pc # "int30",
         NEW r \in Seq(Steps), NEW n \in Nat, At(r, n), n = Len(r), Continue,
         UNCHANGED <<pc, faults>>,
         ~is_debug_output', pc = "kernel" => default_port' = COM1
  PROVE  ControlInv'
<1>1. routines \in Seq(Routine) /\ pc # "wild" /\ faults \in Nat
  BY DEF ControlInv, StackInv
<1>2. routines' \in Seq(Routine) /\ Len(routines') = 0
  BY <1>1, StepTaken
<1>3. ~Running'
  BY <1>2, EmptySeq DEF Running
<1>4. StackInv'
  BY <1>1, <1>2, <1>3 DEF StackInv
<1> QED BY <1>3, <1>4 DEF ControlInv, BeforeCalls, LevelsRestored

LEMMA PrintfStep ==
  ASSUME ControlInv, Len(routines) = 1, pc # "int30", PrintfAt, RoutineStep
  PROVE  ControlInv'
<1>1. Running /\ routines \in Seq(Routine)
  BY StepOfTop DEF ControlInv, StackInv
<1>2. PICK c \in Characters \ LogTexts :
        \E r \in {printf(c), printf(c) \o debug_f2(Dump)} :
          /\ At(r, 1)
          /\ ~is_debug_output /\ Len(text) < MaxRows
          /\ pc = "kernel" => r = printf(c) /\ default_port = COM1
  BY DEF PrintfAt
<1>3. PICK r \in {printf(c), printf(c) \o debug_f2(Dump)} :
        /\ At(r, 1) /\ ~is_debug_output
        /\ pc = "kernel" => r = printf(c) /\ default_port = COM1
  BY <1>2
<1>4. r \in Seq(Steps) /\ r[1] = Put(c)
  BY PrintfSteps, SystemCallSteps
<1>5. Top[1] = Put(c)
  BY <1>1, <1>3, <1>4, StepNext
<1>6. PutStep(c)
  BY <1>5, StepOfTop
<1>7. /\ Continue /\ UNCHANGED <<pc, default_port, faults, is_debug_output>>
  BY <1>6 DEF PutStep, term_put_char
<1>8. CASE r = printf(c)
  <2>1. Len(r) = 1
    BY <1>8, PrintfSteps
  <2> QED BY <1>1, <1>3, <1>4, <1>7, <2>1, CallReturns
<1>9. CASE r = printf(c) \o debug_f2(Dump) /\ r # printf(c)
  <2>1. Len(r) = 6 /\ SubSeq(r, 2, 6) = debug_f2(Dump)
    BY <1>9, SystemCallSteps
  <2> DEFINE d == debug_f2(Dump)
  <2>2. Len(d) = 5 /\ d \in Seq(Steps) /\ SubSeq(d, 1, Len(d)) = d
    BY debug_f2Steps, StepTypes, SubSeqFull
  <2>3. ASSUME At(r, 2)' PROVE debug_f2At'
    <3>1. Top' = SubSeq(d, 1, Len(d))
      BY <2>1, <2>2, <2>3 DEF At
    <3>2. At(d, 1)'
      BY <2>2, <3>1 DEF At
    <3>3. is_debug_output' <=> 1 \in {3, 4}
      BY <1>3, <1>7
    <3> QED BY <3>2, <3>3 DEF debug_f2At
  <2>4. 1 < Len(r) /\ 1 \in Nat /\ 1 + 1 = 2
    BY <2>1
  <2> QED BY <1>1, <1>3, <1>4, <1>7, <2>3, <2>4, CallGoesOn
<1> QED BY <1>3, <1>8, <1>9

LEMMA debug_fStep ==
  ASSUME ControlInv, Len(routines) = 1, pc # "int30", debug_fAt, RoutineStep
  PROVE  ControlInv'
<1>1. Running /\ routines \in Seq(Routine)
  BY StepOfTop DEF ControlInv, StackInv
<1>2. PICK n \in 1 .. 3 :
        /\ At(debug_f(Log), n)
        /\ is_debug_output <=> n \in {2, 3}
        /\ default_port # COM2
        /\ pc = "kernel" => default_port = COM1
  BY DEF debug_fAt
<1>3. PICK r : r = debug_f(Log)
  OBVIOUS
<1>4. /\ r \in Seq(Steps) /\ Len(r) = 3
      /\ r[1] = Debug(TRUE) /\ r[2] = Put(Log) /\ r[3] = Debug(FALSE)
  BY <1>3, debug_fSteps, StepTypes
<1>5. At(r, n)
  BY <1>2, <1>3
<1>6. Top[1] = r[n]
  BY <1>1, <1>4, <1>5, StepNext
<1>7. ASSUME n < 3, Continue, UNCHANGED <<pc, faults, default_port>>,
             is_debug_output' <=> n + 1 \in {2, 3}
      PROVE  ControlInv'
  <2>1. ASSUME At(r, n + 1)' PROVE debug_fAt'
    <3>1. n + 1 \in 1 .. 3
      BY <1>7
    <3>2. At(debug_f(Log), n + 1)'
      BY <1>3, <2>1
    <3> QED BY <1>2, <1>7, <3>1, <3>2 DEF debug_fAt
  <2>2. n \in Nat /\ n < Len(r)
    BY <1>4, <1>7
  <2> QED BY <1>1, <1>4, <1>5, <1>7, <2>1, <2>2, CallGoesOn
<1>8. CASE n = 1
  <2>1. SetDebug(TRUE)
    BY <1>4, <1>6, <1>8, StepOfTop
  <2> QED BY <1>7, <1>8, <2>1 DEF SetDebug, set_debug_output
<1>9. CASE n = 2
  <2>1. PutStep(Log)
    BY <1>4, <1>6, <1>9, StepOfTop
  <2> QED BY <1>2, <1>7, <1>9, <2>1 DEF PutStep, term_put_char
<1>10. CASE n = 3
  <2>1. SetDebug(FALSE)
    BY <1>4, <1>6, <1>10, StepOfTop
  <2>2. Continue /\ UNCHANGED <<pc, faults, default_port>> /\ ~is_debug_output'
    BY <2>1 DEF SetDebug, set_debug_output
  <2> QED BY <1>1, <1>2, <1>4, <1>5, <1>10, <2>2, CallReturns
<1> QED BY <1>2, <1>8, <1>9, <1>10

LEMMA debug_f2Step ==
  ASSUME ControlInv, Len(routines) = 1, pc # "int30", debug_f2At, RoutineStep
  PROVE  ControlInv'
<1>1. Running /\ routines \in Seq(Routine)
  BY StepOfTop DEF ControlInv, StackInv
<1>2. PICK n \in 1 .. 5 :
        /\ At(debug_f2(Dump), n)
        /\ is_debug_output <=> n \in {3, 4}
        /\ n \in 2 .. 4 => default_port = COM2
  BY DEF debug_f2At
<1>3. PICK r : r = debug_f2(Dump)
  OBVIOUS
<1>4. /\ r \in Seq(Steps) /\ Len(r) = 5
      /\ r[1] = Port(COM2) /\ r[2] = Debug(TRUE) /\ r[3] = Put(Dump)
      /\ r[4] = Debug(FALSE) /\ r[5] = Port(COM1)
  BY <1>3, debug_f2Steps, StepTypes
<1>5. At(r, n)
  BY <1>2, <1>3
<1>6. Top[1] = r[n]
  BY <1>1, <1>4, <1>5, StepNext
<1>7. ASSUME n < 5, Continue, UNCHANGED <<pc, faults>>,
             is_debug_output' <=> n + 1 \in {3, 4},
             n + 1 \in 2 .. 4 => default_port' = COM2
      PROVE  ControlInv'
  <2>1. ASSUME At(r, n + 1)' PROVE debug_f2At'
    <3>1. n + 1 \in 1 .. 5
      BY <1>7
    <3>2. At(debug_f2(Dump), n + 1)'
      BY <1>3, <2>1
    <3> QED BY <1>7, <3>1, <3>2 DEF debug_f2At
  <2>2. n \in Nat /\ n < Len(r)
    BY <1>4, <1>7
  <2> QED BY <1>1, <1>4, <1>5, <1>7, <2>1, <2>2, CallGoesOn
<1>8. CASE n = 1
  <2>1. SetPort(COM2)
    BY <1>4, <1>6, <1>8, StepOfTop
  <2> QED BY <1>2, <1>7, <1>8, <2>1 DEF SetPort, terminalVars
<1>9. CASE n = 2
  <2>1. SetDebug(TRUE)
    BY <1>4, <1>6, <1>9, StepOfTop
  <2> QED BY <1>2, <1>7, <1>9, <2>1 DEF SetDebug, set_debug_output
<1>10. CASE n = 3
  <2>1. PutStep(Dump)
    BY <1>4, <1>6, <1>10, StepOfTop
  <2> QED BY <1>2, <1>7, <1>10, <2>1 DEF PutStep, term_put_char
<1>11. CASE n = 4
  <2>1. SetDebug(FALSE)
    BY <1>4, <1>6, <1>11, StepOfTop
  <2> QED BY <1>7, <1>11, <2>1 DEF SetDebug, set_debug_output
<1>12. CASE n = 5
  <2>1. SetPort(COM1)
    BY <1>4, <1>6, <1>12, StepOfTop
  <2>2. /\ Continue /\ UNCHANGED <<pc, faults, is_debug_output>>
        /\ default_port' = COM1 /\ ~is_debug_output'
    BY <1>2, <1>12, <2>1 DEF SetPort, terminalVars
  <2> QED BY <1>1, <1>4, <1>5, <1>12, <2>2, CallReturns
<1> QED BY <1>2, <1>8, <1>9, <1>10, <1>11, <1>12

LEMMA RoutineStepKeepsControl ==
  ASSUME ControlInv, RoutineStep
  PROVE  ControlInv'
<1>1. Running
  BY StepOfTop
<1>2. HandlerAt \/ (Len(routines) = 1 /\ CallAt)
  BY <1>1 DEF ControlInv, StackInv
<1> QED BY <1>2, HandlerStep, PrintfStep, debug_fStep, debug_f2Step DEF CallAt

(* A fault puts its handler on the stack, whatever runs. *)
LEMMA FaultKeepsControl ==
  ASSUME ControlInv, Faults
  PROVE  ControlInv'
<1>1. /\ routines \in Seq(Routine) /\ faults \in Nat /\ Len(routines) <= faults + 1
      /\ BeforeCalls
  BY DEF ControlInv, StackInv
<1>2. /\ pc # "wild" /\ faults' = faults + 1
      /\ UNCHANGED <<pc, default_port, text>>
  BY DEF Faults, terminalVars
<1>3. PICK r \in {ExceptionHandler, PageFaultHandler} : Push(r)
  BY DEF Faults
<1>4. r \in Seq(Steps) /\ Len(r) = 4
  BY HandlerSteps
<1>5. /\ routines' \in Seq(Routine) /\ Len(routines') = Len(routines) + 1
      /\ Running' /\ At(r, 1)'
  <2>1. 1 <= Len(r)
    BY <1>4
  <2> QED BY <1>1, <1>3, <1>4, <2>1, RoutinePushed
<1>6. HandlerAt'
  BY <1>5 DEF HandlerAt
<1>7. faults' \in Nat /\ Len(routines') <= faults' + 1
  BY <1>1, <1>2, <1>5, LenProperties
<1>8. StackInv'
  BY <1>2, <1>5, <1>6, <1>7 DEF StackInv
<1> QED BY <1>1, <1>2, <1>5, <1>8 DEF ControlInv, BeforeCalls, LevelsRestored

(* A call begins. *)
LEMMA CallBegins ==
  ASSUME routines \in Seq(Routine), ~Running, faults \in Nat,
         NEW r \in Seq(Steps), 1 <= Len(r), Push(r),
         pc' \notin {"wild", "int30"}, faults' = faults,
         At(r, 1)' => (PrintfAt \/ debug_fAt \/ debug_f2At)'
  PROVE  ControlInv'
<1>1. Len(routines) = 0
  BY EmptySeq DEF Running
<1>2. routines' \in Seq(Routine) /\ Len(routines') = 1 /\ Running' /\ At(r, 1)'
  BY <1>1, RoutinePushed
<1>3. CallAt'
  BY <1>2 DEF CallAt
<1>4. StackInv'
  BY <1>2, <1>3 DEF StackInv
<1> QED BY <1>2, <1>4 DEF ControlInv, BeforeCalls, LevelsRestored

LEMMA PrintfBegins ==
  ASSUME routines \in Seq(Routine), ~Running, faults \in Nat, faults' = faults,
         NEW c \in Characters \ LogTexts, NEW r \in {printf(c), printf(c) \o debug_f2(Dump)},
         Push(r), pc' \notin {"wild", "int30"},
         ~is_debug_output', Len(text') < MaxRows,
         pc' = "kernel" => r = printf(c) /\ default_port' = COM1
  PROVE  ControlInv'
<1>1. r \in Seq(Steps) /\ 1 <= Len(r)
  <2>1. CASE r = printf(c)
    <3>1. r \in Seq(Steps) /\ Len(r) = 1
      BY <2>1, PrintfSteps
    <3> QED BY <3>1
  <2>2. CASE r = printf(c) \o debug_f2(Dump)
    <3>1. r \in Seq(Steps) /\ Len(r) = 6
      BY <2>2, SystemCallSteps
    <3>2. 1 <= 6
      OBVIOUS
    <3> QED BY <3>1, <3>2, Zenon
  <2> QED BY <2>1, <2>2
<1>2. ASSUME At(r, 1)' PROVE PrintfAt'
  BY <1>2 DEF PrintfAt
<1> QED BY <1>1, <1>2, CallBegins

LEMMA debug_fBegins ==
  ASSUME routines \in Seq(Routine), ~Running, faults \in Nat, faults' = faults,
         Push(debug_f(Log)), pc' \notin {"wild", "int30"},
         ~is_debug_output', default_port' # COM2, pc' = "kernel" => default_port' = COM1
  PROVE  ControlInv'
<1>1. debug_f(Log) \in Seq(Steps) /\ 1 <= Len(debug_f(Log))
  <2>1. debug_f(Log) \in Seq(Steps) /\ Len(debug_f(Log)) = 3
    BY debug_fSteps, StepTypes
  <2> QED BY <2>1
<1>2. ASSUME At(debug_f(Log), 1)' PROVE debug_fAt'
  BY <1>2 DEF debug_fAt
<1> QED BY <1>1, <1>2, CallBegins

LEMMA debug_f2Begins ==
  ASSUME routines \in Seq(Routine), ~Running, faults \in Nat, faults' = faults,
         Push(debug_f2(Dump)), pc' \notin {"wild", "int30"}, ~is_debug_output'
  PROVE  ControlInv'
<1>1. debug_f2(Dump) \in Seq(Steps) /\ 1 <= Len(debug_f2(Dump))
  <2>1. debug_f2(Dump) \in Seq(Steps) /\ Len(debug_f2(Dump)) = 5
    BY debug_f2Steps, StepTypes
  <2> QED BY <2>1
<1>2. ASSUME At(debug_f2(Dump), 1)' PROVE debug_f2At'
  BY <1>2 DEF debug_f2At
<1> QED BY <1>1, <1>2, CallBegins

(* The system call of int 0x30, from an empty screen. *)
LEMMA IntThirtyKeepsControl ==
  ASSUME ControlInv, IntThirty
  PROVE  ControlInv'
<1>1. /\ routines \in Seq(Routine) /\ ~Running /\ faults \in Nat /\ Len(routines) <= faults + 1
      /\ ~is_debug_output /\ Len(text) = 1 /\ default_port # COM2
  BY DEF IntThirty, ControlInv, StackInv, BeforeCalls, LevelsRestored
<1>2. /\ pc' = "initalize_serial" /\ faults' = faults /\ default_port' # COM2
      /\ ~is_debug_output' /\ Len(text') < MaxRows
  BY <1>1, KernelLogAssumption, TerminalAssumption DEF IntThirty, terminalVars
<1>3. PICK steps \in SystemCall : Call(steps)
  BY DEF IntThirty
<1>4. CASE steps = debug_f(Log) /\ steps # <<>>
  <2>1. Push(debug_f(Log))
    BY <1>3, <1>4 DEF Call
  <2> QED BY <1>1, <1>2, <2>1, debug_fBegins
<1>5. CASE steps = <<>>
  <2>1. routines' = routines
    BY <1>3, <1>5 DEF Call
  <2>2. ~Running'
    BY <1>1, <2>1 DEF Running
  <2>3. StackInv'
    BY <1>1, <1>2, <2>1, <2>2 DEF StackInv
  <2> QED BY <1>2, <2>3 DEF ControlInv, BeforeCalls, LevelsRestored
<1>6. ASSUME NEW c \in Glyphs \ LogTexts, steps = printf(c) \o debug_f2(Dump)
      PROVE  ControlInv'
  <2>1. c \in Characters \ LogTexts
    BY DEF Characters
  <2>2. steps # <<>>
    BY <1>6, <2>1, SystemCallSteps, EmptySeq
  <2>3. Push(steps)
    BY <1>3, <2>2 DEF Call
  <2>4. steps \in {printf(c), printf(c) \o debug_f2(Dump)} /\ pc' \notin {"wild", "int30"} /\ pc' # "kernel"
    BY <1>2, <1>6
  <2> QED BY <1>1, <1>2, <2>1, <2>3, <2>4, PrintfBegins
<1> QED BY <1>3, <1>4, <1>5, <1>6 DEF SystemCall

LEMMA PrintsKeepsControl ==
  ASSUME ControlInv, Prints
  PROVE  ControlInv'
<1>1. /\ routines \in Seq(Routine) /\ ~Running /\ faults \in Nat
      /\ ~is_debug_output /\ default_port = COM1
  BY DEF Prints, ControlInv, StackInv, LevelsRestored
<1>2. /\ pc' = "kernel" /\ faults' = faults /\ default_port' = COM1
      /\ ~is_debug_output' /\ Len(text') < MaxRows
  BY <1>1 DEF Prints, terminalVars
<1>3. CASE \E c \in Characters \ LogTexts : Push(printf(c))
  BY <1>1, <1>2, <1>3, PrintfBegins
<1>4. CASE Push(debug_f(Log))
  <2>1. default_port' # COM2
    BY <1>2, KernelLogAssumption
  <2> QED BY <1>1, <1>2, <1>4, <2>1, debug_fBegins
<1>5. CASE Push(debug_f2(Dump))
  BY <1>1, <1>2, <1>5, debug_f2Begins
<1> QED BY <1>3, <1>4, <1>5 DEF Prints

LEMMA StepKeepsControl ==
  ASSUME ControlInv, [LogNext]_vars
  PROVE  ControlInv'
<1>1. CASE UNCHANGED vars
  <2>1. /\ UNCHANGED <<pc, routines, default_port, ready, faults, sent>>
        /\ UNCHANGED <<term_buffer, term_current_row, term_current_column, is_debug_output, text>>
    BY <1>1 DEF vars, logVars, terminalVars
  <2> QED BY <2>1 DEF ControlInv, StackInv, BeforeCalls, LevelsRestored, HandlerAt, CallAt,
                      PrintfAt, debug_fAt, debug_f2At, At, Top, Running
<1>2. CASE initalize_serial
  <2>1. ~Running /\ UNCHANGED <<routines, faults, is_debug_output>> /\ pc' = "kernel" /\ default_port' = COM1
    BY <1>2 DEF initalize_serial, terminalVars
  <2>2. ~Running' /\ ~is_debug_output'
    BY <1>2, <2>1 DEF initalize_serial, Running, ControlInv, LevelsRestored
  <2> QED BY <2>1, <2>2 DEF ControlInv, StackInv, BeforeCalls, LevelsRestored
<1>3. CASE Erases
  <2>1. /\ ~Running /\ pc = "kernel" /\ UNCHANGED <<routines, faults, pc, default_port, is_debug_output>>
    BY <1>3 DEF Erases, logVars, term_clear_last_char
  <2>2. ~Running'
    BY <2>1 DEF Running
  <2> QED BY <2>1, <2>2 DEF ControlInv, StackInv, BeforeCalls, LevelsRestored
<1> QED BY <1>1, <1>2, <1>3, IntThirtyKeepsControl, PrintsKeepsControl, FaultKeepsControl,
           RoutineStepKeepsControl DEF LogNext
-----------------------------------------------------------------------------
(* What is on the screen, and what was sent. *)
TextClean == \A row \in DOMAIN text : \A n \in DOMAIN text[row] : text[row][n] \notin LogTexts
MeantFor(port, c) == c \in LogTexts /\ (c = Log => port # COM2) /\ (c = Dump => port = COM2)

LEMMA StepKeepsText ==
  ASSUME TerminalInv, StackInv, LevelsRestored, TextClean, [LogNext]_vars
  PROVE  TextClean'
<1>1. text \in Seq(Seq(Glyphs)) /\ text # <<>> /\ Len(text) \in Nat /\ 1 <= Len(text)
  <2>1. text \in Seq(Seq(Glyphs)) /\ text # <<>>
    BY DEF TerminalInv, TerminalTypeOK
  <2> QED BY <2>1, EmptySeq
<1>2. Row \in Seq(Glyphs) /\ \A n \in 1 .. Len(Row) : Row[n] \notin LogTexts
  <2>1. Len(text) \in 1 .. Len(text) /\ DOMAIN text = 1 .. Len(text)
    BY <1>1, LenProperties
  <2>2. Row \in Seq(Glyphs)
    BY <1>1, <2>1, ElementOfSeq DEF Row
  <2>3. DOMAIN Row = 1 .. Len(Row)
    BY <2>2, LenProperties
  <2> QED BY <2>1, <2>2, <2>3 DEF TextClean, Row
<1>3. \A i \in 1 .. Len(text) - 1 : \A n \in DOMAIN text[i] : text[i][n] \notin LogTexts
  BY <1>1, LenProperties DEF TextClean
<1>4. CASE text' = text
  BY <1>4 DEF TextClean
<1>5. ASSUME NEW c \in Characters, c \notin LogTexts, text' = TextWith(c)
      PROVE  TextClean'
  <2>1. /\ text' \in Seq(Seq(Glyphs))
        /\ \A i \in 1 .. Len(text) - 1 : text'[i] = text[i]
        /\ text'[Len(text)] = IF c = Newline THEN Row ELSE Append(Row, c)
        /\ IF c = Newline \/ Len(Row) + 1 = VGA_WIDTH
             THEN Len(text') = Len(text) + 1 /\ text'[Len(text) + 1] = <<>>
             ELSE Len(text') = Len(text)
    BY <1>1, <1>5, TextAfter
  <2>2. DOMAIN text' = 1 .. Len(text')
    BY <2>1, LenProperties
  <2>3. \A n \in DOMAIN text'[Len(text)] : text'[Len(text)][n] \notin LogTexts
    <3>1. CASE c = Newline
      <4>1. DOMAIN Row = 1 .. Len(Row)
        BY <1>2, LenProperties
      <4> QED BY <1>2, <2>1, <3>1, <4>1
    <3>2. CASE c # Newline
      <4>1. c \in Glyphs
        BY <3>2 DEF Characters
      <4>2. /\ Append(Row, c) \in Seq(Glyphs)
            /\ Len(Append(Row, c)) = Len(Row) + 1
            /\ \A n \in 1 .. Len(Row) : Append(Row, c)[n] = Row[n]
            /\ Append(Row, c)[Len(Row) + 1] = c
        BY <1>2, <4>1, AppendProperties
      <4>3. DOMAIN Append(Row, c) = 1 .. Len(Row) + 1 /\ Len(Row) \in Nat
        BY <1>2, <4>2, LenProperties
      <4> QED BY <1>2, <1>5, <2>1, <3>2, <4>2, <4>3
    <3> QED BY <3>1, <3>2
  <2>4. ASSUME NEW i \in DOMAIN text', NEW n \in DOMAIN text'[i] PROVE text'[i][n] \notin LogTexts
    <3>1. CASE i \in 1 .. Len(text) - 1
      BY <1>3, <2>1, <2>4, <3>1
    <3>2. CASE i = Len(text)
      BY <2>3, <2>4, <3>2
    <3>3. CASE i = Len(text) + 1 /\ text'[i] = <<>>
      <4>1. DOMAIN text'[i] = {}
        BY <3>3
      <4> QED BY <2>4, <4>1
    <3>4. i \in 1 .. Len(text')
      BY <2>2, <2>4
    <3> QED BY <1>1, <2>1, <3>1, <3>2, <3>3, <3>4
  <2> QED BY <2>4 DEF TextClean
<1>6. ASSUME text' = TextWithoutLast PROVE TextClean'
  <2>1. CASE Len(Row) < 2
    BY <1>4, <1>6, <2>1 DEF TextWithoutLast
  <2>2. CASE 2 <= Len(Row)
    <3>1. /\ text' \in Seq(Seq(Glyphs)) /\ Len(text') = Len(text)
          /\ \A i \in 1 .. Len(text) - 1 : text'[i] = text[i]
          /\ Len(text'[Len(text)]) = Len(Row) - 1
          /\ \A j \in 1 .. Len(Row) - 1 : text'[Len(text)][j] = Row[j]
      BY <1>1, <1>6, <2>2, ShortenedRow
    <3>2. DOMAIN text' = 1 .. Len(text)
      BY <3>1, LenProperties
    <3>3. text'[Len(text)] \in Seq(Glyphs)
      <4>1. Len(text) \in 1 .. Len(text')
        BY <1>1, <3>1
      <4> QED BY <3>1, <4>1, ElementOfSeq
    <3>4. DOMAIN text'[Len(text)] = 1 .. Len(Row) - 1
      BY <3>1, <3>3, LenProperties
    <3>5. Len(Row) \in Nat
      BY <1>2, LenProperties
    <3>6. ASSUME NEW i \in DOMAIN text', NEW n \in DOMAIN text'[i] PROVE text'[i][n] \notin LogTexts
      <4>1. CASE i \in 1 .. Len(text) - 1
        BY <1>3, <3>1, <3>6, <4>1
      <4>2. CASE i = Len(text)
        <5>1. n \in 1 .. Len(Row) - 1 /\ n \in 1 .. Len(Row)
          BY <3>4, <3>5, <3>6, <4>2
        <5>2. text'[i][n] = Row[n]
          BY <3>1, <4>2, <5>1
        <5> QED BY <1>2, <5>1, <5>2
      <4>3. i \in 1 .. Len(text)
        BY <3>2, <3>6
      <4>4. i \in 1 .. Len(text) - 1 \/ i = Len(text)
        BY <1>1, <4>3
      <4> QED BY <4>1, <4>2, <4>4
    <3> QED BY <3>6 DEF TextClean
  <2>3. Len(Row) \in Nat
    BY <1>2, LenProperties
  <2> QED BY <2>1, <2>2, <2>3
<1>7. text' = text \/ text' = TextWithoutLast \/ \E c \in Characters : c \notin LogTexts /\ text' = TextWith(c)
  <2>1. CASE UNCHANGED vars \/ IntThirty \/ initalize_serial \/ Prints \/ Faults
    BY <2>1 DEF vars, IntThirty, initalize_serial, Prints, Faults, terminalVars
  <2>2. CASE Erases
    BY <2>2 DEF Erases, term_clear_last_char
  <2>3. CASE (\E d \in BOOLEAN : SetDebug(d)) \/ (\E port \in {COM1, COM2} : SetPort(port)) \/ IretStep
    BY <2>3 DEF SetDebug, set_debug_output, SetPort, IretStep, terminalVars
  <2>4. CASE \E c \in Characters : PutStep(c)
    <3>1. PICK c \in Characters : PutStep(c)
      BY <2>4
    <3>2. Running /\ Top[1] = Put(c) /\ term_put_char(c)
      BY <3>1 DEF PutStep, Step
    <3>3. ~is_debug_output => c \notin LogTexts
      BY <3>2, NextCharacter
    <3> QED BY <3>2, <3>3 DEF term_put_char, PutOnScreen
  <2> QED BY <2>1, <2>2, <2>3, <2>4 DEF LogNext, RoutineStep
<1> QED BY <1>4, <1>5, <1>6, <1>7

(* One character at a time is sent, to the port it is meant for. *)
LEMMA StepSends ==
  ASSUME StackInv, [LogNext]_vars
  PROVE  \/ sent' = sent
         \/ \E c \in Characters : MeantFor(default_port, c) /\ sent' = sent \union {<<default_port, c>>}
<1>1. CASE UNCHANGED vars \/ IntThirty \/ initalize_serial \/ Prints \/ Faults \/ Erases
  BY <1>1 DEF vars, logVars, IntThirty, initalize_serial, Prints, Faults, Erases
<1>2. CASE (\E d \in BOOLEAN : SetDebug(d)) \/ (\E port \in {COM1, COM2} : SetPort(port)) \/ IretStep
  BY <1>2 DEF SetDebug, SetPort, IretStep
<1>3. CASE \E c \in Characters : PutStep(c)
  <2>1. PICK c \in Characters : PutStep(c)
    BY <1>3
  <2>2. Running /\ Top[1] = Put(c)
    BY <2>1 DEF PutStep, Step
  <2>3. is_debug_output => MeantFor(default_port, c)
    BY <2>2, NextCharacter DEF MeantFor
  <2> QED BY <2>1, <2>3 DEF PutStep, serial_write
<1> QED BY <1>1, <1>2, <1>3 DEF LogNext, RoutineStep

LEMMA StepKeepsMeaning ==
  ASSUME TerminalInv, StackInv, LevelsRestored, GoesWhereMeant, [LogNext]_vars
  PROVE  GoesWhereMeant'
<1>1. TextClean'
  BY StepKeepsText DEF GoesWhereMeant, TextClean
<1>2. \A c \in Characters : \A port \in Ports : <<port, c>> \in sent => MeantFor(port, c)
  BY DEF GoesWhereMeant, MeantFor, Ports
<1>3. ASSUME NEW c \in Characters, NEW port \in Ports, <<port, c>> \in sent'
      PROVE  MeantFor(port, c)
  <2>1. CASE sent' = sent
    BY <1>2, <1>3, <2>1
  <2>2. ASSUME NEW e \in Characters, MeantFor(default_port, e),
               sent' = sent \union {<<default_port, e>>}
        PROVE  MeantFor(port, c)
    <3>1. <<port, c>> \in sent \/ (port = default_port /\ c = e)
      BY <1>3, <2>2
    <3> QED BY <1>2, <2>2, <3>1
  <2> QED BY <2>1, <2>2, StepSends
<1> QED BY <1>1, <1>3 DEF GoesWhereMeant, TextClean, MeantFor, Ports

LEMMA StepKeepsTypes ==
  ASSUME LogTypeOK, StackInv, StackInv', TerminalInv', [LogNext]_vars
  PROVE  LogTypeOK'
<1>1. /\ pc \in {"int30", "initalize_serial", "kernel", "wild"}
      /\ default_port \in Ports /\ ready \subseteq Ports
      /\ faults \in 0 .. MaxFaults /\ sent \subseteq Ports \X Characters
      /\ MaxFaults \in Nat
  BY KernelLogAssumption DEF LogTypeOK, Ports
<1>2. /\ pc' \in {"int30", "initalize_serial", "kernel", "wild"}
      /\ default_port' \in Ports /\ ready' = ready /\ faults' \in 0 .. MaxFaults
  <2>1. CASE UNCHANGED vars \/ IntThirty \/ initalize_serial \/ Prints \/ Erases
    BY <1>1, <2>1 DEF vars, logVars, IntThirty, initalize_serial, Prints, Erases, Ports
  <2>2. CASE Faults
    BY <1>1, <2>2 DEF Faults
  <2>3. CASE RoutineStep
    BY <1>1, <2>3 DEF RoutineStep, SetDebug, SetPort, PutStep, IretStep, ReturnFromFault, Ports
  <2> QED BY <2>1, <2>2, <2>3 DEF LogNext
<1>3. sent' \subseteq Ports \X Characters
  BY <1>1, StepSends
<1>4. TerminalTypeOK'
  BY DEF TerminalInv
<1>5. /\ Len(routines') <= MaxFaults + 1
      /\ \A n \in DOMAIN routines' : routines'[n] # <<>>
  <2>1. routines' \in Seq(Routine) /\ Len(routines') <= faults' + 1
    BY DEF StackInv
  <2>2. Len(routines') \in Nat /\ DOMAIN routines' = 1 .. Len(routines')
    BY <2>1, LenProperties
  <2>3. \A n \in 1 .. Len(routines') : routines'[n] \in Routine
    BY <2>1, ElementOfSeq
  <2>4. Len(routines') <= MaxFaults + 1
    BY <1>1, <1>2, <2>1, <2>2
  <2> QED BY <2>2, <2>3, <2>4 DEF Routine
<1> QED BY <1>1, <1>2, <1>3, <1>4, <1>5 DEF LogTypeOK, Ports

LEMMA LogInitEstablishesInv == LogInit => LogInv
<1> SUFFICES ASSUME LogInit PROVE LogInv
  OBVIOUS
<1>1. /\ pc = "int30" /\ routines = <<>> /\ default_port = NoPort
      /\ ready \subseteq Ports /\ faults = 0 /\ sent = {}
      /\ is_debug_output = FALSE /\ text = <<<<>>>>
  BY DEF LogInit, initalize_terminal, Ports
<1>2. TerminalInv
  BY InitEstablishesInv DEF LogInit
<1>3. routines \in Seq(Routine) /\ Len(routines) = 0 /\ ~Running
  BY <1>1, EmptySeq DEF Running
<1>4. StackInv
  BY <1>1, <1>3 DEF StackInv
<1>5. BeforeCalls /\ LevelsRestored
  BY <1>1, KernelLogAssumption DEF BeforeCalls, LevelsRestored
<1>6. LogTypeOK
  <2>1. DOMAIN routines = {}
    BY <1>1
  <2> QED BY <1>1, <1>2, <1>3, <2>1, KernelLogAssumption DEF LogTypeOK, TerminalInv, Ports
<1>7. GoesWhereMeant
  <2>1. DOMAIN text = {1} /\ text[1] = <<>> /\ DOMAIN <<>> = {}
    BY <1>1
  <2> QED BY <1>1, <2>1 DEF GoesWhereMeant
<1> QED BY <1>2, <1>4, <1>5, <1>6, <1>7 DEF LogInv, ControlInv

LEMMA LogStepKeepsInv ==
  ASSUME LogInv, [LogNext]_vars
  PROVE  LogInv'
<1>1. TerminalInv /\ LogTypeOK /\ ControlInv /\ GoesWhereMeant /\ StackInv /\ LevelsRestored
  BY DEF LogInv, ControlInv
<1>2. ControlInv'
  BY <1>1, StepKeepsControl
<1>3. [TerminalNext]_terminalVars
  BY <1>1, StepOfTerminal
<1>4. TerminalInv'
  BY <1>1, <1>3, StepPreservesInv
<1>5. LogTypeOK'
  BY <1>1, <1>2, <1>4, StepKeepsTypes DEF ControlInv
<1>6. GoesWhereMeant'
  BY <1>1, StepKeepsMeaning
<1> QED BY <1>2, <1>4, <1>5, <1>6 DEF LogInv
-----------------------------------------------------------------------------
(* The routine on top of the stack is what is left of one of the code's    *)
(* routines, and flag and port are what that one has set so far: those of  *)
(* printf, debug_f and debug_f2 while one of them is alone on the stack,   *)
(* the flag of a handler while one is on top, whatever it interrupted. Of  *)
(* routines below the top only the form is known; a handler does change    *)
(* their flag, and none of them runs again.                                *)
THEOREM LogInvariant == LogSpec => []LogInv
<1>1. LogInv /\ [LogNext]_vars => LogInv'
  BY LogStepKeepsInv
<1> QED BY LogInitEstablishesInv, <1>1, PTL DEF LogSpec

(* Type correctness, and that no more is ever on the stack than one        *)
(* routine and the handlers of the faults that came.                       *)
THEOREM LogTypeCorrect == LogSpec => []LogTypeOK
<1>1. LogInv => LogTypeOK
  BY DEF LogInv
<1> QED BY <1>1, LogInvariant, PTL

(* What is logged never shows on the screen, what is printed never goes to *)
(* a serial port, and the two logs stay apart, whatever faults come in     *)
(* debug_f and debug_f2 (libc/stdio.c, include/base.h, c/serial.c).        *)
THEOREM LogsStayApart == LogSpec => []GoesWhereMeant
<1>1. LogInv => GoesWhereMeant
  BY DEF LogInv
<1> QED BY <1>1, LogInvariant, PTL

(* When a call has returned the flag is off and the default port is the    *)
(* first one again.                                                        *)
THEOREM LevelsComeBack == LogSpec => []LevelsRestored
<1>1. LogInv => LevelsRestored
  BY DEF LogInv, ControlInv
<1> QED BY <1>1, LogInvariant, PTL

(* Refinement: the kernel, its log and its handlers do to the terminal     *)
(* only what the terminal's specification allows.                          *)
THEOREM LogImplementsTerminal == LogSpec => PrintsOnTerminal
<1>1. LogInit => initalize_terminal
  BY DEF LogInit
<1>2. LogInv /\ [LogNext]_vars => [TerminalNext]_terminalVars
  BY StepOfTerminal DEF LogInv, ControlInv
<1> QED BY <1>1, <1>2, LogInvariant, PTL DEF LogSpec, PrintsOnTerminal, TerminalSpec

(* Hence under the kernel, too, the screen shows the end of the text       *)
(* printed, and no old character remains from the cursor on.               *)
THEOREM LogKeepsScreen == LogSpec => [](ScreenShowsText /\ BlankAfterCursor)
<1>1. LogSpec => TerminalSpec
  BY LogImplementsTerminal DEF PrintsOnTerminal
<1> QED BY <1>1, ScreenIsWindow, NothingAfterCursor, PTL
=============================================================================
