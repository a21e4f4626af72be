----------------------------- MODULE KernelLog ------------------------------
(***************************************************************************)
(* What the kernel prints and where it goes (printf and debug_f of         *)
(* libc/stdio.c, debug_f2 of include/base.h, c/serial.c), with what may    *)
(* come between two characters: an exception or a page fault, whose        *)
(* handlers print with debug_f too (c/interrupts.c,                        *)
(* asm/interruptsasm.asm).                                                 *)
(*                                                                         *)
(* debug_f prints through the terminal with a flag that sends characters   *)
(* to the default serial port; debug_f2 changes that port around debug_f.  *)
(* Neither nests.  A routine that prints is the sequence of the steps it   *)
(* has left, on a stack; a message is one character.                       *)
(***************************************************************************)
EXTENDS Terminal, SequencesExt

CONSTANTS
  COM1, COM2,
  NoPort,    \* default_port before initalize_serial: 0
  Log,       \* the text of debug_f
  Dump,      \* the text of debug_f2
  Fault,     \* the text of the handlers of exceptions and page faults
  MaxFaults  \* bound: exceptions and page faults

LogTexts == {Log, Dump, Fault}

ASSUME KernelLogAssumption ==
  /\ LogTexts \subseteq Glyphs
  /\ Log \notin {Dump, Fault} /\ Dump # Fault
  /\ NoPort \notin {COM1, COM2} /\ COM1 # COM2
  /\ MaxFaults \in Nat
  /\ 2 <= MaxRows  \* int 0x30 may print in the first row

VARIABLES
  pc,            \* what the kernel's thread does when the stack is empty
  routines,      \* the stack: the steps each routine has left
  default_port,
  ready,         \* external: ports that get to take a character
  faults,        \* history: exceptions and page faults
  sent           \* history: what was sent to which port

logVars == <<pc, routines, default_port, ready, faults, sent>>
vars == <<terminalVars, logVars>>

(* A serial port takes a character sooner or later.  Nothing is known of   *)
(* what is at the line status of port 0, which is not a serial port: it    *)
(* may look ready always, or never.                                        *)
LogInit ==
  /\ initalize_terminal
  /\ pc = "int30"
  /\ routines = <<>>
  /\ default_port = NoPort
  /\ ready \in {{COM1, COM2}, {COM1, COM2, NoPort}}
  /\ faults = 0
  /\ sent = {}
-----------------------------------------------------------------------------
(* The steps of the routines. *)
Put(c) == <<"term_put_char", c>>
Debug(d) == <<"set_debug_output", d>>
Port(port) == <<"serial_set_default_port", port>>
Spin == <<"while">>
Iret == <<"iret">>

printf(c) == <<Put(c)>>
debug_f_StaysOn(c) == <<Debug(TRUE), Put(c)>>
debug_f(c) == <<Debug(TRUE), Put(c), Debug(FALSE)>>

debug_f2_StaysOnTwo(c) == <<Port(COM2)>> \o debug_f(c)

debug_f2(c) == <<Port(COM2)>> \o debug_f(c) \o <<Port(COM1)>>

ExceptionHandler_Prints == <<Put(Fault), Spin>>

(* interrupt_default_handler for an exception *)
ExceptionHandler == debug_f(Fault) \o <<Spin>>

(* interrupt_14 and interrupt_handler_14 *)
PageFaultHandler == debug_f(Fault) \o <<Iret>>

(* interrupt_default_handler for int 0x30: eax is 0x8844, 0x8845, or else. *)
SystemCall ==
  {debug_f(Log), <<>>} \union {printf(c) \o debug_f2(Dump) : c \in Glyphs \ LogTexts}

Running == routines # <<>>
Top == routines[Len(routines)]
Push(steps) == routines' = Append(routines, steps)
Continue == routines' = IF Len(Top) = 1 THEN Front(routines)
                        ELSE [routines EXCEPT ![Len(routines)] = Tail(@)]
-----------------------------------------------------------------------------
Call(steps) == IF steps = <<>> THEN UNCHANGED routines ELSE Push(steps)

(* initalize_interrupts ends with int 0x30, whatever eax holds. *)
IntThirty ==
  /\ pc = "int30" /\ ~Running
  /\ \E steps \in SystemCall : Call(steps)
  /\ pc' = "initalize_serial"
  /\ UNCHANGED <<terminalVars, default_port, ready, faults, sent>>

initalize_serial ==
  /\ pc = "initalize_serial" /\ ~Running
  /\ default_port' = COM1
  /\ pc' = "kernel"
  /\ UNCHANGED <<terminalVars, routines, ready, faults, sent>>

(* The rest of the kernel prints, logs, *)
Prints ==
  /\ pc = "kernel" /\ ~Running /\ Len(text) < MaxRows
  /\ \/ \E c \in Characters \ LogTexts : Push(printf(c))
     \/ Push(debug_f(Log))
     \/ Push(debug_f2(Dump))
  /\ UNCHANGED <<terminalVars, pc, default_port, ready, faults, sent>>

(* and, reading a line, erases. *)
Erases ==
  /\ pc = "kernel" /\ ~Running
  /\ term_clear_last_char
  /\ UNCHANGED logVars
-----------------------------------------------------------------------------
(* A step of the routine that runs. *)
Step(step) == Running /\ Top[1] = step

SetDebug(d) ==
  /\ Step(Debug(d))
  /\ set_debug_output(d)
  /\ Continue
  /\ UNCHANGED <<pc, default_port, ready, faults, sent>>

SetPort(port) ==
  /\ Step(Port(port))
  /\ default_port' = port
  /\ Continue
  /\ UNCHANGED <<terminalVars, pc, ready, faults, sent>>

(* serial_write waits until the port is ready. *)
serial_write(c) ==
  /\ default_port \in ready
  /\ sent' = sent \union {<<default_port, c>>}

PutStep(c) ==
  /\ Step(Put(c))
  /\ term_put_char(c)
  /\ IF is_debug_output THEN serial_write(c) ELSE UNCHANGED sent
  /\ Continue
  /\ UNCHANGED <<pc, default_port, ready, faults>>

(* Any instruction may fault; a handler's too. *)
Faults ==
  /\ pc # "wild" /\ ~Step(Spin)
  /\ faults < MaxFaults
  /\ faults' = faults + 1
  /\ \E handler \in {ExceptionHandler, PageFaultHandler} : Push(handler)
  /\ UNCHANGED <<terminalVars, pc, default_port, ready, sent>>

ReturnFromFault_ToWhereItWas ==
  /\ routines' = Front(routines)
  /\ UNCHANGED <<pc, faults>>

(* The page-fault stub leaves the error code on the stack, so that iret    *)
(* takes it for the address and the address for the code segment: either   *)
(* there is no such segment, which is an exception, or the kernel goes on  *)
(* in low memory, and nothing more is known.                               *)
ReturnFromFault ==
  \/ /\ routines' = [routines EXCEPT ![Len(routines)] = ExceptionHandler]
     /\ UNCHANGED <<pc, faults>>
  \/ /\ routines' = <<>>
     /\ pc' = "wild"
     /\ UNCHANGED faults

IretStep ==
  /\ Step(Iret)
  /\ ReturnFromFault
  /\ UNCHANGED <<terminalVars, default_port, ready, sent>>

RoutineStep ==
  \/ \E d \in BOOLEAN : SetDebug(d)
  \/ \E port \in {COM1, COM2} : SetPort(port)
  \/ \E c \in Characters : PutStep(c)
  \/ IretStep

LogNext ==
  \/ IntThirty \/ initalize_serial \/ Prints \/ Erases
  \/ RoutineStep \/ Faults

(* The processor runs what it is at. *)
LogSpec == LogInit /\ [][LogNext]_vars /\ WF_vars(RoutineStep)
-----------------------------------------------------------------------------
LogTypeOK ==
  /\ TerminalTypeOK
  /\ pc \in {"int30", "initalize_serial", "kernel", "wild"}
  /\ Len(routines) <= MaxFaults + 1 /\ \A n \in DOMAIN routines : routines[n] # <<>>
  /\ default_port \in {NoPort, COM1, COM2}
  /\ ready \subseteq {NoPort, COM1, COM2}
  /\ faults \in 0 .. MaxFaults
  /\ sent \subseteq {NoPort, COM1, COM2} \X Characters

(* What is logged never shows on the screen and what is printed never goes *)
(* to a serial port, and the two logs stay apart, although a fault may     *)
(* come anywhere in debug_f and debug_f2 and its handler turns the flag    *)
(* off: because no handler of a fault returns to what it interrupted.      *)
GoesWhereMeant ==
  /\ \A row \in DOMAIN text : \A n \in DOMAIN text[row] : text[row][n] \notin LogTexts
  /\ \A c \in Characters : \A port \in {NoPort, COM1, COM2} :
       <<port, c>> \in sent => c \in LogTexts /\ (c = Log => port # COM2) /\ (c = Dump => port = COM2)

(* Between two calls the flag is off, and from initalize_serial on the     *)
(* first port is the default one.                                          *)
LevelsRestored ==
  ~Running /\ pc # "wild" =>
    /\ ~is_debug_output
    /\ pc = "kernel" => default_port = COM1

(* A fault is reported on a serial port, whatever was being printed and    *)
(* although more faults may come on top, unless it comes before            *)
(* initalize_serial, when the wait for port 0 may never end.               *)
FaultIsReported ==
  faults > 0 /\ default_port # NoPort
    ~> \E port \in {COM1, COM2} : <<port, Fault>> \in sent

(* Printing is all the kernel does to the terminal. *)
PrintsOnTerminal == TerminalSpec
=============================================================================
