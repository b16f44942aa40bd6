------------------------------ MODULE UadeCpu ------------------------------
(***************************************************************************)
(* Interrupts between the custom chips and the 68000 of newcpu.c: requests *)
(* and enables in INTREQ and INTENA, the mask in the status register, and  *)
(* regs.spcflags, the flags the loop of m68k_run_1() looks at between two  *)
(* instructions.  Only when a flag is up are the requests looked at.       *)
(***************************************************************************)
EXTENDS Integers

CONSTANTS
  Sources,     (* interrupt sources that are used                          *)
  Masks        (* values the program gives regs.intmask                    *)

VARIABLES
  intreq, intena,   (* sets of sources                                     *)
  master,           (* bit 0x4000 of intena                                *)
  intmask,          (* regs.intmask                                        *)
  spcflags,         (* subset of {"INT", "DOINT", "STOP"}                  *)
  pc                (* "fetch"; "cycles" and "ran" before and after an      *)
                    (*   instruction's first cycle                          *)

cpuVars == <<intreq, intena, master, intmask, spcflags, pc>>

(* intlev()                                                                 *)
Level(source) == CASE source = "exter" -> 6 [] source = "aud" -> 4 [] source = "vertb" -> 3
                   [] source = "ports" -> 2 [] source = "soft" -> 1
Asking == {Level(source) : source \in intreq \cap intena}
Pending(level) == master /\ level \in Asking /\ \A other \in Asking : other <= level

Deliverable == \E level \in 1..6 : Pending(level) /\ level > intmask

-----------------------------------------------------------------------------
(* INTREQ() from a chip.                                                    *)
Raises(sources) ==
  /\ intreq' = intreq \cup sources
  /\ spcflags' = IF sources = {} THEN spcflags ELSE spcflags \cup {"INT"}

(* Mutant: enabling does not make the CPU look.                             *)
INTENAQuiet(on, sources, all) ==
  /\ intena' = IF on THEN intena \cup sources ELSE intena \ sources
  /\ master' = IF all THEN on ELSE master
  /\ UNCHANGED <<spcflags, intreq, intmask>>

INTENA(on, sources, all) ==
  /\ intena' = IF on THEN intena \cup sources ELSE intena \ sources
  /\ master' = IF all THEN on ELSE master
  /\ spcflags' = spcflags \cup {"INT"}
  /\ UNCHANGED <<intreq, intmask>>

(* INTREQ() from the program, which may also ask for interrupts.            *)
INTREQ(on, sources) ==
  /\ intreq' = IF on THEN intreq \cup sources ELSE intreq \ sources
  /\ spcflags' = spcflags \cup {"INT"}
  /\ UNCHANGED <<intena, master, intmask>>

(* MakeFromSR(): by MOVE to SR, RTE, and STOP, which then waits.            *)
MakeFromSR(level, stop) ==
  /\ intmask' = level
  /\ spcflags' = spcflags \cup {"INT"} \cup (IF stop THEN {"STOP"} ELSE {})
  /\ UNCHANGED <<intreq, intena, master>>

-----------------------------------------------------------------------------
(* Mutant: the CPU waits for one more instruction each time.                *)
DelayedOn(flags) == flags

(* INT becomes DOINT, so that an interrupt waits for one more instruction.  *)
Delayed(flags) == IF "INT" \in flags THEN (flags \ {"INT"}) \cup {"DOINT"} ELSE flags

(* do_specialties() for a CPU that is not stopped; Interrupt() masks the    *)
(* interrupt's own level.                                                   *)
Specialties ==
  /\ pc = "ran" /\ "STOP" \notin spcflags
  /\ IF "DOINT" \in spcflags /\ Deliverable
     THEN /\ \E level \in 1..6 : Pending(level) /\ intmask' = level
          /\ spcflags' = {"DOINT"}
     ELSE intmask' = intmask /\ spcflags' = Delayed(spcflags \ {"DOINT"})
  /\ pc' = "fetch"
  /\ UNCHANGED <<intreq, intena, master>>

(* Its loop while the CPU is stopped: a flag makes it look.                 *)
Stopped ==
  /\ pc = "ran" /\ "STOP" \in spcflags /\ spcflags # {"STOP"}
  /\ IF Deliverable
     THEN /\ \E level \in 1..6 : Pending(level) /\ intmask' = level
          /\ spcflags' = {"DOINT"} /\ pc' = "fetch"
     ELSE spcflags' = {"STOP"} /\ pc' = "cycles" /\ UNCHANGED intmask
  /\ UNCHANGED <<intreq, intena, master>>

-----------------------------------------------------------------------------
(* An interrupt that can be delivered is never overlooked: the CPU will     *)
(* look, whatever chip or instruction made it deliverable.                  *)
NoInterruptLost == Deliverable => spcflags \cap {"INT", "DOINT"} # {}
=============================================================================
