----------------------------- MODULE UadeChips -----------------------------
(***************************************************************************)
(* The emulated machine around the CPU: the cycles and events of events.h  *)
(* and custom.c drive the CIA chips (UadeCia) and an audio channel         *)
(* (UadePaula), whose interrupts go to the CPU (UadeCpu).  A program on    *)
(* the CPU accesses the registers of one part at a time, in any way.       *)
(***************************************************************************)
EXTENDS Sequences, UadeCia, UadePaula, UadeCpu

CONSTANTS
  Rows,        (* maxvpos: lines in a frame                                *)
  Programs,    (* bound: the parts a program uses                          *)
  MaxAccesses, (* bound: how often it does, for each of them               *)
  ClockChips   (* bound: the chips whose time of day it uses               *)

ASSUME ChipsAssumption ==
  /\ Rows \in Nat \ {0}
  /\ Programs \subseteq {"timers", "clock", "audio", "interrupts"}
  /\ MaxAccesses \in [Programs -> Nat] /\ ClockChips \subseteq Chips

VARIABLES
  line,        (* eventtab[ev_hsync].evtime - cycles                       *)
  row,         (* vpos                                                     *)
  next,        (* nextevent - cycles                                       *)
  program,     (* what the program uses                                    *)
  accesses,    (* how often it has used it                                 *)
  seen         (* history: what the program reads of the time of day       *)

Nothing == [chip |-> "none", at |-> 0, read |-> << >>]

vars == <<ciaVars, paulaVars, cpuVars, line, row, next, program, accesses, seen>>

Source(c) == IF c = "A" THEN "ports" ELSE "exter"

(* What the chips ask for is a source; the mask has three bits.             *)
ASSUME InterruptAssumption ==
  /\ {Source(c) : c \in Chips} \cup {"aud", "vertb"} \subseteq Sources
  /\ Masks \subseteq 0..7

(* Mutant: only the line is waited for.                                     *)
EventOnLines(lines, event) == lines

(* events_schedule(): the next of the two events.                           *)
EventNext(lines, event) ==
  IF event.active /\ event.left < lines THEN event.left ELSE lines

(* An event at the present cycle would only come when the count of cycles   *)
(* wraps; what happens after that is not followed.                          *)
Stalled == next = 0

-----------------------------------------------------------------------------
(* A cycle without an event: do_cycles_slow().  While no event is planned   *)
(* for the CIA, only the fraction of a clock that has passed matters.       *)
Elapsed == IF due.active \/ since + 1 < Div THEN since + 1 ELSE 0

Passes ==
  /\ next > 1
  /\ since' = Elapsed /\ lag' = lag + (Elapsed - since)
  /\ due' = IF due.active THEN [due EXCEPT !.left = @ - 1] ELSE due
  /\ late' = late + 1 /\ line' = line - 1 /\ next' = next - 1
  /\ UNCHANGED <<cia, div10, lastdiv10, aud, attach, heard, row, intreq, spcflags>>

(* hsync_handler(), and vsync_handler() after the last line.                *)
LineEnds == line = 1
FrameEnds == LineEnds /\ row + 1 = Rows
Ticks(c) == IF c = "A" THEN FrameEnds ELSE LineEnds

(* CIA_handler(), when its time has come.                                   *)
CiaDue == due.active /\ due.left = 1

(* The flags an event raises on a chip: its alarm's, then its timers'.      *)
EventFlags(c) == (IF Ticks(c) THEN Rings(cia[c]) ELSE {}) \cup
                 (IF CiaDue THEN Underflows(cia[c], Clocks(since + 1)) ELSE {})

CiaEvents ==
  LET counted(c) == IF Ticks(c) THEN TodCounted(cia[c]) ELSE cia[c] IN
  IF CiaDue
  THEN /\ cia' = [c \in Chips |-> Updated(counted(c), Clocks(since + 1))]
       /\ Divides(since + 1) /\ due' \in Plans(cia', div10')
  ELSE /\ cia' = [c \in Chips |-> counted(c)]
       /\ since' = Elapsed /\ lag' = lag + (Elapsed - since)
       /\ due' = IF due.active THEN [due EXCEPT !.left = @ - 1] ELSE due
       /\ UNCHANGED <<div10, lastdiv10>>

(* The audio state machine catches up before the words are fetched; r is    *)
(* what it has come to.                                                     *)
AudioEvents(r) ==
  IF LineEnds
  THEN /\ aud' = Fetched(r.aud) /\ heard' = HeardFetch(r.aud, r.heard) /\ late' = 0
  ELSE late' = late + 1 /\ UNCHANGED <<aud, heard>>

Raised(r) == {Source(c) : c \in {d \in Chips : Asks(cia[d], EventFlags(d))}}
             \cup (IF LineEnds /\ r.asks THEN {"aud"} ELSE {})
             \cup (IF FrameEnds THEN {"vertb"} ELSE {})

Events ==
  /\ next = 1
  /\ CiaEvents
  /\ \E r \in {UpdatedAudio(late + 1, "aud" \in intreq)} : AudioEvents(r) /\ Raises(Raised(r))
  /\ line' = IF LineEnds THEN Line ELSE line - 1
  /\ row' = IF LineEnds THEN (row + 1) % Rows ELSE row
  /\ next' = EventNext(line', due')
  /\ UNCHANGED attach

do_cycles ==
  /\ ~Stalled /\ pc \in {"cycles", "ran"} /\ pc' = "ran"
  /\ Passes \/ Events
  /\ UNCHANGED <<intena, master, intmask, program, accesses, seen>>

-----------------------------------------------------------------------------
(* An instruction accesses one register, and its cycles follow.             *)
Instruction(part) ==
  /\ ~Stalled /\ pc = "fetch" /\ pc' = "cycles"
  /\ program = part /\ accesses < MaxAccesses[part] /\ accesses' = accesses + 1
  /\ UNCHANGED <<program, row, line>>

TimerAccess ==
  /\ Instruction("timers")
  /\ \E c \in Chips, x \in Timers :
       \/ CiaWriteLatch(c, x)
       \/ \E on, oneshot, load \in BOOLEAN, mode \in Modes :
            CiaWriteControl(c, x, on, oneshot, mode, load, FALSE)
  /\ Raises({Source(c) : c \in AskedByWrite})
  /\ next' = EventNext(line, due')
  /\ UNCHANGED <<paulaVars, intena, master, intmask, seen>>

FlagAccess ==
  /\ Instruction("timers")
  /\ \E c \in Chips : \/ CiaReadFlags(c)
                      \/ \E set \in BOOLEAN : CiaWriteMask(c, set, {"ta", "tb"})
                      \/ CiaWritePort
  /\ UNCHANGED <<div10, lastdiv10, since, due, lag, paulaVars, intreq, intena, master, intmask,
                 spcflags, next, seen>>

(* The bytes of a time of day the program has read, from byte 3 downwards.  *)
Reads(c, k) ==
  seen' = CASE k = 3 -> [chip |-> c, at |-> cia[c].tod, read |-> <<TodByte(cia'[c], 3)>>]
            [] k # 3 /\ c = seen.chip /\ Len(seen.read) = 3 - k ->
                 [seen EXCEPT !.read = Append(@, TodByte(cia[c], k))]
            [] OTHER -> Nothing

ClockAccess ==
  /\ Instruction("clock")
  /\ \/ /\ \E c \in ClockChips, k \in 1..3 :
             \/ CiaReadTod(c, k) /\ Reads(c, k)
             \/ (\E v \in Bytes : CiaWriteTod(c, k, v)) /\ UNCHANGED seen
             \/ CiaWriteMask(c, TRUE, {"alarm"}) /\ UNCHANGED seen
        /\ UNCHANGED <<div10, lastdiv10, since, due, lag, intreq, spcflags>>
     \/ /\ \E c \in ClockChips, toalarm \in BOOLEAN :
             CiaWriteControl(c, "B", FALSE, FALSE, "clock", FALSE, toalarm)
        /\ Raises({Source(c) : c \in AskedByWrite})
        /\ UNCHANGED seen
  /\ next' = EventNext(line, due')
  /\ UNCHANGED <<paulaVars, intena, master, intmask>>

AudioUpdated == UpdatedAudio(late, "aud" \in intreq)
AudioAccess ==
  LET r == AudioUpdated
      irq == "aud" \in intreq \/ r.asks
      asks == IF r.asks THEN {"aud"} ELSE {}
  IN
  /\ Instruction("audio")
  /\ late' = 0
  /\ \/ aud' \in PaulaWrites(r.aud) /\ heard' = r.heard /\ UNCHANGED attach /\ Raises(asks)
     \/ /\ aud' = AUDxDAT(r.aud, irq) /\ heard' = r.heard /\ UNCHANGED attach
        /\ Raises(IF AUDxDATStarts(r.aud, irq) THEN {"aud"} ELSE asks)
     \/ \E on \in BOOLEAN : /\ aud' = DMACON(r.aud, on, line)
                            /\ heard' = HeardDMACON(r.aud, on, r.heard)
                            /\ UNCHANGED attach /\ Raises(asks)
     \/ /\ attach' \in SUBSET {"volume", "period"}      (* ADKCON()         *)
        /\ aud' = r.aud /\ heard' = Unheard(r.heard) /\ Raises(asks)
  /\ next' = EventNext(line, due)
  /\ UNCHANGED <<ciaVars, intena, master, intmask, seen>>

(* The program acknowledges the channel's interrupt.                        *)
Acknowledge ==
  /\ Instruction("audio") /\ INTREQ(FALSE, {"aud"})
  /\ UNCHANGED <<ciaVars, paulaVars, next, seen>>

InterruptAccess ==
  /\ Instruction("interrupts")
  /\ \/ \E on \in BOOLEAN, s \in Sources, all \in BOOLEAN : INTENA(on, {s}, all)
     \/ \E on \in BOOLEAN, s \in Sources : INTREQ(on, {s})
     \/ \E level \in Masks, stop \in BOOLEAN : MakeFromSR(level, stop)
  /\ UNCHANGED <<ciaVars, paulaVars, next, seen>>

(* Any other instruction.                                                   *)
OtherInstruction ==
  /\ ~Stalled /\ pc = "fetch" /\ pc' = "cycles"
  /\ UNCHANGED <<ciaVars, paulaVars, intreq, intena, master, intmask, spcflags, line, row, next,
                 program, accesses, seen>>

Specials == /\ Specialties \/ Stopped
            /\ ~Stalled
            /\ UNCHANGED <<ciaVars, paulaVars, line, row, next, program, accesses, seen>>

-----------------------------------------------------------------------------
Init ==
  /\ cia = [c \in Chips |-> ResetChip(0)]
  /\ div10 = 0 /\ lastdiv10 = 0 /\ since = 0 /\ lag = 0 /\ due = NoEvent
  /\ aud = ResetAudio /\ attach = {} /\ late = 0 /\ heard = Silent
  /\ intreq = {} /\ intena = {} /\ master = FALSE /\ intmask = 7 /\ spcflags = {} /\ pc = "fetch"
  /\ line = Line /\ row = 0 /\ next = Line
  /\ program \in Programs /\ accesses = 0 /\ seen = Nothing

(* uadecore_reboot makes m68k_run_1() return, and m68k_go() goes round:     *)
(* m68k_reset() and customreset().  INTREQ, ADKCON and the alarms stay as   *)
(* they are.                                                                *)
Reboot ==
  /\ ~Stalled /\ (pc = "fetch" \/ "STOP" \in spcflags)
  /\ cia' = [c \in Chips |-> ResetChip(cia[c].alarm)]
  /\ div10' = 0 /\ lastdiv10' = 0 /\ since' = 0 /\ lag' = 0 /\ due' = NoEvent
  /\ aud' = ResetAudio /\ late' = 0 /\ heard' = Silent
  /\ intena' = {} /\ master' = FALSE /\ intmask' = 7 /\ spcflags' = {} /\ pc' = "fetch"
  /\ line' = Line /\ row' = 0 /\ next' = Line
  /\ seen' = Nothing
  /\ UNCHANGED <<intreq, attach, program, accesses>>

Access == \/ TimerAccess \/ FlagAccess \/ ClockAccess \/ AudioAccess \/ Acknowledge
          \/ InterruptAccess

Next == do_cycles \/ Access \/ OtherInstruction \/ Specials \/ Reboot

Spec == Init /\ [][Next]_vars

(* The emulation goes on: while it could fetch an instruction it fetches     *)
(* one, if only one that accesses nothing; it takes some cycles, and ends.  *)
FairSpec == Spec /\ WF_vars(do_cycles) /\ WF_vars(OtherInstruction) /\ WF_vars(Specials)

-----------------------------------------------------------------------------
TypeOK ==
  /\ \A c \in Chips : /\ cia[c].A \in Timer /\ cia[c].B \in Timer
                      /\ cia[c].icr \subseteq Flags \cup {"ir"} /\ cia[c].mask \subseteq Flags
                      /\ {cia[c].tod, cia[c].tol, cia[c].alarm} \subseteq Days
  /\ {div10, lastdiv10} \subseteq 0..Div - 1 /\ since \in Nat /\ lag \in Nat
  /\ due \in [active : BOOLEAN, left : Nat]
  /\ aud.state \in {0, 1, 2, 3, 5} /\ aud.evtime \in Nat /\ aud.wlen \in 0..WordMod - 1
  /\ late \in 0..Line /\ line \in 1..Line /\ row \in 0..Rows - 1 /\ next \in 0..Line
  /\ intreq \subseteq Sources /\ intena \subseteq Sources /\ intmask \in 0..7
  /\ spcflags \subseteq {"INT", "DOINT", "STOP"} /\ pc \in {"fetch", "cycles", "ran"}

(* Over any stretch of time the clocks that the timers of both chips are    *)
(* given fall behind the cycles passed by less than two clocks and never    *)
(* run ahead, however often the program updates them in between, and though *)
(* CIA_update() adds the rest of the division before the last.              *)
ClockTrue == lag - since \in 0..2 * (Div - 1)

(* The assertions of CIA_update() hold whenever it might be called, by a    *)
(* write or by its event: none comes so late that a timer has run out       *)
(* before.                                                                  *)
CountsSuffice == AssertsHold(since) /\ (CiaDue => AssertsHold(since + 1))

(* The next event is never later than any event planned, so that none is    *)
(* passed over; only an estimate that wraps to nothing as an int stalls the *)
(* machine.                                                                 *)
EventsInTime ==
  /\ next <= line /\ (due.active => next <= due.left)
  /\ Stalled => \E c \in Chips : /\ ChainTime(cia[c], div10) >= IntMod
                                 /\ Truncated(ChainTime(cia[c], div10)) = 0

(* A program that reads the three bytes of the time of day downwards, with  *)
(* lines and frames ending in between, reads one time the counter had.      *)
TodReadWhole ==
  \A k \in 1..Len(seen.read) : seen.read[k] = ByteOf(seen.at, 4 - k)

(* Once the program accesses nothing more ...                               *)
Done == accesses = MaxAccesses[program]

(* ... a timer that runs raises its flag, unless a reboot stops it ...      *)
Flag(x) == IF x = "A" THEN "ta" ELSE "tb"
UnderflowComes ==
  \A c \in Chips : \A x \in Timers :
    Done /\ Clocked(cia[c][x]) ~>
      Flag(x) \in cia[c].icr \/ cia[c] = ResetChip(cia[c].alarm) \/ Stalled

(* ... a channel whose DMA is off falls silent, its interrupt unanswered    *)
(* (but not when the words go to the next channel's period alone, where the *)
(* state machine asks for no interrupt) ...                                 *)
StopsWhenOff == Done /\ ~aud.dmaen /\ Plain ~> aud.state = 0

(* ... and an interrupt that can be delivered is, also to a stopped CPU.    *)
InterruptsTaken == Done /\ Deliverable ~> ~Deliverable
=============================================================================
