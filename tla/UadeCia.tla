------------------------------ MODULE UadeCia ------------------------------
(***************************************************************************)
(* The two CIA chips of cia.c: on each two timers that count a clock, or   *)
(* B the underflows of A, a register of interrupt flags with its mask, and *)
(* a time-of-day counter with an alarm.  The counts are brought up to date *)
(* only when the event CIA_calctimers() has planned comes, or when the     *)
(* program writes a timer register.                                        *)
(*                                                                         *)
(* Time is relative: since is cycles - eventtab[ev_cia].oldcycles, and     *)
(* due.left is eventtab[ev_cia].evtime - cycles.                           *)
(***************************************************************************)
EXTENDS Integers

CONSTANTS
  Chips,       (* {"A", "B"}: CIA A and B                                  *)
  Div,         (* DIV10: cycles in a clock of the chips                    *)
  Byte,        (* values of a byte, 256                                    *)
  IntMod       (* values of an int, 2^32                                   *)

(* The time a timer needs by itself fits an int; the estimate for a timer   *)
(* that counts underflows does not.                                         *)
ASSUME CiaAssumption ==
  /\ Div \in Nat \ {0} /\ Byte \in Nat \ {0} /\ IntMod \in Nat \ {0}
  /\ \A n \in 0..Byte * Byte - 1 : Div + Div * n < IntMod - (IntMod \div 2)
  /\ \A n \in 0..Byte * Byte - 1 : Div + Div * n < IntMod \div 2

VARIABLES
  cia,         (* the registers of each chip                               *)
  div10,       (* static int div10, lastdiv10: rests of the last two       *)
  lastdiv10,   (*   divisions by Div                                       *)
  since,       (* cycles since the last CIA_calctimers()                   *)
  due,         (* eventtab[ev_cia]                                         *)
  lag          (* history: cycles passed that no clock has accounted for   *)

ciaVars == <<cia, div10, lastdiv10, since, due, lag>>

Bytes == 0..Byte - 1
Counts == 0..Byte * Byte - 1
Flags == {"ta", "tb", "alarm", "flag"}
Modes == {"clock", "underflow", "cnt"}   (* INMODE; CNT is never pulsed     *)
Timer == [on : BOOLEAN, oneshot : BOOLEAN, mode : Modes, count : Counts, latch : Counts]

-----------------------------------------------------------------------------
(* Interrupt flags: RethinkICRA() and RethinkICRB().                        *)
Rethought(icr, mask) == IF icr \cap mask # {} THEN icr \cup {"ir"} ELSE icr \ {"ir"}

(* Some flags go up, and the interrupt is asked for if any is enabled.      *)
Flagged(chip, flags) ==
  IF flags = {} THEN chip ELSE [chip EXCEPT !.icr = Rethought(@ \cup flags, chip.mask)]
Asks(chip, flags) == flags # {} /\ (chip.icr \cup flags) \cap chip.mask # {}

-----------------------------------------------------------------------------
(* CIA_update() for k clocks.                                               *)
Clocked(t) == t.on /\ t.mode = "clock"
Chained(t) == t.on /\ t.mode = "underflow"

RunsOut(t, k) == Clocked(t) /\ t.count + 1 = k
FedOut(chip, k) == RunsOut(chip.A, k) /\ Chained(chip.B) /\ chip.B.count = 0

Reloaded(t) == [t EXCEPT !.count = t.latch, !.on = ~t.oneshot]

TimerA(chip, k) == CASE RunsOut(chip.A, k) -> Reloaded(chip.A)
                     [] Clocked(chip.A) /\ ~RunsOut(chip.A, k) -> [chip.A EXCEPT !.count = @ - k]
                     [] OTHER -> chip.A

TimerB(chip, k) == CASE RunsOut(chip.B, k) \/ FedOut(chip, k) -> Reloaded(chip.B)
                     [] Clocked(chip.B) /\ ~RunsOut(chip.B, k) -> [chip.B EXCEPT !.count = @ - k]
                     [] RunsOut(chip.A, k) /\ Chained(chip.B) /\ ~FedOut(chip, k) ->
                          [chip.B EXCEPT !.count = @ - 1]
                     [] OTHER -> chip.B

Underflows(chip, k) == (IF RunsOut(chip.A, k) THEN {"ta"} ELSE {}) \cup
                       (IF RunsOut(chip.B, k) \/ FedOut(chip, k) THEN {"tb"} ELSE {})

Updated(chip, k) ==
  [Flagged(chip, Underflows(chip, k)) EXCEPT !.A = TimerA(chip, k), !.B = TimerB(chip, k)]

(* The clocks in n cycles, with the rest the division before last has left. *)
Clocks(n) == (n + lastdiv10) \div Div

(* assert((ciaata+1) >= ciaclocks)                                          *)
AssertsHold(n) ==
  \A c \in Chips : \A t \in {cia[c].A, cia[c].B} : Clocked(t) => t.count + 1 >= Clocks(n)

(* Mutant: the rest is lost.                                                *)
DividesAnew(n) ==
  /\ lastdiv10' = div10 /\ div10' = 0
  /\ since' = 0 /\ lag' = lag + (n - since) - Div * Clocks(n)

Divides(n) ==
  /\ lastdiv10' = div10 /\ div10' = (n + lastdiv10) % Div
  /\ since' = 0 /\ lag' = lag + (n - since) - Div * Clocks(n)

-----------------------------------------------------------------------------
(* CIA_calctimers(): the times to the next underflows, as ints.             *)
ClockTime(t, rest) == (Div - rest) + Div * t.count
ChainTime(chip, rest) == ClockTime(chip.A, rest) + chip.A.latch * Div * chip.B.count

Truncated(n) == LET r == n % IntMod IN IF r < IntMod \div 2 THEN r ELSE r - IntMod

Estimated(chip) == /\ Clocked(chip.A) /\ Chained(chip.B)
                   /\ chip.B.count = 0 \/ ~chip.A.oneshot

(* A negative estimate counts as a very late one, or as none.               *)
Times(chip, rest) ==
  {ClockTime(t, rest) : t \in {u \in {chip.A, chip.B} : Clocked(u)}} \cup
  {n \in {Truncated(ChainTime(chip, rest))} : Estimated(chip) /\ n >= 0}

First(times) == {[active |-> TRUE, left |-> n] : n \in {m \in times : \A o \in times : m <= o}}
NoEvent == [active |-> FALSE, left |-> 0]

(* Mutant: only timers A are planned for.                                   *)
PlansA(chips, rest) ==
  LET times == UNION {Times(chips[c], rest) : c \in {d \in Chips : Clocked(chips[d].A)}} IN
  IF times = {} THEN {NoEvent} ELSE First(times)

(* The event is planned for the first of them.                              *)
Plans(chips, rest) ==
  LET times == UNION {Times(chips[c], rest) : c \in Chips} IN
  IF times = {} THEN {NoEvent} ELSE First(times)

-----------------------------------------------------------------------------
(* What a write to a register makes of a timer: the low and the high byte   *)
(* of the latch, and the control register.                                  *)
LowWritten(t, v) == [t EXCEPT !.latch = (@ \div Byte) * Byte + v]

HighWritten(t, v) ==
  LET n == (t.latch % Byte) + v * Byte IN
  [t EXCEPT !.latch = n, !.count = IF ~t.on \/ t.oneshot THEN n ELSE @, !.on = @ \/ t.oneshot]

ControlWritten(t, on, oneshot, mode, load) ==
  [t EXCEPT !.on = on, !.oneshot = oneshot, !.mode = mode, !.count = IF load THEN t.latch ELSE @]

(* WriteCIAA() and WriteCIAB() 4..7, 14 and 15: the counts are updated, the *)
(* register is written and the event planned anew.  Control register B also *)
(* says whether the time of day or the alarm is written.                    *)
UpdatedNow == [c \in Chips |-> Updated(cia[c], Clocks(since))]
Timers == {"A", "B"}
TimerOf(chip, x) == IF x = "A" THEN chip.A ELSE chip.B
WithTimer(chip, x, t) == IF x = "A" THEN [chip EXCEPT !.A = t] ELSE [chip EXCEPT !.B = t]

CiaWriteLatch(c, x) ==
  /\ \E v \in Bytes, write \in {"low", "high"} :
       LET t == TimerOf(UpdatedNow[c], x) IN
       cia' = [UpdatedNow EXCEPT ![c] =
                 WithTimer(@, x, IF write = "low" THEN LowWritten(t, v) ELSE HighWritten(t, v))]
  /\ Divides(since) /\ due' \in Plans(cia', div10')

CiaWriteControl(c, x, on, oneshot, mode, load, toalarm) ==
  /\ mode = "underflow" => x = "B"
  /\ LET chip == UpdatedNow[c]
         t == ControlWritten(TimerOf(chip, x), on, oneshot, mode, load)
     IN  cia' = [UpdatedNow EXCEPT ![c] =
                   [WithTimer(chip, x, t) EXCEPT
                      !.toalarm = IF x = "B" THEN toalarm ELSE chip.toalarm]]
  /\ Divides(since) /\ due' \in Plans(cia', div10')

(* The chips whose interrupt a write may cause, by the update before it.    *)
AskedByWrite == {c \in Chips : Asks(cia[c], Underflows(cia[c], Clocks(since)))}

(* Reading the flags clears them; the mask can be written without a look at *)
(* the flags, and so can the port B of CIA A.                               *)
CiaReadFlags(c) == cia' = [cia EXCEPT ![c].icr = {}]
CiaWriteMask(c, set, bits) ==
  cia' = [cia EXCEPT ![c].mask = IF set THEN @ \cup bits ELSE @ \ bits]
CiaWritePort == "A" \in Chips /\ cia' = [cia EXCEPT !["A"].icr = @ \cup {"flag"}]

-----------------------------------------------------------------------------
(* The time of day: three bytes, counting lines on CIA B, frames on CIA A.  *)
Weight == <<1, Byte, Byte * Byte>>
Days == 0..Byte * Byte * Byte - 1
ByteOf(n, k) == (n \div Weight[k]) % Byte
WithByte(n, k, v) == n + (v - ByteOf(n, k)) * Weight[k]

(* Mutant: the counter is read while it runs.                               *)
TodByteLive(chip, k) == ByteOf(chip.tod, k)

(* The byte a read gets: of the counter as it was when byte 3 was read,     *)
(* until byte 1 is.                                                         *)
TodByte(chip, k) == ByteOf(IF chip.latched THEN chip.tol ELSE chip.tod, k)

CiaReadTod(c, k) ==
  cia' = CASE k = 3 -> [cia EXCEPT ![c] = [cia[c] EXCEPT !.latched = TRUE, !.tol = cia[c].tod]]
           [] k = 1 -> [cia EXCEPT ![c].latched = FALSE]
           [] OTHER -> cia

(* Control register B may direct the write to the alarm.  Byte 1 sets the   *)
(* counter going, the others stop it.                                       *)
CiaWriteTod(c, k, v) ==
  cia' = IF cia[c].toalarm THEN [cia EXCEPT ![c].alarm = WithByte(@, k, v)]
         ELSE [cia EXCEPT ![c] = [cia[c] EXCEPT !.tod = WithByte(cia[c].tod, k, v),
                                                !.todon = (k = 1)]]

(* CIA_hsync_handler(), CIA_vsync_handler()                                 *)
TodNext(chip) == IF chip.todon THEN (chip.tod + 1) % (Byte * Byte * Byte) ELSE chip.tod
Rings(chip) == IF TodNext(chip) = chip.alarm THEN {"alarm"} ELSE {}
TodCounted(chip) == [Flagged(chip, Rings(chip)) EXCEPT !.tod = TodNext(chip)]

-----------------------------------------------------------------------------
(* CIA_reset(); the alarm is not touched.                                   *)
ResetTimer == [on |-> FALSE, oneshot |-> FALSE, mode |-> "clock",
               count |-> Byte * Byte - 1, latch |-> Byte * Byte - 1]
ResetChip(alarm) == [A |-> ResetTimer, B |-> ResetTimer, icr |-> {}, mask |-> {},
                     tod |-> 0, todon |-> FALSE, latched |-> FALSE, tol |-> 0,
                     alarm |-> alarm, toalarm |-> FALSE]
=============================================================================
