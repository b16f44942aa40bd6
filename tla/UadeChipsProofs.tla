-------------------------- MODULE UadeChipsProofs --------------------------
(***************************************************************************)
(* Proofs about UadeChips, for any clock, line and frame and any program:  *)
(* the timers' clocks keep up with the cycles, the assertions of           *)
(* CIA_update() hold, no event is passed over and no interrupt overlooked, *)
(* registers keep values of their width and a time of day is read whole.   *)
(***************************************************************************)
EXTENDS UadeChips, TLAPS

(* What division with a rest gives.                                         *)
LEMMA DivMod ==
  ASSUME NEW n \in Nat, NEW d \in Nat \ {0}
  PROVE  /\ n \div d \in Nat /\ n % d \in 0..d - 1
         /\ n = d * (n \div d) + (n % d)
  OBVIOUS

LEMMA Product == ASSUME NEW m \in Nat, NEW n \in Nat PROVE m * n \in Nat
  OBVIOUS

LEMMA Monotone ==
  ASSUME NEW d \in Nat, NEW m \in Nat, NEW n \in Nat, m <= n
  PROVE  d * m <= d * n
  OBVIOUS

(* A quotient is no larger than q if the dividend is below q + 1 times.     *)
LEMMA DivBelow ==
  ASSUME NEW n \in Nat, NEW d \in Nat \ {0}, NEW q \in Nat, n < d * (q + 1)
  PROVE  n \div d <= q
  <1>1. n \div d \in Nat /\ d * (n \div d) <= n  BY DivMod
  <1>2. SUFFICES ASSUME q + 1 <= n \div d PROVE FALSE  BY <1>1
  <1>3. d * (q + 1) <= d * (n \div d)  BY <1>1, <1>2, Monotone
  <1> QED  BY <1>1, <1>3, Product

-----------------------------------------------------------------------------
(* Values of the timers and chips, as far as the proofs need them.          *)
TimerN == [on : BOOLEAN, oneshot : BOOLEAN, mode : Modes, count : Nat, latch : Nat]
ChipN == [A : TimerN, B : TimerN, icr : SUBSET (Flags \cup {"ir"}), mask : SUBSET Flags,
          tod : Int, todon : BOOLEAN, latched : BOOLEAN, tol : Int, alarm : Int,
          toalarm : BOOLEAN]

(* A chip's timers have at least k - 1 counts left.                         *)
Sufficient(chip, k) ==
  /\ Clocked(chip.A) => chip.A.count + 1 >= k
  /\ Clocked(chip.B) => chip.B.count + 1 >= k

LEMMA ReloadedType == ASSUME NEW t \in TimerN PROVE Reloaded(t) \in TimerN
  BY DEF TimerN, Reloaded

(* Flags do not change the timers.                                          *)
LEMMA FlaggedType ==
  ASSUME NEW chip \in ChipN, NEW flags \in SUBSET Flags
  PROVE  /\ Flagged(chip, flags) \in ChipN
         /\ Flagged(chip, flags).A = chip.A /\ Flagged(chip, flags).B = chip.B
  BY DEF ChipN, Flagged, Rethought

LEMMA TimerAType ==
  ASSUME NEW chip \in ChipN, NEW k \in Nat, Sufficient(chip, k)
  PROVE  TimerA(chip, k) \in TimerN
  <1>1. chip.A \in TimerN  BY DEF ChipN
  <1>2. CASE RunsOut(chip.A, k)
    BY <1>1, <1>2, ReloadedType DEF TimerA
  <1>3. CASE Clocked(chip.A) /\ ~RunsOut(chip.A, k)
    <2>1. chip.A.count - k \in Nat
      BY <1>1, <1>3 DEF TimerN, Sufficient, RunsOut
    <2> QED  BY <1>1, <1>3, <2>1 DEF TimerA, TimerN, RunsOut
  <1>4. CASE ~Clocked(chip.A)
    BY <1>1, <1>4 DEF TimerA, RunsOut
  <1> QED  BY <1>2, <1>3, <1>4

LEMMA TimerBType ==
  ASSUME NEW chip \in ChipN, NEW k \in Nat, Sufficient(chip, k)
  PROVE  TimerB(chip, k) \in TimerN
  <1>1. chip.B \in TimerN  BY DEF ChipN
  <1>2. CASE RunsOut(chip.B, k) \/ FedOut(chip, k)
    <2>1. TimerB(chip, k) = Reloaded(chip.B)
      BY <1>2 DEF TimerB, RunsOut, FedOut, Clocked, Chained
    <2> QED  BY <1>1, <2>1, ReloadedType
  <1>3. CASE Clocked(chip.B) /\ ~RunsOut(chip.B, k) /\ ~FedOut(chip, k)
    <2>1. chip.B.count - k \in Nat
      BY <1>1, <1>3 DEF TimerN, Sufficient, RunsOut
    <2>2. ~Chained(chip.B)
      BY <1>3 DEF Clocked, Chained
    <2>3. TimerB(chip, k) = [chip.B EXCEPT !.count = @ - k]
      BY <1>3, <2>2 DEF TimerB
    <2> QED  BY <1>1, <2>1, <2>3 DEF TimerN
  <1>4. CASE ~Clocked(chip.B) /\ RunsOut(chip.A, k) /\ Chained(chip.B) /\ ~FedOut(chip, k)
    <2>1. chip.B.count - 1 \in Nat
      BY <1>1, <1>4 DEF TimerN, FedOut
    <2>2. TimerB(chip, k) = [chip.B EXCEPT !.count = @ - 1]
      BY <1>4 DEF TimerB, RunsOut
    <2> QED  BY <1>1, <2>1, <2>2 DEF TimerN
  <1>5. CASE ~(RunsOut(chip.B, k) \/ FedOut(chip, k)) /\ ~Clocked(chip.B)
             /\ ~(RunsOut(chip.A, k) /\ Chained(chip.B))
    BY <1>1, <1>5 DEF TimerB
  <1> QED  BY <1>2, <1>3, <1>4, <1>5 DEF RunsOut

(* CIA_update() keeps counts from running below zero.                       *)
LEMMA UpdatedType ==
  ASSUME NEW chip \in ChipN, NEW k \in Nat, Sufficient(chip, k)
  PROVE  Updated(chip, k) \in ChipN
  <1>1. Flagged(chip, Underflows(chip, k)) \in ChipN
    BY FlaggedType DEF Underflows, Flags
  <1> QED  BY <1>1, TimerAType, TimerBType DEF Updated, ChipN

LEMMA CountedType ==
  ASSUME NEW chip \in ChipN
  PROVE  /\ TodCounted(chip) \in ChipN
         /\ TodCounted(chip).A = chip.A /\ TodCounted(chip).B = chip.B
  <1>1. Rings(chip) \in SUBSET Flags  BY DEF Rings, Flags
  <1>2. Byte * Byte * Byte \in Nat \ {0}  BY CiaAssumption
  <1>3. TodNext(chip) \in Int  BY <1>2 DEF TodNext, ChipN
  <1> QED  BY <1>1, <1>3, FlaggedType DEF TodCounted, ChipN

LEMMA WithTimerType ==
  ASSUME NEW chip \in ChipN, NEW t \in TimerN, NEW x
  PROVE  /\ WithTimer(chip, x, t) \in ChipN /\ TimerOf(chip, x) \in TimerN
  BY DEF WithTimer, TimerOf, ChipN

-----------------------------------------------------------------------------
(* Planning the next event of the chips.                                    *)
LEMMA ClockTimeType ==
  ASSUME NEW t \in TimerN, NEW rest \in 0..Div - 1
  PROVE  ClockTime(t, rest) \in Nat \ {0}
  <1>1. Div * t.count \in Nat  BY CiaAssumption, Product DEF TimerN
  <1> QED  BY <1>1, CiaAssumption DEF ClockTime

LEMMA ChainTimeType ==
  ASSUME NEW chip \in ChipN, NEW rest \in 0..Div - 1
  PROVE  ChainTime(chip, rest) \in Nat \ {0}
  <1>1. chip.A \in TimerN /\ chip.A.latch \in Nat /\ chip.B.count \in Nat /\ Div \in Nat
    BY CiaAssumption DEF ChipN, TimerN
  <1>2. chip.A.latch * Div \in Nat  BY <1>1, Product
  <1>3. chip.A.latch * Div * chip.B.count \in Nat  BY <1>1, <1>2, Product
  <1> QED  BY <1>1, <1>3, ClockTimeType DEF ChainTime

(* The estimate is nothing, as an int.                                      *)
Wraps(chip, rest) ==
  ChainTime(chip, rest) >= IntMod /\ Truncated(ChainTime(chip, rest)) = 0

LEMMA TruncatedZero ==
  ASSUME NEW n \in Nat \ {0}
  PROVE  /\ Truncated(n) \in Int
         /\ Truncated(n) = 0 => n >= IntMod
  <1>1. IntMod \in Nat \ {0}  BY CiaAssumption
  <1>2. n % IntMod \in 0..IntMod - 1  BY <1>1, DivMod
  <1>3. Truncated(n) \in Int  BY <1>1, <1>2 DEF Truncated
  <1>4. ASSUME Truncated(n) = 0 PROVE n % IntMod = 0
    BY <1>1, <1>2, <1>4 DEF Truncated
  <1>5. ASSUME n % IntMod = 0 PROVE n >= IntMod
    <2>1. n = IntMod * (n \div IntMod) /\ n \div IntMod \in Nat
      BY <1>1, <1>5, DivMod
    <2>2. n \div IntMod # 0  BY <1>1, <2>1
    <2>3. IntMod * 1 <= IntMod * (n \div IntMod)
      BY <1>1, <2>1, <2>2, Monotone
    <2> QED  BY <1>1, <2>1, <2>3
  <1> QED  BY <1>3, <1>4, <1>5

LEMMA TimesType ==
  ASSUME NEW chip \in ChipN, NEW rest \in 0..Div - 1
  PROVE  /\ Times(chip, rest) \subseteq Nat
         /\ 0 \in Times(chip, rest) => Wraps(chip, rest)
  <1>1. chip.A \in TimerN /\ chip.B \in TimerN  BY DEF ChipN
  <1>2. \A n \in Times(chip, rest) :
          \/ n \in Nat \ {0}
          \/ n = Truncated(ChainTime(chip, rest)) /\ n >= 0
    BY <1>1, ClockTimeType DEF Times
  <1>3. Truncated(ChainTime(chip, rest)) \in Int
    BY ChainTimeType, TruncatedZero
  <1> QED  BY <1>2, <1>3, ChainTimeType, TruncatedZero DEF Wraps

LEMMA Planned ==
  ASSUME NEW chips \in [Chips -> ChipN], NEW rest \in 0..Div - 1, NEW d \in Plans(chips, rest)
  PROVE  /\ d \in [active : BOOLEAN, left : Nat]
         /\ \A c \in Chips : \A t \in {chips[c].A, chips[c].B} :
              Clocked(t) => d.active /\ d.left <= ClockTime(t, rest)
         /\ d.active /\ d.left = 0 => \E c \in Chips : Wraps(chips[c], rest)
  <1> DEFINE times == UNION {Times(chips[c], rest) : c \in Chips}
  <1>1. times \subseteq Nat  BY TimesType
  <1>2. \A c \in Chips : \A t \in {chips[c].A, chips[c].B} : Clocked(t) => ClockTime(t, rest) \in times
    BY DEF Times
  <1>3. 0 \in times => \E c \in Chips : Wraps(chips[c], rest)  BY TimesType
  <1>4. CASE times = {}
    <2>1. d = NoEvent  BY <1>4 DEF Plans
    <2> QED  BY <1>2, <1>4, <2>1 DEF NoEvent
  <1>5. CASE times # {}
    <2>1. d \in First(times)  BY <1>5 DEF Plans
    <2>2. PICK n \in times : (\A m \in times : n <= m) /\ d = [active |-> TRUE, left |-> n]
      BY <2>1 DEF First
    <2> QED  BY <1>1, <1>2, <1>3, <2>2
  <1> QED  BY <1>4, <1>5

-----------------------------------------------------------------------------
(* The inductive invariant.                                                 *)
Typed ==
  /\ cia \in [Chips -> ChipN]
  /\ div10 \in 0..Div - 1 /\ lastdiv10 \in 0..Div - 1
  /\ since \in Nat /\ lag \in Int /\ due \in [active : BOOLEAN, left : Nat]
  /\ line \in Nat \ {0} /\ next \in Nat

(* Exactly the two rests are still to be given to the timers.               *)
RestsKept == lag - since = div10 + lastdiv10

(* The event is planned no later than any timer underflows, as seen from    *)
(* the last time the counts were brought up to date.                        *)
PlannedInTime ==
  \A c \in Chips : \A t \in {cia[c].A, cia[c].B} :
    Clocked(t) => due.active /\ since + due.left <= ClockTime(t, div10)

NextInTime ==
  /\ next <= line /\ (due.active => next <= due.left)
  /\ Stalled => \E c \in Chips : Wraps(cia[c], div10)

IInv == Typed /\ RestsKept /\ PlannedInTime /\ NextInTime

-----------------------------------------------------------------------------
(* What a call of CIA_update(), n cycles after CIA_calctimers(), does.      *)
LEMMA AssertionsKept ==
  ASSUME Typed, PlannedInTime, NEW n \in Nat, n <= since + due.left
  PROVE  /\ Clocks(n) \in Nat
         /\ \A c \in Chips : Sufficient(cia[c], Clocks(n))
  <1>1. Div \in Nat \ {0} /\ n + lastdiv10 \in Nat  BY CiaAssumption DEF Typed
  <1>2. Clocks(n) \in Nat  BY <1>1, DivMod DEF Clocks
  <1>3. ASSUME NEW c \in Chips, NEW t \in {cia[c].A, cia[c].B}, Clocked(t)
        PROVE  t.count + 1 >= Clocks(n)
    <2>1. t \in TimerN  BY DEF Typed, ChipN
    <2>2. t.count \in Nat /\ Div * t.count \in Nat
      BY <1>1, <2>1, Product DEF TimerN
    <2>3. n <= (Div - div10) + Div * t.count
      BY <1>1, <1>3, <2>2 DEF PlannedInTime, ClockTime, Typed
    <2>4. n + lastdiv10 < Div * t.count + 2 * Div
      BY <1>1, <2>2, <2>3 DEF Typed
    <2>5. Div * t.count + 2 * Div = Div * ((t.count + 1) + 1)
      BY <1>1, <2>2
    <2> QED  BY <1>1, <2>2, <2>4, <2>5, DivBelow DEF Clocks
  <1> QED  BY <1>2, <1>3 DEF Sufficient

LEMMA UpdateKept ==
  ASSUME Typed, PlannedInTime, NEW n \in Nat, n <= since + due.left
  PROVE  [c \in Chips |-> Updated(cia[c], Clocks(n))] \in [Chips -> ChipN]
  BY AssertionsKept, UpdatedType DEF Typed

(* The division passes the rests on.                                        *)
LEMMA DivisionKept ==
  ASSUME Typed, RestsKept, NEW n \in Nat, Divides(n)
  PROVE  /\ div10' \in 0..Div - 1 /\ lastdiv10' \in 0..Div - 1
         /\ since' = 0 /\ lag' \in Int /\ RestsKept'
  <1>1. Div \in Nat \ {0} /\ n + lastdiv10 \in Nat  BY CiaAssumption DEF Typed
  <1> DEFINE q == (n + lastdiv10) \div Div
             r == (n + lastdiv10) % Div
  <1>2. q \in Nat /\ r \in 0..Div - 1 /\ n + lastdiv10 = Div * q + r
    BY <1>1, DivMod
  <1>3. Div * q \in Nat  BY <1>1, <1>2, Product
  <1>4. lastdiv10' = div10 /\ div10' = r /\ since' = 0 /\ lag' = lag + (n - since) - Div * q
    BY DEF Divides, Clocks
  <1> HIDE DEF q, r
  <1> QED  BY <1>1, <1>2, <1>3, <1>4 DEF Typed, RestsKept

(* A step that brings the counts up to date, writes some registers and      *)
(* plans anew.                                                              *)
LEMMA PlanKept ==
  ASSUME Typed, RestsKept, NEW n \in Nat, Divides(n), cia' \in [Chips -> ChipN],
         due' \in Plans(cia', div10'), line' \in Nat \ {0}, next' = EventNext(line', due')
  PROVE  IInv'
  <1>1. /\ div10' \in 0..Div - 1 /\ lastdiv10' \in 0..Div - 1
        /\ since' = 0 /\ lag' \in Int /\ RestsKept'
    BY DivisionKept
  <1>2. /\ due' \in [active : BOOLEAN, left : Nat]
        /\ \A c \in Chips : \A t \in {cia'[c].A, cia'[c].B} :
             Clocked(t) => due'.active /\ due'.left <= ClockTime(t, div10')
        /\ due'.active /\ due'.left = 0 => \E c \in Chips : Wraps(cia'[c], div10')
    BY <1>1, Planned
  <1>3. /\ next' \in Nat /\ next' <= line' /\ (due'.active => next' <= due'.left)
        /\ next' = 0 => due'.active /\ due'.left = 0
    BY <1>2 DEF EventNext
  <1>4. PlannedInTime'  BY <1>1, <1>2 DEF PlannedInTime
  <1>5. NextInTime'  BY <1>2, <1>3 DEF NextInTime, Stalled
  <1>6. Typed'  BY <1>1, <1>2, <1>3 DEF Typed
  <1> QED  BY <1>1, <1>4, <1>5, <1>6 DEF IInv

(* A step that changes no timer and no plan.                                *)
SameTimers ==
  /\ cia' \in [Chips -> ChipN]
  /\ \A c \in Chips : cia'[c].A = cia[c].A /\ cia'[c].B = cia[c].B

LEMMA OneChip ==
  ASSUME Typed, NEW c \in Chips, NEW chip \in ChipN, chip.A = cia[c].A, chip.B = cia[c].B,
         cia' = [cia EXCEPT ![c] = chip]
  PROVE  SameTimers
  BY DEF Typed, SameTimers

LEMMA SameTimersKept ==
  ASSUME IInv, SameTimers, UNCHANGED <<div10, lastdiv10, since, lag, due, line>>,
         ~Stalled, next' \in Nat \ {0}, next' <= line, due.active => next' <= due.left
  PROVE  IInv'
  BY DEF IInv, Typed, RestsKept, PlannedInTime, NextInTime, SameTimers, Stalled

-----------------------------------------------------------------------------
(* The steps.                                                               *)
LEMMA InitInv == Init => IInv
  <1> SUFFICES ASSUME Init PROVE IInv  OBVIOUS
  <1>1. 0 \in 0..Div - 1 /\ Line \in Nat \ {0} /\ Byte * Byte - 1 \in Nat
    BY CiaAssumption, PaulaAssumption, Monotone
  <1>2. ResetChip(0) \in ChipN /\ ~ResetChip(0).A.on /\ ~ResetChip(0).B.on
    BY <1>1 DEF ResetChip, ResetTimer, ChipN, TimerN, Modes
  <1> QED  BY <1>1, <1>2 DEF Init, IInv, Typed, RestsKept, PlannedInTime, NextInTime, Clocked,
                             NoEvent, Stalled

LEMMA RebootInv == ASSUME IInv, Reboot PROVE IInv'
  <1>1. 0 \in 0..Div - 1 /\ Line \in Nat \ {0} /\ Byte * Byte - 1 \in Nat
    BY CiaAssumption, PaulaAssumption, Monotone
  <1>2. ASSUME NEW n \in Int
        PROVE  ResetChip(n) \in ChipN /\ ~ResetChip(n).A.on /\ ~ResetChip(n).B.on
    BY <1>1 DEF ResetChip, ResetTimer, ChipN, TimerN, Modes
  <1>3. \A c \in Chips : cia[c].alarm \in Int  BY DEF IInv, Typed, ChipN
  <1>4. cia' \in [Chips -> ChipN] /\ \A c \in Chips : ~cia'[c].A.on /\ ~cia'[c].B.on
    BY <1>2, <1>3 DEF Reboot
  <1>5. PlannedInTime'  BY <1>4 DEF PlannedInTime, Clocked
  <1> QED  BY <1>1, <1>4, <1>5 DEF Reboot, IInv, Typed, RestsKept, NextInTime, NoEvent, Stalled

LEMMA PassesInv == ASSUME IInv, Passes PROVE IInv'
  <1>1. /\ Elapsed \in Nat /\ (due.active => Elapsed = since + 1)
        /\ next \in Nat /\ next > 1 /\ line \in Nat /\ since \in Nat /\ lag \in Int
        /\ next <= line /\ (due.active => next <= due.left)
        /\ due \in [active : BOOLEAN, left : Nat]
    BY DEF Passes, Elapsed, IInv, Typed, NextInTime
  <1>2. due' \in [active : BOOLEAN, left : Nat] /\ due'.active = due.active
        /\ (due.active => due'.left = due.left - 1)
    BY <1>1 DEF Passes
  <1>3. Typed'  BY <1>1, <1>2 DEF Passes, IInv, Typed
  <1>4. RestsKept'  BY <1>1 DEF Passes, IInv, Typed, RestsKept
  <1>5. PlannedInTime'
    <2>1. cia' = cia /\ div10' = div10 /\ since' = Elapsed  BY DEF Passes
    <2>2. due.active => since' + due'.left = since + due.left  BY <1>1, <1>2, <2>1
    <2> QED  BY <1>2, <2>1, <2>2 DEF IInv, PlannedInTime
  <1>6. NextInTime'  BY <1>1, <1>2 DEF Passes, NextInTime, Stalled
  <1> QED  BY <1>3, <1>4, <1>5, <1>6 DEF IInv

LEMMA EventsInv == ASSUME IInv, Events PROVE IInv'
  <1> DEFINE counted(c) == IF Ticks(c) THEN TodCounted(cia[c]) ELSE cia[c]
  <1>1. \A c \in Chips : /\ counted(c) \in ChipN
                         /\ counted(c).A = cia[c].A /\ counted(c).B = cia[c].B
    BY CountedType DEF IInv, Typed
  <1>2. line' \in Nat \ {0} /\ next' = EventNext(line', due')
    BY PaulaAssumption DEF Events, LineEnds, IInv, Typed
  <1>3. CASE CiaDue
    <2>1. since + 1 \in Nat /\ since + 1 <= since + due.left
      BY <1>3 DEF CiaDue, IInv, Typed
    <2>2. cia' = [c \in Chips |-> Updated(counted(c), Clocks(since + 1))] /\ Divides(since + 1)
          /\ due' \in Plans(cia', div10')
      BY <1>3 DEF Events, CiaEvents
    <2>3. \A c \in Chips : Sufficient(counted(c), Clocks(since + 1))
      BY <1>1, <2>1, AssertionsKept DEF Sufficient, IInv
    <2>4. cia' \in [Chips -> ChipN]
      <3> HIDE DEF counted
      <3> QED  BY <1>1, <2>1, <2>2, <2>3, AssertionsKept, UpdatedType DEF IInv
    <2> QED  BY <1>2, <2>1, <2>2, <2>4, PlanKept DEF IInv
  <1>4. CASE ~CiaDue
    <2>1. /\ cia' = [c \in Chips |-> counted(c)]
          /\ since' = Elapsed /\ lag' = lag + (Elapsed - since)
          /\ due' = (IF due.active THEN [due EXCEPT !.left = @ - 1] ELSE due)
          /\ div10' = div10 /\ lastdiv10' = lastdiv10
      BY <1>4 DEF Events, CiaEvents
    <2>2. /\ Elapsed \in Nat /\ (due.active => Elapsed = since + 1 /\ due.left >= 2)
          /\ due \in [active : BOOLEAN, left : Nat]
      BY <1>4 DEF Events, CiaDue, Elapsed, IInv, Typed, NextInTime
    <2>3. /\ due' \in [active : BOOLEAN, left : Nat] /\ due'.active = due.active
          /\ (due.active => due'.left = due.left - 1)
      BY <2>1, <2>2
    <2>4. /\ next' \in Nat \ {0} /\ next' <= line' /\ (due'.active => next' <= due'.left)
      BY <1>2, <2>2, <2>3 DEF EventNext
    <2>5. cia' \in [Chips -> ChipN]
          /\ \A c \in Chips : cia'[c].A = cia[c].A /\ cia'[c].B = cia[c].B
      <3> HIDE DEF counted
      <3> QED  BY <1>1, <2>1
    <2>6. Typed'  BY <1>2, <2>1, <2>2, <2>3, <2>4, <2>5 DEF IInv, Typed
    <2>7. RestsKept'  BY <2>1, <2>2 DEF IInv, Typed, RestsKept
    <2>8. PlannedInTime'
      <3>1. due.active => since' + due'.left = since + due.left
        BY <2>1, <2>2, <2>3 DEF IInv, Typed
      <3> QED  BY <2>1, <2>3, <2>5, <3>1 DEF IInv, PlannedInTime
    <2>9. NextInTime'  BY <2>4 DEF NextInTime, Stalled
    <2> QED  BY <2>6, <2>7, <2>8, <2>9 DEF IInv
  <1> QED  BY <1>3, <1>4

(* A write to a timer's registers.                                          *)
LEMMA LatchWritten ==
  ASSUME IInv, NEW c \in Chips, NEW x \in Timers, CiaWriteLatch(c, x)
  PROVE  cia' \in [Chips -> ChipN]
  <1>1. UpdatedNow \in [Chips -> ChipN]
    BY UpdateKept DEF UpdatedNow, IInv, Typed
  <1> DEFINE t == TimerOf(UpdatedNow[c], x)
  <1>2. t \in TimerN  BY <1>1, ReloadedType, WithTimerType DEF TimerOf, ChipN
  <1>3. ASSUME NEW v \in Bytes
        PROVE  LowWritten(t, v) \in TimerN /\ HighWritten(t, v) \in TimerN
    <2> HIDE DEF t
    <2>1. Byte \in Nat \ {0} /\ v \in Nat /\ t.latch \in Nat
      BY <1>2, CiaAssumption DEF Bytes, TimerN
    <2>2. \A n \in Nat : n \div Byte \in Nat /\ n % Byte \in Nat
      <3>1. ASSUME NEW n \in Nat PROVE n \div Byte \in Nat /\ n % Byte \in 0..Byte - 1
        BY <2>1, DivMod
      <3> QED  BY <2>1, <3>1
    <2>3. (t.latch \div Byte) * Byte \in Nat /\ v * Byte \in Nat  BY <2>1, <2>2, Product
    <2>4. (t.latch \div Byte) * Byte + v \in Nat /\ (t.latch % Byte) + v * Byte \in Nat
      BY <2>1, <2>2, <2>3
    <2> QED  BY <1>2, <2>4 DEF LowWritten, HighWritten, TimerN
  <1>4. PICK v \in Bytes, write \in {"low", "high"} :
          cia' = [UpdatedNow EXCEPT ![c] =
                    WithTimer(@, x, IF write = "low" THEN LowWritten(t, v) ELSE HighWritten(t, v))]
    BY DEF CiaWriteLatch
  <1> HIDE DEF t
  <1> QED  BY <1>1, <1>3, <1>4, WithTimerType

LEMMA ControlWrittenType ==
  ASSUME IInv, NEW c \in Chips, NEW x \in Timers, NEW on \in BOOLEAN, NEW oneshot \in BOOLEAN,
         NEW mode \in Modes, NEW load \in BOOLEAN, NEW toalarm \in BOOLEAN,
         CiaWriteControl(c, x, on, oneshot, mode, load, toalarm)
  PROVE  cia' \in [Chips -> ChipN]
  <1>1. UpdatedNow \in [Chips -> ChipN]
    BY UpdateKept DEF UpdatedNow, IInv, Typed
  <1> DEFINE chip == UpdatedNow[c]
             t == ControlWritten(TimerOf(chip, x), on, oneshot, mode, load)
             written == [WithTimer(chip, x, t) EXCEPT
                           !.toalarm = IF x = "B" THEN toalarm ELSE chip.toalarm]
  <1>2. TimerOf(UpdatedNow[c], x) \in TimerN  BY <1>1 DEF TimerOf, ChipN
  <1>3. t \in TimerN  BY <1>2 DEF ControlWritten, TimerN
  <1>4. cia' = [UpdatedNow EXCEPT ![c] = written]
    BY DEF CiaWriteControl
  <1>5. chip \in ChipN  BY <1>1
  <1>6. written \in ChipN
    <2> HIDE DEF t, chip
    <2>1. WithTimer(chip, x, t) \in ChipN  BY <1>3, <1>5, WithTimerType
    <2> QED  BY <1>5, <2>1 DEF ChipN
  <1> HIDE DEF written
  <1> QED  BY <1>1, <1>4, <1>6

LEMMA TimerAccessInv == ASSUME IInv, TimerAccess PROVE IInv'
  <1>1. PICK c \in Chips, x \in Timers :
          \/ CiaWriteLatch(c, x)
          \/ \E on, oneshot, load \in BOOLEAN, mode \in Modes :
               CiaWriteControl(c, x, on, oneshot, mode, load, FALSE)
    BY DEF TimerAccess
  <1>2. cia' \in [Chips -> ChipN]
    <2>1. CASE CiaWriteLatch(c, x)  BY <2>1, LatchWritten
    <2>2. ASSUME NEW on \in BOOLEAN, NEW oneshot \in BOOLEAN, NEW load \in BOOLEAN,
                 NEW mode \in Modes, NEW toalarm \in BOOLEAN,
                 CiaWriteControl(c, x, on, oneshot, mode, load, toalarm)
          PROVE  cia' \in [Chips -> ChipN]
      BY <2>2, ControlWrittenType
    <2> QED  BY <1>1, <2>1, <2>2
  <1>3. Divides(since) /\ due' \in Plans(cia', div10')
    BY <1>1 DEF CiaWriteLatch, CiaWriteControl
  <1>4. line' = line /\ next' = EventNext(line, due')
    BY DEF TimerAccess, Instruction
  <1>5. since \in Nat /\ line' \in Nat \ {0} /\ next' = EventNext(line', due')
    BY <1>4 DEF IInv, Typed
  <1> QED  BY <1>2, <1>3, <1>5, PlanKept DEF IInv

LEMMA FlagAccessInv == ASSUME IInv, FlagAccess PROVE IInv'
  <1>1. PICK c \in Chips : \/ CiaReadFlags(c)
                           \/ \E set \in BOOLEAN : CiaWriteMask(c, set, {"ta", "tb"})
                           \/ CiaWritePort
    BY DEF FlagAccess
  <1>2. SameTimers
    BY <1>1 DEF CiaReadFlags, CiaWriteMask, CiaWritePort, SameTimers, IInv, Typed, ChipN, Flags
  <1> QED  BY <1>2, SameTimersKept DEF FlagAccess, Instruction, IInv, Typed, NextInTime, Stalled

LEMMA ByteOfType ==
  ASSUME NEW n \in Int, NEW k \in 1..3
  PROVE  Weight[k] \in Nat \ {0} /\ ByteOf(n, k) \in Int
  <1>1. Byte \in Nat \ {0} /\ Byte * Byte \in Nat \ {0}  BY CiaAssumption
  <1>2. Weight[k] \in Nat \ {0}  BY <1>1 DEF Weight
  <1> QED  BY <1>1, <1>2 DEF ByteOf

LEMMA ClockAccessInv == ASSUME IInv, ClockAccess PROVE IInv'
  <1>1. line' = line /\ next' = EventNext(line, due') /\ ~Stalled /\ ClockChips \subseteq Chips
    BY ChipsAssumption DEF ClockAccess, Instruction
  <1>2. ASSUME NEW c \in ClockChips, NEW k \in 1..3, UNCHANGED <<div10, lastdiv10, since, due, lag>>,
               \/ CiaReadTod(c, k)
               \/ \E v \in Bytes : CiaWriteTod(c, k, v)
               \/ CiaWriteMask(c, TRUE, {"alarm"})
        PROVE  IInv'
    <2> c \in Chips /\ cia[c] \in ChipN  BY <1>1 DEF IInv, Typed
    <2>1. ASSUME CiaReadTod(c, k) PROVE SameTimers
      <3>1. CASE k = 3
        <4> DEFINE chip == [cia[c] EXCEPT !.latched = TRUE, !.tol = cia[c].tod]
        <4>1. cia' = [cia EXCEPT ![c] = chip]  BY <2>1, <3>1 DEF CiaReadTod
        <4>2. chip \in ChipN /\ chip.A = cia[c].A /\ chip.B = cia[c].B  BY DEF ChipN
        <4> HIDE DEF chip
        <4> QED  BY <4>1, <4>2, OneChip DEF IInv
      <3>2. CASE k = 1
        BY <2>1, <3>2 DEF CiaReadTod, SameTimers, IInv, Typed, ChipN
      <3>3. CASE k = 2
        BY <2>1, <3>3 DEF CiaReadTod, SameTimers, IInv, Typed
      <3> QED  BY <3>1, <3>2, <3>3
    <2>2. ASSUME NEW v \in Bytes, CiaWriteTod(c, k, v) PROVE SameTimers
      <3>1. cia[c].tod \in Int /\ cia[c].alarm \in Int /\ v \in Int
        BY DEF ChipN, Bytes
      <3>2. WithByte(cia[c].tod, k, v) \in Int /\ WithByte(cia[c].alarm, k, v) \in Int
        BY <3>1, ByteOfType DEF WithByte
      <3>3. CASE cia[c].toalarm
        BY <2>2, <3>2, <3>3 DEF CiaWriteTod, SameTimers, IInv, Typed, ChipN
      <3>4. CASE ~cia[c].toalarm
        <4> DEFINE chip == [cia[c] EXCEPT !.tod = WithByte(cia[c].tod, k, v), !.todon = (k = 1)]
        <4>1. cia' = [cia EXCEPT ![c] = chip]  BY <2>2, <3>4 DEF CiaWriteTod
        <4>2. chip \in ChipN /\ chip.A = cia[c].A /\ chip.B = cia[c].B  BY <3>2 DEF ChipN
        <4> HIDE DEF chip
        <4> QED  BY <4>1, <4>2, OneChip DEF IInv
      <3> QED  BY <3>3, <3>4
    <2>3. ASSUME CiaWriteMask(c, TRUE, {"alarm"}) PROVE SameTimers
      BY <1>1, <2>3 DEF CiaWriteMask, SameTimers, IInv, Typed, ChipN, Flags
    <2>4. SameTimers  BY <1>1, <1>2, <2>1, <2>2, <2>3
    <2>5. next' \in Nat \ {0} /\ next' <= line /\ (due.active => next' <= due.left)
      BY <1>1, <1>2 DEF EventNext, IInv, Typed, NextInTime, Stalled
    <2> QED  BY <1>1, <1>2, <2>4, <2>5, SameTimersKept
  <1>3. ASSUME NEW c \in ClockChips, NEW toalarm \in BOOLEAN,
               CiaWriteControl(c, "B", FALSE, FALSE, "clock", FALSE, toalarm)
        PROVE  IInv'
    <2>1. cia' \in [Chips -> ChipN]
      BY <1>1, <1>3, ControlWrittenType DEF Timers, Modes
    <2>2. since \in Nat /\ line' \in Nat \ {0} /\ next' = EventNext(line', due')
      BY <1>1 DEF IInv, Typed
    <2> QED  BY <1>3, <2>1, <2>2, PlanKept DEF CiaWriteControl, IInv
  <1> QED  BY <1>2, <1>3 DEF ClockAccess

LEMMA OtherStepsInv ==
  ASSUME IInv, UNCHANGED <<ciaVars, line>>,
         \/ next' = next
         \/ ~Stalled /\ next' = EventNext(line, due)
  PROVE  IInv'
  <1>1. CASE next' = next
    BY <1>1 DEF ciaVars, IInv, Typed, RestsKept, PlannedInTime, NextInTime, Stalled
  <1>2. CASE ~Stalled /\ next' = EventNext(line, due)
    <2>1. next' \in Nat \ {0} /\ next' <= line /\ (due.active => next' <= due.left)
      BY <1>2 DEF EventNext, IInv, Typed, NextInTime, Stalled
    <2>2. SameTimers  BY DEF SameTimers, ciaVars, IInv, Typed
    <2> QED  BY <1>2, <2>1, <2>2, SameTimersKept DEF ciaVars
  <1> QED  BY <1>1, <1>2

LEMMA NextInv == ASSUME IInv, [Next]_vars PROVE IInv'
  <1>1. CASE do_cycles
    BY <1>1, PassesInv, EventsInv DEF do_cycles
  <1>2. CASE TimerAccess  BY <1>2, TimerAccessInv
  <1>3. CASE FlagAccess   BY <1>3, FlagAccessInv
  <1>4. CASE ClockAccess  BY <1>4, ClockAccessInv
  <1>5. CASE AudioAccess
    BY <1>5, OtherStepsInv DEF AudioAccess, Instruction
  <1>6. CASE Acknowledge
    BY <1>6, OtherStepsInv DEF Acknowledge, Instruction
  <1>7. CASE InterruptAccess
    BY <1>7, OtherStepsInv DEF InterruptAccess, Instruction
  <1>8. CASE OtherInstruction
    BY <1>8, OtherStepsInv DEF OtherInstruction
  <1>9. CASE Specials
    BY <1>9, OtherStepsInv DEF Specials
  <1>10. CASE Reboot  BY <1>10, RebootInv
  <1>11. CASE UNCHANGED vars
    BY <1>11, OtherStepsInv DEF vars
  <1> QED
    BY <1>1, <1>2, <1>3, <1>4, <1>5, <1>6, <1>7, <1>8, <1>9, <1>10, <1>11 DEF Next, Access

(* Timers, their clocks and the events planned for them are consistent in   *)
(* every state of the machine.                                              *)
THEOREM TimersInvariant == Spec => []IInv
  <1>1. IInv /\ [Next]_vars => IInv'  BY NextInv
  <1> QED  BY InitInv, <1>1, PTL DEF Spec

(* The clocks the timers are given never drift from the cycles that pass:   *)
(* CIA_update() and its two rests.                                          *)
THEOREM ClocksNeverDrift == Spec => []ClockTrue
  <1>1. ASSUME IInv PROVE ClockTrue
    BY <1>1, CiaAssumption DEF IInv, Typed, RestsKept, ClockTrue
  <1> QED  BY TimersInvariant, <1>1, PTL

(* The assertions of CIA_update() never fail, whenever a write or the       *)
(* planned event calls it.                                                  *)
THEOREM AssertionsNeverFail == Spec => []CountsSuffice
  <1>1. ASSUME IInv PROVE CountsSuffice
    <2>1. ASSUME NEW n \in Nat, n <= since + due.left PROVE AssertsHold(n)
      BY <1>1, <2>1, AssertionsKept DEF IInv, AssertsHold, Sufficient
    <2>2. since \in Nat /\ due.left \in Nat  BY <1>1 DEF IInv, Typed
    <2> QED  BY <2>1, <2>2 DEF CountsSuffice, CiaDue
  <1> QED  BY TimersInvariant, <1>1, PTL

(* events_schedule() passes over no event; the machine stalls only when the *)
(* estimate of a chained timer is a multiple of what an int can hold.       *)
THEOREM NoEventPassedOver == Spec => []EventsInTime
  <1>1. ASSUME IInv PROVE EventsInTime
    BY <1>1 DEF IInv, NextInTime, EventsInTime, Wraps
  <1> QED  BY TimersInvariant, <1>1, PTL

-----------------------------------------------------------------------------
(* Interrupts.                                                              *)
LEMMA SameRequests ==
  ASSUME UNCHANGED <<intreq, intena, master, intmask>>
  PROVE  Deliverable' <=> Deliverable
  BY DEF Deliverable, Pending, Asking

LEMMA RaisesKept ==
  ASSUME NoInterruptLost, NEW sources, Raises(sources), UNCHANGED <<intena, master, intmask>>
  PROVE  NoInterruptLost'
  <1>1. CASE sources = {}
    <2>1. intreq' = intreq /\ spcflags' = spcflags  BY <1>1 DEF Raises
    <2> QED  BY <2>1, SameRequests DEF NoInterruptLost
  <1>2. CASE sources # {}
    BY <1>2 DEF Raises, NoInterruptLost
  <1> QED  BY <1>1, <1>2

LEMMA SpecialsKept == ASSUME NoInterruptLost, Specials PROVE NoInterruptLost'
  <1>1. CASE Specialties /\ "DOINT" \in spcflags /\ Deliverable
    BY <1>1 DEF Specialties, NoInterruptLost
  <1>2. CASE Specialties /\ ~("DOINT" \in spcflags /\ Deliverable)
    <2>1. /\ UNCHANGED <<intreq, intena, master, intmask>>
          /\ spcflags' = Delayed(spcflags \ {"DOINT"})
      BY <1>2 DEF Specialties
    <2>2. Deliverable => "INT" \in spcflags  BY <1>2 DEF NoInterruptLost
    <2> QED  BY <2>1, <2>2, SameRequests DEF Delayed, NoInterruptLost
  <1>3. CASE Stopped /\ Deliverable
    BY <1>3 DEF Stopped, NoInterruptLost
  <1>4. CASE Stopped /\ ~Deliverable
    <2>1. UNCHANGED <<intreq, intena, master, intmask>>  BY <1>4 DEF Stopped
    <2> QED  BY <1>4, <2>1, SameRequests DEF NoInterruptLost
  <1> QED  BY <1>1, <1>2, <1>3, <1>4 DEF Specials

LEMMA NextKept == ASSUME NoInterruptLost, [Next]_vars PROVE NoInterruptLost'
  <1>1. CASE do_cycles
    <2>1. CASE Passes
      BY <1>1, <2>1, SameRequests DEF do_cycles, Passes, NoInterruptLost
    <2>2. CASE Events
      <3>1. \E r : Raises(Raised(r))  BY <2>2 DEF Events
      <3> QED  BY <1>1, <3>1, RaisesKept DEF do_cycles
    <2> QED  BY <1>1, <2>1, <2>2 DEF do_cycles
  <1>2. CASE TimerAccess
    BY <1>2, RaisesKept DEF TimerAccess
  <1>3. CASE FlagAccess
    BY <1>3, SameRequests DEF FlagAccess, NoInterruptLost
  <1>4. CASE ClockAccess
    <2>1. UNCHANGED <<intena, master, intmask>>  BY <1>4 DEF ClockAccess
    <2>2. \/ intreq' = intreq /\ spcflags' = spcflags
          \/ Raises({Source(c) : c \in AskedByWrite})
      BY <1>4 DEF ClockAccess
    <2> QED  BY <2>1, <2>2, RaisesKept, SameRequests DEF NoInterruptLost
  <1>5. CASE AudioAccess
    <2>1. UNCHANGED <<intena, master, intmask>>  BY <1>5 DEF AudioAccess
    <2>2. \E sources : Raises(sources)  BY <1>5 DEF AudioAccess
    <2> QED  BY <2>1, <2>2, RaisesKept
  <1>6. CASE Acknowledge
    BY <1>6 DEF Acknowledge, INTREQ, NoInterruptLost
  <1>7. CASE InterruptAccess
    BY <1>7 DEF InterruptAccess, INTENA, INTREQ, MakeFromSR, NoInterruptLost
  <1>8. CASE OtherInstruction
    BY <1>8, SameRequests DEF OtherInstruction, NoInterruptLost
  <1>9. CASE Specials  BY <1>9, SpecialsKept
  <1>10. CASE Reboot
    BY <1>10 DEF Reboot, NoInterruptLost, Deliverable, Pending
  <1>11. CASE UNCHANGED vars
    BY <1>11, SameRequests DEF vars, cpuVars, NoInterruptLost
  <1> QED
    BY <1>1, <1>2, <1>3, <1>4, <1>5, <1>6, <1>7, <1>8, <1>9, <1>10, <1>11 DEF Next, Access

(* Whatever makes an interrupt deliverable, a chip, a register or the mask, *)
(* makes do_specialties() look at it.                                       *)
THEOREM InterruptsNeverLost == Spec => []NoInterruptLost
  <1>1. Init => NoInterruptLost
    BY DEF Init, NoInterruptLost, Deliverable, Pending
  <1>2. NoInterruptLost /\ [Next]_vars => NoInterruptLost'  BY NextKept
  <1> QED  BY <1>1, <1>2, PTL DEF Spec

-----------------------------------------------------------------------------
(* The values registers have.                                               *)
ChipR == [A : Timer, B : Timer, icr : SUBSET (Flags \cup {"ir"}), mask : SUBSET Flags,
          tod : Days, todon : BOOLEAN, latched : BOOLEAN, tol : Days, alarm : Days,
          toalarm : BOOLEAN]

CpuTyped ==
  /\ intreq \in SUBSET Sources /\ intena \in SUBSET Sources /\ intmask \in 0..7
  /\ spcflags \in SUBSET {"INT", "DOINT", "STOP"} /\ pc \in {"fetch", "cycles", "ran"}

Ranges == cia \in [Chips -> ChipR] /\ row \in 0..Rows - 1 /\ line <= Line /\ CpuTyped

LEMMA Squares ==
  /\ Byte \in Nat \ {0} /\ Byte * Byte \in Nat \ {0} /\ Byte * Byte * Byte \in Nat \ {0}
  <1>1. Byte \in Nat \ {0}
    BY CiaAssumption
  <1>2. ASSUME NEW m \in Nat \ {0}, NEW n \in Nat \ {0} PROVE m * n \in Nat \ {0}
    OBVIOUS
  <1> QED  BY <1>1, <1>2

LEMMA CountsN ==
  /\ Timer \subseteq TimerN /\ ChipR \subseteq ChipN
  <1>1. Counts \subseteq Nat /\ Days \subseteq Int
    BY Squares DEF Counts, Days
  <1>2. Timer \subseteq TimerN
    BY <1>1 DEF Timer, TimerN
  <1> QED  BY <1>1, <1>2 DEF ChipR, ChipN

(* A digit of weight w, of z in all above it, takes a value below b.        *)
LEMMA DigitWritten ==
  ASSUME NEW w \in Nat \ {0}, NEW b \in Nat \ {0}, NEW z \in Nat \ {0},
         NEW n \in 0..w * b * z - 1, NEW v \in 0..b - 1
  PROVE  n + (v - ((n \div w) % b)) * w \in 0..w * b * z - 1
  <1>1. w * b \in Nat \ {0} /\ w * b * z \in Nat
    <2>1. ASSUME NEW x \in Nat \ {0}, NEW y \in Nat \ {0} PROVE x * y \in Nat \ {0}
      OBVIOUS
    <2>2. w * b \in Nat \ {0}
      BY <2>1
    <2>3. w * b * z \in Nat \ {0}
      BY <2>1, <2>2
    <2> QED  BY <2>2, <2>3
  <1>2. n \in Nat
    BY <1>1
  <1>3. PICK q \in Nat, r \in 0..w - 1 : q = n \div w /\ n = w * q + r
    <2>1. n \div w \in Nat /\ n % w \in 0..w - 1 /\ n = w * (n \div w) + (n % w)
      BY <1>2, DivMod
    <2> QED  BY <2>1
  <1>4. PICK s \in Nat, d \in 0..b - 1 : d = q % b /\ q = b * s + d
    <2>1. q \div b \in Nat /\ q % b \in 0..b - 1 /\ q = b * (q \div b) + (q % b)
      BY DivMod
    <2> QED  BY <2>1
  <1>5. w * q = w * b * s + w * d
    <2>1. \A x, y \in Int : w * (b * x + y) = w * b * x + w * y
      OBVIOUS
    <2> QED  BY <1>4, <2>1
  <1>6. (v - d) * w = w * v - w * d
    <2>1. \A x, y \in Int : (x - y) * w = w * x - w * y
      OBVIOUS
    <2> QED  BY <2>1
  <1>7. w * b * s \in Nat /\ w * d \in Nat /\ w * v \in Nat
    BY <1>1, Product
  <1>8. n + (v - d) * w = w * b * s + w * v + r
    BY <1>3, <1>5, <1>6, <1>7
  <1>9. s + 1 <= z
    <2>1. SUFFICES ASSUME z <= s PROVE FALSE
      OBVIOUS
    <2>2. w * b * z <= w * b * s
      BY <1>1, <2>1, Monotone
    <2> QED  BY <1>1, <1>3, <1>5, <1>7, <2>2
  <1>10. w * b * s + w * b <= w * b * z
    <2>1. w * b * (s + 1) <= w * b * z
      BY <1>1, <1>9, Monotone
    <2>2. w * b * (s + 1) = w * b * s + w * b
      <3>1. \A x, y \in Int : x * (y + 1) = x * y + x
        OBVIOUS
      <3> QED  BY <1>1, <3>1
    <2> QED  BY <2>1, <2>2
  <1>11. w * v + w <= w * b
    <2>1. w * (v + 1) <= w * b
      BY Monotone
    <2>2. w * (v + 1) = w * v + w
      <3>1. \A x, y \in Int : x * (y + 1) = x * y + x
        OBVIOUS
      <3> QED  BY <3>1
    <2> QED  BY <2>1, <2>2
  <1>12. w * b * s + w * v + r \in 0..w * b * z - 1
    BY <1>1, <1>7, <1>10, <1>11
  <1> QED  BY <1>3, <1>4, <1>8, <1>12

LEMMA DayWritten ==
  ASSUME NEW n \in Days, NEW k \in 1..3, NEW v \in Bytes
  PROVE  WithByte(n, k, v) \in Days
  <1>1. /\ Byte \in Nat \ {0} /\ Byte * Byte \in Nat \ {0} /\ v \in 0..Byte - 1
        /\ 1 * Byte * (Byte * Byte) = Byte * Byte * Byte
        /\ Byte * Byte * Byte * 1 = Byte * Byte * Byte
        /\ n \in 0..Byte * Byte * Byte - 1
    BY Squares DEF Days, Bytes
  <1>2. CASE k = 1
    <2>1. PICK w \in Nat \ {0}, z \in Nat \ {0} : w = 1 /\ z = Byte * Byte
      BY <1>1
    <2>2. w * Byte = Byte
      BY <1>1, <2>1
    <2>3. w * Byte * z = Byte * Byte * Byte
      BY <1>1, <2>1, <2>2
    <2>4. n \in 0..w * Byte * z - 1
      BY <1>1, <2>3
    <2>5. n + (v - ((n \div w) % Byte)) * w \in 0..w * Byte * z - 1
      BY <1>1, <2>4, DigitWritten
    <2> QED  BY <1>2, <2>1, <2>3, <2>5 DEF WithByte, ByteOf, Weight, Days
  <1>3. CASE k = 2
    <2>1. n + (v - ((n \div Byte) % Byte)) * Byte \in 0..Byte * Byte * Byte - 1
      BY <1>1, DigitWritten
    <2> QED  BY <1>3, <2>1 DEF WithByte, ByteOf, Weight, Days
  <1>4. CASE k = 3
    <2>1. n + (v - ((n \div (Byte * Byte)) % Byte)) * (Byte * Byte)
            \in 0..Byte * Byte * Byte * 1 - 1
      BY <1>1, DigitWritten
    <2> QED  BY <1>1, <1>4, <2>1 DEF WithByte, ByteOf, Weight, Days
  <1> QED  BY <1>2, <1>3, <1>4

LEMMA LatchRange ==
  ASSUME NEW n \in Counts, NEW v \in Bytes
  PROVE  (n \div Byte) * Byte + v \in Counts /\ (n % Byte) + v * Byte \in Counts
  <1>1. Byte \in Nat \ {0} /\ v \in 0..Byte - 1 /\ n \in 0..Byte * Byte - 1 /\ Byte * Byte \in Nat
    BY Squares DEF Counts, Bytes
  <1>2. PICK q \in Nat, r \in 0..Byte - 1 :
          q = n \div Byte /\ r = n % Byte /\ n = Byte * q + r
    <2>1. n \in Nat
      BY <1>1
    <2>2. /\ n \div Byte \in Nat /\ n % Byte \in 0..Byte - 1
          /\ n = Byte * (n \div Byte) + (n % Byte)
      BY <1>1, <2>1, DivMod
    <2> QED  BY <2>2
  <1>3. ASSUME NEW m \in 0..Byte - 1, NEW s \in 0..Byte - 1 PROVE m * Byte + s \in Counts
    <2>1. Byte * (m + 1) <= Byte * Byte
      BY <1>1, Monotone
    <2>2. Byte * (m + 1) = m * Byte + Byte /\ m * Byte \in Nat
      BY <1>1
    <2> QED  BY <1>1, <2>1, <2>2 DEF Counts
  <1>4. q <= Byte - 1
    <2>1. n < Byte * ((Byte - 1) + 1) /\ Byte - 1 \in Nat /\ n \in Nat
      BY <1>1
    <2> QED  BY <1>1, <1>2, <2>1, DivBelow
  <1>5. q \in 0..Byte - 1
    BY <1>1, <1>2, <1>4
  <1>6. v * Byte + r = r + v * Byte
    <2>1. v * Byte \in Int
      BY <1>1
    <2> QED  BY <1>2, <2>1
  <1> QED  BY <1>1, <1>2, <1>3, <1>5, <1>6

-----------------------------------------------------------------------------
(* What the chips' operations make of them.                                 *)
LEMMA TimersR ==
  ASSUME NEW chip \in ChipR, NEW k \in Nat, Sufficient(chip, k)
  PROVE  TimerA(chip, k) \in Timer /\ TimerB(chip, k) \in Timer
  <1>1. /\ chip.A \in Timer /\ chip.B \in Timer
        /\ \A t \in Timer : t.count \in Nat /\ t.count \in Counts /\ t.latch \in Counts
        /\ \A n \in Counts, m \in Nat : m <= n => n - m \in Counts
    BY Squares DEF ChipR, Timer, Counts
  <1>2. \A t \in Timer : Reloaded(t) \in Timer
    BY DEF Timer, Reloaded
  <1>3. ASSUME NEW t \in Timer, NEW m \in Nat, m <= t.count
        PROVE  [t EXCEPT !.count = @ - m] \in Timer
    <2>1. t.count - m \in Counts
      BY <1>1, <1>3
    <2> QED  BY <2>1 DEF Timer
  <1>4. TimerA(chip, k) \in Timer
    <2>1. CASE RunsOut(chip.A, k)
      BY <1>1, <1>2, <2>1 DEF TimerA
    <2>2. CASE Clocked(chip.A) /\ ~RunsOut(chip.A, k)
      <3>1. k <= chip.A.count
        BY <1>1, <2>2 DEF Sufficient, RunsOut
      <3> QED  BY <1>1, <1>3, <2>2, <3>1 DEF TimerA
    <2>3. CASE ~Clocked(chip.A)
      BY <1>1, <2>3 DEF TimerA, RunsOut
    <2> QED  BY <2>1, <2>2, <2>3
  <1>5. TimerB(chip, k) \in Timer
    <2>1. CASE RunsOut(chip.B, k) \/ FedOut(chip, k)
      <3>1. TimerB(chip, k) = Reloaded(chip.B)
        BY <2>1 DEF TimerB, RunsOut, FedOut, Clocked, Chained
      <3> QED  BY <1>1, <1>2, <3>1
    <2>2. CASE Clocked(chip.B) /\ ~RunsOut(chip.B, k) /\ ~FedOut(chip, k)
      <3>1. k <= chip.B.count
        BY <1>1, <2>2 DEF Sufficient, RunsOut
      <3>2. ~Chained(chip.B)
        BY <2>2 DEF Clocked, Chained
      <3>3. TimerB(chip, k) = [chip.B EXCEPT !.count = @ - k]
        BY <2>2, <3>2 DEF TimerB
      <3> QED  BY <1>1, <1>3, <3>1, <3>3
    <2>3. CASE ~Clocked(chip.B) /\ RunsOut(chip.A, k) /\ Chained(chip.B) /\ ~FedOut(chip, k)
      <3>1. 1 <= chip.B.count /\ 1 \in Nat
        BY <1>1, <2>3 DEF FedOut
      <3>2. TimerB(chip, k) = [chip.B EXCEPT !.count = @ - 1]
        BY <2>3 DEF TimerB, RunsOut
      <3> QED  BY <1>1, <1>3, <3>1, <3>2
    <2>4. CASE ~(RunsOut(chip.B, k) \/ FedOut(chip, k)) /\ ~Clocked(chip.B)
               /\ ~(RunsOut(chip.A, k) /\ Chained(chip.B))
      BY <1>1, <2>4 DEF TimerB
    <2> QED  BY <2>1, <2>2, <2>3, <2>4 DEF RunsOut
  <1> QED  BY <1>4, <1>5

LEMMA FlaggedR ==
  ASSUME NEW chip \in ChipR, NEW flags \in SUBSET Flags
  PROVE  Flagged(chip, flags) \in ChipR
  BY DEF ChipR, Flagged, Rethought

LEMMA UpdatedR ==
  ASSUME NEW chip \in ChipR, NEW k \in Nat, Sufficient(chip, k)
  PROVE  Updated(chip, k) \in ChipR
  <1>1. Flagged(chip, Underflows(chip, k)) \in ChipR
    BY FlaggedR DEF Underflows, Flags
  <1> QED  BY <1>1, TimersR DEF Updated, ChipR

LEMMA CountedR ==
  ASSUME NEW chip \in ChipR
  PROVE  TodCounted(chip) \in ChipR
  <1>1. Rings(chip) \in SUBSET Flags
    BY DEF Rings, Flags
  <1>2. chip.tod \in Days /\ Byte * Byte * Byte \in Nat \ {0}
    BY Squares DEF ChipR
  <1>3. TodNext(chip) \in Days
    BY <1>2 DEF TodNext, Days
  <1> QED  BY <1>1, <1>3, FlaggedR DEF TodCounted, ChipR

LEMMA WithTimerR ==
  ASSUME NEW chip \in ChipR, NEW t \in Timer, NEW x
  PROVE  /\ WithTimer(chip, x, t) \in ChipR /\ TimerOf(chip, x) \in Timer
  BY DEF WithTimer, TimerOf, ChipR

LEMMA ResetR == ASSUME NEW n \in Days PROVE ResetChip(n) \in ChipR
  <1>1. Byte * Byte - 1 \in Counts /\ 0 \in Days
    BY Squares DEF Counts, Days
  <1>2. ResetTimer \in Timer
    BY <1>1 DEF ResetTimer, Timer, Modes
  <1> QED  BY <1>1, <1>2 DEF ResetChip, ChipR

LEMMA NowR ==
  ASSUME IInv, cia \in [Chips -> ChipR]
  PROVE  UpdatedNow \in [Chips -> ChipR]
  <1>1. since \in Nat /\ since <= since + due.left
    BY DEF IInv, Typed
  <1>2. Clocks(since) \in Nat /\ \A c \in Chips : Sufficient(cia[c], Clocks(since))
    BY <1>1, AssertionsKept DEF IInv
  <1> QED  BY <1>2, UpdatedR DEF UpdatedNow

LEMMA LatchWrittenR ==
  ASSUME IInv, cia \in [Chips -> ChipR], NEW c \in Chips, NEW x \in Timers, CiaWriteLatch(c, x)
  PROVE  cia' \in [Chips -> ChipR]
  <1>1. UpdatedNow \in [Chips -> ChipR]
    BY NowR
  <1> DEFINE t == TimerOf(UpdatedNow[c], x)
  <1>2. t \in Timer
    BY <1>1 DEF TimerOf, ChipR
  <1>3. ASSUME NEW v \in Bytes
        PROVE  LowWritten(t, v) \in Timer /\ HighWritten(t, v) \in Timer
    <2> HIDE DEF t
    <2>1. t.latch \in Counts
      BY <1>2 DEF Timer
    <2>2. /\ (t.latch \div Byte) * Byte + v \in Counts
          /\ (t.latch % Byte) + v * Byte \in Counts
      BY <2>1, LatchRange
    <2> QED  BY <1>2, <2>2 DEF LowWritten, HighWritten, Timer
  <1>4. PICK v \in Bytes, write \in {"low", "high"} :
          cia' = [UpdatedNow EXCEPT ![c] =
                    WithTimer(@, x, IF write = "low" THEN LowWritten(t, v) ELSE HighWritten(t, v))]
    BY DEF CiaWriteLatch
  <1> HIDE DEF t
  <1> QED  BY <1>1, <1>3, <1>4, WithTimerR

LEMMA ControlWrittenR ==
  ASSUME IInv, cia \in [Chips -> ChipR], NEW c \in Chips, NEW x \in Timers, NEW on \in BOOLEAN,
         NEW oneshot \in BOOLEAN, NEW mode \in Modes, NEW load \in BOOLEAN,
         NEW toalarm \in BOOLEAN, CiaWriteControl(c, x, on, oneshot, mode, load, toalarm)
  PROVE  cia' \in [Chips -> ChipR]
  <1>1. UpdatedNow \in [Chips -> ChipR]
    BY NowR
  <1> DEFINE chip == UpdatedNow[c]
             t == ControlWritten(TimerOf(chip, x), on, oneshot, mode, load)
             written == [WithTimer(chip, x, t) EXCEPT
                           !.toalarm = IF x = "B" THEN toalarm ELSE chip.toalarm]
  <1>2. TimerOf(UpdatedNow[c], x) \in Timer
    BY <1>1 DEF TimerOf, ChipR
  <1>3. t \in Timer
    BY <1>2 DEF ControlWritten, Timer
  <1>4. cia' = [UpdatedNow EXCEPT ![c] = written]
    BY DEF CiaWriteControl
  <1>5. chip \in ChipR
    BY <1>1
  <1>6. written \in ChipR
    <2> HIDE DEF t, chip
    <2>1. WithTimer(chip, x, t) \in ChipR
      BY <1>3, <1>5, WithTimerR
    <2> QED  BY <1>5, <2>1 DEF ChipR
  <1> HIDE DEF written
  <1> QED  BY <1>1, <1>4, <1>6

LEMMA FlagsR ==
  ASSUME cia \in [Chips -> ChipR], NEW c \in Chips,
         \/ CiaReadFlags(c)
         \/ \E set \in BOOLEAN : CiaWriteMask(c, set, {"ta", "tb"})
         \/ CiaWriteMask(c, TRUE, {"alarm"})
         \/ CiaWritePort
  PROVE  cia' \in [Chips -> ChipR]
  BY DEF CiaReadFlags, CiaWriteMask, CiaWritePort, ChipR, Flags

LEMMA TodReadR ==
  ASSUME cia \in [Chips -> ChipR], NEW c \in Chips, NEW k \in 1..3, CiaReadTod(c, k)
  PROVE  cia' \in [Chips -> ChipR]
  <1>1. CASE k = 3
    <2> DEFINE chip == [cia[c] EXCEPT !.latched = TRUE, !.tol = cia[c].tod]
    <2>1. cia' = [cia EXCEPT ![c] = chip]
      BY <1>1 DEF CiaReadTod
    <2>2. chip \in ChipR
      BY DEF ChipR
    <2> HIDE DEF chip
    <2> QED  BY <2>1, <2>2
  <1>2. CASE k = 1
    <2> DEFINE chip == [cia[c] EXCEPT !.latched = FALSE]
    <2>1. cia' = [cia EXCEPT ![c] = chip]
      BY <1>2 DEF CiaReadTod
    <2>2. chip \in ChipR
      BY DEF ChipR
    <2> HIDE DEF chip
    <2> QED  BY <2>1, <2>2
  <1>3. CASE k = 2
    BY <1>3 DEF CiaReadTod
  <1> QED  BY <1>1, <1>2, <1>3

LEMMA TodWrittenR ==
  ASSUME cia \in [Chips -> ChipR], NEW c \in Chips, NEW k \in 1..3, NEW v \in Bytes,
         CiaWriteTod(c, k, v)
  PROVE  cia' \in [Chips -> ChipR]
  <1>1. cia[c].tod \in Days /\ cia[c].alarm \in Days
    BY DEF ChipR
  <1>2. WithByte(cia[c].tod, k, v) \in Days /\ WithByte(cia[c].alarm, k, v) \in Days
    BY <1>1, DayWritten
  <1>3. CASE cia[c].toalarm
    BY <1>2, <1>3 DEF CiaWriteTod, ChipR
  <1>4. CASE ~cia[c].toalarm
    <2> DEFINE chip == [cia[c] EXCEPT !.tod = WithByte(cia[c].tod, k, v), !.todon = (k = 1)]
    <2>1. cia' = [cia EXCEPT ![c] = chip]
      BY <1>4 DEF CiaWriteTod
    <2>2. chip \in ChipR
      BY <1>2 DEF ChipR
    <2> HIDE DEF chip
    <2> QED  BY <2>1, <2>2
  <1> QED  BY <1>3, <1>4

-----------------------------------------------------------------------------
(* The steps keep the registers in their ranges.                            *)
LEMMA RaisesR ==
  ASSUME CpuTyped, NEW sources \in SUBSET Sources, Raises(sources),
         UNCHANGED <<intena, intmask>>, pc' \in {"fetch", "cycles", "ran"}
  PROVE  CpuTyped'
  BY DEF CpuTyped, Raises

LEMMA RaisedR ==
  ASSUME NEW r
  PROVE  Raised(r) \in SUBSET Sources
  BY InterruptAssumption DEF Raised

LEMMA WriteAsks == {Source(c) : c \in AskedByWrite} \in SUBSET Sources
  BY InterruptAssumption DEF AskedByWrite

LEMMA CyclesR == ASSUME IInv, Ranges, do_cycles PROVE Ranges'
  <1>1. CASE Passes
    <2>1. /\ cia' = cia /\ row' = row /\ line' = line - 1 /\ intreq' = intreq
          /\ spcflags' = spcflags /\ intena' = intena /\ intmask' = intmask /\ pc' = "ran"
      BY <1>1 DEF Passes, do_cycles
    <2>2. line \in Nat /\ Line \in Nat
      BY PaulaAssumption DEF IInv, Typed
    <2>3. CpuTyped'
      BY <2>1 DEF Ranges, CpuTyped
    <2> QED  BY <2>1, <2>2, <2>3 DEF Ranges
  <1>2. CASE Events
    <2> DEFINE counted(c) == IF Ticks(c) THEN TodCounted(cia[c]) ELSE cia[c]
    <2>1. \A c \in Chips : /\ counted(c) \in ChipR
                           /\ counted(c).A = cia[c].A /\ counted(c).B = cia[c].B
      BY CountedR, CountedType DEF Ranges, IInv, Typed
    <2>2. cia' \in [Chips -> ChipR]
      <3>1. CASE CiaDue
        <4>1. since + 1 \in Nat /\ since + 1 <= since + due.left
          BY <3>1 DEF CiaDue, IInv, Typed
        <4>2. Clocks(since + 1) \in Nat /\ \A c \in Chips : Sufficient(cia[c], Clocks(since + 1))
          BY <4>1, AssertionsKept DEF IInv
        <4>3. \A c \in Chips : Sufficient(counted(c), Clocks(since + 1))
          BY <2>1, <4>2 DEF Sufficient
        <4>4. cia' = [c \in Chips |-> Updated(counted(c), Clocks(since + 1))]
          BY <1>2, <3>1 DEF Events, CiaEvents
        <4> HIDE DEF counted
        <4> QED  BY <2>1, <4>2, <4>3, <4>4, UpdatedR
      <3>2. CASE ~CiaDue
        <4>1. cia' = [c \in Chips |-> counted(c)]
          BY <1>2, <3>2 DEF Events, CiaEvents
        <4> HIDE DEF counted
        <4> QED  BY <2>1, <4>1
      <3> QED  BY <3>1, <3>2
    <2>3. row' \in 0..Rows - 1 /\ line' <= Line
      BY <1>2, PaulaAssumption, ChipsAssumption DEF Events, Ranges, IInv, Typed
    <2>4. PICK r : Raises(Raised(r))
      BY <1>2 DEF Events
    <2>5. CpuTyped'
      BY <2>4, RaisesR, RaisedR DEF do_cycles, Ranges
    <2> QED  BY <2>2, <2>3, <2>5 DEF Ranges
  <1> QED  BY <1>1, <1>2 DEF do_cycles

LEMMA TimerAccessR == ASSUME IInv, Ranges, TimerAccess PROVE Ranges'
  <1>1. PICK c \in Chips, x \in Timers :
          \/ CiaWriteLatch(c, x)
          \/ \E on, oneshot, load \in BOOLEAN, mode \in Modes :
               CiaWriteControl(c, x, on, oneshot, mode, load, FALSE)
    BY DEF TimerAccess
  <1>2. cia' \in [Chips -> ChipR]
    <2>1. CASE CiaWriteLatch(c, x)
      BY <2>1, LatchWrittenR DEF Ranges
    <2>2. ASSUME NEW on \in BOOLEAN, NEW oneshot \in BOOLEAN, NEW load \in BOOLEAN,
                 NEW mode \in Modes, NEW toalarm \in BOOLEAN,
                 CiaWriteControl(c, x, on, oneshot, mode, load, toalarm)
          PROVE  cia' \in [Chips -> ChipR]
      BY <2>2, ControlWrittenR DEF Ranges
    <2> QED  BY <1>1, <2>1, <2>2
  <1>3. CpuTyped'
    BY WriteAsks, RaisesR DEF TimerAccess, Instruction, Ranges
  <1> QED  BY <1>2, <1>3 DEF TimerAccess, Instruction, Ranges

LEMMA FlagAccessR == ASSUME Ranges, FlagAccess PROVE Ranges'
  <1>1. cia' \in [Chips -> ChipR]
    BY FlagsR DEF FlagAccess, Ranges
  <1>2. CpuTyped'
    BY DEF FlagAccess, Instruction, Ranges, CpuTyped
  <1> QED  BY <1>1, <1>2 DEF FlagAccess, Instruction, Ranges

LEMMA ClockAccessR == ASSUME IInv, Ranges, ClockAccess PROVE Ranges'
  <1>1. ClockChips \subseteq Chips
    BY ChipsAssumption
  <1>2. ASSUME NEW c \in ClockChips, NEW k \in 1..3,
               \/ CiaReadTod(c, k)
               \/ \E v \in Bytes : CiaWriteTod(c, k, v)
               \/ CiaWriteMask(c, TRUE, {"alarm"})
        PROVE  cia' \in [Chips -> ChipR]
    BY <1>1, <1>2, TodReadR, TodWrittenR, FlagsR DEF Ranges
  <1>3. ASSUME NEW c \in ClockChips, NEW toalarm \in BOOLEAN,
               CiaWriteControl(c, "B", FALSE, FALSE, "clock", FALSE, toalarm)
        PROVE  cia' \in [Chips -> ChipR]
    BY <1>1, <1>3, ControlWrittenR DEF Ranges, Timers, Modes
  <1>4. cia' \in [Chips -> ChipR]
    BY <1>2, <1>3 DEF ClockAccess
  <1>5. CpuTyped'
    <2>1. CASE UNCHANGED <<intreq, spcflags>>
      BY <2>1 DEF ClockAccess, Instruction, Ranges, CpuTyped
    <2>2. CASE Raises({Source(c) : c \in AskedByWrite})
      BY <2>2, WriteAsks, RaisesR DEF ClockAccess, Instruction, Ranges
    <2> QED  BY <2>1, <2>2 DEF ClockAccess
  <1> QED  BY <1>4, <1>5 DEF ClockAccess, Instruction, Ranges

LEMMA AudioAccessR == ASSUME Ranges, AudioAccess PROVE Ranges'
  <1>1. PICK sources \in SUBSET {"aud"} : Raises(sources)
    BY DEF AudioAccess
  <1>2. sources \in SUBSET Sources
    BY InterruptAssumption
  <1>3. CpuTyped'
    BY <1>1, <1>2, RaisesR DEF AudioAccess, Instruction, Ranges
  <1> QED  BY <1>3 DEF AudioAccess, Instruction, Ranges, ciaVars

LEMMA CpuStepsR ==
  ASSUME Ranges, Acknowledge \/ InterruptAccess \/ OtherInstruction \/ Specials \/ UNCHANGED vars
  PROVE  Ranges'
  <1>1. cia' = cia /\ row' = row /\ line' = line
    BY DEF Acknowledge, InterruptAccess, OtherInstruction, Specials, Instruction, vars, ciaVars
  <1>2. CpuTyped'
    <2>1. CASE Acknowledge
      BY <2>1 DEF Acknowledge, Instruction, INTREQ, Ranges, CpuTyped
    <2>2. CASE InterruptAccess
      <3>1. ASSUME NEW on \in BOOLEAN, NEW s \in Sources, NEW all \in BOOLEAN, INTENA(on, {s}, all)
            PROVE  CpuTyped'
        BY <2>2, <3>1 DEF InterruptAccess, Instruction, INTENA, Ranges, CpuTyped
      <3>2. ASSUME NEW on \in BOOLEAN, NEW s \in Sources, INTREQ(on, {s})
            PROVE  CpuTyped'
        BY <2>2, <3>2 DEF InterruptAccess, Instruction, INTREQ, Ranges, CpuTyped
      <3>3. ASSUME NEW level \in Masks, NEW stop \in BOOLEAN, MakeFromSR(level, stop)
            PROVE  CpuTyped'
        <4>1. level \in 0..7
          BY InterruptAssumption
        <4> QED  BY <2>2, <3>3, <4>1 DEF InterruptAccess, Instruction, MakeFromSR, Ranges, CpuTyped
      <3> QED  BY <2>2, <3>1, <3>2, <3>3 DEF InterruptAccess
    <2>3. CASE OtherInstruction
      BY <2>3 DEF OtherInstruction, Ranges, CpuTyped
    <2>4. CASE Specials /\ Specialties
      <3>1. intmask' \in 0..7
        BY <2>4 DEF Specialties, Ranges, CpuTyped
      <3> QED  BY <2>4, <3>1 DEF Specialties, Delayed, Ranges, CpuTyped
    <2>5. CASE Specials /\ Stopped
      <3>1. intmask' \in 0..7
        BY <2>5 DEF Stopped, Ranges, CpuTyped
      <3> QED  BY <2>5, <3>1 DEF Stopped, Ranges, CpuTyped
    <2>6. CASE UNCHANGED vars
      BY <2>6 DEF vars, cpuVars, Ranges, CpuTyped
    <2> QED  BY <2>1, <2>2, <2>3, <2>4, <2>5, <2>6 DEF Specials
  <1> QED  BY <1>1, <1>2 DEF Ranges

LEMMA InitR == Init => Ranges
  <1> SUFFICES ASSUME Init PROVE Ranges
    OBVIOUS
  <1>1. 0 \in Days /\ 0 \in 0..Rows - 1 /\ Line \in Nat
    BY Squares, ChipsAssumption, PaulaAssumption DEF Days
  <1> QED  BY <1>1, ResetR DEF Init, Ranges, CpuTyped

LEMMA RebootR == ASSUME Ranges, Reboot PROVE Ranges'
  <1>1. 0 \in 0..Rows - 1 /\ Line \in Nat
    BY ChipsAssumption, PaulaAssumption
  <1>2. \A c \in Chips : cia[c].alarm \in Days
    BY DEF Ranges, ChipR
  <1>3. cia' \in [Chips -> ChipR]
    BY <1>2, ResetR DEF Reboot
  <1>4. CpuTyped'
    BY DEF Reboot, Ranges, CpuTyped
  <1> QED  BY <1>1, <1>3, <1>4 DEF Reboot, Ranges

(* Every register keeps a value of its width.                               *)
THEOREM RangesInvariant == Spec => []Ranges
  <1>1. IInv /\ Ranges /\ [Next]_vars => Ranges'
    BY CyclesR, TimerAccessR, FlagAccessR, ClockAccessR, AudioAccessR, CpuStepsR, RebootR
       DEF Next, Access
  <1> QED  BY TimersInvariant, InitR, <1>1, PTL DEF Spec

-----------------------------------------------------------------------------
(* The time of day.  While a program reads it downwards the chip keeps the  *)
(* time of the first byte latched.                                          *)
Record(read, at) ==
  /\ read \in Seq(Int) /\ Len(read) \in 0..3
  /\ \A k \in 1..Len(read) : read[k] = ByteOf(at, 4 - k)

Latches(chips, s) ==
  Len(s.read) \in {1, 2} =>
    s.chip \in Chips /\ chips[s.chip].latched /\ chips[s.chip].tol = s.at

SeenTyped == seen \in [chip : Chips \cup {"none"}, at : Int, read : Seq(Int)]
ReadSoFar == SeenTyped /\ Record(seen.read, seen.at) /\ Latches(cia, seen)

(* Nothing else of a chip matters.                                          *)
SameLatch == \A c \in Chips : cia'[c].latched = cia[c].latched /\ cia'[c].tol = cia[c].tol

LEMMA LatchKept == ASSUME ReadSoFar, SameLatch, seen' = seen PROVE ReadSoFar'
  BY DEF ReadSoFar, SeenTyped, Latches, SameLatch

LEMMA NothingRead == ASSUME seen' = Nothing PROVE ReadSoFar'
  <1>1. Nothing \in [chip : Chips \cup {"none"}, at : Int, read : Seq(Int)] /\ Nothing.read = << >>
    BY DEF Nothing
  <1>2. Record(Nothing.read, Nothing.at) /\ Latches(cia', Nothing)
    BY <1>1 DEF Record, Latches
  <1> QED  BY <1>1, <1>2 DEF ReadSoFar, SeenTyped

(* One more byte.                                                           *)
LEMMA RecordAppended ==
  ASSUME NEW read, NEW at \in Int, Record(read, at), NEW k \in {1, 2}, Len(read) = 3 - k
  PROVE  /\ Record(Append(read, ByteOf(at, k)), at)
         /\ Len(Append(read, ByteOf(at, k))) = 4 - k
  <1> DEFINE byte == ByteOf(at, k)
             longer == Append(read, byte)
  <1>1. byte \in Int
    <2>1. k \in 1..3
      OBVIOUS
    <2> QED  BY <2>1, ByteOfType
  <1> HIDE DEF byte
  <1>2. read \in Seq(Int)
    BY DEF Record
  <1>3. /\ longer \in Seq(Int) /\ Len(longer) = Len(read) + 1
        /\ \A i \in 1..Len(read) : longer[i] = read[i]
        /\ longer[Len(read) + 1] = byte
    BY <1>1, <1>2
  <1> HIDE DEF longer
  <1>4. ASSUME NEW i \in 1..Len(longer) PROVE longer[i] = ByteOf(at, 4 - i)
    <2>1. CASE i \in 1..Len(read)
      BY <1>3, <2>1 DEF Record
    <2>2. CASE i = Len(read) + 1
      <3>1. 4 - i = k
        BY <2>2
      <3> QED  BY <1>3, <2>2, <3>1 DEF byte
    <2> QED  BY <1>2, <1>3, <2>1, <2>2
  <1>5. Record(longer, at) /\ Len(longer) = 4 - k
    BY <1>3, <1>4 DEF Record
  <1> QED  BY <1>5 DEF longer, byte

LEMMA ReadsKept ==
  ASSUME IInv, ReadSoFar, NEW c \in Chips, NEW k \in 1..3, CiaReadTod(c, k), Reads(c, k)
  PROVE  ReadSoFar'
  <1>1. cia \in [Chips -> ChipN] /\ cia[c].tod \in Int
    BY DEF IInv, Typed, ChipN
  <1>2. CASE k = 3
    <2>1. cia'[c].latched /\ cia'[c].tol = cia[c].tod
      <3> DEFINE chip == [cia[c] EXCEPT !.latched = TRUE, !.tol = cia[c].tod]
      <3>1. cia' = [cia EXCEPT ![c] = chip]
        BY <1>2 DEF CiaReadTod
      <3>2. chip.latched /\ chip.tol = cia[c].tod
        BY <1>1 DEF ChipN
      <3> HIDE DEF chip
      <3> QED  BY <1>1, <3>1, <3>2
    <2>2. seen' = [chip |-> c, at |-> cia[c].tod, read |-> <<TodByte(cia'[c], 3)>>]
      BY <1>2 DEF Reads
    <2> DEFINE byte == ByteOf(cia[c].tod, 3)
               at == cia[c].tod
    <2>3. TodByte(cia'[c], 3) = byte /\ byte \in Int
      BY <1>1, <2>1, ByteOfType DEF TodByte
    <2>4. seen' = [chip |-> c, at |-> at, read |-> <<byte>>]
      BY <2>2, <2>3
    <2>5. Record(<<byte>>, at)
      <3>1. byte = ByteOf(at, 4 - 1)
        OBVIOUS
      <3> HIDE DEF byte, at
      <3> QED  BY <2>3, <3>1 DEF Record
    <2>6. Latches(cia', seen')
      BY <2>1, <2>4 DEF Latches
    <2> HIDE DEF byte
    <2>7. SeenTyped'
      BY <1>1, <2>3, <2>4 DEF SeenTyped
    <2> QED  BY <2>4, <2>5, <2>6, <2>7 DEF ReadSoFar
  <1>3. CASE k # 3 /\ c = seen.chip /\ Len(seen.read) = 3 - k
    <2>1. cia[c].latched /\ cia[c].tol = seen.at /\ k \in {1, 2} /\ seen.at \in Int
      BY <1>3 DEF ReadSoFar, Latches, SeenTyped
    <2>2. TodByte(cia[c], k) = ByteOf(seen.at, k)
      BY <2>1 DEF TodByte
    <2> DEFINE longer == Append(seen.read, ByteOf(seen.at, k))
    <2>3. seen' = [seen EXCEPT !.read = longer]
      BY <1>3, <2>2 DEF Reads
    <2>4. Record(longer, seen.at) /\ Len(longer) = 4 - k
      BY <1>3, <2>1, RecordAppended DEF ReadSoFar
    <2>5. longer \in Seq(Int)
      BY <2>4 DEF Record
    <2> HIDE DEF longer
    <2>6. /\ SeenTyped' /\ seen'.chip = c /\ seen'.at = seen.at /\ seen'.read = longer
      BY <1>3, <2>3, <2>5 DEF ReadSoFar, SeenTyped
    <2>7. k = 2 => cia' = cia
      BY DEF CiaReadTod
    <2>8. Len(longer) \in {1, 2} => k = 2
      BY <2>1, <2>4
    <2>9. k = 2 => cia'[c].latched /\ cia'[c].tol = seen.at
      BY <2>1, <2>7
    <2>10. Latches(cia', seen')
      BY <2>6, <2>8, <2>9 DEF Latches
    <2> QED  BY <2>4, <2>6, <2>10 DEF ReadSoFar
  <1>4. CASE k # 3 /\ ~(c = seen.chip /\ Len(seen.read) = 3 - k)
    BY <1>4, NothingRead DEF Reads
  <1> QED  BY <1>2, <1>3, <1>4

(* Counting, timers and flags leave the latch alone.                        *)
LEMMA FlaggedLatch ==
  ASSUME NEW chip \in ChipN, NEW flags
  PROVE  Flagged(chip, flags).latched = chip.latched /\ Flagged(chip, flags).tol = chip.tol
  BY DEF ChipN, Flagged

LEMMA UpdatedLatch ==
  ASSUME NEW chip \in ChipN, NEW k
  PROVE  Updated(chip, k).latched = chip.latched /\ Updated(chip, k).tol = chip.tol
  <1>1. Underflows(chip, k) \in SUBSET Flags
    BY DEF Underflows, Flags
  <1>2. Flagged(chip, Underflows(chip, k)) \in ChipN
    BY <1>1, FlaggedType
  <1> QED  BY <1>2, FlaggedLatch DEF Updated, ChipN

LEMMA CountedLatch ==
  ASSUME NEW chip \in ChipN
  PROVE  TodCounted(chip).latched = chip.latched /\ TodCounted(chip).tol = chip.tol
  <1>1. Rings(chip) \in SUBSET Flags
    BY DEF Rings, Flags
  <1>2. Flagged(chip, Rings(chip)) \in ChipN
    BY <1>1, FlaggedType
  <1> QED  BY <1>2, FlaggedLatch DEF TodCounted, ChipN

LEMMA CyclesLatch == ASSUME IInv, do_cycles PROVE SameLatch
  <1>1. cia \in [Chips -> ChipN]
    BY DEF IInv, Typed
  <1>2. CASE Passes
    BY <1>2 DEF Passes, SameLatch
  <1>3. CASE Events
    <2> DEFINE counted(c) == IF Ticks(c) THEN TodCounted(cia[c]) ELSE cia[c]
    <2>1. \A c \in Chips : /\ counted(c) \in ChipN
                           /\ counted(c).latched = cia[c].latched /\ counted(c).tol = cia[c].tol
      BY <1>1, CountedType, CountedLatch
    <2>2. \/ cia' = [c \in Chips |-> Updated(counted(c), Clocks(since + 1))]
          \/ cia' = [c \in Chips |-> counted(c)]
      BY <1>3 DEF Events, CiaEvents
    <2> HIDE DEF counted
    <2> QED  BY <2>1, <2>2, UpdatedLatch DEF SameLatch
  <1> QED  BY <1>2, <1>3 DEF do_cycles

LEMMA WrittenLatch ==
  ASSUME IInv, NEW c \in Chips, NEW x \in Timers, NEW t, NEW toalarm, NEW chip,
         chip = WithTimer(UpdatedNow[c], x, t) \/ chip = [WithTimer(UpdatedNow[c], x, t) EXCEPT
                                                            !.toalarm = toalarm],
         cia' = [UpdatedNow EXCEPT ![c] = chip]
  PROVE  SameLatch
  <1>1. /\ UpdatedNow \in [Chips -> ChipN]
        /\ \A d \in Chips : /\ UpdatedNow[d].latched = cia[d].latched
                            /\ UpdatedNow[d].tol = cia[d].tol
    BY UpdateKept, UpdatedLatch DEF UpdatedNow, IInv, Typed
  <1>2. /\ WithTimer(UpdatedNow[c], x, t).latched = UpdatedNow[c].latched
        /\ WithTimer(UpdatedNow[c], x, t).tol = UpdatedNow[c].tol
        /\ [WithTimer(UpdatedNow[c], x, t) EXCEPT !.toalarm = toalarm].latched
             = UpdatedNow[c].latched
        /\ [WithTimer(UpdatedNow[c], x, t) EXCEPT !.toalarm = toalarm].tol = UpdatedNow[c].tol
    <2>1. UpdatedNow[c] \in ChipN
      BY <1>1
    <2> QED  BY <2>1 DEF WithTimer, ChipN
  <1>3. chip.latched = UpdatedNow[c].latched /\ chip.tol = UpdatedNow[c].tol
    BY <1>2
  <1> QED  BY <1>1, <1>3 DEF SameLatch

LEMMA WriteLatch ==
  ASSUME IInv, NEW c \in Chips, NEW x \in Timers,
         \/ CiaWriteLatch(c, x)
         \/ \E on, oneshot, load, toalarm \in BOOLEAN, mode \in Modes :
              CiaWriteControl(c, x, on, oneshot, mode, load, toalarm)
  PROVE  SameLatch
  <1>1. CASE CiaWriteLatch(c, x)
    <2>1. UpdatedNow \in [Chips -> ChipN]
      BY UpdateKept DEF UpdatedNow, IInv, Typed
    <2>2. PICK t : cia' = [UpdatedNow EXCEPT ![c] = WithTimer(UpdatedNow[c], x, t)]
      <3>1. PICK v \in Bytes, write \in {"low", "high"} :
              cia' = [UpdatedNow EXCEPT ![c] =
                        WithTimer(@, x, IF write = "low"
                                        THEN LowWritten(TimerOf(UpdatedNow[c], x), v)
                                        ELSE HighWritten(TimerOf(UpdatedNow[c], x), v))]
        BY <1>1 DEF CiaWriteLatch
      <3> QED  BY <3>1
    <2> QED  BY <2>2, WrittenLatch
  <1>2. ASSUME NEW on \in BOOLEAN, NEW oneshot \in BOOLEAN, NEW load \in BOOLEAN,
               NEW toalarm \in BOOLEAN, NEW mode \in Modes,
               CiaWriteControl(c, x, on, oneshot, mode, load, toalarm)
        PROVE  SameLatch
    <2> DEFINE t == ControlWritten(TimerOf(UpdatedNow[c], x), on, oneshot, mode, load)
               bit == IF x = "B" THEN toalarm ELSE UpdatedNow[c].toalarm
               chip == [WithTimer(UpdatedNow[c], x, t) EXCEPT !.toalarm = bit]
    <2>1. cia' = [UpdatedNow EXCEPT ![c] = chip]
      BY <1>2 DEF CiaWriteControl
    <2> HIDE DEF t, bit
    <2> QED  BY <2>1, WrittenLatch
  <1> QED  BY <1>1, <1>2

LEMMA FlagsLatch ==
  ASSUME IInv, NEW c \in Chips,
         \/ CiaReadFlags(c)
         \/ \E set \in BOOLEAN : CiaWriteMask(c, set, {"ta", "tb"})
         \/ CiaWriteMask(c, TRUE, {"alarm"})
         \/ CiaWritePort
  PROVE  SameLatch
  BY DEF CiaReadFlags, CiaWriteMask, CiaWritePort, SameLatch, IInv, Typed, ChipN

LEMMA TodWriteLatch ==
  ASSUME IInv, NEW c \in Chips, NEW k, NEW v, CiaWriteTod(c, k, v)
  PROVE  SameLatch
  <1>1. cia \in [Chips -> ChipN] /\ cia[c] \in ChipN
    BY DEF IInv, Typed
  <1>2. CASE cia[c].toalarm
    BY <1>1, <1>2 DEF CiaWriteTod, SameLatch, ChipN
  <1>3. CASE ~cia[c].toalarm
    <2> DEFINE chip == [cia[c] EXCEPT !.tod = WithByte(cia[c].tod, k, v), !.todon = (k = 1)]
    <2>1. cia' = [cia EXCEPT ![c] = chip]
      BY <1>3 DEF CiaWriteTod
    <2>2. chip.latched = cia[c].latched /\ chip.tol = cia[c].tol
      BY <1>1 DEF ChipN
    <2> HIDE DEF chip
    <2> QED  BY <1>1, <2>1, <2>2 DEF SameLatch
  <1> QED  BY <1>2, <1>3

LEMMA NextRead == ASSUME IInv, ReadSoFar, [Next]_vars PROVE ReadSoFar'
  <1>1. CASE do_cycles
    BY <1>1, CyclesLatch, LatchKept DEF do_cycles
  <1>2. CASE TimerAccess
    <2>1. PICK c \in Chips, x \in Timers :
            \/ CiaWriteLatch(c, x)
            \/ \E on, oneshot, load \in BOOLEAN, mode \in Modes :
                 CiaWriteControl(c, x, on, oneshot, mode, load, FALSE)
      BY <1>2 DEF TimerAccess
    <2>2. SameLatch
      <3>1. CASE CiaWriteLatch(c, x)
        BY <3>1, WriteLatch
      <3>2. ASSUME NEW on \in BOOLEAN, NEW oneshot \in BOOLEAN, NEW load \in BOOLEAN,
                   NEW mode \in Modes, NEW toalarm \in BOOLEAN,
                   CiaWriteControl(c, x, on, oneshot, mode, load, toalarm)
            PROVE  SameLatch
        BY <3>2, WriteLatch
      <3> QED  BY <2>1, <3>1, <3>2
    <2> QED  BY <1>2, <2>2, LatchKept DEF TimerAccess
  <1>3. CASE FlagAccess
    BY <1>3, FlagsLatch, LatchKept DEF FlagAccess
  <1>4. CASE ClockAccess
    <2>1. ClockChips \subseteq Chips
      BY ChipsAssumption
    <2>2. ASSUME NEW c \in ClockChips, NEW k \in 1..3, CiaReadTod(c, k), Reads(c, k)
          PROVE  ReadSoFar'
      BY <2>1, <2>2, ReadsKept
    <2>3. ASSUME NEW c \in ClockChips, NEW k \in 1..3, NEW v \in Bytes, CiaWriteTod(c, k, v),
                 seen' = seen
          PROVE  ReadSoFar'
      BY <2>1, <2>3, TodWriteLatch, LatchKept
    <2>4. ASSUME NEW c \in ClockChips, CiaWriteMask(c, TRUE, {"alarm"}), seen' = seen
          PROVE  ReadSoFar'
      BY <2>1, <2>4, FlagsLatch, LatchKept
    <2>5. ASSUME NEW c \in ClockChips, NEW toalarm \in BOOLEAN, seen' = seen,
                 CiaWriteControl(c, "B", FALSE, FALSE, "clock", FALSE, toalarm)
          PROVE  ReadSoFar'
      <3>1. SameLatch
        BY <2>1, <2>5, WriteLatch DEF Timers, Modes
      <3> QED  BY <2>5, <3>1, LatchKept
    <2> QED  BY <1>4, <2>2, <2>3, <2>4, <2>5 DEF ClockAccess
  <1>5. CASE UNCHANGED <<ciaVars, seen>>
    BY <1>5, LatchKept DEF ciaVars, SameLatch
  <1>6. CASE Reboot
    BY <1>6, NothingRead DEF Reboot
  <1>7. AudioAccess \/ Acknowledge \/ InterruptAccess \/ OtherInstruction \/ Specials
          \/ UNCHANGED vars => UNCHANGED <<ciaVars, seen>>
    BY DEF AudioAccess, Acknowledge, InterruptAccess, OtherInstruction, Specials, vars
  <1> QED  BY <1>1, <1>2, <1>3, <1>4, <1>5, <1>6, <1>7 DEF Next, Access

(* A program that reads the three bytes of the time of day downwards gets   *)
(* one time the counter had, whatever lines, frames, timers and writes come *)
(* in between: ReadCIAA(), ReadCIAB() and the latch.                        *)
THEOREM OneTimeRead == Spec => []TodReadWhole
  <1>1. Init => ReadSoFar
    <2> SUFFICES ASSUME Init PROVE ReadSoFar
      OBVIOUS
    <2>1. seen = Nothing /\ Nothing.read = << >>
      BY DEF Init, Nothing
    <2>2. Nothing \in [chip : Chips \cup {"none"}, at : Int, read : Seq(Int)]
      BY DEF Nothing
    <2> QED  BY <2>1, <2>2 DEF ReadSoFar, SeenTyped, Record, Latches
  <1>2. IInv /\ ReadSoFar /\ [Next]_vars => ReadSoFar'
    BY NextRead
  <1>3. ReadSoFar => TodReadWhole
    BY DEF ReadSoFar, Record, TodReadWhole
  <1> QED  BY TimersInvariant, <1>1, <1>2, <1>3, PTL DEF Spec
=============================================================================
