----------------------------- MODULE UadePaula -----------------------------
(***************************************************************************)
(* One of Paula's audio channels: the state machine of audio.c, which      *)
(* plays words, and the fetches of hsync_handler() in custom.c, which read *)
(* them from memory.  A word is named by its address, counted in words;    *)
(* memory does not change.  update_audio() lets the state machine catch up *)
(* with the cycles passed: at every line, and when the program writes an   *)
(* audio register, but not when it writes INTREQ.                          *)
(***************************************************************************)
EXTENDS Integers

CONSTANTS
  Line,        (* maxhpos: cycles in a line                                *)
  WordMod,     (* values of a 16-bit word                                  *)
  Periods,     (* values written to AUDxPER                                *)
  Lengths,     (* values written to AUDxLEN                                *)
  Highs,       (* values written to AUDxLCH, AUDxLCL                       *)
  Lows

(* A word has more than one value, or its count would never be one.         *)
ASSUME PaulaAssumption ==
  /\ Line \in Nat \ {0} /\ WordMod \in Nat \ {0, 1} /\ Periods \subseteq 1..WordMod - 1
  /\ Lengths \cup Highs \cup Lows \subseteq 0..WordMod - 1

VARIABLES
  aud,         (* audio_channel[nr]                                        *)
  attach,      (* bits of adkcon: which of the next channel's registers    *)
               (*   the words go to                                        *)
  late,        (* cycles - last_audio_cycles                               *)
  heard        (* history: the word due next                               *)

paulaVars == <<aud, attach, late, heard>>

Words(len) == IF len = 0 THEN WordMod ELSE len

(* Mutant: a length of zero is not taken for the longest.                   *)
LessOne(wlen) == wlen - 1

Less(wlen) == (wlen - 1) % WordMod

Address == 0..WordMod * WordMod - 1
Following(pt) == (pt + 1) % (WordMod * WordMod)

Buffer(lc, len) == [at |-> lc, left |-> Words(len)]
Unknown == [at |-> -1, left |-> 0]

(* What is to be heard: the buffer being played, the one that follows it,   *)
(* whether the first one is short, whether an interrupt was left over from  *)
(* before, and whether a word or an interrupt has come out of turn.         *)
Silent == [buf |-> Unknown, then |-> Unknown, short |-> FALSE, stale |-> FALSE,
           disorder |-> FALSE, mistimed |-> FALSE]

ResetAudio == [state |-> 0, evtime |-> 0, data_written |-> FALSE, intreq2 |-> FALSE,
               dmaen |-> FALSE, pt |-> 0, wlen |-> 0, lc |-> 0, len |-> 0,
               per |-> WordMod - 1, nextdat |-> 0]

Plain == "volume" \in attach \/ attach = {}      (* napnav                  *)

-----------------------------------------------------------------------------
(* A word is taken to be played.  If the last one taken has not been        *)
(* followed by a fetch, it is the same again.                               *)
Advanced(h) ==
  IF h.buf.left = 1 THEN [h EXCEPT !.buf = h.then, !.short = FALSE, !.stale = FALSE]
  ELSE [h EXCEPT !.buf.left = @ - 1, !.buf.at = IF h.short THEN @ ELSE Following(@)]

Heard(h, a, rings) ==
  IF h.buf = Unknown \/ a.data_written THEN h
  ELSE [Advanced(h) EXCEPT
         !.disorder = @ \/ a.nextdat # h.buf.at,
         !.mistimed = @ \/ (Plain /\ rings # (h.buf.left = 1) /\ ~h.stale)]

(* Words of a channel are not followed after it took one without DMA, or    *)
(* was stopped, or its attachments changed while it played.                 *)
Unheard(h) ==
  [h EXCEPT !.buf = Unknown, !.then = Unknown, !.short = FALSE, !.stale = FALSE]

(* audio_handler(), for a channel a, with its bit of INTREQ set or not: the *)
(* channel, whether it asks for its interrupt, and what was heard.          *)
Result(a, asks, h) == [aud |-> a, asks |-> asks, heard |-> h]

FirstFetch(a, h) ==
  Result([a EXCEPT !.evtime = Line, !.state = 5, !.nextdat = a.pt,
                   !.wlen = IF @ # 1 THEN Less(@) ELSE @], TRUE, h)

(* Mutant: the first word is played without a fetch of the next.            *)
FirstWordUnfetched(a, h) ==
  Result([a EXCEPT !.evtime = a.per, !.state = 2],
         FALSE, IF Plain THEN Heard(h, a, FALSE) ELSE h)

FirstWord(a, h) ==
  Result([a EXCEPT !.evtime = a.per, !.state = 2,
                   !.data_written = @ \/ Plain],
         FALSE, IF Plain THEN Heard(h, a, FALSE) ELSE h)

(* From the high byte of a word to the low byte.                            *)
LowByte(a, h) ==
  LET b == [a EXCEPT !.evtime = a.per, !.state = 3]
      rings == a.intreq2 /\ a.dmaen
  IN  IF "period" \notin attach THEN Result(b, FALSE, h)
      ELSE Result([b EXCEPT !.intreq2 = FALSE, !.data_written = @ \/ a.dmaen],
                  rings, IF a.dmaen THEN Heard(h, a, rings) ELSE Unheard(h))

(* What is heard of the next word.                                          *)
HeardNext(h, a, rings) ==
  CASE ~a.dmaen -> Unheard(h)
    [] a.dmaen /\ Plain -> Heard(h, a, rings)
    [] OTHER -> h

(* Mutant: the interrupt of the end of the buffer stays pending.            *)
HighByteRingsOn(a, irq, h) ==
  LET rings == Plain /\ (a.intreq2 \/ ~a.dmaen) IN
  IF irq /\ ~a.dmaen THEN Result([a EXCEPT !.evtime = a.per, !.state = 0], FALSE, Unheard(h))
  ELSE Result([a EXCEPT !.evtime = a.per, !.state = 2,
                        !.data_written = @ \/ (a.dmaen /\ Plain)],
              rings, HeardNext(h, a, rings))

(* Mutant: without DMA no interrupt is asked for.                           *)
HighByteAsksNot(a, irq, h) ==
  LET rings == Plain /\ a.intreq2 /\ a.dmaen IN
  IF irq /\ ~a.dmaen THEN Result([a EXCEPT !.evtime = a.per, !.state = 0], FALSE, Unheard(h))
  ELSE Result([a EXCEPT !.evtime = a.per, !.state = 2, !.intreq2 = FALSE,
                        !.data_written = @ \/ (a.dmaen /\ Plain)],
              rings, HeardNext(h, a, rings))

(* From the low byte to the next word; without DMA the channel stops once   *)
(* an interrupt has gone unanswered.                                        *)
HighByte(a, irq, h) ==
  LET rings == Plain /\ (a.intreq2 \/ ~a.dmaen) IN
  IF irq /\ ~a.dmaen THEN Result([a EXCEPT !.evtime = a.per, !.state = 0], FALSE, Unheard(h))
  ELSE Result([a EXCEPT !.evtime = a.per, !.state = 2, !.intreq2 = FALSE,
                        !.data_written = @ \/ (a.dmaen /\ Plain)],
              rings, HeardNext(h, a, rings))

audio_handler(a, irq, h) == CASE a.state = 1 -> FirstFetch(a, h)
                              [] a.state = 5 -> FirstWord(a, h)
                              [] a.state = 2 -> LowByte(a, h)
                              [] a.state = 3 -> HighByte(a, irq, h)

(* update_audio(): one cycle, and n of them, irq being the bit of INTREQ    *)
(* before.                                                                  *)
AudioCycle(r, irq) ==
  CASE r.aud.state = 0 -> [r EXCEPT !.aud.evtime = 0]
    [] r.aud.state # 0 /\ r.aud.evtime # 1 -> [r EXCEPT !.aud.evtime = @ - 1]
    [] OTHER -> [audio_handler(r.aud, irq \/ r.asks, r.heard) EXCEPT !.asks = @ \/ r.asks]

UpdatedAudio(n, irq) ==
  LET after[k \in 0..n] ==
        IF k = 0 THEN Result(aud, FALSE, heard)
        ELSE CHOOSE s \in {AudioCycle(r, irq) : r \in {after[k - 1]}} : TRUE
  IN  after[n]

-----------------------------------------------------------------------------
(* Registers.  Each brings the channel up to date first; with says what the *)
(* write makes of it.                                                       *)
AUDxLCH(a, v) == [a EXCEPT !.lc = v * WordMod + (@ % WordMod)]
AUDxLCL(a, v) == [a EXCEPT !.lc = (@ \div WordMod) * WordMod + v]
AUDxLEN(a, v) == [a EXCEPT !.len = v]
AUDxPER(a, v) == [a EXCEPT !.per = v]

PaulaWrites(a) == {AUDxLCH(a, v) : v \in Highs} \cup {AUDxLCL(a, v) : v \in Lows} \cup
                  {AUDxLEN(a, v) : v \in Lengths} \cup {AUDxPER(a, v) : v \in Periods}

(* An idle channel plays the word, if its interrupt has been acknowledged.  *)
AUDxDATStarts(a, irq) == a.state = 0 /\ ~irq
AUDxDAT(a, irq) ==
  IF AUDxDATStarts(a, irq) THEN [a EXCEPT !.state = 2, !.evtime = a.per] ELSE a

(* Mutant: DMA turned off forgets the fetch that is to come.                *)
DMACONForgets(a, on, line) ==
  CASE on /\ a.state = 0 ->
         [a EXCEPT !.dmaen = TRUE, !.state = 1, !.pt = a.lc, !.wlen = a.len,
                   !.data_written = TRUE, !.evtime = line]
    [] ~on /\ a.state \in {1, 5} -> [a EXCEPT !.dmaen = FALSE, !.state = 0]
    [] OTHER -> [a EXCEPT !.dmaen = on, !.data_written = @ /\ on]

(* DMACON(), line being the cycles to the next line.                        *)
DMACON(a, on, line) ==
  CASE on /\ a.state = 0 ->
         [a EXCEPT !.dmaen = TRUE, !.state = 1, !.pt = a.lc, !.wlen = a.len,
                   !.data_written = TRUE, !.evtime = line]
    [] ~on /\ a.state \in {1, 5} -> [a EXCEPT !.dmaen = FALSE, !.state = 0]
    [] OTHER -> [a EXCEPT !.dmaen = on]

(* A buffer of one or two words that DMA starts with is played as its first *)
(* word twice: the count is taken down before the first fetch moves on.     *)
HeardStart(a, h) ==
  LET short == Words(a.len) \in {1, 2} IN
  [h EXCEPT !.buf = IF short THEN [at |-> a.lc, left |-> 2] ELSE Buffer(a.lc, a.len),
            !.then = Unknown, !.short = short, !.stale = a.intreq2]

(* DMA that is turned off and on again before the next word is taken makes  *)
(* no difference to a channel that plays.                                   *)
HeardDMACON(a, on, h) == CASE on /\ a.state = 0 -> HeardStart(a, h)
                           [] ~on /\ a.state \in {1, 5} -> Unheard(h)
                           [] OTHER -> h

-----------------------------------------------------------------------------
(* The fetch at the beginning of a line, in hsync_handler().  With the last *)
(* word of a buffer the registers are read for the next.                    *)
Fetched(a) ==
  LET playing == a.state \in {2, 3}
      last == a.wlen = 1
  IN
  IF ~a.data_written THEN a
  ELSE [a EXCEPT !.data_written = FALSE, !.nextdat = a.pt,
                 !.pt = CASE ~last -> Following(@) [] last /\ playing -> a.lc [] OTHER -> @,
                 !.wlen = CASE last /\ playing -> a.len [] ~last /\ playing -> Less(@) [] OTHER -> @,
                 !.intreq2 = @ \/ (last /\ playing)]

HeardFetch(a, h) ==
  IF a.data_written /\ a.state \in {2, 3} /\ a.wlen = 1 /\ h.buf # Unknown
  THEN [h EXCEPT !.then = Buffer(a.lc, a.len)] ELSE h

-----------------------------------------------------------------------------
(* From the start of DMA until a word is taken without it, the words of a   *)
(* buffer are played in their order, none left out and none twice but for   *)
(* want of a fetch, and then those of the buffer whose registers were read  *)
(* at its end, whatever the program writes to the registers, also if it     *)
(* turns DMA off and on between two words, and whenever lines and periods   *)
(* fall together.                                                           *)
PlayedInOrder == ~heard.disorder

(* The interrupt comes with the last word of each buffer, and no other,     *)
(* unless one was left over when the channel stopped, or the words go to    *)
(* the next channel's period alone, where it comes by chance or not at all. *)
InterruptAtEnd == ~heard.mistimed
=============================================================================
