------------------------- MODULE UadePaulaProofs --------------------------
(***************************************************************************)
(* Proofs about the audio channel of UadeChips, for any line, word, period *)
(* and length and any program: the words of the buffers are played in      *)
(* their order and the interrupt comes with the last of each.  They need   *)
(* what update_audio() does over any number of cycles, by induction.       *)
(***************************************************************************)
EXTENDS UadeChipsProofs, WellFoundedInduction

-----------------------------------------------------------------------------
(* Induction over a set of numbers, from the order of the numbers being     *)
(* well-founded.                                                            *)
Earlier == {pair \in Nat \X Nat : pair[1] < pair[2]}

LEMMA Least ==
  ASSUME NEW T \in SUBSET Nat, T # {}
  PROVE  \E m \in T : \A n \in T : ~(n < m)
  <1>1. IsWellFoundedOn(Earlier, Nat)
    BY NatLessThanWellFounded DEF OpToRel, Earlier
  <1>2. \E m \in T : \A n \in T : <<n, m>> \notin Earlier
    BY <1>1, WFMin
  <1>3. \A m, n \in Nat : n < m => <<n, m>> \in Earlier
    BY DEF Earlier
  <1> QED  BY <1>2, <1>3

LEMMA Induction ==
  ASSUME NEW S, 0 \in S, \A n \in Nat : n \in S => n + 1 \in S
  PROVE  Nat \subseteq S
  <1> SUFFICES ASSUME Nat \ S # {} PROVE FALSE
    OBVIOUS
  <1>1. PICK m \in Nat \ S : \A n \in Nat \ S : ~(n < m)
    BY Least
  <1>2. m - 1 \in Nat /\ (m - 1) + 1 = m
    BY <1>1
  <1>3. m - 1 \in S
    BY <1>1, <1>2
  <1> QED  BY <1>1, <1>2, <1>3

-----------------------------------------------------------------------------
(* update_audio(): its function of the cycles exists, and gives what one    *)
(* cycle after the other gives.                                             *)
Chosen(r, irq) == CHOOSE s \in {AudioCycle(q, irq) : q \in {r}} : TRUE
Start == Result(aud, FALSE, heard)
After(g, n, irq) == g = [k \in 0..n |-> IF k = 0 THEN Start ELSE Chosen(g[k - 1], irq)]

LEMMA OnlyChoice ==
  ASSUME NEW r, NEW irq
  PROVE  Chosen(r, irq) = AudioCycle(r, irq)
  <1>1. {AudioCycle(q, irq) : q \in {r}} = {AudioCycle(r, irq)}
    OBVIOUS
  <1> QED  BY <1>1 DEF Chosen

LEMMA AfterExists ==
  ASSUME NEW irq
  PROVE  \A n \in Nat : \E g : After(g, n, irq)
  <1> DEFINE S == {n \in Nat : \E g : After(g, n, irq)}
  <1>1. 0 \in S
    <2>1. After([k \in 0..0 |-> Start], 0, irq)
      BY DEF After
    <2> QED  BY <2>1
  <1>2. ASSUME NEW n \in Nat, n \in S PROVE n + 1 \in S
    <2>1. PICK g : After(g, n, irq)
      BY <1>2
    <2> DEFINE one == Chosen(g[n], irq)
               f == [k \in 0..n + 1 |-> IF k <= n THEN g[k] ELSE one]
    <2>2. ASSUME NEW k \in 0..n + 1
          PROVE  f[k] = IF k = 0 THEN Start ELSE Chosen(f[k - 1], irq)
      <3>1. CASE k = 0
        BY <2>1, <3>1 DEF After
      <3>2. CASE k \in 1..n
        <4>1. f[k] = g[k] /\ f[k - 1] = g[k - 1]
          BY <3>2
        <4>2. g[k] = Chosen(g[k - 1], irq)
          BY <2>1, <3>2 DEF After
        <4> QED  BY <3>2, <4>1, <4>2
      <3>3. CASE k = n + 1
        <4>1. f[k] = one /\ f[k - 1] = g[n]
          BY <3>3
        <4> QED  BY <3>3, <4>1
      <3> QED  BY <3>1, <3>2, <3>3
    <2>3. f = [k \in 0..n + 1 |-> IF k = 0 THEN Start ELSE Chosen(f[k - 1], irq)]
      <3> DEFINE h == [k \in 0..n + 1 |-> IF k = 0 THEN Start ELSE Chosen(f[k - 1], irq)]
      <3>1. \A k \in 0..n + 1 : f[k] = h[k]
        BY <2>2
      <3>2. f = [k \in 0..n + 1 |-> f[k]] /\ h = [k \in 0..n + 1 |-> h[k]]
        OBVIOUS
      <3> HIDE DEF f, h
      <3>3. f = h
        BY <3>1, <3>2
      <3> QED  BY <3>3 DEF h
    <2> HIDE DEF f
    <2>4. After(f, n + 1, irq)
      BY <2>3 DEF After
    <2> QED  BY <2>4
  <1>3. Nat \subseteq S
    <2> HIDE DEF S
    <2> QED  BY <1>1, <1>2, Induction
  <1> QED  BY <1>3

LEMMA Cycles ==
  ASSUME NEW n \in Nat, NEW irq
  PROVE  \E g : /\ g[0] = Start
                /\ \A k \in 1..n : g[k] = AudioCycle(g[k - 1], irq)
                /\ UpdatedAudio(n, irq) = g[n]
  <1>1. \E g : After(g, n, irq)
    BY AfterExists
  <1>2. UpdatedAudio(n, irq) = (CHOOSE g : After(g, n, irq))[n]
    BY DEF UpdatedAudio, After, Chosen, Start
  <1>3. PICK g : After(g, n, irq) /\ UpdatedAudio(n, irq) = g[n]
    BY <1>1, <1>2
  <1>4. g[0] = Start
    BY <1>3 DEF After
  <1>5. ASSUME NEW k \in 1..n PROVE g[k] = AudioCycle(g[k - 1], irq)
    <2>1. k \in 0..n /\ k # 0
      OBVIOUS
    <2>2. g[k] = Chosen(g[k - 1], irq)
      BY <1>3, <2>1 DEF After
    <2> QED  BY <2>2, OnlyChoice
  <1> QED  BY <1>3, <1>4, <1>5

-----------------------------------------------------------------------------
(* The channel, what is heard of it, and what update_audio() returns.       *)
Channel == [state : {0, 1, 2, 3, 5}, evtime : Nat, data_written : BOOLEAN, intreq2 : BOOLEAN,
            dmaen : BOOLEAN, pt : Int, wlen : 0..WordMod - 1, lc : Int, len : 0..WordMod - 1,
            per : 1..WordMod - 1, nextdat : Int]
Stretch == [at : Int, left : Nat]
Hearing == [buf : Stretch, then : Stretch, short : BOOLEAN, stale : BOOLEAN,
            disorder : BOOLEAN, mistimed : BOOLEAN]
Outcome == [aud : Channel, asks : BOOLEAN, heard : Hearing]

(* A buffer DMA has started with, no word of which is fetched.              *)
Opening(a, h) ==
  /\ a.data_written /\ a.pt = h.buf.at
  /\ h.short => Words(a.wlen) \in {1, 2} /\ h.buf.left = 2
  /\ ~h.short => Words(a.wlen) = h.buf.left /\ h.buf.left >= 3

(* Its first word, at the end of the line, while its fetch is under way.    *)
Begun(a, h) ==
  /\ a.data_written /\ a.nextdat = a.pt /\ a.pt = h.buf.at
  /\ h.short => a.wlen = 1 /\ h.buf.left = 2
  /\ ~h.short => Words(a.wlen) = h.buf.left - 1 /\ h.buf.left >= 3

(* The word due is fetched.  Behind the last word of a buffer the pointer   *)
(* and the count are those of the next buffer; otherwise they are one word  *)
(* ahead, but for the first word of a short buffer.                         *)
Ready(a, h, plain) ==
  /\ ~a.data_written /\ a.nextdat = h.buf.at
  /\ h.buf.left = 1 => h.then = Buffer(a.pt, a.wlen)
  /\ h.buf.left # 1 /\ h.short =>
       h.buf.left = 2 /\ a.wlen = 1 /\ a.pt = h.buf.at /\ (a.state = 5 \/ ~plain)
  /\ h.buf.left # 1 /\ ~h.short =>
       Words(a.wlen) = h.buf.left - 1 /\ a.pt = Following(h.buf.at)

(* The word due is not fetched: the last one is still being played.         *)
Awaited(a, h) ==
  /\ a.data_written /\ a.pt = h.buf.at /\ Words(a.wlen) = h.buf.left
  /\ h.short => h.buf.left = 1

(* How the channel and what is heard of it agree, t cycles before the end   *)
(* of the line.                                                             *)
Phase(a, h, t, plain) ==
  /\ a.state = 1 => Opening(a, h)
  /\ a.state = 5 /\ a.data_written => t = 0 /\ Begun(a, h)
  /\ a.state = 5 /\ ~a.data_written => Ready(a, h, plain) /\ h.buf.left # 1
  /\ a.state \in {2, 3} => Ready(a, h, plain) \/ Awaited(a, h)

(* The flag for the interrupt is up while the last word of a buffer is due. *)
Ending(a, h) == a.state \in {2, 3} /\ ~a.data_written /\ h.buf.left = 1

Agrees(a, h, t, plain) ==
  /\ a.state # 0 /\ h.buf.left # 0
  /\ Phase(a, h, t, plain)
  /\ plain /\ ~h.stale => (a.intreq2 <=> Ending(a, h))

Followed(a, h, t, plain) ==
  /\ a \in Channel /\ h \in Hearing
  /\ a.state # 0 => a.evtime # 0
  /\ a.state = 1 => a.evtime = t
  /\ ~h.disorder /\ ~h.mistimed
  /\ h.buf # Unknown => Agrees(a, h, t, plain)

(* The invariant: late cycles have passed since update_audio().             *)
AInv ==
  /\ late \in Nat /\ line \in Nat \ {0} /\ late + line <= Line
  /\ Followed(aud, heard, late + line, Plain)

LEMMA WordsOf ==
  ASSUME NEW n \in 0..WordMod - 1
  PROVE  /\ Words(n) \in Nat \ {0} /\ Less(n) \in 0..WordMod - 1
         /\ Words(n) = 1 <=> n = 1
         /\ Words(n) # 1 => Words(Less(n)) = Words(n) - 1
  <1>1. WordMod \in Nat /\ WordMod >= 2
    BY PaulaAssumption
  <1>2. CASE n = 0
    <2>1. (0 - 1) % WordMod = WordMod - 1
      BY <1>1
    <2> QED  BY <1>1, <1>2, <2>1 DEF Words, Less
  <1>3. CASE n # 0
    <2>1. (n - 1) % WordMod = n - 1
      BY <1>1, <1>3
    <2> QED  BY <1>1, <1>3, <2>1 DEF Words, Less
  <1> QED  BY <1>2, <1>3

LEMMA FollowingType == ASSUME NEW n \in Int PROVE Following(n) \in Int
  <1>1. WordMod \in Nat \ {0}
    BY PaulaAssumption
  <1>2. WordMod * WordMod \in Nat \ {0}
    BY <1>1
  <1> QED  BY <1>2 DEF Following

LEMMA BufferType ==
  ASSUME NEW n \in Int, NEW len \in 0..WordMod - 1
  PROVE  /\ Buffer(n, len) \in Stretch /\ Buffer(n, len) # Unknown
         /\ Buffer(n, len).at = n /\ Buffer(n, len).left = Words(len)
         /\ Buffer(n, len).left # 0
  BY WordsOf DEF Buffer, Stretch, Unknown

LEMMA Rewritten ==
  ASSUME NEW s \in Stretch, NEW left, NEW at
  PROVE  [s EXCEPT !.left = left, !.at = at] = [at |-> at, left |-> left]
  <1>1. s = [at |-> s.at, left |-> s.left]
    BY DEF Stretch
  <1>2. [s EXCEPT !.left = left] = [at |-> s.at, left |-> left]
    BY <1>1
  <1>3. [[at |-> s.at, left |-> left] EXCEPT !.at = at] = [at |-> at, left |-> left]
    OBVIOUS
  <1>4. [s EXCEPT !.left = left, !.at = at] = [[s EXCEPT !.left = left] EXCEPT !.at = at]
    OBVIOUS
  <1> QED  BY <1>2, <1>3, <1>4

(* A word is taken: the next is awaited.                                    *)
Taken(a, h, g) ==
  /\ g \in Hearing /\ ~g.disorder /\ ~g.mistimed /\ g.buf # Unknown /\ g.buf.left # 0
  /\ a.pt = g.buf.at /\ Words(a.wlen) = g.buf.left
  /\ g.short => g.buf.left = 1
  /\ ~g.stale => ~h.stale \/ h.buf.left = 1

LEMMA HeardKept ==
  ASSUME NEW a \in Channel, NEW h \in Hearing, NEW rings \in BOOLEAN,
         NEW plain \in BOOLEAN, plain = Plain, Ready(a, h, plain),
         h.buf # Unknown, h.buf.left # 0, ~h.disorder, ~h.mistimed,
         plain /\ ~h.stale => rings = (h.buf.left = 1)
  PROVE  Taken(a, h, Heard(h, a, rings))
  <1> DEFINE adv == Advanced(h)
             new == [adv EXCEPT
                      !.disorder = @ \/ a.nextdat # h.buf.at,
                      !.mistimed = @ \/ (Plain /\ rings # (h.buf.left = 1) /\ ~h.stale)]
  <1>1. Heard(h, a, rings) = new
    BY DEF Heard, Ready
  <1>2. /\ h.buf.at \in Int /\ h.buf.left \in Nat \ {0} /\ a.pt \in Int /\ a.wlen \in 0..WordMod - 1
        /\ h.buf \in Stretch /\ h.then \in Stretch /\ h.short \in BOOLEAN /\ h.stale \in BOOLEAN
        /\ Following(h.buf.at) \in Int
    BY FollowingType DEF Hearing, Stretch, Channel
  <1>3. CASE h.buf.left = 1
    <2>1. adv = [h EXCEPT !.buf = h.then, !.short = FALSE, !.stale = FALSE]
      BY <1>3 DEF Advanced
    <2>2. h.then = Buffer(a.pt, a.wlen)
      BY <1>3 DEF Ready
    <2>3. /\ adv \in Hearing /\ adv.disorder = h.disorder /\ adv.mistimed = h.mistimed
          /\ adv.buf = Buffer(a.pt, a.wlen) /\ adv.short = FALSE
      BY <1>2, <2>1, <2>2 DEF Hearing
    <2> HIDE DEF adv
    <2>4. new \in Hearing
      BY <2>3 DEF Hearing
    <2>5. /\ new.buf = adv.buf /\ new.short = adv.short
          /\ new.disorder = (adv.disorder \/ a.nextdat # h.buf.at)
          /\ new.mistimed = (adv.mistimed \/ (Plain /\ rings # (h.buf.left = 1) /\ ~h.stale))
      BY <2>3 DEF Hearing
    <2>6. a.nextdat = h.buf.at
      BY DEF Ready
    <2>7. ~new.disorder
      BY <2>3, <2>5, <2>6
    <2>8. ~new.mistimed
      BY <1>3, <2>3, <2>5
    <2> HIDE DEF new
    <2> QED  BY <1>1, <1>2, <1>3, <2>3, <2>4, <2>5, <2>7, <2>8, BufferType DEF Taken
  <1>4. CASE h.buf.left # 1
    <2>1. adv = [h EXCEPT !.buf.left = @ - 1,
                          !.buf.at = IF h.short THEN @ ELSE Following(@)]
      BY <1>4 DEF Advanced
    <2>2. h.buf.left - 1 \in Nat \ {0}
      BY <1>2, <1>4
    <2>3. /\ adv \in Hearing /\ adv.disorder = h.disorder /\ adv.mistimed = h.mistimed
          /\ adv.short = h.short /\ adv.stale = h.stale
          /\ adv.buf.left = h.buf.left - 1
          /\ adv.buf.at = IF h.short THEN h.buf.at ELSE Following(h.buf.at)
      <3> DEFINE at == IF h.short THEN h.buf.at ELSE Following(h.buf.at)
                 b == [at |-> at, left |-> h.buf.left - 1]
      <3>1. h.buf = [at |-> h.buf.at, left |-> h.buf.left] /\ at \in Int
        BY <1>2 DEF Stretch
      <3>2. adv = [h EXCEPT !.buf = b]
        <4>1. [h.buf EXCEPT !.left = @ - 1, !.at = at] = b
          <5> HIDE DEF at
          <5> QED  BY <1>2, Rewritten
        <4>2. adv = [h EXCEPT !.buf = [h.buf EXCEPT !.left = @ - 1, !.at = at]]
          BY <2>1 DEF Hearing
        <4> QED  BY <4>1, <4>2
      <3>3. b \in Stretch /\ b.at = at /\ b.left = h.buf.left - 1
        BY <2>2, <3>1 DEF Stretch
      <3> HIDE DEF b, adv
      <3>4. /\ adv \in Hearing /\ adv.disorder = h.disorder /\ adv.mistimed = h.mistimed
            /\ adv.short = h.short /\ adv.stale = h.stale /\ adv.buf = b
        BY <1>2, <3>2, <3>3 DEF Hearing
      <3> QED  BY <3>3, <3>4
    <2> HIDE DEF adv
    <2>4. new \in Hearing
      BY <2>3 DEF Hearing
    <2>5. /\ new.buf = adv.buf /\ new.short = adv.short /\ new.stale = adv.stale
          /\ new.disorder = (adv.disorder \/ a.nextdat # h.buf.at)
          /\ new.mistimed = (adv.mistimed \/ (Plain /\ rings # (h.buf.left = 1) /\ ~h.stale))
      BY <2>3 DEF Hearing
    <2>6. a.nextdat = h.buf.at
      BY DEF Ready
    <2>7. ~new.disorder
      BY <2>3, <2>5, <2>6
    <2>8. ~new.mistimed
      BY <1>4, <2>3, <2>5
    <2>9. a.pt = new.buf.at /\ Words(a.wlen) = new.buf.left /\ (new.short => new.buf.left = 1)
      <3>1. CASE h.short
        <4>1. a.wlen = 1 /\ h.buf.left = 2 /\ a.pt = h.buf.at
          BY <1>4, <3>1 DEF Ready
        <4>2. Words(a.wlen) = 1
          BY <1>2, <4>1, WordsOf
        <4> QED  BY <2>3, <2>5, <3>1, <4>1, <4>2
      <3>2. CASE ~h.short
        BY <1>4, <2>3, <2>5, <3>2 DEF Ready
      <3> QED  BY <3>1, <3>2
    <2>10. new.buf # Unknown /\ new.buf.left # 0
      <3> HIDE DEF new
      <3>1. new.buf.left = h.buf.left - 1
        BY <2>3, <2>5
      <3>2. Unknown.left = 0
        BY DEF Unknown
      <3> QED  BY <2>2, <3>1, <3>2
    <2> HIDE DEF new
    <2> QED  BY <1>1, <2>3, <2>4, <2>5, <2>7, <2>8, <2>9, <2>10 DEF Taken
  <1> QED  BY <1>3, <1>4

-----------------------------------------------------------------------------
(* audio_handler(), state by state.                                         *)
LEMMA FirstFetchKept ==
  ASSUME NEW a \in Channel, NEW h \in Hearing, NEW t \in Nat \ {0}, NEW plain \in BOOLEAN,
         Followed(a, h, t, plain), a.state = 1, a.evtime = 1
  PROVE  /\ FirstFetch(a, h) \in Outcome
         /\ Followed(FirstFetch(a, h).aud, FirstFetch(a, h).heard, t - 1, plain)
  <1> DEFINE wlen == IF a.wlen # 1 THEN Less(a.wlen) ELSE a.wlen
             b == [a EXCEPT !.evtime = Line, !.state = 5, !.nextdat = a.pt, !.wlen = wlen]
  <1>1. FirstFetch(a, h) = [aud |-> b, asks |-> TRUE, heard |-> h]
    BY DEF FirstFetch, Result
  <1>2. a.wlen \in 0..WordMod - 1 /\ a.pt \in Int /\ Line \in Nat \ {0} /\ t = 1
    BY PaulaAssumption DEF Channel, Followed
  <1>3. wlen \in 0..WordMod - 1
    BY <1>2, WordsOf
  <1> HIDE DEF wlen
  <1>4. /\ b \in Channel /\ b.state = 5 /\ b.evtime = Line /\ b.nextdat = a.pt /\ b.pt = a.pt
        /\ b.wlen = wlen /\ b.data_written = a.data_written /\ b.intreq2 = a.intreq2
        /\ b.dmaen = a.dmaen
    BY <1>2, <1>3 DEF Channel
  <1> HIDE DEF b
  <1>5. ASSUME h.buf # Unknown PROVE Agrees(b, h, 0, plain)
    <2>1. Agrees(a, h, t, plain)
      BY <1>5 DEF Followed
    <2>2. Opening(a, h)
      BY <2>1 DEF Agrees, Phase
    <2>3. Words(a.wlen) = 1 => a.wlen = 1
      BY <1>2, WordsOf
    <2>4. a.wlen # 1 => Words(Less(a.wlen)) = Words(a.wlen) - 1 /\ Less(a.wlen) \in 0..WordMod - 1
      BY <1>2, <2>3, WordsOf
    <2>5. h.short => wlen = 1
      <3>1. CASE a.wlen = 1
        BY <3>1 DEF wlen
      <3>2. CASE a.wlen # 1 /\ h.short
        <4>1. Words(a.wlen) = 2
          BY <2>2, <2>3, <3>2 DEF Opening
        <4>2. Words(Less(a.wlen)) = 1
          BY <2>4, <3>2, <4>1
        <4>3. Less(a.wlen) = 1
          BY <2>4, <3>2, <4>2, WordsOf
        <4> QED  BY <3>2, <4>3 DEF wlen
      <3> QED  BY <3>1, <3>2
    <2>6. ~h.short => Words(wlen) = h.buf.left - 1
      <3> SUFFICES ASSUME ~h.short PROVE Words(wlen) = h.buf.left - 1
        OBVIOUS
      <3>1. Words(a.wlen) = h.buf.left /\ h.buf.left >= 3
        BY <2>2 DEF Opening
      <3>2. Words(1) = 1
        BY DEF Words
      <3>3. a.wlen # 1
        BY <3>1, <3>2
      <3> QED  BY <2>4, <3>1, <3>3 DEF wlen
    <2>7. Begun(b, h)
      BY <1>4, <2>2, <2>5, <2>6 DEF Begun, Opening
    <2>8. Phase(b, h, 0, plain)
      BY <1>4, <2>2, <2>7 DEF Phase, Opening
    <2> QED  BY <1>4, <2>1, <2>8 DEF Agrees, Ending
  <1>6. Followed(b, h, t - 1, plain)
    <2>1. t - 1 = 0
      BY <1>2
    <2> QED  BY <1>2, <1>4, <1>5, <2>1 DEF Followed
  <1>7. FirstFetch(a, h) \in Outcome
    BY <1>1, <1>4 DEF Outcome
  <1> QED  BY <1>1, <1>6, <1>7

(* A channel in its next state, with the words taken or not.                *)
LEMMA Silence ==
  ASSUME NEW a \in Channel, NEW h \in Hearing, NEW t, NEW plain,
         a.state # 1, a.state # 0 => a.evtime # 0, h.buf = Unknown, ~h.disorder, ~h.mistimed
  PROVE  Followed(a, h, t, plain)
  BY DEF Followed

LEMMA FirstWordKept ==
  ASSUME NEW a \in Channel, NEW h \in Hearing, NEW t \in Nat \ {0}, NEW plain \in BOOLEAN,
         plain = Plain, Followed(a, h, t, plain), a.state = 5
  PROVE  /\ FirstWord(a, h) \in Outcome
         /\ Followed(FirstWord(a, h).aud, FirstWord(a, h).heard, t - 1, plain)
  <1> DEFINE b == [a EXCEPT !.evtime = a.per, !.state = 2, !.data_written = @ \/ Plain]
             g == IF Plain THEN Heard(h, a, FALSE) ELSE h
  <1>1. FirstWord(a, h) = [aud |-> b, asks |-> FALSE, heard |-> g]
    BY DEF FirstWord, Result
  <1>2. a.data_written \in BOOLEAN /\ a.per \in Nat \ {0} /\ a.intreq2 \in BOOLEAN
    BY PaulaAssumption DEF Channel
  <1>3. /\ b \in Channel /\ b.state = 2 /\ b.evtime = a.per /\ b.nextdat = a.nextdat /\ b.pt = a.pt
        /\ b.wlen = a.wlen /\ b.data_written = (a.data_written \/ plain)
        /\ b.intreq2 = a.intreq2 /\ b.dmaen = a.dmaen
    BY <1>2 DEF Channel
  <1> HIDE DEF b
  <1>4. CASE h.buf = Unknown
    <2>1. g = h
      BY <1>4 DEF Heard
    <2> HIDE DEF g
    <2>2. Followed(b, g, t - 1, plain)
      BY <1>2, <1>3, <1>4, <2>1, Silence DEF Followed
    <2> QED  BY <1>1, <1>3, <2>1, <2>2 DEF Outcome
  <1>5. CASE h.buf # Unknown
    <2>1. Agrees(a, h, t, plain)
      BY <1>5 DEF Followed
    <2>2. ~a.data_written /\ Ready(a, h, plain) /\ h.buf.left # 1 /\ h.buf.left # 0
      BY <1>2, <2>1 DEF Agrees, Phase
    <2>3. CASE plain
      <3>1. Taken(a, h, g)
        <4>1. PICK rings \in BOOLEAN : rings = FALSE
          OBVIOUS
        <4>2. g = Heard(h, a, rings)
          BY <2>3, <4>1
        <4>3. rings = (h.buf.left = 1)
          BY <2>2, <4>1
        <4>4. ~h.disorder /\ ~h.mistimed
          BY DEF Followed
        <4> HIDE DEF g
        <4> QED  BY <1>5, <2>2, <4>2, <4>3, <4>4, HeardKept
      <3> HIDE DEF g
      <3>2. Awaited(b, g)
        BY <1>3, <2>3, <3>1 DEF Awaited, Taken
      <3>3. Phase(b, g, t - 1, plain)
        BY <1>3, <3>2 DEF Phase
      <3>4. ~g.stale => ~a.intreq2
        BY <2>1, <2>2, <2>3, <3>1 DEF Agrees, Ending, Taken
      <3>5. Agrees(b, g, t - 1, plain)
        <4>1. ~Ending(b, g) /\ (~g.stale => ~b.intreq2) /\ b.state # 0
          <5>1. b.data_written
            BY <1>2, <1>3, <2>3
          <5>2. ~g.stale => ~b.intreq2
            BY <1>2, <1>3, <3>4
          <5> QED  BY <1>3, <2>1, <5>1, <5>2 DEF Agrees, Ending
        <4> QED  BY <3>1, <3>3, <4>1 DEF Agrees, Taken
      <3>6. Followed(b, g, t - 1, plain)
        BY <1>2, <1>3, <3>1, <3>5 DEF Followed, Taken
      <3> QED  BY <1>1, <1>3, <3>1, <3>6 DEF Outcome, Taken
    <2>4. CASE ~plain
      <3>1. g = h
        BY <2>4
      <3> HIDE DEF g
      <3>2. Ready(b, h, plain)
        BY <1>3, <2>2, <2>4 DEF Ready
      <3>3. Phase(b, h, t - 1, plain)
        BY <1>3, <3>2 DEF Phase
      <3>4. Agrees(b, h, t - 1, plain)
        BY <1>3, <2>1, <2>4, <3>3 DEF Agrees
      <3>5. Followed(b, h, t - 1, plain)
        BY <1>2, <1>3, <3>4 DEF Followed
      <3> QED  BY <1>1, <1>3, <3>1, <3>5 DEF Outcome
    <2> QED  BY <2>3, <2>4
  <1> QED  BY <1>4, <1>5

(* A channel that plays on, having taken a word or not.                     *)
LEMMA TakenKept ==
  ASSUME NEW a \in Channel, NEW h \in Hearing, NEW b \in Channel, NEW g, Taken(a, h, g),
         NEW t, NEW plain \in BOOLEAN,
         b.state \in {2, 3}, b.evtime # 0, b.data_written, b.pt = a.pt, b.wlen = a.wlen,
         plain /\ ~g.stale => ~b.intreq2
  PROVE  Followed(b, g, t, plain)
  <1>1. Awaited(b, g)
    BY DEF Awaited, Taken
  <1>2. Phase(b, g, t, plain)
    BY <1>1 DEF Phase
  <1>3. ~Ending(b, g) /\ b.state # 0 /\ b.state # 1
    BY DEF Ending
  <1>4. Agrees(b, g, t, plain)
    BY <1>2, <1>3 DEF Agrees, Taken
  <1> QED  BY <1>3, <1>4 DEF Followed, Taken

LEMMA NotTakenKept ==
  ASSUME NEW a \in Channel, NEW h \in Hearing, NEW b \in Channel, NEW t, NEW s,
         NEW plain \in BOOLEAN, Followed(a, h, t, plain), a.state \in {2, 3},
         b.state \in {2, 3}, b.evtime # 0, b.data_written = a.data_written, b.pt = a.pt,
         b.wlen = a.wlen, b.nextdat = a.nextdat,
         plain => b.intreq2 = a.intreq2
  PROVE  Followed(b, h, s, plain)
  <1>1. ASSUME h.buf # Unknown PROVE Agrees(b, h, s, plain)
    <2>1. Agrees(a, h, t, plain)
      BY <1>1 DEF Followed
    <2>2. Ready(a, h, plain) \/ Awaited(a, h)
      BY <2>1 DEF Agrees, Phase
    <2>3. Ready(a, h, plain) => Ready(b, h, plain)
      BY DEF Ready
    <2>4. Awaited(a, h) => Awaited(b, h)
      BY DEF Awaited
    <2>5. Phase(b, h, s, plain)
      BY <2>2, <2>3, <2>4 DEF Phase
    <2>6. Ending(b, h) <=> Ending(a, h)
      BY DEF Ending
    <2> QED  BY <2>1, <2>5, <2>6 DEF Agrees
  <1> QED  BY <1>1 DEF Followed

LEMMA HeardPlaying ==
  ASSUME NEW a \in Channel, NEW h \in Hearing, NEW t, NEW plain \in BOOLEAN, plain = Plain,
         Followed(a, h, t, plain), a.state \in {2, 3}, h.buf # Unknown, NEW rings \in BOOLEAN,
         plain => rings = a.intreq2
  PROVE  Taken(a, h, Heard(h, a, rings))
  <1>1. Agrees(a, h, t, plain) /\ ~h.disorder /\ ~h.mistimed
    BY DEF Followed
  <1>2. Ready(a, h, plain) \/ Awaited(a, h)
    BY <1>1 DEF Agrees, Phase
  <1>3. CASE Awaited(a, h)
    <2>1. Heard(h, a, rings) = h
      BY <1>3 DEF Heard, Awaited
    <2>2. Taken(a, h, h)
      BY <1>1, <1>3 DEF Taken, Awaited, Agrees
    <2> QED  BY <2>1, <2>2
  <1>4. CASE Ready(a, h, plain)
    <2>1. a.intreq2 \in BOOLEAN
      BY DEF Channel
    <2>2. Ending(a, h) <=> h.buf.left = 1
      BY <1>4 DEF Ending, Ready
    <2>3. plain /\ ~h.stale => rings = (h.buf.left = 1)
      BY <1>1, <2>1, <2>2 DEF Agrees
    <2> QED  BY <1>1, <1>4, <2>3, HeardKept DEF Agrees
  <1> QED  BY <1>2, <1>3, <1>4

(* What is not followed, and a channel whose words are not followed any     *)
(* more.                                                                    *)
LEMMA UnknownType ==
  ASSUME NEW h \in Hearing
  PROVE  /\ Unheard(h) \in Hearing /\ Unheard(h).buf = Unknown
         /\ Unheard(h).disorder = h.disorder /\ Unheard(h).mistimed = h.mistimed
  <1>1. Unknown \in Stretch
    BY DEF Unknown, Stretch
  <1> HIDE DEF Unknown
  <1> QED  BY <1>1 DEF Unheard, Hearing

LEMMA UnheardKept ==
  ASSUME NEW a, NEW h \in Hearing, NEW b \in Channel, NEW t, NEW s, NEW plain,
         Followed(a, h, t, plain), b.state # 1, b.state # 0 => b.evtime # 0
  PROVE  Unheard(h) \in Hearing /\ Followed(b, Unheard(h), s, plain)
  <1>1. ~h.disorder /\ ~h.mistimed
    BY DEF Followed
  <1> QED  BY <1>1, UnknownType, Silence

LEMMA LowByteKept ==
  ASSUME NEW a \in Channel, NEW h \in Hearing, NEW t \in Nat \ {0}, NEW plain \in BOOLEAN,
         plain = Plain, Followed(a, h, t, plain), a.state = 2
  PROVE  /\ LowByte(a, h) \in Outcome
         /\ Followed(LowByte(a, h).aud, LowByte(a, h).heard, t - 1, plain)
  <1>1. /\ a.data_written \in BOOLEAN /\ a.per \in Nat \ {0} /\ a.intreq2 \in BOOLEAN
        /\ a.dmaen \in BOOLEAN
    BY PaulaAssumption DEF Channel
  <1>2. CASE "period" \notin attach
    <2> DEFINE b == [a EXCEPT !.evtime = a.per, !.state = 3]
    <2>1. LowByte(a, h) = [aud |-> b, asks |-> FALSE, heard |-> h]
      BY <1>2 DEF LowByte, Result
    <2>2. /\ b \in Channel /\ b.state = 3 /\ b.evtime = a.per /\ b.nextdat = a.nextdat
          /\ b.pt = a.pt /\ b.wlen = a.wlen /\ b.data_written = a.data_written
          /\ b.intreq2 = a.intreq2 /\ b.dmaen = a.dmaen
      BY <1>1 DEF Channel
    <2> HIDE DEF b
    <2>3. Followed(b, h, t - 1, plain)
      BY <1>1, <2>2, NotTakenKept
    <2> QED  BY <2>1, <2>2, <2>3 DEF Outcome
  <1>3. CASE "period" \in attach
    <2> DEFINE rings == a.intreq2 /\ a.dmaen
               b == [a EXCEPT !.evtime = a.per, !.state = 3, !.intreq2 = FALSE,
                              !.data_written = @ \/ a.dmaen]
               g == IF a.dmaen THEN Heard(h, a, rings) ELSE Unheard(h)
    <2>1. LowByte(a, h) = [aud |-> b, asks |-> rings, heard |-> g]
      BY <1>3 DEF LowByte, Result
    <2>2. /\ b \in Channel /\ b.state = 3 /\ b.evtime = a.per /\ b.nextdat = a.nextdat
          /\ b.pt = a.pt /\ b.wlen = a.wlen /\ b.data_written = (a.data_written \/ a.dmaen)
          /\ b.intreq2 = FALSE /\ b.dmaen = a.dmaen
      BY <1>1 DEF Channel
    <2> HIDE DEF b
    <2>3. rings \in BOOLEAN
      BY <1>1
    <2>4. CASE ~a.dmaen
      <3>1. g = Unheard(h)
        BY <2>4
      <3> HIDE DEF g, rings
      <3>2. g \in Hearing /\ Followed(b, g, t - 1, plain)
        BY <1>1, <2>2, <3>1, UnheardKept
      <3> QED  BY <2>1, <2>2, <2>3, <3>2 DEF Outcome
    <2>5. CASE a.dmaen /\ h.buf = Unknown
      <3>1. g = h
        BY <2>5 DEF Heard
      <3> HIDE DEF g
      <3>2. Followed(b, g, t - 1, plain)
        BY <1>1, <2>2, <2>5, <3>1, Silence DEF Followed
      <3> HIDE DEF rings
      <3> QED  BY <2>1, <2>2, <2>3, <3>1, <3>2 DEF Outcome
    <2>6. CASE a.dmaen /\ h.buf # Unknown
      <3>1. rings = a.intreq2
        BY <1>1, <2>6
      <3>2. g = Heard(h, a, rings)
        BY <2>6
      <3> HIDE DEF rings, g
      <3>3. Taken(a, h, g)
        BY <2>3, <2>6, <3>1, <3>2, HeardPlaying
      <3>4. Followed(b, g, t - 1, plain)
        BY <1>1, <2>2, <2>6, <3>3, TakenKept
      <3> QED  BY <2>1, <2>2, <2>3, <3>3, <3>4 DEF Outcome, Taken
    <2> QED  BY <2>4, <2>5, <2>6
  <1> QED  BY <1>2, <1>3

LEMMA HighByteKept ==
  ASSUME NEW a \in Channel, NEW h \in Hearing, NEW t \in Nat \ {0}, NEW plain \in BOOLEAN,
         NEW irq \in BOOLEAN, plain = Plain, Followed(a, h, t, plain), a.state = 3
  PROVE  /\ HighByte(a, irq, h) \in Outcome
         /\ Followed(HighByte(a, irq, h).aud, HighByte(a, irq, h).heard, t - 1, plain)
  <1>1. /\ a.data_written \in BOOLEAN /\ a.per \in Nat \ {0} /\ a.intreq2 \in BOOLEAN
        /\ a.dmaen \in BOOLEAN
    BY PaulaAssumption DEF Channel
  <1>2. CASE irq /\ ~a.dmaen
    <2> DEFINE b == [a EXCEPT !.evtime = a.per, !.state = 0]
    <2>1. HighByte(a, irq, h) = [aud |-> b, asks |-> FALSE, heard |-> Unheard(h)]
      BY <1>2 DEF HighByte, Result
    <2>2. b \in Channel /\ b.state = 0
      BY <1>1 DEF Channel
    <2> HIDE DEF b
    <2>3. Unheard(h) \in Hearing /\ Followed(b, Unheard(h), t - 1, plain)
      BY <2>2, UnheardKept
    <2> QED  BY <2>1, <2>2, <2>3 DEF Outcome
  <1>3. CASE ~(irq /\ ~a.dmaen)
    <2> DEFINE rings == Plain /\ (a.intreq2 \/ ~a.dmaen)
               b == [a EXCEPT !.evtime = a.per, !.state = 2, !.intreq2 = FALSE,
                              !.data_written = @ \/ (a.dmaen /\ Plain)]
               g == HeardNext(h, a, rings)
    <2>1. HighByte(a, irq, h) = [aud |-> b, asks |-> rings, heard |-> g]
      BY <1>3 DEF HighByte, Result
    <2>2. /\ b \in Channel /\ b.state = 2 /\ b.evtime = a.per /\ b.nextdat = a.nextdat
          /\ b.pt = a.pt /\ b.wlen = a.wlen
          /\ b.data_written = (a.data_written \/ (a.dmaen /\ plain))
          /\ b.intreq2 = FALSE /\ b.dmaen = a.dmaen
      BY <1>1 DEF Channel
    <2> HIDE DEF b
    <2>3. rings \in BOOLEAN
      BY <1>1
    <2>4. CASE ~a.dmaen
      <3>1. g = Unheard(h)
        BY <2>4 DEF HeardNext
      <3> HIDE DEF g, rings
      <3>2. g \in Hearing /\ Followed(b, g, t - 1, plain)
        BY <1>1, <2>2, <3>1, UnheardKept
      <3> QED  BY <2>1, <2>2, <2>3, <3>2 DEF Outcome
    <2>5. CASE a.dmaen /\ h.buf = Unknown
      <3>1. g = h
        BY <2>5 DEF HeardNext, Heard
      <3> HIDE DEF g
      <3>2. Followed(b, g, t - 1, plain)
        BY <1>1, <2>2, <2>5, <3>1, Silence DEF Followed
      <3> HIDE DEF rings
      <3> QED  BY <2>1, <2>2, <2>3, <3>1, <3>2 DEF Outcome
    <2>6. CASE a.dmaen /\ h.buf # Unknown /\ plain
      <3>2. rings = a.intreq2
        BY <1>1, <2>6
      <3>3. g = Heard(h, a, rings)
        BY <2>6 DEF HeardNext
      <3> HIDE DEF rings, g
      <3>4. Taken(a, h, g)
        BY <2>3, <2>6, <3>2, <3>3, HeardPlaying
      <3>5. Followed(b, g, t - 1, plain)
        BY <1>1, <2>2, <2>6, <3>4, TakenKept
      <3> QED  BY <2>1, <2>2, <2>3, <3>4, <3>5 DEF Outcome, Taken
    <2>7. CASE a.dmaen /\ ~plain
      <3>1. g = h
        BY <2>7 DEF HeardNext
      <3>2. b.data_written = a.data_written
        BY <1>1, <2>2, <2>7
      <3> HIDE DEF rings, g
      <3>3. Followed(b, h, t - 1, plain)
        BY <1>1, <2>2, <2>7, <3>2, NotTakenKept
      <3> QED  BY <2>1, <2>2, <2>3, <3>1, <3>3 DEF Outcome
    <2> QED  BY <2>4, <2>5, <2>6, <2>7
  <1> QED  BY <1>2, <1>3

-----------------------------------------------------------------------------
(* update_audio(): one cycle, and n.                                        *)
LEMMA HandlerKept ==
  ASSUME NEW a \in Channel, NEW h \in Hearing, NEW t \in Nat \ {0}, NEW plain \in BOOLEAN,
         NEW irq \in BOOLEAN, plain = Plain, Followed(a, h, t, plain), a.state # 0, a.evtime = 1
  PROVE  /\ audio_handler(a, irq, h) \in Outcome
         /\ Followed(audio_handler(a, irq, h).aud, audio_handler(a, irq, h).heard, t - 1, plain)
  <1>1. CASE a.state = 1
    <2>1. audio_handler(a, irq, h) = FirstFetch(a, h)
      BY <1>1 DEF audio_handler
    <2> QED  BY <1>1, <2>1, FirstFetchKept
  <1>2. CASE a.state = 5
    <2>1. audio_handler(a, irq, h) = FirstWord(a, h)
      BY <1>2 DEF audio_handler
    <2> QED  BY <1>2, <2>1, FirstWordKept
  <1>3. CASE a.state = 2
    <2>1. audio_handler(a, irq, h) = LowByte(a, h)
      BY <1>3 DEF audio_handler
    <2> QED  BY <1>3, <2>1, LowByteKept
  <1>4. CASE a.state = 3
    <2>1. audio_handler(a, irq, h) = HighByte(a, irq, h)
      BY <1>4 DEF audio_handler
    <2> QED  BY <1>4, <2>1, HighByteKept
  <1> QED  BY <1>1, <1>2, <1>3, <1>4 DEF Channel

LEMMA Waits ==
  ASSUME NEW a \in Channel, NEW h \in Hearing, NEW t \in Nat \ {0}, NEW plain \in BOOLEAN,
         Followed(a, h, t, plain), NEW n \in Nat,
         a.state = 0 \/ (n # 0 /\ n = a.evtime - 1)
  PROVE  /\ [a EXCEPT !.evtime = n] \in Channel
         /\ Followed([a EXCEPT !.evtime = n], h, t - 1, plain)
  <1> DEFINE b == [a EXCEPT !.evtime = n]
  <1>1. /\ b \in Channel /\ b.state = a.state /\ b.evtime = n /\ b.nextdat = a.nextdat
        /\ b.pt = a.pt /\ b.wlen = a.wlen /\ b.data_written = a.data_written
        /\ b.intreq2 = a.intreq2 /\ b.dmaen = a.dmaen
    BY DEF Channel
  <1> HIDE DEF b
  <1>2. ASSUME h.buf # Unknown PROVE Agrees(b, h, t - 1, plain)
    <2>1. Agrees(a, h, t, plain)
      BY <1>2 DEF Followed
    <2>2. Opening(a, h) => Opening(b, h)
      BY <1>1 DEF Opening
    <2>3. ~(a.state = 5 /\ a.data_written)
      BY <2>1 DEF Agrees, Phase
    <2>4. Ready(a, h, plain) => Ready(b, h, plain)
      BY <1>1 DEF Ready
    <2>5. Awaited(a, h) => Awaited(b, h)
      BY <1>1 DEF Awaited
    <2>6. Phase(b, h, t - 1, plain)
      BY <1>1, <2>1, <2>2, <2>3, <2>4, <2>5 DEF Phase, Agrees
    <2>7. Ending(b, h) <=> Ending(a, h)
      BY <1>1 DEF Ending
    <2> QED  BY <1>1, <2>1, <2>6, <2>7 DEF Agrees
  <1>3. Followed(b, h, t - 1, plain)
    <2>1. a.state = 1 => n = t - 1
      BY DEF Followed
    <2>2. b.state # 0 => n # 0
      BY <1>1
    <2>3. ~h.disorder /\ ~h.mistimed
      BY DEF Followed
    <2> QED  BY <1>1, <1>2, <2>1, <2>2, <2>3 DEF Followed
  <1> QED  BY <1>1, <1>3 DEF b

Good(r, t) == r \in Outcome /\ Followed(r.aud, r.heard, t, Plain)

LEMMA CycleKept ==
  ASSUME NEW r, NEW t \in Nat \ {0}, NEW irq \in BOOLEAN, Good(r, t)
  PROVE  Good(AudioCycle(r, irq), t - 1)
  <1>1. PICK plain \in BOOLEAN : plain = Plain
    BY DEF Plain
  <1>2. r = [aud |-> r.aud, asks |-> r.asks, heard |-> r.heard]
    BY DEF Good, Outcome
  <1>3. r.aud \in Channel /\ r.asks \in BOOLEAN /\ r.heard \in Hearing
        /\ Followed(r.aud, r.heard, t, plain)
    BY <1>1 DEF Good, Outcome
  <1>4. ASSUME NEW n \in Nat, r.aud.state = 0 \/ (n # 0 /\ n = r.aud.evtime - 1)
        PROVE  Good([r EXCEPT !.aud.evtime = n], t - 1)
    <2> DEFINE b == [r.aud EXCEPT !.evtime = n]
               x == [aud |-> b, asks |-> r.asks, heard |-> r.heard]
    <2>1. b \in Channel /\ Followed(b, r.heard, t - 1, plain)
      BY <1>3, <1>4, Waits
    <2>2. [r EXCEPT !.aud.evtime = n] = x
      <3> HIDE DEF b
      <3>1. [r EXCEPT !.aud = b] = x
        BY <1>2
      <3> QED  BY <3>1 DEF b
    <2> HIDE DEF b
    <2>3. x \in Outcome /\ x.aud = b /\ x.heard = r.heard
      BY <1>3, <2>1 DEF Outcome
    <2> HIDE DEF x
    <2> QED  BY <1>1, <2>1, <2>2, <2>3 DEF Good
  <1>5. CASE r.aud.state = 0
    <2>1. AudioCycle(r, irq) = [r EXCEPT !.aud.evtime = 0]
      BY <1>5 DEF AudioCycle
    <2>2. \A n \in Nat : Good([r EXCEPT !.aud.evtime = n], t - 1)
      BY <1>4, <1>5
    <2>3. Good([r EXCEPT !.aud.evtime = 0], t - 1)
      BY <2>2
    <2> QED  BY <2>1, <2>3
  <1>6. CASE r.aud.state # 0 /\ r.aud.evtime # 1
    <2>1. AudioCycle(r, irq) = [r EXCEPT !.aud.evtime = @ - 1]
      BY <1>6 DEF AudioCycle
    <2>2. r.aud.evtime \in Nat /\ r.aud.evtime # 0
      BY <1>3, <1>6 DEF Followed, Channel
    <2>3. r.aud.evtime - 1 \in Nat /\ r.aud.evtime - 1 # 0
      BY <1>6, <2>2
    <2>4. [r EXCEPT !.aud.evtime = @ - 1] = [r EXCEPT !.aud.evtime = r.aud.evtime - 1]
      OBVIOUS
    <2> QED  BY <1>4, <2>1, <2>3, <2>4
  <1>7. CASE r.aud.state # 0 /\ r.aud.evtime = 1
    <2> DEFINE both == irq \/ r.asks
               y == audio_handler(r.aud, both, r.heard)
               x == [y EXCEPT !.asks = @ \/ r.asks]
    <2>1. AudioCycle(r, irq) = x
      BY <1>7 DEF AudioCycle
    <2>2. both \in BOOLEAN
      BY <1>3
    <2> HIDE DEF both
    <2>3. y \in Outcome /\ Followed(y.aud, y.heard, t - 1, plain)
      BY <1>1, <1>3, <1>7, <2>2, HandlerKept
    <2> HIDE DEF y
    <2>4. y.asks \in BOOLEAN
      BY <2>3 DEF Outcome
    <2>5. x \in Outcome /\ x.aud = y.aud /\ x.heard = y.heard
      BY <1>3, <2>3, <2>4 DEF Outcome
    <2> HIDE DEF x
    <2> QED  BY <1>1, <2>1, <2>3, <2>5 DEF Good
  <1> QED  BY <1>5, <1>6, <1>7

LEMMA UpdateFollows ==
  ASSUME NEW t \in Nat, NEW n \in 0..t, NEW irq \in BOOLEAN, Followed(aud, heard, t, Plain)
  PROVE  Good(UpdatedAudio(n, irq), t - n)
  <1>1. PICK g : /\ g[0] = Start
                 /\ \A k \in 1..n : g[k] = AudioCycle(g[k - 1], irq)
                 /\ UpdatedAudio(n, irq) = g[n]
    BY Cycles
  <1> DEFINE S == {k \in Nat : k <= n => Good(g[k], t - k)}
  <1>2. 0 \in S
    <2>1. Start.aud = aud /\ Start.heard = heard /\ Start.asks = FALSE
      BY DEF Start, Result
    <2>2. Start \in Outcome
      BY DEF Start, Result, Outcome, Followed
    <2> QED  BY <1>1, <2>1, <2>2 DEF Good
  <1>3. ASSUME NEW k \in Nat, k \in S PROVE k + 1 \in S
    <2> SUFFICES ASSUME k + 1 <= n PROVE Good(g[k + 1], t - (k + 1))
      OBVIOUS
    <2>1. k + 1 \in 1..n /\ (k + 1) - 1 = k /\ t - k \in Nat \ {0} /\ (t - k) - 1 = t - (k + 1)
      OBVIOUS
    <2>2. Good(g[k], t - k)
      BY <1>3
    <2>3. g[k + 1] = AudioCycle(g[k], irq)
      BY <1>1, <2>1
    <2> HIDE DEF S
    <2>4. Good(AudioCycle(g[k], irq), (t - k) - 1)
      BY <2>1, <2>2, CycleKept
    <2> QED  BY <2>1, <2>3, <2>4
  <1>4. Nat \subseteq S
    <2> HIDE DEF S
    <2> QED  BY <1>2, <1>3, Induction
  <1>5. n \in Nat /\ n <= n
    OBVIOUS
  <1>6. Good(g[n], t - n)
    BY <1>4, <1>5
  <1> QED  BY <1>1, <1>6

-----------------------------------------------------------------------------
(* The fetch at the beginning of a line.                                    *)
LEMMA FetchedType ==
  ASSUME NEW a \in Channel, a.data_written
  PROVE  LET b == Fetched(a)
             last == a.wlen = 1
             playing == a.state \in {2, 3}
         IN  /\ b \in Channel /\ b.state = a.state /\ b.evtime = a.evtime /\ b.dmaen = a.dmaen
             /\ b.data_written = FALSE /\ b.nextdat = a.pt
             /\ ~last => b.pt = Following(a.pt)
             /\ last /\ playing => b.pt = a.lc /\ b.wlen = a.len
             /\ last /\ ~playing => b.pt = a.pt
             /\ ~last /\ playing => b.wlen = Less(a.wlen)
             /\ ~playing => b.wlen = a.wlen
             /\ b.intreq2 = (a.intreq2 \/ (last /\ playing))
  <1> DEFINE last == a.wlen = 1
             playing == a.state \in {2, 3}
             pt == CASE ~last -> Following(a.pt) [] last /\ playing -> a.lc [] OTHER -> a.pt
             wlen == CASE last /\ playing -> a.len [] ~last /\ playing -> Less(a.wlen)
                       [] OTHER -> a.wlen
             int == a.intreq2 \/ (last /\ playing)
             b == [a EXCEPT !.data_written = FALSE, !.nextdat = a.pt, !.pt = pt, !.wlen = wlen,
                            !.intreq2 = int]
  <1>1. /\ a.pt \in Int /\ a.lc \in Int /\ a.wlen \in 0..WordMod - 1 /\ a.len \in 0..WordMod - 1
        /\ a.intreq2 \in BOOLEAN
    BY DEF Channel
  <1>2. pt \in Int
    BY <1>1, FollowingType
  <1>3. Less(a.wlen) \in 0..WordMod - 1
    BY <1>1, WordsOf
  <1>4. wlen \in 0..WordMod - 1
    BY <1>1, <1>3
  <1>5. int \in BOOLEAN
    BY <1>1
  <1>6. Fetched(a) = b
    BY DEF Fetched
  <1> HIDE DEF pt, wlen, int
  <1>7. /\ b \in Channel /\ b.state = a.state /\ b.evtime = a.evtime /\ b.dmaen = a.dmaen
        /\ b.data_written = FALSE /\ b.nextdat = a.pt /\ b.pt = pt /\ b.wlen = wlen
        /\ b.intreq2 = int
    BY <1>1, <1>2, <1>4, <1>5 DEF Channel
  <1> HIDE DEF b
  <1> QED  BY <1>6, <1>7 DEF pt, wlen, int

LEMMA FetchedKept ==
  ASSUME NEW a \in Channel, NEW h \in Hearing, NEW t \in Nat \ {0}, NEW plain \in BOOLEAN,
         Followed(a, h, 0, plain)
  PROVE  Followed(Fetched(a), HeardFetch(a, h), t, plain)
  <1> DEFINE b == Fetched(a)
             g == HeardFetch(a, h)
  <1>1. /\ a.state # 1 /\ a.state \in {0, 2, 3, 5} /\ a.wlen \in 0..WordMod - 1 /\ a.lc \in Int
        /\ a.len \in 0..WordMod - 1 /\ a.data_written \in BOOLEAN /\ a.intreq2 \in BOOLEAN
        /\ a.dmaen \in BOOLEAN /\ h.buf.left \in Nat
    BY DEF Followed, Channel, Hearing, Stretch
  <1>2. ~h.disorder /\ ~h.mistimed /\ (a.state # 0 => a.evtime # 0)
    BY DEF Followed
  <1>3. CASE ~a.data_written
    <2>1. b = a /\ g = h
      BY <1>3 DEF Fetched, HeardFetch
    <2>2. ASSUME h.buf # Unknown PROVE Agrees(a, h, t, plain)
      <3>1. Agrees(a, h, 0, plain)
        BY <2>2 DEF Followed
      <3>2. Phase(a, h, t, plain)
        BY <1>1, <1>3, <3>1 DEF Agrees, Phase
      <3> QED  BY <3>1, <3>2 DEF Agrees
    <2>3. Followed(a, h, t, plain)
      BY <1>1, <1>2, <2>2 DEF Followed
    <2> QED  BY <2>1, <2>3
  <1>4. CASE a.data_written
    <2>1. /\ b \in Channel /\ b.state = a.state /\ b.evtime = a.evtime /\ b.dmaen = a.dmaen
          /\ b.data_written = FALSE /\ b.nextdat = a.pt
      BY <1>4, FetchedType
    <2>2. /\ a.wlen # 1 => b.pt = Following(a.pt)
          /\ a.wlen = 1 /\ a.state \in {2, 3} => b.pt = a.lc /\ b.wlen = a.len
          /\ a.wlen = 1 /\ a.state \notin {2, 3} => b.pt = a.pt
          /\ a.wlen # 1 /\ a.state \in {2, 3} => b.wlen = Less(a.wlen)
          /\ a.state \notin {2, 3} => b.wlen = a.wlen
          /\ b.intreq2 = (a.intreq2 \/ (a.wlen = 1 /\ a.state \in {2, 3}))
      BY <1>4, FetchedType
    <2> HIDE DEF b
    <2>3. CASE h.buf = Unknown
      <3>1. g = h
        BY <2>3 DEF HeardFetch
      <3> HIDE DEF g
      <3>2. Followed(b, g, t, plain)
        BY <1>1, <1>2, <2>1, <2>3, <3>1, Silence
      <3> QED  BY <3>2 DEF b, g
    <2>4. CASE h.buf # Unknown
      <3>1. Agrees(a, h, 0, plain)
        BY <2>4 DEF Followed
      <3>2. a.state \in {2, 3, 5} /\ h.buf.left # 0
        BY <1>1, <3>1 DEF Agrees
      <3>3. CASE a.state = 5
        <4>1. g = h
          BY <3>3 DEF HeardFetch
        <4>2. Begun(a, h)
          BY <1>4, <3>1, <3>3 DEF Agrees, Phase
        <4>3. h.buf.left # 1
          BY <1>1, <4>2 DEF Begun, Hearing
        <4>4. ~h.short => a.wlen # 1
          BY <1>1, <4>2 DEF Begun, Words
        <4>5. Ready(b, h, plain)
          BY <2>1, <2>2, <3>3, <4>2, <4>3, <4>4 DEF Ready, Begun
        <4>6. b.intreq2 = a.intreq2
          BY <1>1, <2>2, <3>3
        <4>7. Phase(b, h, t, plain)
          BY <2>1, <3>3, <4>3, <4>5 DEF Phase
        <4>8. ~Ending(a, h) /\ ~Ending(b, h)
          BY <3>3, <4>3 DEF Ending
        <4>9. Agrees(b, h, t, plain)
          BY <2>1, <3>1, <4>6, <4>7, <4>8 DEF Agrees
        <4>10. Followed(b, h, t, plain)
          BY <1>2, <2>1, <3>3, <4>9 DEF Followed
        <4> QED  BY <4>1, <4>10 DEF b
      <3>4. CASE a.state \in {2, 3} /\ a.wlen # 1
        <4>1. g = h
          BY <3>4 DEF HeardFetch
        <4>2. Awaited(a, h)
          BY <1>4, <3>1, <3>4 DEF Agrees, Phase, Ready
        <4>3. Words(a.wlen) # 1 /\ Words(Less(a.wlen)) = Words(a.wlen) - 1
          BY <1>1, <3>4, WordsOf
        <4>4. h.buf.left # 1 /\ ~h.short
          BY <4>2, <4>3 DEF Awaited
        <4>5. Ready(b, h, plain)
          BY <2>1, <2>2, <3>4, <4>2, <4>3, <4>4 DEF Ready, Awaited
        <4>6. b.intreq2 = a.intreq2
          BY <1>1, <2>2, <3>4
        <4>7. Phase(b, h, t, plain)
          BY <2>1, <3>4, <4>5 DEF Phase
        <4>8. ~Ending(a, h) /\ ~Ending(b, h)
          BY <1>4, <4>4 DEF Ending
        <4>9. Agrees(b, h, t, plain)
          BY <2>1, <3>1, <4>6, <4>7, <4>8 DEF Agrees
        <4>10. Followed(b, h, t, plain)
          BY <1>2, <2>1, <3>4, <4>9 DEF Followed
        <4> QED  BY <4>1, <4>10 DEF b
      <3>5. CASE a.state \in {2, 3} /\ a.wlen = 1
        <4>1. g = [h EXCEPT !.then = Buffer(a.lc, a.len)]
          BY <1>4, <2>4, <3>5 DEF HeardFetch
        <4>2. Buffer(a.lc, a.len) \in Stretch
          BY <1>1, BufferType
        <4>3. /\ g \in Hearing /\ g.buf = h.buf /\ g.then = Buffer(a.lc, a.len)
              /\ g.short = h.short /\ g.stale = h.stale /\ g.disorder = h.disorder
              /\ g.mistimed = h.mistimed
          BY <4>1, <4>2 DEF Hearing
        <4> HIDE DEF g
        <4>4. Awaited(a, h)
          BY <1>4, <3>1, <3>5 DEF Agrees, Phase, Ready
        <4>5. Words(a.wlen) = 1
          BY <1>1, <3>5, WordsOf
        <4>6. h.buf.left = 1 /\ a.pt = h.buf.at
          BY <4>4, <4>5 DEF Awaited
        <4>7. Ready(b, g, plain)
          BY <2>1, <2>2, <3>5, <4>3, <4>6 DEF Ready
        <4>8. Phase(b, g, t, plain)
          BY <2>1, <3>5, <4>7 DEF Phase
        <4>9. b.intreq2 /\ Ending(b, g)
          <5>1. b.intreq2
            BY <2>2, <3>5
          <5> QED  BY <2>1, <3>5, <4>3, <4>6, <5>1 DEF Ending
        <4>10. Agrees(b, g, t, plain)
          BY <2>1, <3>2, <3>5, <4>3, <4>8, <4>9 DEF Agrees
        <4>11. Followed(b, g, t, plain)
          BY <1>2, <2>1, <3>5, <4>3, <4>10 DEF Followed
        <4> QED  BY <4>11 DEF b, g
      <3> QED  BY <3>2, <3>3, <3>4, <3>5
    <2> QED  BY <2>3, <2>4
  <1> QED  BY <1>1, <1>3, <1>4

-----------------------------------------------------------------------------
(* What the program writes.                                                 *)

(* Nothing is followed any more, whatever the words go to.                  *)
LEMMA Unfollowed ==
  ASSUME NEW a \in Channel, NEW h \in Hearing, NEW t, NEW plain, Followed(a, h, t, plain),
         NEW b \in Channel, b.state = a.state, b.evtime = a.evtime, NEW g \in Hearing,
         g.buf = Unknown, g.disorder = h.disorder, g.mistimed = h.mistimed, NEW other
  PROVE  Followed(b, g, t, other)
  BY DEF Followed

(* Registers that are only read later.                                      *)
LEMMA SamePlaying ==
  ASSUME NEW a \in Channel, NEW h \in Hearing, NEW t, NEW plain, Followed(a, h, t, plain),
         NEW b \in Channel, b.state = a.state, b.evtime = a.evtime,
         b.data_written = a.data_written, b.intreq2 = a.intreq2,
         b.pt = a.pt, b.wlen = a.wlen, b.nextdat = a.nextdat
  PROVE  Followed(b, h, t, plain)
  <1>1. ASSUME h.buf # Unknown PROVE Agrees(b, h, t, plain)
    <2>1. Agrees(a, h, t, plain)
      BY <1>1 DEF Followed
    <2>2. /\ Opening(a, h) => Opening(b, h)
          /\ Begun(a, h) => Begun(b, h)
          /\ Ready(a, h, plain) => Ready(b, h, plain)
          /\ Awaited(a, h) => Awaited(b, h)
      BY DEF Opening, Begun, Ready, Awaited
    <2>3. Phase(b, h, t, plain)
      BY <2>1, <2>2 DEF Phase, Agrees
    <2>4. Ending(b, h) <=> Ending(a, h)
      BY DEF Ending
    <2> QED  BY <2>1, <2>3, <2>4 DEF Agrees
  <1> QED  BY <1>1 DEF Followed

LEMMA WritesKept ==
  ASSUME NEW a \in Channel, NEW h \in Hearing, NEW t, NEW plain, Followed(a, h, t, plain),
         NEW b \in PaulaWrites(a)
  PROVE  b \in Channel /\ Followed(b, h, t, plain)
  <1>1. /\ WordMod \in Nat /\ Highs \cup Lows \cup Lengths \subseteq 0..WordMod - 1
        /\ Periods \subseteq 1..WordMod - 1 /\ a.lc \in Int
    BY PaulaAssumption DEF Channel
  <1>2. CASE \E v \in Highs : b = AUDxLCH(a, v)
    <2>1. PICK v \in Highs : b = AUDxLCH(a, v)
      BY <1>2
    <2>2. PICK n : n = v * WordMod + (a.lc % WordMod)
      OBVIOUS
    <2>3. v \in Int /\ a.lc % WordMod \in Int /\ v * WordMod \in Int
      <3>1. v \in Int
        BY <1>1
      <3>2. WordMod \in Nat \ {0}
        BY PaulaAssumption
      <3> QED  BY <1>1, <3>1, <3>2
    <2>4. n \in Int
      BY <2>2, <2>3
    <2>5. b = [a EXCEPT !.lc = n]
      BY <2>1, <2>2 DEF AUDxLCH
    <2>6. /\ b \in Channel /\ b.state = a.state /\ b.evtime = a.evtime
          /\ b.data_written = a.data_written /\ b.intreq2 = a.intreq2 /\ b.dmaen = a.dmaen
          /\ b.pt = a.pt /\ b.wlen = a.wlen /\ b.nextdat = a.nextdat
      BY <2>4, <2>5 DEF Channel
    <2> QED  BY <2>6, SamePlaying
  <1>3. CASE \E v \in Lows : b = AUDxLCL(a, v)
    <2>1. PICK v \in Lows : b = AUDxLCL(a, v)
      BY <1>3
    <2>2. PICK n : n = (a.lc \div WordMod) * WordMod + v
      OBVIOUS
    <2>3. v \in Int /\ a.lc \div WordMod \in Int
      <3>1. v \in Int
        BY <1>1
      <3>2. WordMod \in Nat \ {0}
        BY PaulaAssumption
      <3> QED  BY <1>1, <3>1, <3>2
    <2>4. (a.lc \div WordMod) * WordMod \in Int
      <3>1. \A m, k \in Int : m * k \in Int
        OBVIOUS
      <3> QED  BY <1>1, <2>3, <3>1
    <2>5. n \in Int
      BY <2>2, <2>3, <2>4
    <2>6. b = [a EXCEPT !.lc = n]
      BY <2>1, <2>2 DEF AUDxLCL
    <2>7. /\ b \in Channel /\ b.state = a.state /\ b.evtime = a.evtime
          /\ b.data_written = a.data_written /\ b.intreq2 = a.intreq2 /\ b.dmaen = a.dmaen
          /\ b.pt = a.pt /\ b.wlen = a.wlen /\ b.nextdat = a.nextdat
      BY <2>5, <2>6 DEF Channel
    <2> QED  BY <2>7, SamePlaying
  <1>4. CASE \E v \in Lengths : b = AUDxLEN(a, v)
    <2>1. PICK v \in Lengths : b = [a EXCEPT !.len = v]
      BY <1>4 DEF AUDxLEN
    <2>2. v \in 0..WordMod - 1
      BY <1>1
    <2>3. /\ b \in Channel /\ b.state = a.state /\ b.evtime = a.evtime
          /\ b.data_written = a.data_written /\ b.intreq2 = a.intreq2 /\ b.dmaen = a.dmaen
          /\ b.pt = a.pt /\ b.wlen = a.wlen /\ b.nextdat = a.nextdat
      BY <2>1, <2>2 DEF Channel
    <2> QED  BY <2>3, SamePlaying
  <1>5. CASE \E v \in Periods : b = AUDxPER(a, v)
    <2>1. PICK v \in Periods : b = [a EXCEPT !.per = v]
      BY <1>5 DEF AUDxPER
    <2>2. v \in 1..WordMod - 1
      BY <1>1
    <2>3. /\ b \in Channel /\ b.state = a.state /\ b.evtime = a.evtime
          /\ b.data_written = a.data_written /\ b.intreq2 = a.intreq2 /\ b.dmaen = a.dmaen
          /\ b.pt = a.pt /\ b.wlen = a.wlen /\ b.nextdat = a.nextdat
      BY <2>1, <2>2 DEF Channel
    <2> QED  BY <2>3, SamePlaying
  <1> QED  BY <1>2, <1>3, <1>4, <1>5 DEF PaulaWrites

LEMMA IdleUnheard ==
  ASSUME NEW a, NEW h, NEW t, NEW plain, Followed(a, h, t, plain), a.state = 0
  PROVE  h.buf = Unknown
  BY DEF Followed, Agrees

LEMMA DataKept ==
  ASSUME NEW a \in Channel, NEW h \in Hearing, NEW t, NEW plain, Followed(a, h, t, plain),
         NEW irq
  PROVE  AUDxDAT(a, irq) \in Channel /\ Followed(AUDxDAT(a, irq), h, t, plain)
  <1>1. CASE AUDxDATStarts(a, irq)
    <2> DEFINE b == [a EXCEPT !.state = 2, !.evtime = a.per]
    <2>1. AUDxDAT(a, irq) = b /\ h.buf = Unknown
      BY <1>1, IdleUnheard DEF AUDxDAT, AUDxDATStarts
    <2>2. a.per \in Nat \ {0}
      BY PaulaAssumption DEF Channel
    <2>3. b \in Channel /\ b.state = 2 /\ b.evtime # 0
      BY <2>2 DEF Channel
    <2> HIDE DEF b
    <2>4. Followed(b, h, t, plain)
      BY <2>1, <2>3, Silence DEF Followed
    <2> QED  BY <2>1, <2>3, <2>4
  <1>2. CASE ~AUDxDATStarts(a, irq)
    BY <1>2 DEF AUDxDAT
  <1> QED  BY <1>1, <1>2

(* DMA starts with a buffer.                                                *)
LEMMA StartKept ==
  ASSUME NEW a \in Channel, NEW h \in Hearing, NEW t \in Nat \ {0}, NEW plain \in BOOLEAN,
         Followed(a, h, t, plain), a.state = 0
  PROVE  /\ DMACON(a, TRUE, t) \in Channel /\ HeardStart(a, h) \in Hearing
         /\ Followed(DMACON(a, TRUE, t), HeardStart(a, h), t, plain)
  <1> DEFINE b == [a EXCEPT !.dmaen = TRUE, !.state = 1, !.pt = a.lc, !.wlen = a.len,
                            !.data_written = TRUE, !.evtime = t]
             short == Words(a.len) \in {1, 2}
             buf == IF short THEN [at |-> a.lc, left |-> 2] ELSE Buffer(a.lc, a.len)
             g == [h EXCEPT !.buf = buf, !.then = Unknown, !.short = short, !.stale = a.intreq2]
  <1>1. DMACON(a, TRUE, t) = b /\ HeardStart(a, h) = g
    BY DEF DMACON, HeardStart
  <1>2. /\ a.len \in 0..WordMod - 1 /\ a.lc \in Int /\ a.intreq2 \in BOOLEAN
        /\ Words(a.len) \in Nat \ {0}
    BY WordsOf DEF Channel
  <1>3. /\ b \in Channel /\ b.dmaen = TRUE /\ b.state = 1 /\ b.pt = a.lc /\ b.wlen = a.len
        /\ b.data_written = TRUE /\ b.evtime = t /\ b.intreq2 = a.intreq2
    BY <1>2 DEF Channel
  <1>4. buf \in Stretch /\ buf.at = a.lc /\ buf.left = IF short THEN 2 ELSE Words(a.len)
    BY <1>2, BufferType DEF Stretch
  <1>5. short \in BOOLEAN /\ Unknown \in Stretch /\ Unknown.left = 0
    BY DEF Unknown, Stretch
  <1> HIDE DEF buf, Unknown, b
  <1>6. /\ g \in Hearing /\ g.buf = buf /\ g.short = short /\ g.stale = a.intreq2
        /\ g.disorder = h.disorder /\ g.mistimed = h.mistimed
    BY <1>2, <1>4, <1>5 DEF Hearing
  <1> HIDE DEF g
  <1>7. Opening(b, g)
    <2>1. CASE short
      <3>1. g.short /\ g.buf.left = 2 /\ g.buf.at = a.lc
        BY <1>4, <1>6, <2>1
      <3> QED  BY <1>3, <2>1, <3>1 DEF Opening
    <2>2. CASE ~short
      <3>1. ~g.short /\ g.buf.left = Words(a.len) /\ g.buf.at = a.lc
        BY <1>4, <1>6, <2>2
      <3>2. Words(a.len) >= 3
        BY <1>2, <2>2
      <3> QED  BY <1>3, <3>1, <3>2 DEF Opening
    <2> QED  BY <2>1, <2>2
  <1>8. Phase(b, g, t, plain)
    BY <1>3, <1>7 DEF Phase
  <1>9. g.buf.left # 0
    BY <1>2, <1>4, <1>6
  <1>10. ~Ending(b, g)
    BY <1>3 DEF Ending
  <1>11. Agrees(b, g, t, plain)
    BY <1>2, <1>3, <1>6, <1>8, <1>9, <1>10 DEF Agrees
  <1>12. Followed(b, g, t, plain)
    BY <1>3, <1>6, <1>11 DEF Followed
  <1> QED  BY <1>1, <1>3, <1>6, <1>12

LEMMA DMACONKept ==
  ASSUME NEW a \in Channel, NEW h \in Hearing, NEW t \in Nat \ {0}, NEW plain \in BOOLEAN,
         Followed(a, h, t, plain), NEW on \in BOOLEAN
  PROVE  Followed(DMACON(a, on, t), HeardDMACON(a, on, h), t, plain)
  <1>1. CASE on /\ a.state = 0
    <2>1. on = TRUE /\ HeardDMACON(a, on, h) = HeardStart(a, h)
      BY <1>1 DEF HeardDMACON
    <2> QED  BY <1>1, <2>1, StartKept
  <1>2. CASE ~on /\ a.state \in {1, 5}
    <2> DEFINE b == DMACON(a, on, t)
    <2>1. b = [a EXCEPT !.dmaen = FALSE, !.state = 0] /\ HeardDMACON(a, on, h) = Unheard(h)
      BY <1>2 DEF DMACON, HeardDMACON
    <2>2. b \in Channel /\ b.state = 0
      BY <2>1 DEF Channel
    <2> HIDE DEF b
    <2>3. Followed(b, Unheard(h), t, plain)
      BY <2>2, UnheardKept
    <2> QED  BY <2>1, <2>3 DEF b
  <1>3. CASE ~(on /\ a.state = 0) /\ ~(~on /\ a.state \in {1, 5})
    <2> DEFINE b == DMACON(a, on, t)
    <2>1. b = [a EXCEPT !.dmaen = on] /\ HeardDMACON(a, on, h) = h
      BY <1>3 DEF DMACON, HeardDMACON
    <2>2. /\ b \in Channel /\ b.state = a.state /\ b.evtime = a.evtime
          /\ b.data_written = a.data_written /\ b.intreq2 = a.intreq2
          /\ b.pt = a.pt /\ b.wlen = a.wlen /\ b.nextdat = a.nextdat
      BY <2>1 DEF Channel
    <2> HIDE DEF b
    <2>3. Followed(b, h, t, plain)
      BY <2>2, SamePlaying
    <2> QED  BY <2>1, <2>3 DEF b
  <1> QED  BY <1>1, <1>2, <1>3

-----------------------------------------------------------------------------
(* The steps.                                                               *)
LEMMA Rang == ASSUME NEW x PROVE (x \in intreq) \in BOOLEAN
  OBVIOUS

LEMMA ResetFollowed ==
  ASSUME NEW t, NEW plain
  PROVE  Followed(ResetAudio, Silent, t, plain)
  <1>1. WordMod \in Nat /\ WordMod >= 2
    BY PaulaAssumption
  <1>2. WordMod - 1 \in 1..WordMod - 1 /\ 0 \in 0..WordMod - 1
    BY <1>1
  <1>3. ResetAudio \in Channel /\ ResetAudio.state = 0
    BY <1>2 DEF ResetAudio, Channel
  <1>4. Silent \in Hearing /\ Silent.buf = Unknown /\ ~Silent.disorder /\ ~Silent.mistimed
    BY DEF Silent, Hearing, Stretch, Unknown
  <1> QED  BY <1>3, <1>4, Silence

LEMMA AudioSame ==
  ASSUME AInv, UNCHANGED <<aud, attach, late, heard, line>>
  PROVE  AInv'
  BY DEF AInv, Plain

LEMMA PassesAudio == ASSUME IInv, AInv, Passes PROVE AInv'
  <1>1. /\ late' = late + 1 /\ line' = line - 1 /\ aud' = aud /\ heard' = heard
        /\ attach' = attach /\ next > 1
    BY DEF Passes
  <1>2. next \in Nat /\ next <= line /\ line \in Nat /\ late \in Nat /\ late + line <= Line
    BY DEF IInv, Typed, NextInTime, AInv
  <1>3. /\ line - 1 \in Nat \ {0} /\ late + 1 \in Nat /\ (late + 1) + (line - 1) = late + line
    BY <1>1, <1>2
  <1>4. Followed(aud, heard, late + line, Plain)
    BY DEF AInv
  <1>5. Followed(aud, heard, late + line, Plain)'
    <2>1. (late + line)' = late + line
      BY <1>1, <1>3
    <2>2. Plain' = Plain
      BY <1>1 DEF Plain
    <2> QED  BY <1>1, <1>4, <2>1, <2>2
  <1> QED  BY <1>1, <1>2, <1>3, <1>5 DEF AInv

LEMMA EventsAudio == ASSUME IInv, AInv, Events PROVE AInv'
  <1>1. PICK plain \in BOOLEAN : plain = Plain
    BY DEF Plain
  <1>2. PICK irq \in BOOLEAN : irq = ("aud" \in intreq)
    BY Rang
  <1>3. PICK r : r = UpdatedAudio(late + 1, irq) /\ AudioEvents(r)
    BY <1>2 DEF Events
  <1>4. attach' = attach /\ line' = (IF LineEnds THEN Line ELSE line - 1)
    BY DEF Events
  <1>5. Plain' = plain
    BY <1>1, <1>4 DEF Plain
  <1>6. /\ late \in Nat /\ line \in Nat \ {0} /\ Line \in Nat \ {0} /\ late + line <= Line
        /\ Followed(aud, heard, late + line, plain)
    BY <1>1, PaulaAssumption DEF AInv
  <1>7. CASE LineEnds
    <2>1. line = 1 /\ late + 1 = late + line
      BY <1>6, <1>7 DEF LineEnds
    <2>2. late + 1 \in 0..late + 1 /\ late + 1 \in Nat
      BY <1>6
    <2>3. Good(r, (late + 1) - (late + 1))
      BY <1>1, <1>3, <1>6, <2>1, <2>2, UpdateFollows
    <2>4. (late + 1) - (late + 1) = 0
      BY <2>2
    <2>5. Good(r, 0)
      BY <2>3, <2>4
    <2>6. r.aud \in Channel /\ r.heard \in Hearing /\ Followed(r.aud, r.heard, 0, plain)
      BY <1>1, <2>5 DEF Good, Outcome
    <2>7. Followed(Fetched(r.aud), HeardFetch(r.aud, r.heard), Line, plain)
      BY <1>6, <2>6, FetchedKept
    <2>8. /\ aud' = Fetched(r.aud) /\ heard' = HeardFetch(r.aud, r.heard) /\ late' = 0
          /\ line' = Line
      BY <1>3, <1>4, <1>7 DEF AudioEvents
    <2>9. (late + line)' = Line
      BY <1>6, <2>8
    <2>10. Followed(aud, heard, late + line, Plain)'
      BY <1>5, <2>7, <2>8, <2>9
    <2> QED  BY <1>6, <2>8, <2>10 DEF AInv
  <1>8. CASE ~LineEnds
    <2>1. /\ aud' = aud /\ heard' = heard /\ late' = late + 1 /\ line' = line - 1
      BY <1>3, <1>4, <1>8 DEF AudioEvents
    <2>2. line - 1 \in Nat \ {0} /\ late + 1 \in Nat /\ (late + 1) + (line - 1) = late + line
      BY <1>6, <1>8 DEF LineEnds
    <2>3. (late + line)' = late + line
      BY <2>1, <2>2
    <2>4. Followed(aud, heard, late + line, Plain)'
      BY <1>5, <1>6, <2>1, <2>3
    <2> QED  BY <1>6, <2>1, <2>2, <2>4 DEF AInv
  <1> QED  BY <1>7, <1>8

LEMMA AccessAudio == ASSUME AInv, AudioAccess PROVE AInv'
  <1>1. PICK plain \in BOOLEAN : plain = Plain
    BY DEF Plain
  <1>2. PICK irq \in BOOLEAN : irq = ("aud" \in intreq)
    BY Rang
  <1> DEFINE r == UpdatedAudio(late, irq)
  <1>3. AudioUpdated = r
    BY <1>2 DEF AudioUpdated
  <1>4. /\ late \in Nat /\ line \in Nat \ {0} /\ late + line <= Line
        /\ Followed(aud, heard, late + line, plain)
    BY <1>1 DEF AInv
  <1>5. late' = 0 /\ line' = line
    BY DEF AudioAccess, Instruction
  <1>6. late + line \in Nat /\ late \in 0..late + line /\ (late + line) - late = line
    BY <1>4
  <1>7. Good(r, line)
    <2>1. Good(r, (late + line) - late)
      BY <1>1, <1>4, <1>6, UpdateFollows
    <2> QED  BY <1>6, <2>1
  <1> HIDE DEF r
  <1>8. r.aud \in Channel /\ r.heard \in Hearing /\ Followed(r.aud, r.heard, line, plain)
    BY <1>1, <1>7 DEF Good, Outcome
  <1>9. Followed(aud', heard', line, Plain')
    <2>1. CASE aud' \in PaulaWrites(r.aud) /\ heard' = r.heard /\ UNCHANGED attach
      <3>1. Followed(aud', r.heard, line, plain)
        BY <1>8, <2>1, WritesKept
      <3>2. Plain' = plain
        BY <1>1, <2>1 DEF Plain
      <3> QED  BY <2>1, <3>1, <3>2
    <2>2. CASE /\ \E rings : aud' = AUDxDAT(r.aud, rings)
               /\ heard' = r.heard /\ UNCHANGED attach
      <3>1. Followed(aud', r.heard, line, plain)
        BY <1>8, <2>2, DataKept
      <3>2. Plain' = plain
        BY <1>1, <2>2 DEF Plain
      <3> QED  BY <2>2, <3>1, <3>2
    <2>3. CASE /\ \E on \in BOOLEAN : /\ aud' = DMACON(r.aud, on, line)
                                      /\ heard' = HeardDMACON(r.aud, on, r.heard)
               /\ UNCHANGED attach
      <3>1. Followed(aud', heard', line, plain)
        BY <1>4, <1>8, <2>3, DMACONKept
      <3>2. Plain' = plain
        BY <1>1, <2>3 DEF Plain
      <3> QED  BY <3>1, <3>2
    <2>4. CASE aud' = r.aud /\ heard' = Unheard(r.heard)
      BY <1>8, <2>4, UnknownType, Unfollowed
    <2> QED  BY <1>3, <2>1, <2>2, <2>3, <2>4 DEF AudioAccess
  <1>10. (late + line)' = line /\ 0 + line <= Line
    BY <1>4, <1>5, PaulaAssumption
  <1> QED  BY <1>4, <1>5, <1>9, <1>10 DEF AInv

LEMMA NextAudio == ASSUME IInv, AInv, [Next]_vars PROVE AInv'
  <1>1. CASE do_cycles
    BY <1>1, PassesAudio, EventsAudio DEF do_cycles
  <1>2. CASE AudioAccess
    BY <1>2, AccessAudio
  <1>3. CASE TimerAccess
    BY <1>3, AudioSame DEF TimerAccess, Instruction, paulaVars
  <1>4. CASE FlagAccess
    BY <1>4, AudioSame DEF FlagAccess, Instruction, paulaVars
  <1>5. CASE ClockAccess
    BY <1>5, AudioSame DEF ClockAccess, Instruction, paulaVars
  <1>6. CASE Acknowledge
    BY <1>6, AudioSame DEF Acknowledge, Instruction, paulaVars
  <1>7. CASE InterruptAccess
    BY <1>7, AudioSame DEF InterruptAccess, Instruction, paulaVars
  <1>8. CASE OtherInstruction
    BY <1>8, AudioSame DEF OtherInstruction, paulaVars
  <1>9. CASE Specials
    BY <1>9, AudioSame DEF Specials, paulaVars
  <1>10. CASE Reboot
    <2>1. AInv'
      <3>1. /\ aud' = ResetAudio /\ heard' = Silent /\ late' = 0 /\ line' = Line
            /\ attach' = attach /\ Line \in Nat \ {0}
        BY <1>10, PaulaAssumption DEF Reboot
      <3> QED  BY <3>1, ResetFollowed DEF AInv
    <2> QED  BY <2>1
  <1>11. CASE UNCHANGED vars
    BY <1>11, AudioSame DEF vars, paulaVars
  <1> QED
    BY <1>1, <1>2, <1>3, <1>4, <1>5, <1>6, <1>7, <1>8, <1>9, <1>10, <1>11 DEF Next, Access

(* The channel and what is heard of it agree in every state of the machine. *)
THEOREM AudioInvariant == Spec => []AInv
  <1>1. Init => AInv
    BY ResetFollowed, PaulaAssumption DEF Init, AInv
  <1>2. IInv /\ AInv /\ [Next]_vars => AInv'
    BY NextAudio
  <1> QED  BY TimersInvariant, <1>1, <1>2, PTL DEF Spec

(* With DMA on, the words of a buffer are played in their order, none left  *)
(* out and none twice but for want of a fetch, whenever lines and periods   *)
(* fall together and whatever is written to the registers: audio_handler()  *)
(* and the fetches of hsync_handler().                                      *)
THEOREM WordsInOrder == Spec => []PlayedInOrder
  <1>1. AInv => PlayedInOrder
    BY DEF AInv, Followed, PlayedInOrder
  <1> QED  BY AudioInvariant, <1>1, PTL

(* The interrupt of a channel comes with the last word of each buffer and   *)
(* no other, by whatever program and period.                                *)
THEOREM RingsAtEnd == Spec => []InterruptAtEnd
  <1>1. AInv => InterruptAtEnd
    BY DEF AInv, Followed, InterruptAtEnd
  <1> QED  BY AudioInvariant, <1>1, PTL

(* Timers, clocks, the channel, interrupts and events always have values of *)
(* their types, from the three invariants together.                         *)
THEOREM TypeCorrect == Spec => []TypeOK
  <1>1. ASSUME IInv, AInv, Ranges PROVE TypeOK
    <2>1. ASSUME NEW c \in Chips
          PROVE  /\ cia[c].A \in Timer /\ cia[c].B \in Timer
                 /\ cia[c].icr \subseteq Flags \cup {"ir"} /\ cia[c].mask \subseteq Flags
                 /\ {cia[c].tod, cia[c].tol, cia[c].alarm} \subseteq Days
      BY <1>1 DEF Ranges, ChipR
    <2>2. /\ {div10, lastdiv10} \subseteq 0..Div - 1 /\ since \in Nat
          /\ due \in [active : BOOLEAN, left : Nat]
      BY <1>1 DEF IInv, Typed
    <2>3. lag \in Nat
      BY <1>1, CiaAssumption DEF IInv, Typed, RestsKept
    <2>4. aud.state \in {0, 1, 2, 3, 5} /\ aud.evtime \in Nat /\ aud.wlen \in 0..WordMod - 1
      BY <1>1 DEF AInv, Followed, Channel
    <2>5. late \in 0..Line /\ line \in 1..Line /\ row \in 0..Rows - 1 /\ next \in 0..Line
      BY <1>1, PaulaAssumption DEF AInv, IInv, Typed, NextInTime, Ranges
    <2>6. /\ intreq \subseteq Sources /\ intena \subseteq Sources /\ intmask \in 0..7
          /\ spcflags \subseteq {"INT", "DOINT", "STOP"} /\ pc \in {"fetch", "cycles", "ran"}
      BY <1>1 DEF Ranges, CpuTyped
    <2> QED  BY <2>1, <2>2, <2>3, <2>4, <2>5, <2>6 DEF TypeOK
  <1> QED  BY TimersInvariant, AudioInvariant, RangesInvariant, <1>1, PTL
=============================================================================
