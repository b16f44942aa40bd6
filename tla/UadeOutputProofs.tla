-------------------------- MODULE UadeOutputProofs --------------------------
(***************************************************************************)
(* Proofs about UadeOutput, for frames, blocks and buffers of any size and *)
(* reads of any sizes: the buffers are never overrun, no byte is lost,     *)
(* repeated or out of order between the core and the caller, the last      *)
(* block is cut where the song ended, and the core plays with the filter   *)
(* the caller has asked for.                                               *)
(*                                                                         *)
(* First the arithmetic and the fifos, then the inductive invariant and    *)
(* what each action does to it.                                            *)
(***************************************************************************)
EXTENDS UadeOutput, SequenceTheorems, TLAPS

(* Facts about the operators the numbers of frames and bytes are computed  *)
(* with. What a division leaves.                                           *)
LEMMA Modulus ==
  ASSUME NEW m \in Nat \ {0}, NEW a \in Nat
  PROVE  a % m \in 0..m - 1
OBVIOUS

(* A number is a multiple and what is left.                                *)
LEMMA Division ==
  ASSUME NEW m \in Nat \ {0}, NEW a \in Nat
  PROVE  \E q \in Nat : \E r \in 0..m - 1 : q = a \div m /\ r = a % m /\ a = m * q + r
<1>1. PICK q \in Nat : q = a \div m
  OBVIOUS
<1>2. PICK r \in 0..m - 1 : r = a % m
  OBVIOUS
<1>3. r = a - m * q
  BY <1>1, <1>2
<1>4. m * q \in Int
  OBVIOUS
<1>5. a = m * q + r
  BY <1>3, <1>4
<1> QED BY <1>1, <1>2, <1>5

(* Of a multiple and what is left, a division gives back both.             *)
LEMMA Remainder ==
  ASSUME NEW m \in Nat \ {0}, NEW q \in Nat, NEW r \in 0..m - 1
  PROVE  (m * q + r) % m = r /\ (m * q + r) \div m = q
<1> DEFINE a == m * q + r
<1>1. a \in Nat
  OBVIOUS
<1>2. PICK p \in Nat : \E s \in 0..m - 1 : p = a \div m /\ s = a % m /\ a = m * p + s
  BY <1>1, Division
<1>8. PICK s \in 0..m - 1 : p = a \div m /\ s = a % m /\ a = m * p + s
  BY <1>2
<1>3. m * p + s = m * q + r
  BY <1>8
<1> HIDE DEF a
<1>4. ~(p < q)
  <2> SUFFICES ASSUME p < q PROVE FALSE
    OBVIOUS
  <2>0. q - p - 1 \in Nat /\ q = p + 1 + (q - p - 1)
    OBVIOUS
  <2>1. PICK d \in Nat : q = p + 1 + d
    BY <2>0
  <2>2. m * q = m * p + m + m * d
    BY <1>2, <2>1
  <2>3. m * d >= 0 /\ m * p \in Int /\ m * d \in Int
    BY <1>2
  <2> QED BY <1>2, <1>3, <2>2, <2>3
<1>5. ~(q < p)
  <2> SUFFICES ASSUME q < p PROVE FALSE
    OBVIOUS
  <2>0. p - q - 1 \in Nat /\ p = q + 1 + (p - q - 1)
    OBVIOUS
  <2>1. PICK d \in Nat : p = q + 1 + d
    BY <2>0
  <2>2. m * p = m * q + m + m * d
    BY <1>2, <2>1
  <2>3. m * d >= 0 /\ m * q \in Int /\ m * d \in Int
    BY <1>2
  <2> QED BY <1>2, <1>3, <2>2, <2>3
<1>6. p = q
  BY <1>2, <1>4, <1>5
<1>7. s = r
  <2>1. m * q \in Int
    OBVIOUS
  <2> QED BY <1>2, <1>3, <1>6, <2>1
<1> QED BY <1>6, <1>7, <1>8 DEF a

(* A number below the modulus is its own remainder.                        *)
LEMMA SmallNumber ==
  ASSUME NEW m \in Nat \ {0}, NEW a \in 0..m - 1
  PROVE  a % m = a
<1>1. PICK z \in Nat : z = 0
  OBVIOUS
<1>2. (m * z + a) % m = a
  BY Remainder
<1>3. m * z + a = a
  BY <1>1
<1> QED BY <1>2, <1>3

(* It is all the same whether the remainder is taken once or twice.        *)
LEMMA AddedLater ==
  ASSUME NEW m \in Nat \ {0}, NEW a \in Nat, NEW b \in Nat
  PROVE  ((a % m) + b) % m = (a + b) % m
<1>0. PICK q \in Nat : \E s \in 0..m - 1 : s = a % m /\ a = m * q + s
  BY Division
<1>1. PICK s \in 0..m - 1 : s = a % m /\ a = m * q + s
  BY <1>0
<1> DEFINE c == s + b
<1>2. c \in Nat
  OBVIOUS
<1>7. PICK p \in Nat : \E r \in 0..m - 1 : r = c % m /\ c = m * p + r
  BY ZenonT(60), <1>2, Division
<1>3. PICK r \in 0..m - 1 : r = c % m /\ c = m * p + r
  BY <1>7
<1>4. a + b = m * (q + p) + r
  <2>1. m * (q + p) = m * q + m * p
    BY <1>1, <1>3
  <2>2. m * q \in Int /\ m * p \in Int
    BY <1>1, <1>3
  <2> QED BY SMTT(30), <1>1, <1>3, <2>1, <2>2
<1> DEFINE x == q + p
<1>5. x \in Nat /\ a + b = m * x + r
  BY <1>4
<1> HIDE DEF x
<1>6. (a + b) % m = r
  BY <1>5, Remainder
<1> QED BY <1>1, <1>3, <1>6

(* A number of frames modulo N is a number of bytes modulo N * F.           *)
LEMMA ByteNumber ==
  ASSUME NEW F \in Nat \ {0}, NEW N \in Nat \ {0}, NEW a \in Nat, NEW r \in 0..F - 1
  PROVE  (a % N) * F + r = (a * F + r) % (N * F)
<1>0. PICK q \in Nat : \E s \in 0..N - 1 : s = a % N /\ a = N * q + s
  BY SMTT(30), Division
<1>1. PICK s \in 0..N - 1 : s = a % N /\ a = N * q + s
  BY <1>0
<1> DEFINE t == s * F + r
           M == N * F
<1>2. M \in Nat \ {0}
  OBVIOUS
<1>3. t \in 0..M - 1
  <2>1. s * F \in Nat /\ t \in Nat
    BY <1>1
  <2>0. N - s - 1 \in Nat /\ N = s + 1 + (N - s - 1)
    OBVIOUS
  <2>2. PICK d \in Nat : N = s + 1 + d
    BY <2>0
  <2>3. M = s * F + F + d * F /\ d * F \in Nat
    BY <2>2
  <2> QED BY <2>1, <2>3
<1>4. a * F + r = M * q + t
  <2>1. (N * q + s) * F = (N * F) * q + s * F
    BY <1>1
  <2> QED BY <1>1, <2>1
<1> HIDE DEF M, t
<1>5. (M * q + t) % M = t
  BY <1>1, <1>2, <1>3, Remainder
<1> QED BY <1>1, <1>4, <1>5 DEF M, t

(* Multiples of a frame, or of a command: their sums, order and            *)
(* quotients.                                                              *)
LEMMA Multiples ==
  ASSUME NEW F \in Nat \ {0}, NEW n \in Nat, NEW k \in Nat
  PROVE  /\ n * F \in Nat /\ (n + 1) * F = n * F + F /\ (n + k) * F = n * F + k * F
         /\ n <= k => n * F <= k * F
         /\ n * F < k * F => n < k /\ (n + 1) * F <= k * F
         /\ n * F = k * F => n = k
         /\ (n * F) \div F = n
<1>1. n * F \in Nat /\ k * F \in Nat
  OBVIOUS
<1>2. (n + 1) * F = n * F + F /\ (n + k) * F = n * F + k * F
  OBVIOUS
<1>3. ASSUME NEW i \in Nat, NEW j \in Nat, i <= j PROVE i * F <= j * F
  <2>1. PICK d \in Nat : j = i + d
    BY <1>3
  <2>2. j * F = i * F + d * F /\ d * F \in Nat /\ i * F \in Nat
    BY <2>1
  <2> QED BY <2>2
<1>4. n * F < k * F => n < k
  <2> SUFFICES ASSUME n * F < k * F, k <= n PROVE FALSE
    OBVIOUS
  <2>1. k * F <= n * F
    BY <1>3
  <2> QED BY <1>1, <2>1
<1>5. n < k => (n + 1) * F <= k * F
  <2> HAVE n < k
  <2>1. n + 1 \in Nat /\ n + 1 <= k
    OBVIOUS
  <2> QED BY <1>3, <2>1
<1>6. n * F = k * F => n = k
  <2>1. n < k => n * F + F <= k * F
    BY <1>2, <1>5
  <2>2. k < n => k * F + F <= n * F
    <3> HAVE k < n
    <3>1. k + 1 \in Nat /\ k + 1 <= n
      OBVIOUS
    <3>2. (k + 1) * F <= n * F /\ (k + 1) * F = k * F + F
      BY <1>3, <3>1
    <3> QED BY <3>2
  <2> QED BY <1>1, <2>1, <2>2
<1>7. (n * F) \div F = n
  <2>1. 0 \in 0..F - 1 /\ n * F = F * n + 0
    OBVIOUS
  <2> QED BY <2>1, Remainder
<1> QED BY <1>1, <1>2, <1>3, <1>4, <1>5, <1>6, <1>7

(* What stash and commands hold, and the lemmas about fifos for it.        *)
Values == (0..ByteCount - 1) \cup Filters \cup {"size"}
P == INSTANCE UadeFifoProofs WITH fifo <- stash, Data <- Values, MaxBytes <- Block

(* A fifo that has never held more than that. Its buffer may be larger     *)
(* than what is in it, but only in proportion.                             *)
FifoInv(f, held) ==
  /\ P!FifoOK(f)
  /\ Length(f) \in 0..held /\ Length(f) <= f.capacity
  /\ f.capacity <= 8 * held + 14
  /\ f.lower <= 7 \/ f.lower <= 3 * held

(* The fifos of UadeOutput are those of UadeFifo.                          *)
LEMMA SameFifo ==
  ASSUME NEW f
  PROVE  /\ Length(f) = P!fifo_len(f) /\ Length(f) = f.upper - f.lower
         /\ Contents(f) = P!Contents(f)
         /\ Contents(f) = [i \in 1..Length(f) |-> f.buf[f.lower + i]]
         /\ \A bytes : Fifo(f)!fifo_read(f, bytes) = P!fifo_read(f, bytes)
         /\ \A data : Fifo(f)!fifo_written(f, data) = P!fifo_written(f, data)
         /\ \A n : Fifo(f)!Grows(f, n) = P!Grows(f, n)
<1>1. Length(f) = P!fifo_len(f) /\ Length(f) = f.upper - f.lower
  BY DEF Length, Fifo!fifo_len, P!fifo_len
<1>2. Contents(f) = P!Contents(f) /\ Contents(f) = [i \in 1..Length(f) |-> f.buf[f.lower + i]]
  BY DEF Contents, Fifo!Contents, P!Contents, Length, Fifo!fifo_len, P!fifo_len
<1>3. \A bytes : Fifo(f)!fifo_read(f, bytes) = P!fifo_read(f, bytes)
  BY DEF Fifo!fifo_read, P!fifo_read, Fifo!halve_fifo, P!halve_fifo, Fifo!Moved, P!Moved, Fifo!Sparse, P!Sparse,
         Fifo!Smaller, P!Smaller, Fifo!fifo_len, P!fifo_len
<1>4. \A data : Fifo(f)!fifo_written(f, data) = P!fifo_written(f, data)
  BY DEF Fifo!fifo_written, P!fifo_written, Fifo!Appended, P!Appended, Fifo!Grows, P!Grows,
         Fifo!Larger, P!Larger, Fifo!fifo_len, P!fifo_len
<1>5. \A n : Fifo(f)!Grows(f, n) = P!Grows(f, n)
  BY DEF Fifo!Grows, P!Grows
<1> QED BY <1>1, <1>2, <1>3, <1>4, <1>5

(* A fifo is not changed by forgetting what is never looked at.            *)
LEMMA KeptFifo ==
  ASSUME NEW f, P!FifoOK(f)
  PROVE  LET g == Kept(f) IN
         /\ P!FifoOK(g) /\ Contents(g) = Contents(f) /\ Length(g) = Length(f)
         /\ g.lower = f.lower /\ g.upper = f.upper /\ g.capacity = f.capacity
<1> DEFINE g == Kept(f)
           n == Length(f)
<1>1. n = f.upper - f.lower /\ n \in Nat /\ P!fifo_len(f) = n
  BY SameFifo DEF P!FifoOK
<1> HIDE DEF n
<1>2. /\ g.lower = f.lower /\ g.upper = f.upper /\ g.capacity = f.capacity /\ g.peak = n
      /\ g.buf = [i \in 1..f.capacity |-> IF i \in f.lower + 1..f.upper THEN f.buf[i] ELSE Junk]
  BY DEF Kept, P!FifoOK, n
<1> HIDE DEF g
<1>3. \A i \in f.lower + 1..f.upper : i \in 1..f.capacity /\ g.buf[i] = f.buf[i] /\ f.buf[i] \in Values
  BY <1>2 DEF P!FifoOK
<1>4. g.buf \in [1..g.capacity -> Values \cup {Junk}]
  BY <1>2, <1>3
<1>5. P!FifoOK(g)
  <2>1. P!fifo_len(g) = n
    BY <1>1, <1>2 DEF P!fifo_len
  <2> QED BY <1>1, <1>2, <1>3, <1>4, <2>1 DEF P!FifoOK
<1>6. Length(g) = n
  BY <1>1, <1>2, SameFifo
<1>7. Contents(g) = Contents(f)
  <2>1. \A i \in 1..n : f.lower + i \in f.lower + 1..f.upper
    BY <1>1 DEF P!FifoOK
  <2>2. \A i \in 1..n : g.buf[g.lower + i] = f.buf[f.lower + i]
    BY <1>2, <1>3, <2>1
  <2>3. Contents(g) = [i \in 1..n |-> g.buf[g.lower + i]] /\ Contents(f) = [i \in 1..n |-> f.buf[f.lower + i]]
    BY <1>6, SameFifo DEF n
  <2> QED BY <2>2, <2>3
<1> USE DEF g, n
<1> QED BY <1>2, <1>5, <1>6, <1>7

(* An empty fifo.                                                          *)
LEMMA EmptyInv ==
  ASSUME NEW held \in Nat
  PROVE  FifoInv(EmptyFifo, held) /\ Length(EmptyFifo) = 0 /\ Contents(EmptyFifo) = <<>>
<1>1. /\ EmptyFifo.lower = 0 /\ EmptyFifo.upper = 0 /\ EmptyFifo.capacity = 0 /\ EmptyFifo.peak = 0
      /\ EmptyFifo.buf = <<>>
  BY DEF EmptyFifo, Fifo!EmptyFifo
<1>2. Length(EmptyFifo) = 0 /\ P!fifo_len(EmptyFifo) = 0
  BY <1>1, SameFifo
<1>3. P!FifoOK(EmptyFifo)
  BY <1>1, <1>2 DEF P!FifoOK
<1>4. Contents(EmptyFifo) = <<>>
  BY <1>2, SameFifo
<1> QED BY <1>1, <1>2, <1>3, <1>4 DEF FifoInv

(* A write appends its bytes, in a buffer in proportion to what may be held.*)
LEMMA QueuedFifo ==
  ASSUME NEW held \in Nat, NEW f, FifoInv(f, held),
         NEW n \in Nat, NEW data \in [1..n -> Values], Length(f) + n <= held
  PROVE  LET g == Queued(f, data) IN
         /\ FifoInv(g, held) /\ Length(g) = Length(f) + n
         /\ \A i \in 1..Length(f) : Contents(g)[i] = Contents(f)[i]
         /\ \A i \in 1..n : Contents(g)[Length(f) + i] = data[i]
<1> DEFINE h == P!fifo_written(f, data)
           g == Queued(f, data)
           m == Length(f)
<1>1. /\ P!FifoOK(h) /\ h.lower = f.lower /\ h.upper = f.upper + n
      /\ h.capacity = (IF P!Grows(f, n) THEN (f.upper + n) * 2 ELSE f.capacity)
      /\ \A i \in 1..f.upper : h.buf[i] = f.buf[i]
      /\ \A i \in 1..n : h.buf[f.upper + i] = data[i]
  BY P!WrittenFifo DEF FifoInv
<1>2. g = Kept(h)
  BY SameFifo DEF Queued
<1>3. f.lower \in Nat /\ f.upper \in Nat /\ f.capacity \in Nat /\ f.lower <= f.upper /\ f.upper <= f.capacity
      /\ m = f.upper - f.lower /\ m \in Nat /\ m + n <= held
      /\ Contents(f) = [i \in 1..m |-> f.buf[f.lower + i]]
      /\ f.capacity <= 8 * held + 14 /\ (f.lower <= 7 \/ f.lower <= 3 * held)
  BY SameFifo DEF FifoInv, P!FifoOK
<1> HIDE DEF h, g, m
<1>4. /\ P!FifoOK(g) /\ g.lower = h.lower /\ g.upper = h.upper /\ g.capacity = h.capacity
      /\ Contents(g) = Contents(h) /\ Length(g) = Length(h)
  BY <1>1, <1>2, KeptFifo
<1>5. Length(g) = m + n /\ Length(h) = m + n
  BY <1>1, <1>3, <1>4, SameFifo
<1>6. h.capacity <= 8 * held + 14
  <2>1. (f.upper + n) * 2 <= 8 * held + 14
    BY SMTT(30), <1>3
  <2> QED BY <1>1, <1>3, <2>1
<1>7. Length(g) <= g.capacity
  BY SMTT(30), <1>1, <1>3, <1>4, <1>5 DEF P!FifoOK
<1>8. FifoInv(g, held)
  BY <1>1, <1>3, <1>4, <1>5, <1>6, <1>7 DEF FifoInv
<1>9. Contents(g) = [i \in 1..m + n |-> h.buf[f.lower + i]]
  BY <1>1, <1>4, <1>5, SameFifo
<1>10. \A i \in 1..m : Contents(g)[i] = Contents(f)[i]
  <2> TAKE i \in 1..m
  <2>1. i \in 1..m + n /\ f.lower + i \in 1..f.upper
    BY SMTT(30), <1>3
  <2> QED BY <1>1, <1>3, <1>9, <2>1
<1>11. \A i \in 1..n : Contents(g)[m + i] = data[i]
  <2> TAKE i \in 1..n
  <2>1. f.upper = f.lower + m /\ f.lower \in Int /\ m \in Nat /\ i \in 1..n
    BY <1>3
  <2>2. m + i \in 1..m + n
    BY <2>1
  <2>3. f.lower + (m + i) = f.upper + i
    BY <2>1
  <2> QED BY <1>1, <1>9, <2>2, <2>3
<1> USE DEF g, m
<1> QED BY <1>5, <1>8, <1>10, <1>11

(* What a read leaves, in the smaller buffer if there is one.               *)
LEMMA AfterFifo ==
  ASSUME NEW held \in Nat, NEW f, FifoInv(f, held), NEW bytes \in Nat
  PROVE  LET g == After(f, bytes)
             n == IF bytes < Length(f) THEN bytes ELSE Length(f) IN
         /\ FifoInv(g, held) /\ n \in 0..Length(f) /\ Length(g) = Length(f) - n
         /\ \A i \in 1..Length(g) : Contents(g)[i] = Contents(f)[i + n]
<1> DEFINE S == Fifo(f)!fifo_read(f, bytes)
           h == CHOOSE x \in S : \A y \in S : x.capacity <= y.capacity
           g == After(f, bytes)
           n == IF bytes < Length(f) THEN bytes ELSE Length(f)
           m == Length(f)
<1>1. g = Kept(h)
  BY DEF After
<1>14. S = P!fifo_read(f, bytes)
  BY SameFifo
<1> HIDE DEF S, h, g
<1>2. P!FifoOK(f) /\ P!fifo_len(f) = m /\ P!Smaller(bytes, P!fifo_len(f)) = n /\ m \in Nat /\ n \in 0..m
      /\ Contents(f) = P!Contents(f) /\ f.capacity \in Nat
  <2>1. P!FifoOK(f) /\ P!fifo_len(f) = m /\ Contents(f) = P!Contents(f) /\ m \in 0..held
    BY SameFifo DEF FifoInv
  <2>2. f.capacity \in Nat
    BY <2>1 DEF P!FifoOK
  <2>3. P!Smaller(bytes, P!fifo_len(f)) = n
    BY <2>1 DEF P!Smaller
  <2> HIDE DEF m
  <2>4. n \in 0..m
    BY <2>1 DEF m
  <2> QED BY <2>1, <2>2, <2>3, <2>4
<1> HIDE DEF n, m
<1>3. \A x \in S : P!ReadLeaves(f, n, x)
  BY <1>2, <1>14, P!ReadFifo
<1>4. \E x \in S : \A y \in S : x.capacity <= y.capacity
  <2> DEFINE k == [f EXCEPT !.lower = @ + P!Smaller(bytes, P!fifo_len(f))]
             c == k.capacity
  <2>1. k.capacity = f.capacity
    BY DEF P!FifoOK
  <2>2. c \in Nat
    BY <1>2, <2>1
  <2> HIDE DEF k
  <2>3. S = {f} \/ S = {k} \/ S = {P!Moved(k, c \div 2), P!Moved(k, c)}
    BY <1>14 DEF P!fifo_read, P!halve_fifo, k
  <2>4. P!Moved(k, c \div 2).capacity = c \div 2 /\ P!Moved(k, c).capacity = c
    BY DEF P!Moved
  <2>5. c \div 2 \in Nat /\ c \div 2 <= c /\ f.capacity <= f.capacity
    BY <1>2, <2>2
  <2> QED BY <2>1, <2>2, <2>3, <2>4, <2>5
<1>5. h \in S
  BY <1>4 DEF h
<1>6. P!ReadLeaves(f, n, h)
  BY <1>3, <1>5
<1>7. /\ P!FifoOK(h) /\ h.capacity <= f.capacity /\ P!fifo_len(h) = m - n
      /\ P!Contents(h) = [i \in 1..m - n |-> Contents(f)[i + n]]
      /\ (h = f \/ h.lower = 0 \/ ~P!Sparse(h))
  BY <1>2, <1>6 DEF P!ReadLeaves
<1>8. /\ P!FifoOK(g) /\ g.lower = h.lower /\ g.upper = h.upper /\ g.capacity = h.capacity
      /\ Contents(g) = Contents(h) /\ Length(g) = Length(h)
  BY <1>1, <1>7, KeptFifo
<1>9. Length(g) = m - n /\ Contents(g) = [i \in 1..m - n |-> Contents(f)[i + n]]
  BY <1>7, <1>8, SameFifo
<1>10. m \in 0..held /\ f.capacity <= 8 * held + 14 /\ (f.lower <= 7 \/ f.lower <= 3 * held)
  BY DEF FifoInv, m
<1>11. /\ h.lower \in Nat /\ h.upper \in Nat /\ h.capacity \in Nat
       /\ h.lower <= h.upper /\ h.upper <= h.capacity /\ m - n = h.upper - h.lower
  BY <1>7, SameFifo DEF P!FifoOK
<1>12. h.lower <= 7 \/ h.lower <= 3 * held
  <2>1. CASE ~P!Sparse(h)
    <3>1. h.capacity < 8 \/ h.capacity \div 4 < h.upper - h.lower
      BY <1>7, <1>11, <2>1, SameFifo DEF P!Sparse
    <3>2. h.capacity < 8 \/ h.capacity < 4 * (h.upper - h.lower)
      BY <1>11, <3>1, P!MoreThanQuarter
    <3>3. h.upper - h.lower <= held
      BY <1>2, <1>10, <1>11
    <3> QED BY <1>11, <3>2, <3>3
  <2> QED BY <1>7, <1>10, <2>1
<1>13. FifoInv(g, held)
  <2>1. m - n \in 0..held /\ m - n <= h.capacity /\ h.capacity <= 8 * held + 14
    BY SMTT(30), <1>2, <1>7, <1>10, <1>11
  <2> QED BY <1>8, <1>9, <1>12, <2>1 DEF FifoInv
<1> USE DEF g, n, m
<1> QED BY <1>2, <1>9, <1>13

(* The last bytes are taken back.                                           *)
LEMMA ErasedFifo ==
  ASSUME NEW held \in Nat, NEW f, FifoInv(f, held), SizeBytes \in Nat, SizeBytes <= Length(f)
  PROVE  LET g == Erased(f) IN
         /\ FifoInv(g, held) /\ Length(g) = Length(f) - SizeBytes
         /\ \A i \in 1..Length(g) : Contents(g)[i] = Contents(f)[i]
<1> DEFINE h == [f EXCEPT !.upper = @ - SizeBytes]
           g == Erased(f)
           m == Length(f)
<1>1. /\ P!FifoOK(f) /\ m = f.upper - f.lower /\ m \in 0..held /\ f.capacity <= 8 * held + 14
      /\ (f.lower <= 7 \/ f.lower <= 3 * held)
      /\ Contents(f) = [i \in 1..m |-> f.buf[f.lower + i]]
  BY SameFifo DEF FifoInv
<1>2. ~(Fifo(f)!fifo_len(f) < SizeBytes)
  BY <1>1, SameFifo DEF Length
<1>3. g = Kept(h)
  BY <1>2 DEF Erased, Fifo!fifo_erase_tail
<1>4. /\ h.lower = f.lower /\ h.capacity = f.capacity /\ h.peak = f.peak
      /\ h.buf = f.buf /\ h.upper = f.upper - SizeBytes
  BY <1>1 DEF P!FifoOK
<1> HIDE DEF h, g, m
<1>5. SizeBytes <= m
  BY DEF m
<1>6. P!FifoOK(h)
  <2>1. \A i \in h.lower + 1..h.upper : i \in f.lower + 1..f.upper
    BY <1>1, <1>4 DEF P!FifoOK
  <2>2. /\ f.lower \in Nat /\ f.upper \in Nat /\ f.capacity \in Nat /\ f.peak \in Nat
        /\ f.lower <= f.upper /\ f.upper <= f.capacity /\ f.upper - f.lower <= f.peak
        /\ f.buf \in [1..f.capacity -> Values \cup {Junk}]
        /\ \A i \in f.lower + 1..f.upper : f.buf[i] \in Values
    BY <1>1 DEF P!FifoOK, P!fifo_len
  <2>3. h.upper \in Nat /\ h.lower <= h.upper /\ h.upper <= h.capacity /\ h.upper - h.lower <= h.peak
    BY SMTT(30), <1>1, <1>4, <1>5, <2>2
  <2> QED BY <1>4, <2>1, <2>2, <2>3 DEF P!FifoOK, P!fifo_len
<1>7. Length(h) = m - SizeBytes
  BY <1>1, <1>4, SameFifo DEF P!FifoOK
<1>8. /\ P!FifoOK(g) /\ g.lower = h.lower /\ g.capacity = h.capacity
      /\ Contents(g) = Contents(h) /\ Length(g) = Length(h)
  BY <1>3, <1>6, KeptFifo
<1>9. Contents(g) = [i \in 1..m - SizeBytes |-> f.buf[f.lower + i]]
  BY <1>4, <1>7, <1>8, SameFifo
<1>10. \A i \in 1..m - SizeBytes : i \in 1..m /\ Contents(g)[i] = Contents(f)[i]
  BY <1>1, <1>5, <1>9
<1>11. FifoInv(g, held)
  <2>1. m - SizeBytes \in 0..held /\ m - SizeBytes <= f.capacity
    BY SMTT(30), <1>1, <1>5 DEF P!FifoOK
  <2> QED BY <1>1, <1>4, <1>7, <1>8, <2>1 DEF FifoInv
<1> USE DEF g, m
<1> QED BY <1>7, <1>8, <1>10, <1>11

(* The messages on the way to the host.                                    *)
End == [type : {"SONG_END"}, tail : 0..Block - 1, at : 0..Numbers - 1]
Data == [type : {"DATA"}, frames : Seq(0..Numbers - 1)]
Token == [type |-> "TOKEN"]
Message == End \cup Data \cup {Token}

(* The types of the variables.                                             *)
Types ==
  /\ pc \in {"reset", "turn", "run"}
  /\ host \in {"none", "initialized", "receive", "end", "wait", "turn", "stopping", "ordering", "rebooting"}
  /\ snd \in [frames : Seq(0..Numbers - 1), request : {0, Block}, output : BOOLEAN, reboot : BOOLEAN,
              filter : Filters]
  /\ made \in 0..Numbers - 1 /\ tail \in 0..Block - 1 /\ wire \in Seq(Message)
  /\ read \in [want : ReadSizes \cup {0}, copied : Nat] /\ read.copied <= read.want
  /\ wanted \in Filters /\ heard \in (0..ByteCount - 1) \cup {Unknown}

(* The type of a message that is on the way.                               *)
Is(i, type) == wire[i].type = type

(* While it is the core's turn only ends of the song are on the way; in    *)
(* the host's turn a block and the turn follow them.                       *)
Turns ==
  /\ pc = "run" => /\ \A i \in 1..Len(wire) : Is(i, "SONG_END")
                   /\ IF snd.reboot THEN host = "rebooting"
                      ELSE host \in {"receive", "end", "stopping"} /\ snd.request = Block
  /\ pc = "turn" => /\ host \notin {"none", "rebooting"} /\ ~snd.reboot
                    /\ \A i \in 1..Len(wire) : /\ Is(i, "TOKEN") <=> i = Len(wire)
                                               /\ Is(i, "DATA") <=> i = Len(wire) - 1
  /\ pc = "reset" => host = "none"
  /\ host \in {"none", "initialized", "turn", "ordering", "rebooting"} => wire = <<>>
  /\ host \in {"initialized", "turn", "wait", "ordering"} => pc = "turn"

(* Frames made one after another; the one made then is next.               *)
Run(frames, next) ==
  /\ \A i \in 1..Len(frames) : frames[i] = (frames[1] + (i - 1)) % Numbers
  /\ frames # <<>> => next = (frames[1] + Len(frames)) % Numbers

(* The frames collected, and those on the way, are a run that reaches up   *)
(* to the frame to be made next. A block on the way has the size           *)
(* requested.                                                              *)
Frames ==
  /\ pc = "turn" => snd.frames = <<>>
  /\ pc = "reset" => Len(snd.frames) * Frame <= SndSize
  /\ pc = "run" /\ snd.reboot => Len(snd.frames) = made /\ made <= Burst
  /\ Emulating => /\ Len(snd.frames) * Frame < Block /\ Run(snd.frames, made)
                  /\ ~snd.output => snd.frames = <<>>
  /\ \A i \in 1..Len(wire) : Is(i, "DATA") =>
       snd.output /\ Len(wire[i].frames) * Frame = Block /\ Run(wire[i].frames, made)

(* The end of the song that is told lies in these frames, at its tail.     *)
EndIn(m, frames) == \E k \in Nat : /\ k < Len(frames)
                                   /\ m.tail = k * Frame /\ m.at = frames[k + 1]

(* The last end told lies in its block, or in the one that is being made,  *)
(* where it is the next frame.                                             *)
Ends ==
  /\ \A i \in 1..Len(wire) : i < Len(wire) /\ Is(i, "SONG_END") /\ Is(i + 1, "DATA") =>
       EndIn(wire[i], wire[i + 1].frames)
  /\ Emulating /\ wire # <<>> => snd.output /\ EndIn(wire[Len(wire)], Filled)

(* StashInOrder.                                                           *)
InOrder == \A i \in 1..Length(stash) : Contents(stash)[i] = (heard + (i - 1)) % ByteCount

(* What is due next is the first byte of the stash, or of the block on     *)
(* the way or being made; behind the stash the core goes on.               *)
Stash ==
  /\ FifoInv(stash, Block) /\ InOrder
  /\ Length(stash) > 0 => pc = "turn" /\ host \in {"receive", "end"} /\ Len(wire) <= 1 /\ heard # Unknown
  /\ heard # Unknown =>
       /\ host \in {"receive", "end", "turn"} /\ snd.output
       /\ \A i \in 1..Len(wire) : Is(i, "DATA") => heard = wire[i].frames[1] * Frame
       /\ Emulating => heard = Filled[1] * Frame
       /\ pc = "turn" /\ host \in {"receive", "turn"} /\ Len(wire) <= 1 =>
            (heard + Length(stash)) % ByteCount = made * Frame

(* The queue holds commands and their sizes. The last command is what the  *)
(* caller wants; with none waiting the core has it.                        *)
CommandSize == SizeBytes + CommandBytes
Queue ==
  /\ FifoInv(commands, MaxCommands * CommandSize)
  /\ \E k \in Nat : Length(commands) = k * CommandSize
  /\ \A i \in 1..Length(commands) : Contents(commands)[i] \in Filters \cup {"size"}
  /\ \A j \in Nat : j * CommandSize < Length(commands) =>
       Contents(commands)[j * CommandSize + SizeBytes + 1] \in Filters
  /\ Length(commands) > 0 => Contents(commands)[Length(commands) - CommandBytes + 1] = wanted
  /\ host \in {"initialized", "receive", "end", "wait", "turn"} /\ Length(commands) = 0 => snd.filter = wanted
  /\ Length(commands) > 0 => host \in {"receive", "end", "wait", "turn"}

(* The inductive invariant.                                                *)
IInv == Types /\ Turns /\ Frames /\ Ends /\ Stash /\ Queue

(* What is assumed of the constants, and of what is computed from them.    *)
LEMMA Constants ==
  /\ Frame \in Nat \ {0} /\ Block \in Nat \ {0} /\ Numbers \in Nat \ {0} /\ SizeBytes \in Nat \ {0}
  /\ CommandBytes \in Nat \ {0} /\ MaxCommands \in Nat /\ Burst \in Nat /\ Burst < Numbers
  /\ ByteCount \in Nat \ {0} /\ CommandSize \in Nat \ {0} /\ MaxCommands * CommandSize \in Nat
  /\ Unknown \notin Nat /\ SndSize \in Nat /\ Block <= SndSize /\ Burst * Frame <= SndSize
  /\ \E k \in Nat : Block = k * Frame
<1>1. /\ Frame \in Nat \ {0} /\ Block \in Nat \ {0} /\ Numbers \in Nat \ {0} /\ SizeBytes \in Nat \ {0}
      /\ CommandBytes \in Nat \ {0} /\ MaxCommands \in Nat /\ Burst \in Nat /\ Burst < Numbers
      /\ Unknown \notin Nat /\ SndSize \in Nat /\ Block <= SndSize /\ Burst * Frame <= SndSize /\ Block % Frame = 0
  BY OutputAssumption
<1>2. ByteCount \in Nat \ {0}
  BY <1>1 DEF ByteCount
<1>3. CommandSize \in Nat \ {0}
  BY <1>1 DEF CommandSize
<1>4. MaxCommands * CommandSize \in Nat
  BY <1>1, <1>3
<1>5. \E k \in Nat : Block = k * Frame
  <2>1. PICK q \in Nat : \E r \in 0..Frame - 1 :
          q = Block \div Frame /\ r = Block % Frame /\ Block = Frame * q + r
    BY <1>1, Division
  <2>2. Block = q * Frame
    BY <1>1, <2>1
  <2> QED BY <2>2
<1> QED BY <1>1, <1>2, <1>3, <1>4, <1>5

(* A message is of one kind.                                                *)
LEMMA Kinds ==
  ASSUME NEW m \in Message
  PROVE  /\ m.type = "SONG_END" => m \in End
         /\ m.type = "DATA" => m \in Data
         /\ m.type = "TOKEN" => m = Token
         /\ m.type \in {"SONG_END", "DATA", "TOKEN"}
BY DEF Message, End, Data, Token

(* The first message is taken from the wire.                               *)
LEMMA Took ==
  ASSUME Types, wire # <<>>, wire' = Tail(wire)
  PROVE  /\ Len(wire) \in Nat \ {0} /\ wire' \in Seq(Message) /\ Len(wire') = Len(wire) - 1
         /\ Head(wire) = wire[1] /\ wire[1] \in Message
         /\ \A i \in 1..Len(wire') : i + 1 \in 1..Len(wire) /\ wire'[i] = wire[i + 1]
         /\ Len(wire) = 1 => wire' = <<>>
BY DEF Types

(* A message is sent.                                                      *)
LEMMA Sent ==
  ASSUME Types, NEW m \in Message, wire' = Append(wire, m)
  PROVE  /\ Len(wire) \in Nat /\ wire' \in Seq(Message) /\ Len(wire') = Len(wire) + 1
         /\ \A i \in 1..Len(wire) : wire'[i] = wire[i]
         /\ wire'[Len(wire) + 1] = m
BY DEF Types

(* A block and the turn are sent.                                          *)
LEMMA SentTwo ==
  ASSUME Types, NEW m \in Message, NEW n \in Message, wire' = wire \o <<m, n>>
  PROVE  /\ Len(wire) \in Nat /\ wire' \in Seq(Message) /\ Len(wire') = Len(wire) + 2
         /\ \A i \in 1..Len(wire) : wire'[i] = wire[i]
         /\ wire'[Len(wire) + 1] = m /\ wire'[Len(wire) + 2] = n
<1> DEFINE t == <<m, n>>
<1>1. t \in Seq(Message) /\ Len(t) = 2 /\ t[1] = m /\ t[2] = n
  OBVIOUS
<1>2. wire \in Seq(Message) /\ Len(wire) \in Nat
  BY DEF Types
<1>3. wire' = wire \o t
  OBVIOUS
<1> HIDE DEF t
<1>4. wire' \in Seq(Message) /\ Len(wire') = Len(wire) + 2
  BY <1>1, <1>2, <1>3
<1>5. \A i \in 1..Len(wire) : wire'[i] = wire[i]
  BY <1>1, <1>2, <1>3
<1>6. wire'[Len(wire) + 1] = m
  BY <1>1, <1>2, <1>3
<1>7. wire'[Len(wire) + 2] = n
  BY <1>1, <1>2, <1>3
<1> QED BY <1>2, <1>4, <1>5, <1>6, <1>7

(* The frames there are and the next one.                                   *)
LEMMA OneMore ==
  ASSUME NEW frames \in Seq(0..Numbers - 1), NEW next \in 0..Numbers - 1, Run(frames, next)
  PROVE  LET all == Append(frames, next) IN
         /\ all \in Seq(0..Numbers - 1) /\ all # <<>> /\ Len(all) = Len(frames) + 1
         /\ \A i \in 1..Len(frames) : all[i] = frames[i]
         /\ all[Len(frames) + 1] = next
         /\ (next + 1) % Numbers \in 0..Numbers - 1
         /\ Run(all, (next + 1) % Numbers)
<1> DEFINE all == Append(frames, next)
           n == Len(frames)
           first == all[1]
           last == (next + 1) % Numbers
<1>1. /\ n \in Nat /\ all \in Seq(0..Numbers - 1) /\ all # <<>> /\ Len(all) = n + 1
      /\ \A i \in 1..n : all[i] = frames[i]
      /\ all[n + 1] = next
  OBVIOUS
<1>2. last \in 0..Numbers - 1
  BY Constants
<1> HIDE DEF all
<1>3. first \in 0..Numbers - 1 /\ next = (first + n) % Numbers
  <2>1. CASE n = 0
    <3>1. first = next
      BY <1>1, <2>1
    <3>2. 0 \in Nat /\ Numbers * 0 + next = next
      BY Constants
    <3>3. next % Numbers = next
      BY <3>2, Constants, Remainder
    <3> QED BY <2>1, <3>1, <3>3
  <2>2. CASE n # 0
    <3>1. first = frames[1] /\ frames # <<>> /\ frames[1] \in 0..Numbers - 1
      <4>1. 1 \in 1..n /\ frames # <<>>
        BY <1>1, <2>2
      <4>2. first = frames[1]
        BY <1>1, <4>1
      <4>3. frames[1] \in 0..Numbers - 1
        BY <4>1, ElementOfSeq
      <4> QED BY <4>1, <4>2, <4>3
    <3> QED BY <3>1 DEF Run
  <2> QED BY <2>1, <2>2
<1> HIDE DEF first
<1>4. \A i \in 1..n + 1 : all[i] = (first + (i - 1)) % Numbers
  <2> TAKE i \in 1..n + 1
  <2>1. CASE i \in 1..n
    <3>1. first = frames[1]
      BY <1>1, <2>1 DEF first
    <3> QED BY <1>1, <2>1, <3>1 DEF Run
  <2>2. CASE i = n + 1
    <3>1. i - 1 = n
      BY <1>1, <2>2
    <3> QED BY <1>1, <1>3, <2>2, <3>1
  <2> QED BY <1>1, <2>1, <2>2
<1>5. last = (first + (n + 1)) % Numbers
  <2>1. first \in Nat /\ n \in Nat /\ first + n \in Nat
    BY <1>1, <1>3
  <2>2. (((first + n) % Numbers) + 1) % Numbers = ((first + n) + 1) % Numbers
    BY <2>1, Constants, AddedLater
  <2>3. (first + n) + 1 = first + (n + 1)
    BY <2>1
  <2> QED BY <1>3, <2>2, <2>3
<1>6. Run(all, last)
  BY <1>1, <1>4, <1>5 DEF Run, first
<1> QED BY <1>1, <1>2, <1>6 DEF all

(* The bytes of frames made one after another.                              *)
LEMMA RunOfBytes ==
  ASSUME NEW frames \in Seq(0..Numbers - 1), frames # <<>>, NEW next, Run(frames, next)
  PROVE  LET n == Len(frames) * Frame IN
         /\ n \in Nat /\ Bytes(frames) \in [1..n -> 0..ByteCount - 1]
         /\ frames[1] * Frame \in 0..ByteCount - 1
         /\ \A i \in 1..n : Bytes(frames)[i] = (frames[1] * Frame + (i - 1)) % ByteCount
         /\ next * Frame = (frames[1] * Frame + n) % ByteCount
<1> DEFINE len == Len(frames)
           n == len * Frame
           first == frames[1]
<1>1. len \in Nat \ {0} /\ first \in 0..Numbers - 1 /\ Frame \in Nat \ {0} /\ Numbers \in Nat \ {0}
      /\ n \in Nat /\ ByteCount = Numbers * Frame /\ ByteCount \in Nat \ {0}
  BY Constants DEF ByteCount
<1>2. \A i \in 1..len : frames[i] = (first + (i - 1)) % Numbers
  BY DEF Run
<1>3. next = (first + len) % Numbers
  BY DEF Run
<1>4. Bytes(frames) = [i \in 1..n |-> frames[((i - 1) \div Frame) + 1] * Frame + ((i - 1) % Frame)]
  BY DEF Bytes
<1> HIDE DEF len, n, first
<1>5. ASSUME NEW i \in 1..n
      PROVE  Bytes(frames)[i] = (first * Frame + (i - 1)) % ByteCount
  <2>1. i - 1 \in Nat /\ i - 1 < n
    BY <1>1
  <2>2. PICK q \in Nat : \E r \in 0..Frame - 1 :
          q = (i - 1) \div Frame /\ r = (i - 1) % Frame /\ i - 1 = Frame * q + r
    BY <1>1, <2>1, Division
  <2>3. PICK r \in 0..Frame - 1 :
          q = (i - 1) \div Frame /\ r = (i - 1) % Frame /\ i - 1 = Frame * q + r
    BY <2>2
  <2>4. q + 1 \in 1..len
    <3>1. q * Frame < len * Frame
      <4>1. q * Frame = Frame * q /\ q * Frame \in Nat
        BY <1>1
      <4>2. Frame * q <= i - 1
        BY <1>1, <2>3, <4>1
      <4> QED BY <1>1, <2>1, <4>1, <4>2 DEF n
    <3>2. q < len
      BY <1>1, <3>1, Multiples
    <3> QED BY <1>1, <3>2
  <2>5. frames[q + 1] = (first + q) % Numbers
    <3>1. (q + 1) - 1 = q
      OBVIOUS
    <3> QED BY <1>2, <2>4, <3>1
  <2>6. Bytes(frames)[i] = frames[q + 1] * Frame + r
    BY <1>4, <2>3
  <2>7. first + q \in Nat
    BY <1>1
  <2>8. ((first + q) % Numbers) * Frame + r = ((first + q) * Frame + r) % ByteCount
    BY <1>1, <2>7, ByteNumber
  <2>9. (first + q) * Frame + r = first * Frame + (i - 1)
    <3>1. (first + q) * Frame = first * Frame + Frame * q
      BY <1>1
    <3>2. first * Frame \in Int /\ Frame * q \in Int
      BY <1>1
    <3> QED BY <2>3, <3>1, <3>2
  <2> QED BY <2>5, <2>6, <2>8, <2>9
<1>6. Bytes(frames) \in [1..n -> 0..ByteCount - 1]
  <2>1. \A i \in 1..n : (first * Frame + (i - 1)) % ByteCount \in 0..ByteCount - 1
    <3> TAKE i \in 1..n
    <3>1. first * Frame \in Nat /\ i - 1 \in Nat
      BY <1>1
    <3> DEFINE x == first * Frame + (i - 1)
    <3>2. x \in Nat
      BY <3>1
    <3> HIDE DEF x
    <3>3. x % ByteCount \in 0..ByteCount - 1
      BY <1>1, <3>2, Modulus
    <3> QED BY <3>3 DEF x
  <2>2. \A i \in 1..n : Bytes(frames)[i] \in 0..ByteCount - 1
    BY <1>5, <2>1
  <2>3. Bytes(frames) = [i \in 1..n |-> Bytes(frames)[i]]
    BY <1>4
  <2> QED BY <2>2, <2>3
<1>7. next * Frame = (first * Frame + n) % ByteCount
  <2>1. first + len \in Nat /\ 0 \in 0..Frame - 1
    BY <1>1
  <2>2. ((first + len) % Numbers) * Frame + 0 = ((first + len) * Frame + 0) % ByteCount
    BY <1>1, <2>1, ByteNumber
  <2>3. (first + len) * Frame + 0 = first * Frame + n
    BY <1>1 DEF n
  <2>4. ((first + len) % Numbers) * Frame \in Int
    <3>1. (first + len) % Numbers \in 0..Numbers - 1
      BY <1>1, <2>1, Modulus
    <3> QED BY <1>1, <3>1
  <2> QED BY <1>3, <2>2, <2>3, <2>4
<1>8. first * Frame \in 0..ByteCount - 1
  <2>1. first * Frame < Numbers * Frame /\ first * Frame \in Nat
    <3>1. (first + 1) * Frame <= Numbers * Frame /\ (first + 1) * Frame = first * Frame + Frame
      <4>1. first + 1 \in Nat /\ first + 1 <= Numbers /\ first \in Nat
        BY <1>1
      <4> QED BY <1>1, <4>1, Multiples
    <3>2. first * Frame \in Nat
      BY <1>1
    <3> QED BY <1>1, <3>1, <3>2
  <2> QED BY <1>1, <2>1
<1> QED BY <1>1, <1>5, <1>6, <1>7, <1>8 DEF n, len, first

(* A frame that is skipped is not missed: nothing is heard before the      *)
(* output begins.                                                          *)
LEMMA SkipsInv == ASSUME IInv, Skips PROVE IInv'
<1>1. /\ pc = "run" /\ ~snd.reboot /\ ~snd.output /\ made' = (made + 1) % Numbers
      /\ UNCHANGED <<pc, snd, ended, wire, host, tail, stash, commands, read, wanted, heard>>
  BY DEF Skips, Emulating, Makes, hostVars
<1>2. Types' /\ made' \in 0..Numbers - 1
  <2>1. made' \in 0..Numbers - 1
    BY <1>1, Constants, Modulus DEF IInv, Types
  <2> QED BY <1>1, <2>1 DEF IInv, Types
<1>3. /\ snd.frames = <<>> /\ wire = <<>> /\ heard = Unknown
  BY <1>1 DEF IInv, Frames, Ends, Stash, Emulating
<1>4. Turns'
  BY <1>1 DEF IInv, Turns, Is
<1>5. Frames'
  BY <1>1, <1>3, Constants DEF IInv, Frames, Emulating, Run, Is
<1>6. Ends'
  BY <1>1, <1>3 DEF IInv, Ends, Emulating, Is
<1>7. Stash'
  BY <1>1, <1>3 DEF IInv, Stash, InOrder, Is, Emulating
<1>8. Queue'
  BY <1>1 DEF IInv, Queue
<1> QED BY <1>2, <1>4, <1>5, <1>6, <1>7, <1>8 DEF IInv

(* What the next frame makes of those collected.                            *)
LEMMA FilledFacts ==
  ASSUME IInv, Emulating
  PROVE  /\ Filled \in Seq(0..Numbers - 1) /\ Filled # <<>> /\ Len(Filled) = Len(snd.frames) + 1
         /\ Len(snd.frames) \in Nat
         /\ \A i \in 1..Len(snd.frames) : Filled[i] = snd.frames[i]
         /\ (made + 1) % Numbers \in 0..Numbers - 1
         /\ Run(Filled, (made + 1) % Numbers)
         /\ Len(Filled) * Frame <= Block
<1>1. snd.frames \in Seq(0..Numbers - 1) /\ made \in 0..Numbers - 1 /\ Len(snd.frames) \in Nat
  BY DEF IInv, Types
<1>2. Run(snd.frames, made) /\ Len(snd.frames) * Frame < Block
  BY DEF IInv, Frames
<1>3. (Len(snd.frames) + 1) * Frame <= Block
  <2>1. PICK k \in Nat : Block = k * Frame
    BY Constants
  <2> QED BY <1>1, <1>2, <2>1, Constants, Multiples
<1>4. Filled = Append(snd.frames, made)
  BY DEF Filled
<1> QED BY <1>1, <1>2, <1>3, <1>4, OneMore

(* A frame joins those collected.                                          *)
LEMMA CollectsInv == ASSUME IInv, Collects PROVE IInv'
<1>1. /\ pc = "run" /\ ~snd.reboot /\ snd.output /\ Emulating /\ made' = (made + 1) % Numbers
      /\ snd' = [snd EXCEPT !.frames = Filled] /\ Len(Filled) * Frame # snd.request
      /\ UNCHANGED <<pc, ended, wire, host, tail, stash, commands, read, wanted, heard>>
  BY DEF Collects, Emulating, Makes, hostVars
<1>2. /\ Filled \in Seq(0..Numbers - 1) /\ Filled # <<>> /\ Len(Filled) = Len(snd.frames) + 1
      /\ Len(snd.frames) \in Nat
      /\ made' \in 0..Numbers - 1 /\ Run(Filled, made') /\ Len(Filled) * Frame <= Block
  BY <1>1, FilledFacts
<1>3. Types' /\ snd'.frames = Filled /\ snd'.output = snd.output /\ snd'.reboot = snd.reboot
      /\ snd'.request = snd.request /\ snd'.filter = snd.filter /\ snd.request = Block
  BY <1>1, <1>2 DEF IInv, Types, Turns
<1>4. Turns'
  BY <1>1, <1>3 DEF IInv, Turns, Is
<1>5. \A i \in 1..Len(wire) : Is(i, "SONG_END") /\ ~Is(i, "DATA")
  BY <1>1 DEF IInv, Turns, Is
<1>6. Frames'
  <2>1. Len(Filled) * Frame < Block
    <3>1. Len(Filled) * Frame \in Nat /\ Block \in Nat
      BY <1>2, Constants
    <3> QED BY <1>1, <1>2, <1>3, <3>1
  <2> QED BY <1>1, <1>2, <1>3, <1>5, <2>1 DEF Frames, Emulating, Is
<1>7. /\ Filled' \in Seq(0..Numbers - 1) /\ Len(Filled') = Len(Filled) + 1
      /\ \A i \in 1..Len(Filled) : Filled'[i] = Filled[i]
  <2>1. Filled' = Append(Filled, made')
    BY <1>3 DEF Filled
  <2> QED BY <1>2, <2>1
<1>8. Ends'
  <2>1. wire # <<>> => EndIn(wire[Len(wire)], Filled')
    <3> HAVE wire # <<>>
    <3>1. PICK k \in Nat : k < Len(Filled) /\ wire[Len(wire)].tail = k * Frame
                           /\ wire[Len(wire)].at = Filled[k + 1]
      BY <1>1 DEF IInv, Ends, EndIn
    <3>2. k + 1 \in 1..Len(Filled) /\ k < Len(Filled')
      BY <1>2, <1>7, <3>1
    <3>3. Filled'[k + 1] = Filled[k + 1]
      BY <1>7, <3>2
    <3> QED BY <3>1, <3>2, <3>3 DEF EndIn
  <2> QED BY SMTT(30), <1>1, <1>3, <1>5, <2>1 DEF Ends, Is, Emulating, EndIn
<1>9. Stash'
  <2>1. Filled'[1] = Filled[1]
    <3>1. 1 \in 1..Len(Filled)
      BY <1>2
    <3> QED BY <1>7, <3>1
  <2> QED BY <1>1, <1>3, <1>5, <2>1 DEF IInv, Stash, InOrder, Is, Emulating
<1>10. Queue'
  BY <1>1, <1>3 DEF IInv, Queue
<1> QED BY <1>3, <1>4, <1>6, <1>8, <1>9, <1>10 DEF IInv

(* The block that is sent ends with the frame just made, and an end of     *)
(* the song told before lies in it.                                        *)
LEMMA SendsBlockInv == ASSUME IInv, SendsBlock PROVE IInv'
<1> DEFINE data == [type |-> "DATA", frames |-> Filled]
           token == [type |-> "TOKEN"]
           n == Len(wire)
<1>1. /\ pc = "run" /\ ~snd.reboot /\ snd.output /\ Emulating /\ made' = (made + 1) % Numbers
      /\ snd' = [snd EXCEPT !.frames = <<>>, !.request = 0] /\ Len(Filled) * Frame = snd.request
      /\ wire' = wire \o <<data, token>> /\ pc' = "turn"
      /\ UNCHANGED <<host, tail, stash, commands, read, wanted, heard>>
  BY DEF SendsBlock, Emulating, Makes, hostVars
<1>2. /\ Filled \in Seq(0..Numbers - 1) /\ Filled # <<>>
      /\ made' \in 0..Numbers - 1 /\ Run(Filled, made')
  BY <1>1, FilledFacts
<1>3. data \in Message /\ token \in Message
  BY <1>2 DEF Message, Data, Token
<1>4. /\ n \in Nat /\ wire' \in Seq(Message) /\ Len(wire') = n + 2
      /\ \A i \in 1..n : wire'[i] = wire[i]
      /\ wire'[n + 1] = data /\ wire'[n + 2] = token
  BY <1>1, <1>3, SentTwo DEF IInv
<1>5. /\ snd'.frames = <<>> /\ snd'.output = snd.output /\ snd'.reboot = snd.reboot
      /\ snd'.request = 0 /\ snd'.filter = snd.filter /\ snd.request = Block
  BY <1>1 DEF IInv, Types, Turns
<1>6. Types'
  <2>1. snd' \in [frames : Seq(0..Numbers - 1), request : {0, Block}, output : BOOLEAN,
                  reboot : BOOLEAN, filter : Filters]
    <3>1. <<>> \in Seq(0..Numbers - 1)
      OBVIOUS
    <3> QED BY <1>1, <3>1 DEF IInv, Types
  <2> QED BY <1>1, <1>2, <1>4, <2>1 DEF IInv, Types
<1>7. host \in {"receive", "end", "stopping"} /\ \A i \in 1..n : Is(i, "SONG_END")
  BY <1>1 DEF IInv, Turns
<1>8. /\ \A i \in 1..n : wire'[i].type = "SONG_END"
      /\ wire'[n + 1].type = "DATA" /\ wire'[n + 2].type = "TOKEN"
      /\ wire'[n + 1].frames = Filled
  BY <1>4, <1>7 DEF Is
<1>9. \A i \in 1..n + 2 : i \in 1..n \/ i = n + 1 \/ i = n + 2
  BY <1>4
<1>10. \A i \in 1..n : i # n + 1 /\ i # n + 2 /\ i < n + 2
  BY <1>4
<1>11. n + 1 # n + 2 /\ (n + 2) - 1 = n + 1 /\ n + 2 # n + 1
  BY <1>4
<1> HIDE DEF data, token, n
<1>12. Turns'
  <2>1. \A i \in 1..Len(wire') : /\ (wire'[i].type = "TOKEN") <=> i = Len(wire')
                                 /\ (wire'[i].type = "DATA") <=> i = Len(wire') - 1
    BY <1>4, <1>8, <1>9, <1>10, <1>11
  <2> QED BY <1>1, <1>5, <1>7, <2>1 DEF Turns, Is
<1>13. Frames'
  <2>1. \A i \in 1..Len(wire') : wire'[i].type = "DATA" =>
          snd'.output /\ Len(wire'[i].frames) * Frame = Block /\ Run(wire'[i].frames, made')
    BY <1>1, <1>2, <1>4, <1>5, <1>8, <1>9
  <2> QED BY <1>1, <1>5, <2>1 DEF Frames, Is, Emulating
<1>14. Ends'
  <2>1. ASSUME NEW i \in 1..Len(wire'), i < Len(wire'), wire'[i].type = "SONG_END",
               wire'[i + 1].type = "DATA"
        PROVE  EndIn(wire'[i], wire'[i + 1].frames)
    <3>1. i \in 1..n
      BY <1>4, <1>8, <1>9, <2>1
    <3>2. i = n
      <4> SUFFICES ASSUME i # n PROVE FALSE
        OBVIOUS
      <4>1. i + 1 \in 1..n
        BY <1>4, <3>1
      <4> QED BY <1>8, <2>1, <4>1
    <3>3. EndIn(wire[n], Filled)
      BY <1>1, <1>4, <3>1 DEF IInv, Ends, n
    <3> QED BY <1>4, <1>8, <3>1, <3>2, <3>3
  <2> QED BY <1>1, <2>1 DEF Ends, Is, Emulating
<1>15. Stash'
  <2>1. heard # Unknown => \A i \in 1..Len(wire') : wire'[i].type = "DATA" => heard = wire'[i].frames[1] * Frame
    <3>1. heard # Unknown => heard = Filled[1] * Frame
      BY <1>1 DEF IInv, Stash
    <3> QED BY <1>4, <1>8, <1>9, <3>1
  <2>2. Length(stash) = 0 \/ ~(Length(stash) > 0)
    BY <1>1 DEF IInv, Stash
  <2>3. ~(Len(wire') <= 1) /\ ~(Length(stash) > 0)
    BY <1>1, <1>4 DEF IInv, Stash
  <2> QED BY <1>1, <1>5, <2>1, <2>3 DEF IInv, Stash, InOrder, Is, Emulating
<1>16. Queue'
  BY <1>1, <1>5 DEF IInv, Queue
<1> QED BY <1>6, <1>12, <1>13, <1>14, <1>15, <1>16 DEF IInv

(* The frames that are made while the core reboots fit.                    *)
LEMMA MakesInBurstInv == ASSUME IInv, MakesInBurst PROVE IInv'
<1>1. /\ pc = "run" /\ snd.reboot /\ made < Burst /\ made' = made + 1
      /\ snd' = [snd EXCEPT !.frames = Filled]
      /\ UNCHANGED <<pc, ended, wire, host, tail, stash, commands, read, wanted, heard>>
  BY DEF MakesInBurst, hostVars
<1>2. made' \in 0..Numbers - 1
  <2>1. made \in Nat /\ Burst \in Nat /\ Numbers \in Nat /\ made < Burst /\ Burst < Numbers
    BY <1>1, Constants DEF IInv, Types
  <2> QED BY <1>1, <2>1
<1>3. Filled \in Seq(0..Numbers - 1) /\ Len(Filled) = Len(snd.frames) + 1 /\ Len(snd.frames) = made
  BY <1>1 DEF IInv, Types, Frames, Filled
<1>4. Types' /\ snd'.frames = Filled /\ snd'.output = snd.output /\ snd'.reboot = snd.reboot
      /\ snd'.request = snd.request /\ snd'.filter = snd.filter
  BY <1>1, <1>2, <1>3 DEF IInv, Types
<1>5. wire = <<>> /\ heard = Unknown
  BY <1>1 DEF IInv, Turns, Stash
<1>6. Turns'
  BY <1>1, <1>4 DEF IInv, Turns, Is
<1>7. Frames'
  BY SMTT(30), <1>1, <1>2, <1>3, <1>4, <1>5, Constants DEF IInv, Types, Frames, Emulating, Is
<1>8. Ends'
  BY <1>1, <1>4, <1>5 DEF Ends, Is, Emulating
<1>9. Stash'
  BY <1>1, <1>4, <1>5 DEF IInv, Stash, InOrder, Is, Emulating
<1>10. Queue'
  BY <1>1, <1>4 DEF IInv, Queue
<1> QED BY <1>4, <1>6, <1>7, <1>8, <1>9, <1>10 DEF IInv

(* The output begins with the frame to be made next.                       *)
LEMMA StartsOutputInv == ASSUME IInv, StartsOutput PROVE IInv'
<1>1. /\ pc = "run" /\ ~snd.reboot /\ Emulating /\ snd' = [snd EXCEPT !.output = TRUE]
      /\ UNCHANGED <<pc, made, wire, host, tail, stash, commands, read, wanted, heard>>
  BY DEF StartsOutput, Emulating, hostVars
<1>2. Types' /\ snd'.frames = snd.frames /\ snd'.output /\ snd'.reboot = snd.reboot
      /\ snd'.request = snd.request /\ snd'.filter = snd.filter
  BY <1>1 DEF IInv, Types
<1>3. Filled' = Filled
  BY <1>1, <1>2 DEF Filled
<1>4. Turns' /\ Frames'
  BY <1>1, <1>2 DEF IInv, Turns, Frames, Emulating, Is
<1>5. Ends'
  BY <1>1, <1>2, <1>3 DEF IInv, Ends, Is, Emulating
<1>6. Stash'
  BY <1>1, <1>2, <1>3 DEF IInv, Stash, InOrder, Is, Emulating
<1>7. Queue'
  BY <1>1, <1>2 DEF IInv, Queue
<1> QED BY <1>2, <1>4, <1>5, <1>6, <1>7 DEF IInv

(* The end of the song lies in the block that is being made, at its next   *)
(* frame.                                                                  *)
LEMMA SongEndsInv == ASSUME IInv, SongEnds PROVE IInv'
<1> DEFINE m == [type |-> "SONG_END", tail |-> Len(snd.frames) * Frame, at |-> made]
           n == Len(wire)
<1>1. /\ pc = "run" /\ ~snd.reboot /\ Emulating /\ snd' = [snd EXCEPT !.output = TRUE]
      /\ wire' = Append(wire, m)
      /\ UNCHANGED <<pc, made, host, tail, stash, commands, read, wanted, heard>>
  BY DEF SongEnds, Emulating, hostVars
<1>2. m \in Message
  <2>1. Len(snd.frames) * Frame \in Nat /\ Len(snd.frames) * Frame < Block
    <3>1. Len(snd.frames) \in Nat
      BY DEF IInv, Types
    <3> QED BY SMTT(30), <1>1, <3>1, Constants DEF IInv, Frames
  <2>2. Len(snd.frames) * Frame \in 0..Block - 1
    BY <2>1, Constants
  <2> QED BY <2>2 DEF Message, End, IInv, Types
<1>3. /\ n \in Nat /\ wire' \in Seq(Message) /\ Len(wire') = n + 1
      /\ \A i \in 1..n : wire'[i] = wire[i]
      /\ wire'[n + 1] = m
  BY <1>1, <1>2, Sent DEF IInv
<1>4. /\ snd'.frames = snd.frames /\ snd'.output /\ snd'.reboot = snd.reboot
      /\ snd'.request = snd.request /\ snd'.filter = snd.filter
  BY <1>1 DEF IInv, Types
<1>5. Types'
  BY <1>1, <1>3 DEF IInv, Types
<1>6. EndIn(m, Filled) /\ Filled' = Filled
  <2>1. /\ Len(snd.frames) \in Nat /\ Len(Filled) = Len(snd.frames) + 1
        /\ Filled[Len(snd.frames) + 1] = made
    BY DEF IInv, Types, Filled
  <2>2. Filled' = Filled
    BY <1>1, <1>4 DEF Filled
  <2>3. Len(snd.frames) < Len(Filled)
    BY <2>1
  <2> QED BY <2>1, <2>2, <2>3 DEF EndIn
<1>7. \A i \in 1..n + 1 : wire'[i].type = "SONG_END"
  <2> TAKE i \in 1..n + 1
  <2>1. CASE i \in 1..n
    BY <1>1, <1>3, <2>1 DEF IInv, Turns, Is
  <2>2. CASE i = n + 1
    BY <1>3, <2>2
  <2> QED BY <1>3, <2>1, <2>2
<1> HIDE DEF m, n
<1>8. Turns'
  BY <1>1, <1>3, <1>4, <1>7 DEF IInv, Turns, Is
<1>9. Frames'
  BY <1>1, <1>3, <1>4, <1>7 DEF IInv, Frames, Emulating, Is
<1>10. Ends'
  <2>1. \A i \in 1..Len(wire') : i < Len(wire') => wire'[i + 1].type # "DATA"
    <3> TAKE i \in 1..Len(wire')
    <3> HAVE i < Len(wire')
    <3>1. i + 1 \in 1..n + 1
      BY <1>3
    <3> QED BY <1>7, <3>1
  <2>2. EndIn(wire'[Len(wire')], Filled')
    BY <1>3, <1>6
  <2> QED BY <1>4, <2>1, <2>2 DEF Ends, Is
<1>11. Stash'
  <2>1. \A i \in 1..Len(wire') : wire'[i].type # "DATA"
    BY <1>3, <1>7
  <2> QED BY <1>1, <1>4, <1>6, <2>1 DEF IInv, Stash, InOrder, Is, Emulating
<1>12. Queue'
  BY <1>1, <1>4 DEF IInv, Queue
<1> QED BY <1>5, <1>8, <1>9, <1>10, <1>11, <1>12 DEF IInv

(* Nothing is on the way when the core waits for a song.                   *)
LEMMA RebootsInv == ASSUME IInv, Reboots PROVE IInv'
<1>1. /\ pc = "run" /\ snd.reboot /\ pc' = "reset" /\ host' = "none" /\ tail' = 0
      /\ UNCHANGED <<snd, made, wire, stash, commands, read, wanted, heard>>
  BY DEF Reboots
<1>2. host = "rebooting" /\ wire = <<>> /\ heard = Unknown
  BY <1>1 DEF IInv, Turns, Stash
<1>3. 0 \in 0..Block - 1
  BY Constants
<1>4. Types'
  BY <1>1, <1>3 DEF IInv, Types
<1>5. Turns'
  BY <1>1, <1>2 DEF Turns, Is
<1>6. Len(snd.frames) * Frame <= SndSize
  <2>1. Len(snd.frames) \in Nat /\ Len(snd.frames) <= Burst
    BY <1>1 DEF IInv, Types, Frames
  <2>2. Len(snd.frames) * Frame <= Burst * Frame
    BY <2>1, Constants, Multiples
  <2>3. SndSize \in Nat /\ Burst * Frame <= SndSize /\ Burst * Frame \in Nat /\ Len(snd.frames) * Frame \in Nat
    BY <2>1, Constants
  <2> QED BY <2>2, <2>3
<1>7. Frames'
  BY <1>1, <1>2, <1>6 DEF Frames, Emulating, Is
<1>8. Ends'
  BY <1>1, <1>2 DEF Ends, Is, Emulating
<1>9. Stash'
  BY <1>1, <1>2 DEF IInv, Stash, InOrder, Is, Emulating
<1>10. Queue'
  BY <1>1, <1>2 DEF IInv, Queue
<1> QED BY <1>4, <1>5, <1>7, <1>8, <1>9, <1>10 DEF IInv

(* A command behind those that wait, or none if memory is refused.          *)
LEMMA CommandQueued ==
  ASSUME IInv, NEW v \in Filters, Length(commands) < MaxCommands * (SizeBytes + CommandBytes), queue_command(v)
  PROVE  LET s == Queued(commands, Size)
             q == Queued(s, Command(v))
             n == Length(commands) IN
         /\ n \in Nat /\ FifoInv(commands', MaxCommands * CommandSize)
         /\ \/ /\ wanted' = v /\ commands' = q /\ Length(commands') = n + CommandSize
               /\ \A i \in 1..n : Contents(commands')[i] = Contents(commands)[i]
               /\ Contents(commands')[n + SizeBytes + 1] = v
               /\ \A i \in 1..n + CommandSize : i \in 1..n \/ Contents(commands')[i] \in {"size", v}
            \/ /\ wanted' = wanted /\ Length(commands') = n
               /\ \A i \in 1..n : Contents(commands')[i] = Contents(commands)[i]
<1> DEFINE held == MaxCommands * CommandSize
           s == Queued(commands, Size)
           q == Queued(s, Command(v))
           n == Length(commands)
<1>1. held \in Nat /\ FifoInv(commands, held) /\ n \in Nat
  BY Constants DEF IInv, Queue, FifoInv
<1>2. n + CommandSize <= held
  <2>1. PICK k \in Nat : n = k * CommandSize
    BY DEF IInv, Queue
  <2>2. n < MaxCommands * CommandSize
    BY DEF CommandSize
  <2>3. (k + 1) * CommandSize <= MaxCommands * CommandSize /\ (k + 1) * CommandSize = k * CommandSize + CommandSize
    BY <2>1, <2>2, Constants, Multiples
  <2> QED BY <2>1, <2>3
<1>3. SizeBytes \in Nat \ {0} /\ CommandBytes \in Nat \ {0} /\ CommandSize = SizeBytes + CommandBytes
  BY Constants DEF CommandSize
<1>4. Size \in [1..SizeBytes -> Values] /\ Command(v) \in [1..CommandBytes -> Values]
  BY <1>3 DEF Size, Command, Values
<1> HIDE DEF held, n, s
<1>5. /\ FifoInv(s, held) /\ Length(s) = n + SizeBytes
      /\ \A i \in 1..n : Contents(s)[i] = Contents(commands)[i]
      /\ \A i \in 1..SizeBytes : Contents(s)[n + i] = Size[i]
  <2>1. n + SizeBytes <= held
    BY <1>1, <1>2, <1>3
  <2> QED BY <1>1, <1>3, <1>4, <2>1, QueuedFifo DEF s, n
<1>6. CASE commands' = q /\ Accepted(v)
  <2>1. Length(s) \in Nat /\ Length(s) + CommandBytes <= held
    BY <1>1, <1>2, <1>3, <1>5
  <2>2. /\ FifoInv(q, held) /\ Length(q) = Length(s) + CommandBytes
        /\ \A i \in 1..Length(s) : Contents(q)[i] = Contents(s)[i]
        /\ \A i \in 1..CommandBytes : Contents(q)[Length(s) + i] = Command(v)[i]
    BY <1>1, <1>3, <1>4, <1>5, <2>1, QueuedFifo
  <2> HIDE DEF q
  <2>3. Length(q) = n + CommandSize
    BY <1>1, <1>3, <1>5, <2>2
  <2>4. \A i \in 1..n : Contents(q)[i] = Contents(commands)[i]
    <3>1. \A i \in 1..n : i \in 1..Length(s)
      BY <1>1, <1>3, <1>5
    <3> QED BY <1>5, <2>2, <3>1
  <2>5. Contents(q)[n + SizeBytes + 1] = v
    <3>1. 1 \in 1..CommandBytes /\ Command(v)[1] = v
      BY <1>3 DEF Command
    <3> QED BY <1>5, <2>2, <3>1
  <2>6. \A i \in 1..n + CommandSize : i \in 1..n \/ Contents(q)[i] \in {"size", v}
    <3> TAKE i \in 1..n + CommandSize
    <3>1. CASE i \in n + 1..n + SizeBytes
      <4>1. i - n \in 1..SizeBytes /\ n + (i - n) = i /\ i \in 1..Length(s)
        BY <1>1, <1>3, <1>5, <3>1
      <4> DEFINE x == i - n
      <4>2. x \in 1..SizeBytes /\ n + x = i
        BY <4>1
      <4> HIDE DEF x
      <4>3. Contents(s)[i] = Size[x]
        BY <1>5, <4>2
      <4>4. Size[x] = "size"
        BY <4>2 DEF Size
      <4> QED BY <2>2, <4>1, <4>3, <4>4
    <3>2. CASE i \in n + SizeBytes + 1..n + CommandSize
      <4> DEFINE x == i - (n + SizeBytes)
      <4>1. x \in 1..CommandBytes /\ Length(s) + x = i
        BY <1>1, <1>3, <1>5, <3>2
      <4> HIDE DEF x
      <4>2. Contents(q)[i] = Command(v)[x]
        BY <2>2, <4>1
      <4>3. Command(v)[x] = v
        BY <4>1 DEF Command
      <4> QED BY <4>2, <4>3
    <3>3. i \in 1..n \/ i \in n + 1..n + SizeBytes \/ i \in n + SizeBytes + 1..n + CommandSize
      BY <1>1, <1>3
    <3> QED BY <3>1, <3>2, <3>3
  <2>7. n + CommandSize = Length(q)
    BY <2>3
  <2> QED BY <1>1, <1>6, <2>2, <2>3, <2>4, <2>5, <2>6 DEF q, s, n, held, Accepted
<1>7. CASE UNCHANGED <<commands, wanted>>
  BY <1>1, <1>7 DEF n, held
<1>8. CASE commands' = Erased(s) /\ UNCHANGED wanted
  <2>1. SizeBytes \in Nat /\ SizeBytes <= Length(s)
    BY <1>1, <1>3, <1>5
  <2>2. /\ FifoInv(Erased(s), held) /\ Length(Erased(s)) = Length(s) - SizeBytes
        /\ \A i \in 1..Length(Erased(s)) : Contents(Erased(s))[i] = Contents(s)[i]
    BY <1>1, <1>5, <2>1, ErasedFifo
  <2>3. Length(Erased(s)) = n
    BY <1>1, <1>3, <1>5, <2>2
  <2> QED BY <1>1, <1>5, <1>8, <2>2, <2>3 DEF n, held
<1> QED BY <1>6, <1>7, <1>8 DEF queue_command, s

(* The commands are whole, and the last one is what the caller wants.      *)
LEMMA CommandQueuedInv ==
  ASSUME IInv, NEW v \in Filters, Length(commands) < MaxCommands * (SizeBytes + CommandBytes), queue_command(v),
         host \in {"receive", "end", "wait"}, host' = host, snd' = snd
  PROVE  Queue' /\ wanted' \in Filters
<1> DEFINE n == Length(commands)
           c == CommandSize
<1>1. n \in Nat /\ FifoInv(commands', MaxCommands * CommandSize) /\ wanted \in Filters
  BY CommandQueued DEF IInv, Types
<1>2. PICK k \in Nat : n = k * c
  BY DEF IInv, Queue
<1>3. c \in Nat \ {0} /\ SizeBytes \in Nat \ {0} /\ CommandBytes \in Nat \ {0} /\ c = SizeBytes + CommandBytes
  BY Constants DEF CommandSize
<1>4. \A j \in Nat : j * c < n => j * c + SizeBytes + 1 \in 1..n /\ Contents(commands)[j * c + SizeBytes + 1] \in Filters
  <2> TAKE j \in Nat
  <2> HAVE j * c < n
  <2>3. j * c < k * c
    BY <1>2
  <2> HIDE DEF c, n
  <2>1. (j + 1) * c <= k * c /\ (j + 1) * c = j * c + c /\ j * c \in Nat
    BY <2>3, <1>3, Multiples
  <2>2. j * c + SizeBytes + 1 \in 1..n
    BY <1>2, <1>3, <2>1
  <2> QED BY <2>2 DEF IInv, Queue, c, n
<1>5. n > 0 => /\ n - CommandBytes + 1 \in 1..n /\ Contents(commands)[n - CommandBytes + 1] = wanted
  <2> HAVE n > 0
  <2>1. 0 * c < k * c /\ 0 * c = 0
    BY <1>2, <1>3
  <2>2. (0 + 1) * c <= k * c /\ (0 + 1) * c = 0 * c + c
    BY <1>3, <2>1, Multiples
  <2>3. c <= n
    BY <1>2, <1>3, <2>1, <2>2
  <2>4. n - CommandBytes + 1 \in 1..n
    BY <1>1, <1>3, <2>3
  <2> QED BY <2>4 DEF IInv, Queue
<1>6. ASSUME /\ wanted' = v /\ Length(commands') = n + c
             /\ \A i \in 1..n : Contents(commands')[i] = Contents(commands)[i]
             /\ Contents(commands')[n + SizeBytes + 1] = v
             /\ \A i \in 1..n + c : i \in 1..n \/ Contents(commands')[i] \in {"size", v}
      PROVE  Queue' /\ wanted' \in Filters
  <2>1. n + c = (k + 1) * c /\ k + 1 \in Nat
    BY <1>2, <1>3, Multiples
  <2>2. ASSUME NEW j \in Nat, j * c < n + c
        PROVE  Contents(commands')[j * c + SizeBytes + 1] \in Filters
    <3>1. CASE j * c < n
      BY <1>4, <1>6, <3>1
    <3>2. CASE ~(j * c < n)
      <4>1. j < k + 1
        BY <1>3, <2>1, <2>2, Multiples
      <4>2. ~(j < k)
        <5> SUFFICES ASSUME j < k PROVE FALSE
          OBVIOUS
        <5>1. (j + 1) * c <= k * c /\ (j + 1) * c = j * c + c /\ j * c \in Nat
          <6>1. j + 1 \in Nat /\ j + 1 <= k
            OBVIOUS
          <6> QED BY <1>3, <6>1, Multiples
        <5> QED BY <1>1, <1>2, <1>3, <3>2, <5>1
      <4>3. j = k
        BY <4>1, <4>2
      <4> QED BY <1>2, <1>6, <4>3
    <3> QED BY <3>1, <3>2
  <2>3. (n + c) - CommandBytes + 1 = n + SizeBytes + 1 /\ n + c > 0
    BY <1>1, <1>3
  <2>4. \E i \in Nat : Length(commands') = i * CommandSize
    BY <1>6, <2>1
  <2>5. \A j \in Nat : j * CommandSize < Length(commands') =>
          Contents(commands')[j * CommandSize + SizeBytes + 1] \in Filters
    BY <1>6, <2>2
  <2>6. Contents(commands')[Length(commands') - CommandBytes + 1] = wanted' /\ ~(Length(commands') = 0)
    BY <1>6, <2>3
  <2>7. \A i \in 1..Length(commands') : Contents(commands')[i] \in Filters \cup {"size"}
    BY <1>6 DEF IInv, Queue
  <2> HIDE DEF n, c
  <2> QED BY <1>1, <1>6, <2>4, <2>5, <2>6, <2>7 DEF Queue
<1>7. ASSUME /\ wanted' = wanted /\ Length(commands') = n
             /\ \A i \in 1..n : Contents(commands')[i] = Contents(commands)[i]
      PROVE  Queue' /\ wanted' \in Filters
  <2>1. \A j \in Nat : j * CommandSize < Length(commands') =>
          Contents(commands')[j * CommandSize + SizeBytes + 1] \in Filters
    BY <1>4, <1>7
  <2>2. Length(commands') > 0 => Contents(commands')[Length(commands') - CommandBytes + 1] = wanted'
    BY <1>5, <1>7
  <2>3. \E i \in Nat : Length(commands') = i * CommandSize
    BY <1>2, <1>7
  <2>4. Length(commands') = 0 => snd'.filter = wanted'
    BY <1>7 DEF IInv, Queue
  <2>5. \A i \in 1..Length(commands') : Contents(commands')[i] \in Filters \cup {"size"}
    BY <1>7 DEF IInv, Queue
  <2> HIDE DEF n, c
  <2> QED BY <1>1, <1>7, <2>1, <2>2, <2>3, <2>4, <2>5 DEF Queue
<1> QED BY <1>6, <1>7, CommandQueued

(* A new song, with the filter of its configuration.                       *)
LEMMA uade_playInv == ASSUME IInv, NEW v \in Filters, uade_play(v) PROVE IInv'
<1>1. /\ host = "none" /\ pc = "reset" /\ host' = "initialized" /\ pc' = "turn"
      /\ snd' = [snd EXCEPT !.frames = <<>>, !.output = FALSE, !.reboot = FALSE, !.filter = v]
      /\ wanted' = v /\ made' = 0 /\ heard' = Unknown
      /\ UNCHANGED <<wire, tail, stash, commands, read>>
  BY DEF uade_play
<1>2. 0 \in 0..Numbers - 1 /\ <<>> \in Seq(0..Numbers - 1)
  BY Constants
<1>3. /\ snd'.frames = <<>> /\ ~snd'.output /\ ~snd'.reboot /\ snd'.filter = v /\ snd'.request = snd.request
      /\ snd' \in [frames : Seq(0..Numbers - 1), request : {0, Block}, output : BOOLEAN,
                  reboot : BOOLEAN, filter : Filters]
  BY <1>1, <1>2 DEF IInv, Types
<1>4. Types'
  BY <1>1, <1>2, <1>3 DEF IInv, Types
<1>5. wire = <<>>
  BY <1>1 DEF IInv, Turns
<1>6. Turns'
  BY <1>1, <1>3, <1>5 DEF Turns, Is
<1>7. Frames'
  BY <1>1, <1>3, <1>5 DEF Frames, Emulating, Is
<1>8. Ends'
  BY <1>1, <1>5 DEF Ends, Is, Emulating
<1>9. Stash'
  BY <1>1, <1>5 DEF IInv, Stash, InOrder, Is, Emulating
<1>10. Queue'
  BY <1>1, <1>3 DEF IInv, Queue
<1> QED BY <1>4, <1>6, <1>7, <1>8, <1>9, <1>10 DEF IInv

(* The filter is set at once, or a command waits.                          *)
LEMMA uade_set_filter_stateInv == ASSUME IInv, NEW v \in Filters, uade_set_filter_state(v) PROVE IInv'
<1>1. /\ host \in {"initialized", "receive", "end", "wait"}
      /\ UNCHANGED <<pc, made, ended, wire, host, tail, stash, read, heard>>
  BY DEF uade_set_filter_state
<1>2. /\ snd'.frames = snd.frames /\ snd'.output = snd.output /\ snd'.reboot = snd.reboot
      /\ snd'.request = snd.request /\ Queue' /\ wanted' \in Filters
      /\ snd' \in [frames : Seq(0..Numbers - 1), request : {0, Block}, output : BOOLEAN,
                  reboot : BOOLEAN, filter : Filters]
  <2>1. CASE host = "initialized"
    <3>1. snd' = [snd EXCEPT !.filter = v] /\ wanted' = v /\ commands' = commands
      BY <2>1 DEF uade_set_filter_state, Accepted
    <3>2. snd'.filter = v
      BY <3>1 DEF IInv, Types
    <3> QED BY <1>1, <2>1, <3>1, <3>2 DEF IInv, Types, Queue
  <2>2. CASE host # "initialized"
    <3>1. /\ Length(commands) < MaxCommands * (SizeBytes + CommandBytes)
          /\ queue_command(v) /\ snd' = snd
      BY <2>2 DEF uade_set_filter_state
    <3>2. Queue' /\ wanted' \in Filters
      BY <1>1, <2>2, <3>1, CommandQueuedInv
    <3> QED BY <3>1, <3>2 DEF IInv, Types
  <2> QED BY <2>1, <2>2
<1>3. Types'
  BY <1>1, <1>2 DEF IInv, Types
<1>4. Filled' = Filled
  BY <1>1, <1>2 DEF Filled
<1>5. Turns' /\ Frames'
  BY <1>1, <1>2 DEF IInv, Turns, Frames, Emulating, Is
<1>6. Ends'
  BY <1>1, <1>2, <1>4 DEF IInv, Ends, Is, Emulating
<1>7. Stash'
  BY <1>1, <1>2, <1>4 DEF IInv, Stash, InOrder, Is, Emulating
<1> QED BY <1>2, <1>3, <1>5, <1>6, <1>7 DEF IInv

(* The core's part is not touched, and nothing is taken from the wire.      *)
LEMMA SameCore ==
  ASSUME IInv, UNCHANGED <<pc, snd, made, wire>>
  PROVE  Frames' /\ Ends' /\ Filled' = Filled
<1>1. Filled' = Filled
  BY DEF Filled
<1>2. Frames'
  BY DEF IInv, Frames, Emulating, Is
<1>3. Ends'
  BY <1>1 DEF IInv, Ends, Is, Emulating
<1> QED BY <1>1, <1>2, <1>3

(* Nothing waits any more.                                                 *)
LEMMA uade_stopInv == ASSUME IInv, uade_stop PROVE IInv'
<1>1. /\ host \in {"initialized", "receive", "end", "wait"}
      /\ stash' = EmptyFifo /\ commands' = EmptyFifo /\ heard' = Unknown
      /\ host' = IF host = "initialized" THEN "ordering" ELSE "stopping"
      /\ UNCHANGED <<pc, snd, made, wire, tail, read, wanted>>
  BY DEF uade_stop, coreVars
<1>2. Types'
  BY <1>1 DEF IInv, Types
<1>3. Turns'
  BY <1>1 DEF IInv, Turns, Is
<1>4. Frames' /\ Ends'
  BY <1>1, SameCore
<1>5. Stash'
  <2>1. FifoInv(stash', Block) /\ Length(stash') = 0
    BY <1>1, EmptyInv, Constants
  <2> QED BY <1>1, <2>1 DEF Stash, InOrder
<1>6. Queue'
  <2>1. FifoInv(commands', MaxCommands * CommandSize) /\ Length(commands') = 0
    BY <1>1, EmptyInv, Constants
  <2>2. \E k \in Nat : 0 = k * CommandSize
    <3>1. 0 \in Nat /\ 0 = 0 * CommandSize
      BY Constants
    <3> QED BY <3>1
  <2>3. \A j \in Nat : ~(j * CommandSize < 0)
    BY Constants
  <2>4. host' \notin {"initialized", "receive", "end", "wait", "turn"} /\ \A i \in 1..0 : FALSE
    BY <1>1
  <2> QED BY <2>1, <2>2, <2>3, <2>4 DEF Queue
<1> QED BY <1>2, <1>3, <1>4, <1>5, <1>6 DEF IInv

(* The first message is taken: what is known of the others.                 *)
LEMMA Shifted ==
  ASSUME IInv, wire # <<>>, wire' = Tail(wire), UNCHANGED <<pc, snd, made>>,
         pc = "run" => host' \in {"receive", "end", "stopping"},
         pc = "turn" => host' \notin {"none", "rebooting"},
         host' \in {"initialized", "turn", "wait", "ordering"} => pc = "turn",
         host' \in {"none", "initialized", "turn", "ordering", "rebooting"} => wire' = <<>>
  PROVE  /\ Turns' /\ Frames' /\ Ends' /\ Filled' = Filled
         /\ wire' \in Seq(Message) /\ Len(wire') = Len(wire) - 1 /\ Len(wire) \in Nat \ {0}
         /\ Head(wire) = wire[1] /\ wire[1] \in Message /\ 1 \in 1..Len(wire)
         /\ \A i \in 1..Len(wire') : i + 1 \in 1..Len(wire) /\ wire'[i] = wire[i + 1]
         /\ pc \in {"run", "turn"}
         /\ pc = "run" => ~snd.reboot /\ wire[1].type = "SONG_END"
         /\ wire[1].type = "TOKEN" => pc = "turn" /\ Len(wire) = 1 /\ wire' = <<>>
         /\ wire[1].type = "DATA" => pc = "turn" /\ Len(wire) = 2
         /\ wire[1].type = "SONG_END" /\ pc = "turn" => Len(wire) > 2
<1>1. /\ Len(wire) \in Nat \ {0} /\ wire' \in Seq(Message) /\ Len(wire') = Len(wire) - 1
      /\ Head(wire) = wire[1] /\ wire[1] \in Message
      /\ \A i \in 1..Len(wire') : i + 1 \in 1..Len(wire) /\ wire'[i] = wire[i + 1]
      /\ (Len(wire) = 1 => wire' = <<>>)
  BY Took DEF IInv
<1>2. 1 \in 1..Len(wire) /\ wire[1].type \in {"SONG_END", "DATA", "TOKEN"}
  BY <1>1, Kinds
<1>3. pc \in {"run", "turn"}
  BY DEF IInv, Types, Turns
<1>4. pc = "run" => ~snd.reboot /\ \A i \in 1..Len(wire) : wire[i].type = "SONG_END"
  BY DEF IInv, Turns, Is
<1>5. pc = "turn" => \A i \in 1..Len(wire) : /\ (wire[i].type = "TOKEN") <=> i = Len(wire)
                                             /\ (wire[i].type = "DATA") <=> i = Len(wire) - 1
  BY DEF IInv, Turns, Is
<1>6. wire[1].type = "TOKEN" => pc = "turn" /\ Len(wire) = 1
  BY <1>2, <1>3, <1>4, <1>5
<1>7. wire[1].type = "DATA" => pc = "turn" /\ Len(wire) = 2
  <2> HAVE wire[1].type = "DATA"
  <2>1. pc = "turn" /\ 1 = Len(wire) - 1
    BY <1>2, <1>3, <1>4, <1>5
  <2>2. Len(wire) \in Nat
    BY <1>1
  <2> QED BY <2>1, <2>2
<1>8. wire[1].type = "SONG_END" /\ pc = "turn" => Len(wire) > 2
  <2> HAVE wire[1].type = "SONG_END" /\ pc = "turn"
  <2>1. 1 # Len(wire) /\ 1 # Len(wire) - 1
    BY <1>2, <1>5
  <2> QED BY <1>1, <2>1
<1>9. Turns'
  <2>1. pc = "run" => \A i \in 1..Len(wire') : wire'[i].type = "SONG_END"
    BY <1>1, <1>4
  <2>2. pc = "turn" => \A i \in 1..Len(wire') : /\ (wire'[i].type = "TOKEN") <=> i = Len(wire')
                                                /\ (wire'[i].type = "DATA") <=> i = Len(wire') - 1
    <3> HAVE pc = "turn"
    <3> TAKE i \in 1..Len(wire')
    <3>1. i + 1 \in 1..Len(wire) /\ wire'[i] = wire[i + 1]
          /\ (i = Len(wire') <=> i + 1 = Len(wire))
          /\ (i = Len(wire') - 1 <=> i + 1 = Len(wire) - 1)
      BY <1>1
    <3> QED BY <1>5, <3>1
  <2>3. ~snd.reboot
    BY <1>3, <1>4 DEF IInv, Turns
  <2>4. pc = "run" => snd.request = Block
    BY <2>3 DEF IInv, Turns
  <2> QED BY <1>3, <2>1, <2>2, <2>3, <2>4 DEF Turns, Is
<1>10. Frames'
  <2>1. \A i \in 1..Len(wire') : wire'[i].type = "DATA" =>
          snd.output /\ Len(wire'[i].frames) * Frame = Block /\ Run(wire'[i].frames, made)
    BY <1>1 DEF IInv, Frames, Is
  <2> QED BY <2>1 DEF IInv, Frames, Is, Emulating
<1>11. Filled' = Filled
  BY DEF Filled
<1>12. Ends'
  <2>1. ASSUME NEW i \in 1..Len(wire'), i < Len(wire'), wire'[i].type = "SONG_END", wire'[i + 1].type = "DATA"
        PROVE  EndIn(wire'[i], wire'[i + 1].frames)
    <3>1. /\ i + 1 \in 1..Len(wire) /\ i + 1 < Len(wire) /\ i + 1 \in 1..Len(wire')
          /\ wire'[i] = wire[i + 1]
      BY <1>1, <2>1
    <3>2. wire'[i + 1] = wire[(i + 1) + 1]
      BY <1>1, <3>1
    <3> QED BY <2>1, <3>1, <3>2 DEF IInv, Ends, Is
  <2>2. Emulating /\ wire' # <<>> => snd.output /\ EndIn(wire'[Len(wire')], Filled)
    <3> HAVE Emulating /\ wire' # <<>>
    <3>1. Len(wire') \in 1..Len(wire')
      BY <1>1
    <3>2. wire'[Len(wire')] = wire[Len(wire)]
      <4>1. Len(wire') + 1 = Len(wire)
        BY <1>1
      <4> QED BY <1>1, <3>1, <4>1
    <3> QED BY <3>2 DEF IInv, Ends
  <2> QED BY <1>11, <2>1, <2>2 DEF Ends, Is, Emulating
<1> QED BY <1>1, <1>2, <1>3, <1>4, <1>6, <1>7, <1>8, <1>9, <1>10, <1>11, <1>12

(* What is on the way to a song that is stopped is of no interest.         *)
LEMMA DrainsInv == ASSUME IInv, Drains PROVE IInv'
<1>1. /\ host = "stopping" /\ wire # <<>> /\ wire' = Tail(wire)
      /\ host' = (IF Head(wire).type = "TOKEN" THEN "ordering" ELSE host)
      /\ UNCHANGED <<pc, snd, made, tail, stash, commands, read, wanted, heard>>
  BY DEF Drains, coreVars
<1>2. /\ Head(wire) = wire[1]
      /\ wire[1].type = "TOKEN" => pc = "turn" /\ wire' = <<>>
  <2>1. Head(wire) = wire[1] /\ 1 \in 1..Len(wire) /\ Len(wire) \in Nat \ {0} /\ (Len(wire) = 1 => wire' = <<>>)
    BY <1>1, Took DEF IInv
  <2>2. wire[1].type = "TOKEN" => pc = "turn" /\ Len(wire) = 1
    BY <1>1, <2>1 DEF IInv, Types, Turns, Is
  <2> QED BY <2>1, <2>2
<1>3. Turns' /\ Frames' /\ Ends' /\ wire' \in Seq(Message)
  <2>1. /\ (pc = "run" => host' \in {"receive", "end", "stopping"})
        /\ (pc = "turn" => host' \notin {"none", "rebooting"})
        /\ (host' \in {"initialized", "turn", "wait", "ordering"} => pc = "turn")
        /\ (host' \in {"none", "initialized", "turn", "ordering", "rebooting"} => wire' = <<>>)
    BY <1>1, <1>2
  <2> QED BY <1>1, <2>1, Shifted
<1>4. Types'
  BY <1>1, <1>3 DEF IInv, Types
<1>5. Stash'
  <2>1. ~(Length(stash) > 0) /\ heard = Unknown
    BY <1>1 DEF IInv, Stash
  <2> QED BY <1>1, <2>1 DEF IInv, Stash, InOrder
<1>6. Queue'
  BY <1>1 DEF IInv, Queue
<1> QED BY <1>3, <1>4, <1>5, <1>6 DEF IInv

(* The core ends the song in its turn.                                     *)
LEMMA OrdersRebootInv == ASSUME IInv, OrdersReboot PROVE IInv'
<1>1. /\ host = "ordering" /\ snd' = [snd EXCEPT !.reboot = TRUE] /\ pc' = "run" /\ made' = 0
      /\ host' = "rebooting"
      /\ UNCHANGED <<wire, tail, stash, commands, read, wanted, heard>>
  BY DEF OrdersReboot
<1>2. pc = "turn" /\ wire = <<>> /\ snd.frames = <<>> /\ heard = Unknown
  BY <1>1 DEF IInv, Turns, Frames, Stash
<1>3. 0 \in 0..Numbers - 1 /\ 0 <= Burst
  BY Constants
<1>4. Types' /\ snd'.frames = <<>> /\ snd'.reboot
  BY <1>1, <1>2, <1>3 DEF IInv, Types
<1>5. Turns'
  BY <1>1, <1>2, <1>4 DEF Turns, Is
<1>6. Frames'
  BY <1>1, <1>2, <1>3, <1>4 DEF Frames, Emulating, Is
<1>7. Ends'
  BY <1>1, <1>2 DEF Ends, Is, Emulating
<1>8. Stash'
  BY <1>1, <1>2 DEF IInv, Stash, InOrder
<1>9. Queue'
  BY <1>1 DEF IInv, Queue
<1> QED BY <1>4, <1>5, <1>6, <1>7, <1>8, <1>9 DEF IInv

(* A read begins.                                                          *)
LEMMA uade_readInv == ASSUME IInv, NEW bytes \in ReadSizes, uade_read(bytes) PROVE IInv'
<1>1. /\ read' = [want |-> bytes, copied |-> 0]
      /\ UNCHANGED <<pc, snd, made, wire, host, tail, stash, commands, wanted, heard>>
  BY DEF uade_read, coreVars
<1>2. bytes \in Nat /\ 0 <= bytes
  BY OutputAssumption
<1>3. Types' /\ Frames' /\ Ends' /\ Filled' = Filled
  BY <1>1, <1>2, SameCore DEF IInv, Types
<1>4. Turns' /\ Stash' /\ Queue'
  BY <1>1, <1>3 DEF IInv, Turns, Stash, Queue, InOrder, Is, Emulating
<1> QED BY <1>3, <1>4 DEF IInv

(* The request for a block, with all commands sent.                         *)
LEMMA Requested ==
  ASSUME IInv, host \in {"initialized", "turn"}, host' = "receive", pc' = "run",
         snd' = [snd EXCEPT !.request = Block], Length(commands) = 0,
         UNCHANGED <<made, wire, tail, stash, commands, read, wanted, heard>>
  PROVE  IInv'
<1>1. pc = "turn" /\ wire = <<>> /\ snd.frames = <<>> /\ ~snd.reboot
  BY DEF IInv, Turns, Frames
<1>2. /\ snd'.frames = <<>> /\ ~snd'.reboot /\ snd'.request = Block /\ snd'.output = snd.output
      /\ snd'.filter = snd.filter
      /\ Types'
  BY <1>1 DEF IInv, Types
<1>3. Turns'
  BY <1>1, <1>2 DEF Turns, Is
<1>4. Frames'
  <2>1. Len(<<>>) * Frame < Block
    BY Constants
  <2> QED BY <1>1, <1>2, <2>1 DEF Frames, Emulating, Is, Run
<1>5. Ends'
  BY <1>1 DEF Ends, Is, Emulating
<1>6. Stash'
  <2>1. Length(stash) = 0 /\ FifoInv(stash, Block)
    BY DEF IInv, Stash, FifoInv
  <2>2. heard # Unknown => heard = Filled'[1] * Frame
    <3> HAVE heard # Unknown
    <3>1. Filled'[1] = made
      BY <1>2 DEF Filled
    <3>2. (heard + 0) % ByteCount = made * Frame
      BY <1>1, <2>1 DEF IInv, Stash
    <3>3. heard \in 0..ByteCount - 1 /\ heard + 0 = heard
      BY SMTT(30), Constants DEF IInv, Types
    <3>4. heard % ByteCount = heard
      BY <3>3, Constants, SmallNumber
    <3> QED BY <3>1, <3>2, <3>3, <3>4
  <2> QED BY <1>1, <1>2, <2>1, <2>2 DEF IInv, Stash, InOrder, Is
<1>7. Queue'
  BY <1>2 DEF IInv, Queue
<1> QED BY <1>2, <1>3, <1>4, <1>5, <1>6, <1>7 DEF IInv

(* The first request.                                                      *)
LEMMA FirstRequestInv == ASSUME IInv, FirstRequest PROVE IInv'
<1>1. Length(commands) = 0
  BY DEF FirstRequest, IInv, Queue, FifoInv
<1> QED BY <1>1, Requested DEF FirstRequest

(* The requests after it.                                                  *)
LEMMA RequestsBlockInv == ASSUME IInv, RequestsBlock PROVE IInv'
BY Requested DEF RequestsBlock, Request

(* After the end a read gets nothing, or the next subsong.                 *)
LEMMA WaitsInv == ASSUME IInv, Waits PROVE IInv'
<1>1. /\ read' = [want |-> 0, copied |-> 0] \/ read' = read
      /\ host = "wait" /\ host' \in {"wait", "receive"} /\ ~Idle
      /\ UNCHANGED <<pc, snd, made, wire, tail, stash, commands, wanted, heard>>
  BY DEF Waits, Returns, Returned, coreVars
<1>2. Types' /\ Frames' /\ Ends' /\ Filled' = Filled
  BY <1>1, SameCore DEF IInv, Types
<1>3. Turns' /\ Stash' /\ Queue'
  BY <1>1, <1>2 DEF IInv, Turns, Stash, Queue, InOrder, Is, Emulating
<1> QED BY <1>2, <1>3 DEF IInv

(* What a read takes is due first, and what it leaves is due then.         *)
LEMMA FromStashInv == ASSUME IInv, FromStash PROVE IInv'
<1> DEFINE n == read.want - read.copied
           len == Length(stash)
           got == IF n < len THEN n ELSE len
<1>1. /\ len > 0 /\ stash' = After(stash, n) /\ heard' = (heard + got) % ByteCount
      /\ read' = IF got = n THEN Returned ELSE [read EXCEPT !.copied = @ + got]
      /\ UNCHANGED <<pc, snd, made, wire, host, tail, commands, wanted>>
  BY DEF FromStash, coreVars
<1>2. /\ FifoInv(stash, Block) /\ len \in 0..Block
      /\ pc = "turn" /\ host \in {"receive", "end"} /\ Len(wire) <= 1 /\ heard \in 0..ByteCount - 1
      /\ \A i \in 1..len : Contents(stash)[i] = (heard + (i - 1)) % ByteCount
  BY <1>1 DEF IInv, Types, Stash, FifoInv, InOrder
<1>3. n \in Nat /\ read.copied + n = read.want
  <2>1. read.want \in ReadSizes \cup {0} /\ read.copied \in Nat /\ read.copied <= read.want
    BY DEF IInv, Types
  <2>2. read.want \in Nat
    BY <2>1, OutputAssumption
  <2> QED BY <2>1, <2>2
<1>4. got \in 0..len /\ got <= n
  BY <1>2, <1>3
<1>5. /\ FifoInv(stash', Block) /\ Length(stash') = len - got
      /\ \A i \in 1..Length(stash') : Contents(stash')[i] = Contents(stash)[i + got]
  <2> DEFINE g == After(stash, n)
             m == IF n < Length(stash) THEN n ELSE Length(stash)
  <2>1. /\ FifoInv(g, Block) /\ m \in 0..Length(stash) /\ Length(g) = Length(stash) - m
        /\ \A i \in 1..Length(g) : Contents(g)[i] = Contents(stash)[i + m]
    BY <1>2, <1>3, Constants, AfterFifo
  <2> QED BY <1>1, <2>1
<1> HIDE DEF n, len, got
<1>6. heard \in Nat /\ ByteCount \in Nat \ {0} /\ got \in Nat /\ len \in Nat
  BY <1>2, <1>4, Constants
<1>7. heard' \in 0..ByteCount - 1 /\ heard' \in Nat /\ heard' # Unknown
  <2>1. heard + got \in Nat
    BY <1>6
  <2>2. (heard + got) % ByteCount \in 0..ByteCount - 1
    BY <1>6, <2>1, Modulus
  <2> QED BY <1>1, <1>6, <2>2, Constants
<1>8. read' \in [want : ReadSizes \cup {0}, copied : Nat] /\ read'.copied <= read'.want
  <2>1. CASE got = n
    BY <1>1, <2>1 DEF Returned
  <2>2. CASE got # n
    <3>1. read' = [read EXCEPT !.copied = @ + got] /\ read.want \in Nat /\ read.copied \in Nat
      BY SMTT(30), <1>1, <2>2, OutputAssumption DEF IInv, Types
    <3>2. read.copied + got \in Nat /\ read.copied + got <= read.want
      BY <1>3, <1>4, <1>6, <3>1
    <3> QED BY <3>1, <3>2 DEF IInv, Types
  <2> QED BY <2>1, <2>2
<1>9. Types'
  BY <1>1, <1>7, <1>8 DEF IInv, Types
<1>10. Frames' /\ Ends' /\ Filled' = Filled
  BY <1>1, SameCore
<1>11. Turns' /\ Queue'
  BY <1>1 DEF IInv, Turns, Queue, Is
<1>12. InOrder'
  <2> SUFFICES ASSUME NEW i \in 1..Length(stash')
               PROVE  Contents(stash')[i] = (heard' + (i - 1)) % ByteCount
    BY DEF InOrder
  <2>1. i + got \in 1..len /\ i - 1 \in Nat /\ (heard + got) + (i - 1) = heard + ((i + got) - 1)
        /\ heard + got \in Nat
    BY <1>2, <1>4, <1>5, <1>6
  <2>2. Contents(stash)[i + got] = (heard + ((i + got) - 1)) % ByteCount
    BY <1>2, <2>1
  <2>3. (((heard + got) % ByteCount) + (i - 1)) % ByteCount = ((heard + got) + (i - 1)) % ByteCount
    BY <1>6, <2>1, AddedLater
  <2> QED BY <1>1, <1>5, <2>1, <2>2, <2>3
<1>13. Stash'
  <2>1. snd.output
    BY <1>2, <1>6, Constants DEF IInv, Stash
  <2>2. \A i \in 1..Len(wire) : ~Is(i, "DATA")
    <3>1. pc = "turn" => \A i \in 1..Len(wire) : Is(i, "DATA") <=> i = Len(wire) - 1
      BY DEF IInv, Turns
    <3>2. \A i \in 1..Len(wire) : i # Len(wire) - 1
      BY <1>2 DEF IInv, Types
    <3> QED BY <1>2, <3>1, <3>2
  <2>3. host \in {"receive", "turn"} => (heard' + Length(stash')) % ByteCount = made * Frame
    <3> HAVE host \in {"receive", "turn"}
    <3>1. (heard + len) % ByteCount = made * Frame
      BY <1>2, <1>6, Constants DEF IInv, Stash, len
    <3>2. len - got \in Nat /\ heard + got \in Nat /\ (heard + got) + (len - got) = heard + len
      BY <1>4, <1>6
    <3>3. (((heard + got) % ByteCount) + (len - got)) % ByteCount = ((heard + got) + (len - got)) % ByteCount
      BY <1>6, <3>2, AddedLater
    <3> QED BY <1>1, <1>5, <3>1, <3>2, <3>3
  <2> QED BY <1>1, <1>2, <1>5, <1>7, <1>12, <2>1, <2>2, <2>3 DEF Stash, Is, Emulating
<1> QED BY <1>9, <1>10, <1>11, <1>13 DEF IInv

(* An event is the first message, met with an empty stash.                  *)
LEMMA Met ==
  ASSUME IInv, NEW state, NEW type, Event(state, type)
  PROVE  /\ host \in state /\ wire # <<>> /\ wire' = Tail(wire) /\ Head(wire) = wire[1] /\ wire[1].type = type
         /\ Length(stash) = 0 /\ wire[1] \in Message /\ 1 \in 1..Len(wire)
<1>1. /\ wire # <<>> /\ wire' = Tail(wire) /\ Head(wire).type = type /\ host \in state /\ Length(stash) = 0
  BY DEF Event
<1>2. Len(wire) \in Nat \ {0} /\ Head(wire) = wire[1] /\ wire[1] \in Message
  BY <1>1, Took DEF IInv
<1> QED BY <1>1, <1>2

(* The end overtakes the block it lies in.                                 *)
LEMMA HearsSongEndInv == ASSUME IInv, HearsSongEnd PROVE IInv'
<1>1. /\ host \in {"receive", "end"} /\ wire # <<>> /\ wire' = Tail(wire) /\ wire[1].type = "SONG_END"
      /\ Length(stash) = 0 /\ wire[1] \in Message
      /\ host' = "end" /\ tail' = wire[1].tail
      /\ UNCHANGED <<pc, snd, made, stash, commands, read, wanted, heard>>
  BY Met DEF HearsSongEnd, coreVars
<1>2. /\ Turns' /\ Frames' /\ Ends' /\ Filled' = Filled /\ wire' \in Seq(Message)
      /\ Len(wire) \in Nat \ {0} /\ Len(wire') = Len(wire) - 1
      /\ \A i \in 1..Len(wire') : i + 1 \in 1..Len(wire) /\ wire'[i] = wire[i + 1]
  <2>1. pc \in {"turn", "run"}
    BY <1>1 DEF IInv, Types, Turns
  <2>2. host' \notin {"none", "initialized", "turn", "wait", "ordering", "rebooting"} /\ host' \in {"receive", "end", "stopping"}
    BY <1>1
  <2> QED BY <1>1, <2>1, <2>2, Shifted
<1>3. tail' \in 0..Block - 1
  BY <1>1, Kinds DEF End
<1>4. Types'
  BY <1>1, <1>2, <1>3 DEF IInv, Types
<1>5. Stash'
  <2>1. heard # Unknown => \A i \in 1..Len(wire') : wire'[i].type = "DATA" => heard = wire'[i].frames[1] * Frame
    BY <1>2 DEF IInv, Stash, Is
  <2> QED BY <1>1, <1>2, <2>1 DEF IInv, Stash, InOrder, Is, Emulating
<1>6. Queue'
  BY <1>1 DEF IInv, Queue
<1> QED BY <1>2, <1>4, <1>5, <1>6 DEF IInv

(* The stash is empty when it is the host's turn.                          *)
LEMMA TakesTurnInv == ASSUME IInv, TakesTurn PROVE IInv'
<1>1. /\ host = "receive" /\ wire # <<>> /\ wire' = Tail(wire) /\ wire[1].type = "TOKEN"
      /\ Length(stash) = 0 /\ host' = "turn" /\ 1 \in 1..Len(wire)
      /\ UNCHANGED <<pc, snd, made, tail, stash, commands, read, wanted, heard>>
  BY Met DEF TakesTurn, coreVars
<1>2. pc = "turn" /\ Len(wire) = 1 /\ wire' = <<>>
  <2>1. pc \in {"turn", "run"}
    BY <1>1 DEF IInv, Types, Turns
  <2>2. pc = "turn" /\ Len(wire) = 1
    BY <1>1, <2>1 DEF IInv, Turns, Is
  <2> QED BY <1>1, <2>2, Took DEF IInv
<1>3. /\ Turns' /\ Frames' /\ Ends' /\ wire' \in Seq(Message)
  <2>2. host' = "turn" /\ pc # "run"
    BY <1>1, <1>2
  <2> QED BY <1>1, <1>2, <2>2, Shifted
<1>4. Types'
  BY <1>1, <1>3 DEF IInv, Types
<1>5. Stash'
  <2>1. Len(wire') = 0 /\ Len(wire) <= 1
    BY <1>2
  <2>2. InOrder' /\ FifoInv(stash', Block) /\ ~(Length(stash') > 0)
    BY <1>1 DEF IInv, Stash, InOrder
  <2>3. heard # Unknown => snd.output /\ (heard + Length(stash)) % ByteCount = made * Frame
    BY <1>1, <1>2, <2>1 DEF IInv, Stash
  <2>4. ~Emulating'
    BY <1>1, <1>2 DEF Emulating
  <2>5. Len(wire') <= 1 /\ \A i \in 1..Len(wire') : FALSE
    BY <2>1
  <2> QED BY <1>1, <2>2, <2>3, <2>4, <2>5 DEF Stash
<1>6. Queue'
  BY <1>1 DEF IInv, Queue
<1> QED BY <1>3, <1>4, <1>5, <1>6 DEF IInv

(* Nothing is due after the end until the next block.                      *)
LEMMA EndsSubsongInv == ASSUME IInv, EndsSubsong PROVE IInv'
<1>1. /\ Length(stash) = 0 /\ host = "end" /\ wire # <<>> /\ Head(wire).type = "TOKEN"
      /\ host' \in {"receive", "wait"} /\ heard' = Unknown /\ tail' = 0
      /\ read' \in {read, [want |-> 0, copied |-> 0]}
      /\ UNCHANGED <<pc, snd, made, wire, stash, commands, wanted>>
  BY DEF EndsSubsong, Returns, Returned, coreVars
<1>2. pc = "turn"
  <2>1. 1 \in 1..Len(wire) /\ wire[1].type = "TOKEN"
    BY <1>1 DEF IInv, Types
  <2>2. pc = "run" => wire[1].type = "SONG_END"
    BY <2>1 DEF IInv, Turns, Is
  <2>3. pc # "reset"
    BY <1>1 DEF IInv, Turns
  <2> QED BY <2>1, <2>2, <2>3 DEF IInv, Types
<1>3. 0 \in 0..Block - 1
  BY Constants
<1>4. Types'
  BY <1>1, <1>3 DEF IInv, Types
<1>5. Frames' /\ Ends'
  BY <1>1, SameCore
<1>6. Turns'
  BY <1>1, <1>2 DEF IInv, Turns, Is
<1>7. Stash'
  BY <1>1 DEF IInv, Stash, InOrder
<1>8. Queue'
  BY <1>1 DEF IInv, Queue
<1> QED BY <1>4, <1>5, <1>6, <1>7, <1>8 DEF IInv

(* A command leaves the queue, its filter first in what follows its size.   *)
LEMMA CommandSent ==
  ASSUME IInv, SendsCommand
  PROVE  LET n == Length(commands)
             s == After(commands, SizeBytes) IN
         /\ n \in Nat /\ CommandSize <= n
         /\ FifoInv(commands', MaxCommands * CommandSize) /\ Length(commands') = n - CommandSize
         /\ \A i \in 1..n - CommandSize : Contents(commands')[i] = Contents(commands)[i + CommandSize]
         /\ Contents(s)[1] = Contents(commands)[1 + SizeBytes]
<1> DEFINE n == Length(commands)
           c == CommandSize
           s == After(commands, SizeBytes)
           q == After(s, CommandBytes)
           held == MaxCommands * CommandSize
<1>1. /\ host = "turn" /\ n > 0 /\ commands' = q /\ snd' = [snd EXCEPT !.filter = Contents(s)[1]]
      /\ UNCHANGED <<pc, made, wire, host, tail, stash, read, wanted, heard>>
  BY DEF SendsCommand
<1>2. c \in Nat \ {0} /\ SizeBytes \in Nat \ {0} /\ CommandBytes \in Nat \ {0} /\ c = SizeBytes + CommandBytes
      /\ held \in Nat
  BY Constants DEF CommandSize
<1>3. FifoInv(commands, held) /\ n \in Nat
  BY DEF IInv, Queue, FifoInv
<1>4. PICK k \in Nat : n = k * c
  BY DEF IInv, Queue
<1> HIDE DEF n, c, q, held
<1>5. c <= n /\ k - 1 \in Nat /\ n - c = (k - 1) * c
  <2>1. k # 0
    <3>1. k = 0 => n = 0
      BY <1>2, <1>4
    <3> QED BY <1>1, <1>3, <3>1
  <2>2. k - 1 \in Nat /\ (k - 1) + 1 = k
    BY <2>1
  <2>3. ((k - 1) + 1) * c = (k - 1) * c + c /\ (k - 1) * c \in Nat
    BY <1>2, <2>2, Multiples
  <2> QED BY <1>2, <1>4, <2>2, <2>3
<1>6. /\ FifoInv(s, held) /\ Length(s) = n - SizeBytes
      /\ \A i \in 1..n - SizeBytes : Contents(s)[i] = Contents(commands)[i + SizeBytes]
  <2>1. SizeBytes < Length(commands)
    BY <1>2, <1>3, <1>5 DEF n
  <2> HIDE DEF s
  <2>2. LET m == IF SizeBytes < Length(commands) THEN SizeBytes ELSE Length(commands) IN
        /\ FifoInv(s, held) /\ Length(s) = Length(commands) - m
        /\ \A i \in 1..Length(s) : Contents(s)[i] = Contents(commands)[i + m]
    BY <1>2, <1>3, AfterFifo DEF s
  <2> QED BY <2>1, <2>2 DEF n
<1> HIDE DEF s
<1>7. /\ FifoInv(q, held) /\ Length(q) = n - c
      /\ \A i \in 1..n - c : Contents(q)[i] = Contents(commands)[i + c]
  <2>1. CommandBytes <= Length(s) /\ Length(s) - CommandBytes = n - c
    BY <1>2, <1>3, <1>5, <1>6
  <2>2. LET m == IF CommandBytes < Length(s) THEN CommandBytes ELSE Length(s) IN
        /\ FifoInv(q, held) /\ Length(q) = Length(s) - m
        /\ \A i \in 1..Length(q) : Contents(q)[i] = Contents(s)[i + m]
    BY <1>2, <1>6, AfterFifo DEF q
  <2>3. (IF CommandBytes < Length(s) THEN CommandBytes ELSE Length(s)) = CommandBytes
    BY <1>2, <1>3, <1>6, <2>1
  <2>4. FifoInv(q, held) /\ Length(q) = n - c /\ \A i \in 1..n - c : Contents(q)[i] = Contents(s)[i + CommandBytes]
    BY <2>1, <2>2, <2>3
  <2>5. \A i \in 1..n - c : i + CommandBytes \in 1..n - SizeBytes /\ (i + CommandBytes) + SizeBytes = i + c
    BY <1>2, <1>3, <1>5
  <2>6. \A i \in 1..n - c : Contents(s)[i + CommandBytes] = Contents(commands)[i + c]
    <3> TAKE i \in 1..n - c
    <3>1. i + CommandBytes \in 1..n - SizeBytes /\ (i + CommandBytes) + SizeBytes = i + c
      BY <2>5
    <3> DEFINE x == i + CommandBytes
    <3>2. x \in 1..n - SizeBytes /\ x + SizeBytes = i + c
      BY <3>1
    <3> HIDE DEF x
    <3>3. Contents(s)[x] = Contents(commands)[i + c]
      BY <1>6, <3>2
    <3> QED BY <3>3 DEF x
  <2> QED BY <2>4, <2>6
<1>8. Contents(s)[1] = Contents(commands)[1 + SizeBytes]
  <2>1. 1 \in 1..n - SizeBytes
    BY <1>2, <1>3, <1>5
  <2> QED BY <1>6, <2>1
<1> QED BY <1>1, <1>3, <1>5, <1>7, <1>8 DEF n, c, s, held

(* The commands go in their order; with none left, the core has the        *)
(* filter the caller wants.                                                *)
LEMMA SendsCommandInv == ASSUME IInv, SendsCommand PROVE IInv'
<1> DEFINE n == Length(commands)
           c == CommandSize
           s == After(commands, SizeBytes)
           q == commands'
           held == MaxCommands * CommandSize
<1>1. /\ host = "turn" /\ n > 0 /\ snd' = [snd EXCEPT !.filter = Contents(s)[1]]
      /\ UNCHANGED <<pc, made, wire, host, tail, stash, read, wanted, heard>>
  BY DEF SendsCommand
<1>2. c \in Nat \ {0} /\ SizeBytes \in Nat \ {0} /\ CommandBytes \in Nat \ {0} /\ c = SizeBytes + CommandBytes
      /\ held \in Nat
  BY Constants DEF CommandSize
<1>3. n \in Nat
  BY DEF IInv, Queue, FifoInv
<1>4. PICK k \in Nat : n = k * c
  BY DEF IInv, Queue
<1>5. /\ c <= n /\ FifoInv(q, held) /\ Length(q) = n - c
      /\ \A i \in 1..n - c : Contents(q)[i] = Contents(commands)[i + c]
      /\ Contents(s)[1] = Contents(commands)[1 + SizeBytes]
  BY CommandSent
<1> HIDE DEF n, c, q, held, s
<1>6. k - 1 \in Nat /\ n - c = (k - 1) * c
  <2>1. k # 0
    <3>1. k = 0 => n = 0
      BY <1>2, <1>4
    <3> QED BY <1>1, <1>3, <3>1
  <2>2. k - 1 \in Nat /\ (k - 1) + 1 = k
    BY <2>1
  <2>3. ((k - 1) + 1) * c = (k - 1) * c + c /\ (k - 1) * c \in Nat
    BY <1>2, <2>2, Multiples
  <2> QED BY <1>2, <1>4, <2>2, <2>3
<1>7. \A j \in Nat : j * c < n => Contents(commands)[j * c + SizeBytes + 1] \in Filters
  BY DEF IInv, Queue, n, c
<1>8. Contents(s)[1] \in Filters
  <2>1. 0 * c < n /\ 0 * c + SizeBytes + 1 = 1 + SizeBytes
    BY <1>1, <1>2
  <2> QED BY <1>5, <1>7, <2>1
<1>9. Types' /\ snd'.frames = snd.frames /\ snd'.output = snd.output /\ snd'.reboot = snd.reboot
       /\ snd'.request = snd.request /\ snd'.filter = Contents(s)[1]
  BY <1>1, <1>8 DEF IInv, Types
<1>10. Filled' = Filled
  BY <1>1, <1>9 DEF Filled
<1>11. Turns' /\ Frames' /\ Ends' /\ Stash'
  BY <1>1, <1>9, <1>10 DEF IInv, Turns, Frames, Ends, Stash, InOrder, Is, Emulating
<1>12. Contents(commands)[n - CommandBytes + 1] = wanted
  BY <1>1 DEF IInv, Queue, n
<1>13. Queue'
  <2>1. \E i \in Nat : Length(commands') = i * CommandSize
    BY <1>6, <1>5 DEF c, q
  <2>2. ASSUME NEW j \in Nat, j * c < n - c
        PROVE  Contents(q)[j * c + SizeBytes + 1] \in Filters
    <3>1. (j + 1) * c = j * c + c /\ j * c \in Nat /\ (j + 1) * c < n
      BY <1>2, <1>3, <2>2, Multiples
    <3>2. Contents(commands)[(j + 1) * c + SizeBytes + 1] \in Filters
      BY <1>7, <3>1
    <3> DEFINE x == j * c + SizeBytes + 1
    <3>3. x \in 1..n - c
      <4>1. j < k - 1
        BY <1>2, <1>6, <2>2, Multiples
      <4>2. j + 1 <= k - 1 /\ j + 1 \in Nat
        BY <1>6, <4>1
      <4>3. (j + 1) * c <= (k - 1) * c
        BY <1>2, <1>6, <4>2, Multiples
      <4> QED BY <1>2, <1>3, <1>6, <3>1, <4>3
    <3>4. x + c = (j + 1) * c + SizeBytes + 1
      BY <1>2, <3>1
    <3> HIDE DEF x
    <3>5. Contents(q)[x] = Contents(commands)[x + c]
      BY <1>5, <3>3
    <3> QED BY <3>2, <3>4, <3>5 DEF x
  <2>3. n - c > 0 => Contents(q)[(n - c) - CommandBytes + 1] = wanted
    <3> HAVE n - c > 0
    <3> DEFINE x == (n - c) - CommandBytes + 1
    <3>1. k - 1 # 0
      <4>1. k - 1 = 0 => (k - 1) * c = 0
        BY <1>2
      <4> QED BY <1>6, <4>1
    <3>2. 1 <= k - 1 /\ 1 \in Nat /\ 1 * c = c
      BY <1>2, <1>6, <3>1
    <3>3. 1 * c <= (k - 1) * c
      BY <1>2, <1>6, <3>2, Multiples
    <3>4. x \in 1..n - c /\ x + c = n - CommandBytes + 1
      BY <1>2, <1>3, <1>6, <3>2, <3>3
    <3> HIDE DEF x
    <3>5. Contents(q)[x] = Contents(commands)[x + c]
      BY <1>5, <3>4
    <3> QED BY <1>12, <3>4, <3>5 DEF x
  <2>4. n - c = 0 => snd'.filter = wanted
    <3> HAVE n - c = 0
    <3>1. 1 + SizeBytes = n - CommandBytes + 1
      BY <1>2, <1>3
    <3> QED BY <1>5, <1>9, <1>12, <3>1
  <2>5. \A i \in 1..n - c : Contents(q)[i] \in Filters \cup {"size"}
    <3>1. \A i \in 1..n : Contents(commands)[i] \in Filters \cup {"size"}
      BY DEF IInv, Queue, n
    <3>2. \A i \in 1..n - c : i + c \in 1..n
      BY <1>2, <1>3
    <3> QED BY <1>5, <3>1, <3>2
  <2> QED BY <1>1, <1>5, <2>1, <2>2, <2>3, <2>4, <2>5 DEF Queue, c, q, held
<1> QED BY <1>9, <1>11, <1>13 DEF IInv

(* The bytes of a block, or those up to its tail, are due next.            *)
LEMMA TakesBlockInv == ASSUME IInv, TakesBlock PROVE IInv'
<1> DEFINE frames == wire[1].frames
           bytes == Bytes(frames)
           data == IF host = "end" THEN SubSeq(bytes, 1, tail) ELSE bytes
           n == IF host = "end" THEN tail ELSE Block
<1>1. /\ host \in {"receive", "end"} /\ wire # <<>> /\ wire' = Tail(wire) /\ wire[1].type = "DATA"
      /\ Length(stash) = 0 /\ wire[1] \in Message /\ 1 \in 1..Len(wire) /\ Head(wire) = wire[1]
  BY Met DEF TakesBlock
<1>2. /\ \/ /\ stash' = Queued(stash, data) /\ read' = read
            /\ heard' = IF heard = Unknown /\ data # <<>> THEN data[1] ELSE heard
         \/ /\ stash' = stash /\ heard' = Unknown /\ read' = [want |-> 0, copied |-> 0]
      /\ UNCHANGED <<pc, snd, made, host, tail, commands, wanted>>
  BY <1>1 DEF TakesBlock, coreVars, Returns, Returned
<1>3. /\ Turns' /\ Frames' /\ Ends' /\ wire' \in Seq(Message)
      /\ Len(wire) = 2 /\ Len(wire') = 1 /\ pc = "turn" /\ wire'[1] = wire[2]
  <2>1. /\ pc \in {"turn", "run"}
        /\ host' \notin {"none", "initialized", "turn", "wait", "ordering", "rebooting"}
        /\ host' \in {"receive", "end", "stopping"}
    BY <1>1, <1>2 DEF IInv, Types, Turns
  <2>2. /\ Turns' /\ Frames' /\ Ends' /\ wire' \in Seq(Message) /\ Len(wire') = Len(wire) - 1
        /\ Len(wire) = 2 /\ pc = "turn"
        /\ \A i \in 1..Len(wire') : i + 1 \in 1..Len(wire) /\ wire'[i] = wire[i + 1]
    BY <1>1, <1>2, <2>1, Shifted
  <2> QED BY <2>2
<1>4. /\ frames \in Seq(0..Numbers - 1) /\ Len(frames) * Frame = Block /\ Run(frames, made) /\ frames # <<>>
  <2>1. wire[1] \in Data /\ Len(wire[1].frames) * Frame = Block /\ Run(wire[1].frames, made)
    BY <1>1, Kinds DEF IInv, Frames, Is
  <2>2. frames # <<>>
    <3>1. frames = <<>> => Len(frames) * Frame = 0
      BY Constants
    <3> QED BY <2>1, <3>1, Constants
  <2> QED BY <2>1, <2>2 DEF Data
<1> DEFINE first == frames[1] * Frame
<1>5. /\ bytes \in [1..Block -> 0..ByteCount - 1] /\ first \in 0..ByteCount - 1
      /\ \A i \in 1..Block : bytes[i] = (first + (i - 1)) % ByteCount
      /\ made * Frame = (first + Block) % ByteCount
  BY <1>4, RunOfBytes
<1>6. heard # Unknown => heard = first
  BY <1>1 DEF IInv, Stash, Is
<1> HIDE DEF frames, bytes, first
<1>7. n \in 0..Block /\ tail \in 0..Block - 1
  BY Constants DEF IInv, Types
<1>8. /\ data \in [1..n -> Values]
      /\ \A i \in 1..n : data[i] = (first + (i - 1)) % ByteCount
  <2>1. bytes \in [1..Block -> Values] /\ \A i \in 1..Block : bytes[i] \in Values
    BY <1>5 DEF Values
  <2>2. CASE host = "end"
    <3>1. data = [i \in 1..tail |-> bytes[i]]
      <4>1. tail \in Nat /\ 1 + tail - 1 = tail
        BY <1>7
      <4> QED BY <2>2, <4>1, <1>7
    <3>2. \A i \in 1..tail : i \in 1..Block
      BY <1>7, Constants
    <3> QED BY <1>5, <2>1, <2>2, <3>1, <3>2
  <2>3. CASE host # "end"
    BY <1>5, <2>1, <2>3
  <2> QED BY <2>2, <2>3
<1>9. n # 0 => data # <<>> /\ data[1] = first
  <2> HAVE n # 0
  <2>1. 1 \in 1..n
    BY <1>7
  <2>5. data[1] = (first + (1 - 1)) % ByteCount
    BY <1>8, <2>1
  <2>6. first \in Int
    BY <1>5
  <2>7. first + (1 - 1) = first
    BY <2>6
  <2>2. data[1] = first % ByteCount
    BY <2>5, <2>7
  <2>3. first % ByteCount = first
    BY <1>5, SmallNumber, Constants
  <2>4. DOMAIN data = 1..n /\ DOMAIN <<>> = {}
    BY <1>8
  <2> QED BY <2>1, <2>2, <2>3, <2>4
<1>10. FifoInv(stash, Block)
  BY DEF IInv, Stash
<1> HIDE DEF data, n
<1>11. ASSUME stash' = Queued(stash, data), heard' = IF heard = Unknown /\ data # <<>> THEN data[1] ELSE heard
       PROVE  /\ FifoInv(stash', Block) /\ Length(stash') = n
              /\ \A i \in 1..n : Contents(stash')[i] = data[i]
              /\ heard' \in {first, Unknown} /\ (n # 0 => heard' = first) /\ (heard # Unknown => heard' = first)
  <2>1. /\ FifoInv(stash', Block) /\ Length(stash') = Length(stash) + n
        /\ \A i \in 1..n : Contents(stash')[Length(stash) + i] = data[i]
    BY <1>1, <1>7, <1>8, <1>10, <1>11, Constants, QueuedFifo
  <2>2. Length(stash') = n
    BY <1>1, <1>7, <2>1
  <2>3. \A i \in 1..n : 0 + i = i
    OBVIOUS
  <2>4. heard' \in {first, Unknown} /\ (n # 0 => heard' = first) /\ (heard # Unknown => heard' = first)
    <3>1. n = 0 => data = <<>>
      BY <1>8
    <3> QED BY <1>6, <1>9, <1>11, <3>1
  <2> QED BY <1>1, <2>1, <2>2, <2>3, <2>4
<1>12. Stash' /\ heard' \in {first, Unknown}
  <2>1. CASE stash' = stash /\ heard' = Unknown
    BY <1>1, <2>1 DEF IInv, Stash, InOrder
  <2>2. CASE stash' = Queued(stash, data) /\ heard' = IF heard = Unknown /\ data # <<>> THEN data[1] ELSE heard
    <3>1. /\ FifoInv(stash', Block) /\ Length(stash') = n
          /\ \A i \in 1..n : Contents(stash')[i] = data[i]
          /\ heard' \in {first, Unknown} /\ (n # 0 => heard' = first)
      BY <1>11, <2>2
    <3>2. InOrder'
      BY <1>8, <3>1, <1>7 DEF InOrder
    <3>3. \A i \in 1..Len(wire') : wire'[i].type # "DATA"
      <4>1. 2 \in 1..Len(wire) /\ 2 # Len(wire) - 1
        BY <1>3
      <4>2. wire[2].type # "DATA"
        BY <1>3, <4>1 DEF IInv, Turns, Is
      <4>3. \A i \in 1..Len(wire') : i = 1
        BY <1>3
      <4> QED BY <1>3, <4>2, <4>3
    <3>4. n # 0 => heard' # Unknown
      BY <1>5, <3>1, Constants
    <3>5. host = "receive" /\ heard' # Unknown => (heard' + Length(stash')) % ByteCount = made * Frame
      BY <1>5, <3>1 DEF n
    <3>6. snd.output
      BY <1>1 DEF IInv, Frames, Is
    <3>7. n > 0 => n # 0
      OBVIOUS
    <3> QED BY <1>1, <1>2, <1>3, <3>1, <3>2, <3>3, <3>4, <3>5, <3>6, <3>7 DEF Stash, Is, Emulating
  <2> QED BY <1>2, <2>1, <2>2
<1>13. Types'
  <2>1. heard' \in (0..ByteCount - 1) \cup {Unknown}
    BY <1>5, <1>12
  <2> QED BY <1>2, <1>3, <2>1 DEF IInv, Types
<1>14. Queue'
  BY <1>2 DEF IInv, Queue
<1> QED BY <1>3, <1>12, <1>13, <1>14 DEF IInv

(* Nothing is playing.                                                     *)
LEMMA InitInv == Init => IInv
<1> SUFFICES ASSUME Init PROVE IInv
  OBVIOUS
<1>1. FifoInv(stash, Block) /\ Length(stash) = 0 /\ FifoInv(commands, MaxCommands * CommandSize) /\ Length(commands) = 0
  BY Constants, EmptyInv DEF Init
<1>2. 0 \in 0..Numbers - 1 /\ 0 \in 0..Block - 1 /\ Len(<<>>) * Frame <= SndSize
  BY Constants
<1>3. Types
  BY <1>2, Constants DEF Init, Types, Returned
<1>4. Turns
  BY DEF Init, Turns, Is
<1>5. Frames /\ Ends
  BY <1>2 DEF Init, Frames, Ends, Emulating, Is
<1>6. Stash
  BY <1>1 DEF Init, Stash, InOrder
<1>7. Queue
  <2>1. Length(commands) = 0 * CommandSize
    BY <1>1, Constants
  <2>2. \A j \in Nat : ~(j * CommandSize < 0)
    BY Constants
  <2> QED BY <1>1, <2>1, <2>2 DEF Init, Queue
<1> QED BY <1>3, <1>4, <1>5, <1>6, <1>7 DEF IInv

(* The invariant is inductive.                                             *)
LEMMA NextInv == ASSUME IInv, [Next]_vars PROVE IInv'
<1>1. CASE Core
  <2>1. CASE Sample
    BY <2>1, SkipsInv, CollectsInv, SendsBlockInv DEF Sample
  <2>2. CASE MakesInBurst
    BY <2>2, MakesInBurstInv
  <2>3. CASE StartsOutput
    BY <2>3, StartsOutputInv
  <2>4. CASE SongEnds
    BY <2>4, SongEndsInv
  <2>5. CASE Reboots
    BY <2>5, RebootsInv
  <2> QED BY <1>1, <2>1, <2>2, <2>3, <2>4, <2>5 DEF Core
<1>2. CASE Caller
  <2>1. CASE uade_stop
    BY <2>1, uade_stopInv
  <2>2. ASSUME NEW v \in Filters, uade_play(v) PROVE IInv'
    BY <2>2, uade_playInv
  <2>3. ASSUME NEW v \in Filters, uade_set_filter_state(v) PROVE IInv'
    BY <2>3, uade_set_filter_stateInv
  <2>4. ASSUME NEW bytes \in ReadSizes, uade_read(bytes) PROVE IInv'
    BY <2>4, uade_readInv
  <2> QED BY <1>2, <2>1, <2>2, <2>3, <2>4 DEF Caller
<1>3. CASE Host
  <2>1. CASE Drains \/ OrdersReboot
    BY <2>1, DrainsInv, OrdersRebootInv
  <2>2. CASE FirstRequest \/ RequestsBlock
    BY <2>2, FirstRequestInv, RequestsBlockInv
  <2>3. CASE FromStash \/ Waits
    BY <2>3, FromStashInv, WaitsInv
  <2>4. CASE HearsSongEnd \/ TakesBlock
    BY <2>4, HearsSongEndInv, TakesBlockInv
  <2>5. CASE EndsSubsong \/ TakesTurn
    BY <2>5, EndsSubsongInv, TakesTurnInv
  <2>6. CASE SendsCommand
    BY <2>6, SendsCommandInv
  <2> QED BY <1>3, <2>1, <2>2, <2>3, <2>4, <2>5, <2>6 DEF Host
<1>4. CASE UNCHANGED vars
  <2>1. /\ pc' = pc /\ snd' = snd /\ made' = made /\ wire' = wire /\ host' = host /\ tail' = tail
        /\ stash' = stash /\ commands' = commands /\ read' = read /\ wanted' = wanted /\ heard' = heard
    BY <1>4 DEF vars
  <2>2. Types' /\ Turns' /\ Frames' /\ Ends'
    BY <2>1 DEF IInv, Types, Turns, Frames, Ends, Is, Emulating, Filled
  <2>3. Stash' /\ Queue'
    BY <2>1 DEF IInv, Stash, Queue, InOrder, Is, Emulating, Filled
  <2> QED BY <2>2, <2>3 DEF IInv
<1> QED BY <1>1, <1>2, <1>3, <1>4 DEF Next

(* In every state, however many frames make a block and however the reads  *)
(* of the caller cut it, IInv holds.                                       *)
THEOREM Invariance == Spec => []IInv
<1>1. Init => IInv
  BY InitInv
<1>2. IInv /\ [Next]_vars => IInv'
  BY NextInv
<1> QED BY <1>1, <1>2, PTL DEF Spec

(* Every variable has its type; a fifo holds no more than its buffer has   *)
(* room for (TypeOK).                                                      *)
THEOREM TypeCorrect == Spec => []TypeOK
<1>1. ASSUME IInv PROVE TypeOK
  <2>1. Length(stash) \in 0..stash.capacity
    <3>1. FifoInv(stash, Block)
      BY <1>1 DEF IInv, Stash
    <3> QED BY <3>1 DEF FifoInv, P!FifoOK
  <2>2. Length(commands) \in 0..commands.capacity
    <3>1. FifoInv(commands, MaxCommands * CommandSize)
      BY <1>1 DEF IInv, Queue
    <3> QED BY <3>1 DEF FifoInv, P!FifoOK
  <2>3. Types
    BY <1>1 DEF IInv
  <2> QED BY <2>1, <2>2, <2>3 DEF Types, TypeOK
<1> QED BY <1>1, Invariance, PTL

(* check_sound_buffers() compares for equality, and meets the requested    *)
(* size every time: the buffer of samples is never overrun, not even       *)
(* while the core reboots. The stash and the queue of commands stay in     *)
(* proportion to the block and to the commands that may wait               *)
(* (BuffersBounded).                                                       *)
THEOREM BuffersInBounds == Spec => []BuffersBounded
<1>1. ASSUME IInv PROVE BuffersBounded
  <2>1. Len(snd.frames) \in Nat /\ pc \in {"reset", "turn", "run"}
    BY <1>1 DEF IInv, Types
  <2>2. Emulating => /\ Len(snd.frames) * Frame < snd.request
                     /\ ~snd.output => snd.frames = <<>>
    BY <1>1 DEF IInv, Turns, Frames, Emulating
  <2>3. Len(snd.frames) * Frame <= SndSize
    <3>1. CASE pc = "reset"
      BY <1>1, <3>1 DEF IInv, Frames
    <3>2. CASE pc = "turn"
      <4>1. Len(<<>>) * Frame <= SndSize
        BY Constants
      <4> QED BY <1>1, <3>2, <4>1 DEF IInv, Frames
    <3>3. CASE pc = "run" /\ snd.reboot
      <4>1. Len(snd.frames) <= Burst
        BY <1>1, <3>3 DEF IInv, Frames
      <4>2. Len(snd.frames) * Frame <= Burst * Frame /\ Len(snd.frames) * Frame \in Nat /\ Burst * Frame \in Nat
        BY <2>1, <4>1, Constants, Multiples
      <4> QED BY <4>2, Constants
    <3>4. CASE pc = "run" /\ ~snd.reboot
      <4>1. Len(snd.frames) * Frame < Block
        BY <1>1, <3>4 DEF IInv, Frames, Emulating
      <4>2. Len(snd.frames) * Frame \in Nat
        BY <2>1, Constants
      <4> QED BY <4>1, <4>2, Constants
    <3> QED BY <2>1, <3>1, <3>2, <3>3, <3>4
  <2>4. stash.capacity <= 8 * Block + 14
    BY <1>1 DEF IInv, Stash, FifoInv
  <2>5. commands.capacity <= 8 * MaxCommands * (SizeBytes + CommandBytes) + 14
    <3>1. commands.capacity <= 8 * (MaxCommands * CommandSize) + 14
      BY <1>1 DEF IInv, Queue, FifoInv
    <3>2. 8 * (MaxCommands * CommandSize) = 8 * MaxCommands * CommandSize
      BY Constants
    <3> QED BY <3>1, <3>2 DEF CommandSize
  <2> QED BY <2>2, <2>3, <2>4, <2>5 DEF BuffersBounded
<1> QED BY <1>1, Invariance, PTL

(* uadecore_song_end() and handle_data(): the tail the host cuts the last  *)
(* block to is where the song ended, whatever end was told before it       *)
(* (EndsAtTail).                                                           *)
THEOREM EndsCut == Spec => []EndsAtTail
<1>1. ASSUME IInv PROVE EndsAtTail
  <2> SUFFICES ASSUME NEW i \in 1..Len(wire) - 1, wire[i].type = "SONG_END", wire[i + 1].type = "DATA"
               PROVE  wire[i + 1].frames[(wire[i].tail \div Frame) + 1] = wire[i].at
    BY DEF EndsAtTail
  <2>1. i \in 1..Len(wire) /\ i < Len(wire)
    BY <1>1 DEF IInv, Types
  <2>2. EndIn(wire[i], wire[i + 1].frames)
    BY <1>1, <2>1 DEF IInv, Ends, Is
  <2>3. PICK k \in Nat : wire[i].tail = k * Frame /\ wire[i].at = wire[i + 1].frames[k + 1]
    BY <2>2 DEF EndIn
  <2>4. (k * Frame) \div Frame = k
    BY Constants, Multiples
  <2> QED BY <2>3, <2>4
<1> QED BY <1>1, Invariance, PTL

(* uade_read() and handle_data(): the bytes in the stash are those due     *)
(* next (StashInOrder).                                                    *)
THEOREM StashKeepsOrder == Spec => []StashInOrder
<1>1. IInv => StashInOrder
  BY DEF IInv, Stash, InOrder, StashInOrder
<1> QED BY <1>1, Invariance, PTL

(* queue_command() and the loop that sends what waits: with a request for  *)
(* audio the core has the filter the caller wants, though memory may be    *)
(* refused between a command's size and the command (FilterFollows).       *)
THEOREM FilterReachesCore == Spec => FilterFollows
<1>1. ASSUME IInv, [Next]_vars
      PROVE  [pc = "turn" /\ pc' = "run" /\ ~snd'.reboot => snd'.filter = wanted]_vars
  <2> SUFFICES ASSUME Next, pc = "turn", pc' = "run", ~snd'.reboot
               PROVE  snd'.filter = wanted
    BY <1>1 DEF vars
  <2> USE <1>1
  <2>1. CASE FirstRequest
    <3>1. host = "initialized" /\ snd'.filter = snd.filter /\ Length(commands) = 0
      BY <2>1 DEF FirstRequest, IInv, Types, Queue, FifoInv
    <3> QED BY <3>1 DEF IInv, Queue
  <2>2. CASE RequestsBlock
    <3>1. host = "turn" /\ snd'.filter = snd.filter /\ Length(commands) = 0
      BY <2>2 DEF RequestsBlock, Request, IInv, Types
    <3> QED BY <3>1 DEF IInv, Queue
  <2>3. CASE OrdersReboot
    BY <2>3 DEF OrdersReboot, IInv, Types
  <2>4. CASE Core
    BY <2>4 DEF Core, Sample, Skips, Collects, SendsBlock, MakesInBurst, StartsOutput, SongEnds, Reboots, Emulating
  <2>5. CASE Caller
    BY <2>5 DEF Caller, uade_stop, uade_play, uade_set_filter_state, uade_read, coreVars
  <2>6. CASE Drains \/ FromStash \/ HearsSongEnd \/ TakesBlock \/ EndsSubsong \/ Waits \/ TakesTurn \/ SendsCommand
    BY <2>6 DEF Drains, FromStash, HearsSongEnd, TakesBlock, EndsSubsong, Waits, TakesTurn, SendsCommand, coreVars
  <2> QED BY <2>1, <2>2, <2>3, <2>4, <2>5, <2>6 DEF Next, Host
<1> QED BY <1>1, Invariance, PTL DEF Spec, FilterFollows

(* The contents of a fifo as a sequence.                                   *)
LEMMA Held ==
  ASSUME NEW held \in Nat, NEW f, FifoInv(f, held), NEW S, \A i \in 1..Length(f) : Contents(f)[i] \in S
  PROVE  /\ Contents(f) \in Seq(S) /\ Len(Contents(f)) = Length(f)
         /\ Length(f) \in Nat /\ Length(f) <= held
<1>1. Length(f) \in Nat /\ Length(f) <= held
  BY DEF FifoInv
<1>2. Contents(f) = [i \in 1..Length(f) |-> Contents(f)[i]]
  BY SameFifo
<1>3. Contents(f) \in [1..Length(f) -> S]
  BY <1>2
<1> QED BY <1>1, <1>3

(* What the fifos hold, as sequences.                                      *)
StashHolds ==
  /\ Contents(stash) \in Seq(0..ByteCount - 1) /\ Len(Contents(stash)) = Length(stash)
  /\ Length(stash) \in Nat /\ Length(stash) <= Block
CommandsHold ==
  /\ Contents(commands) \in Seq(Filters \cup {"size"}) /\ Len(Contents(commands)) = Length(commands)
  /\ Length(commands) \in Nat

(* The bytes in the stash are numbers of bytes.                            *)
LEMMA HeldStash == IInv => StashHolds
<1> SUFFICES ASSUME IInv PROVE StashHolds
  OBVIOUS
<1>1. \A i \in 1..Length(stash) : Contents(stash)[i] \in 0..ByteCount - 1
  <2> TAKE i \in 1..Length(stash)
  <2>1. FifoInv(stash, Block) /\ InOrder
    BY DEF IInv, Stash
  <2>2. Length(stash) > 0 /\ i - 1 \in Nat
    BY <2>1 DEF FifoInv
  <2>3. heard \in Nat /\ heard + (i - 1) \in Nat
    BY <2>2, Constants DEF IInv, Stash, Types
  <2>4. (heard + (i - 1)) % ByteCount \in 0..ByteCount - 1
    BY <2>3, Constants, Modulus
  <2> QED BY <2>1, <2>4 DEF InOrder
<1> QED BY <1>1, Constants, Held DEF IInv, Stash, StashHolds

(* The queue holds commands and their sizes.                               *)
LEMMA HeldCommands == IInv => CommandsHold
BY Constants, Held DEF IInv, Queue, CommandsHold

(* A step writes a block to an empty stash, reads from it, empties it or   *)
(* leaves it.                                                              *)
LEMMA StashStep == ASSUME IInv, StashHolds', Next PROVE [StashQueue!Next]_(Contents(stash))
<1>0. StashHolds
  BY HeldStash
<1>1. CASE stash' = stash
  BY <1>1
<1>2. CASE uade_stop
  <2>1. Contents(stash') = <<>>
    BY <1>2, Constants, EmptyInv DEF uade_stop
  <2> QED BY <2>1 DEF StashQueue!Next, StashQueue!Flush
<1>3. CASE FromStash
  <2> DEFINE n == read.want - read.copied
             got == IF n < Length(stash) THEN n ELSE Length(stash)
  <2>1. n \in Nat /\ stash' = After(stash, n)
    <3>1. read.want \in Nat /\ read.copied \in Nat /\ read.copied <= read.want
      <4>1. read.want \in ReadSizes \cup {0} /\ read.copied \in Nat /\ read.copied <= read.want
        BY DEF IInv, Types
      <4>2. ReadSizes \subseteq Nat
        BY OutputAssumption
      <4> HIDE DEF n, got
      <4>3. read.want \in Nat
        <5>1. CASE read.want = 0
          BY <5>1
        <5>2. CASE read.want \in ReadSizes
          BY <4>2, <5>2
        <5> QED BY <4>1, <5>1, <5>2
      <4> QED BY <4>1, <4>3
    <3> QED BY <1>3, <3>1 DEF FromStash
  <2>2. /\ got \in 0..Length(stash) /\ Length(stash') = Length(stash) - got
        /\ \A i \in 1..Length(stash') : Contents(stash')[i] = Contents(stash)[i + got]
    <3> DEFINE g == After(stash, n)
               m == IF n < Length(stash) THEN n ELSE Length(stash)
    <3>1. FifoInv(stash, Block) /\ Block \in Nat
      BY Constants DEF IInv, Stash
    <3>2. /\ m \in 0..Length(stash) /\ Length(g) = Length(stash) - m
          /\ \A i \in 1..Length(g) : Contents(g)[i] = Contents(stash)[i + m]
      BY <2>1, <3>1, AfterFifo
    <3> QED BY <2>1, <3>2
  <2> HIDE DEF n, got
  <2>3. /\ Contents(stash) \in Seq(0..ByteCount - 1) /\ Len(Contents(stash)) = Length(stash) /\ Length(stash) \in Nat
    BY <1>0 DEF StashHolds
  <2>4. Contents(stash') \in Seq(0..ByteCount - 1) /\ Len(Contents(stash')) = Length(stash')
    BY DEF StashHolds
  <2>5. Contents(stash') = SubSeq(Contents(stash), got + 1, Len(Contents(stash)))
    BY <2>2, <2>3, <2>4
  <2> QED BY <2>2, <2>3, <2>5 DEF StashQueue!Next, StashQueue!Read, StashQueue!Without
<1>4. CASE TakesBlock
  <2>1. Length(stash) = 0
    BY <1>4 DEF TakesBlock, Event
  <2>2. Contents(stash) = <<>> /\ Len(Contents(stash)) = 0
    BY <1>0, <2>1 DEF StashHolds
  <2>3. /\ Contents(stash') \in Seq(0..ByteCount - 1) /\ Len(Contents(stash')) = Length(stash')
        /\ Length(stash') \in Nat /\ Length(stash') <= Block
    BY <1>0 DEF StashHolds
  <2>4. CASE Length(stash') = 0
    <3>1. Contents(stash') = <<>>
      BY <2>3, <2>4
    <3> QED BY <2>2, <3>1
  <2>5. CASE Length(stash') > 0
    <3>1. SubSeq(Contents(stash'), 1, 0) = <<>>
      BY <2>3
    <3>2. Len(Contents(stash')) - 0 \in 1..Block
      BY <2>3, <2>5, Constants
    <3> QED BY <2>2, <2>3, <3>1, <3>2 DEF StashQueue!Next, StashQueue!Write
  <2> QED BY <2>3, <2>4, <2>5
<1>5. CASE Core
  BY <1>1, <1>5 DEF Core, Sample, Skips, Collects, SendsBlock, Makes, MakesInBurst, StartsOutput, SongEnds, Reboots, hostVars
<1>6. CASE Caller
  BY <1>1, <1>2, <1>6 DEF Caller, uade_play, uade_set_filter_state, uade_read
<1>7. CASE Host
  BY <1>1, <1>3, <1>4, <1>7
    DEF Host, Drains, OrdersReboot, FirstRequest, HearsSongEnd, EndsSubsong, Waits, TakesTurn, SendsCommand,
        RequestsBlock, Request
<1> QED BY <1>5, <1>6, <1>7 DEF Next

(* A step queues a command, with its size, sends one, empties the queue    *)
(* or leaves it; a command for which there is no memory leaves no trace.   *)
LEMMA CommandStep == ASSUME IInv, CommandsHold', Next PROVE [CommandQueue!Next]_(Contents(commands))
<1> DEFINE old == Contents(commands)
           new == Contents(commands')
           n == Length(commands)
           S == Filters \cup {"size"}
<1>0. /\ old \in Seq(S) /\ Len(old) = n /\ n \in Nat
      /\ new \in Seq(S) /\ Len(new) = Length(commands')
  BY HeldCommands DEF CommandsHold
<1>1. CASE commands' = commands
  BY <1>1
<1>2. CASE uade_stop
  <2>1. new = <<>>
    BY <1>2, Constants, EmptyInv DEF uade_stop
  <2> QED BY <2>1 DEF CommandQueue!Next, CommandQueue!Flush
<1>3. ASSUME NEW v \in Filters, uade_set_filter_state(v) PROVE [CommandQueue!Next]_(Contents(commands))
  <2>1. CASE commands' = commands
    BY <2>1, <1>1
  <2>2. CASE commands' # commands
    <3>1. Length(commands) < MaxCommands * (SizeBytes + CommandBytes) /\ queue_command(v)
      BY <1>3, <2>2 DEF uade_set_filter_state
    <3>2. /\ \A i \in 1..n : new[i] = old[i]
          /\ Length(commands') = n + CommandSize \/ Length(commands') = n
      BY <3>1, CommandQueued
    <3> HIDE DEF old, new, n, S
    <3>3. SubSeq(new, 1, n) = old
      <4>1. CommandSize \in Nat
        BY Constants
      <4>2. n <= Len(new)
        BY <1>0, <3>2, <4>1
      <4>3. /\ SubSeq(new, 1, n) \in Seq(S) /\ Len(SubSeq(new, 1, n)) = n
            /\ \A i \in 1..n : SubSeq(new, 1, n)[i] = new[i]
        BY <1>0, <4>2
      <4> QED BY <1>0, <3>2, <4>3, SeqEqual
    <3>4. CASE Length(commands') = n
      <4>1. SubSeq(new, 1, n) = new
        BY <1>0, <3>4
      <4>2. new = old
        BY <3>3, <4>1
      <4> QED BY <4>2 DEF new, old
    <3>5. CASE Length(commands') = n + CommandSize
      <4>1. Len(new) - Len(old) \in 1..SizeBytes + CommandBytes
        BY <1>0, <3>5, Constants DEF CommandSize
      <4> QED BY <1>0, <3>3, <4>1 DEF CommandQueue!Next, CommandQueue!Write, new, old, S
    <3> QED BY <3>2, <3>4, <3>5
  <2> QED BY <2>1, <2>2
<1>4. CASE SendsCommand
  <2>1. /\ CommandSize <= n /\ Length(commands') = n - CommandSize
        /\ \A i \in 1..n - CommandSize : new[i] = old[i + CommandSize]
    BY <1>4, CommandSent
  <2> HIDE DEF old, new, n, S
  <2>2. CommandSize \in 0..Len(old)
    BY <1>0, <2>1, Constants
  <2>3. new = SubSeq(old, CommandSize + 1, Len(old))
    BY <1>0, <2>1, <2>2
  <2> QED BY <2>2, <2>3 DEF CommandQueue!Next, CommandQueue!Read, CommandQueue!Without, old, new
<1>5. CASE Core
  BY <1>1, <1>5 DEF Core, Sample, Skips, Collects, SendsBlock, Makes, MakesInBurst, StartsOutput, SongEnds, Reboots, hostVars
<1>6. CASE Caller
  BY <1>1, <1>2, <1>3, <1>6 DEF Caller, uade_play, uade_read
<1>7. CASE Host
  BY <1>1, <1>4, <1>7
    DEF Host, Drains, OrdersReboot, FirstRequest, FromStash, HearsSongEnd, TakesBlock, EndsSubsong, Waits, TakesTurn,
        RequestsBlock, Request
<1> QED BY <1>5, <1>6, <1>7 DEF Next

(* Stash and commands are used as the queues fifo.h promises, a command    *)
(* and its size at a time (FifosAreQueues).                                *)
THEOREM OutputUsesQueues == Spec => FifosAreQueues
<1>1. Init => StashQueue!Init /\ CommandQueue!Init
  BY Constants, EmptyInv DEF Init, StashQueue!Init, CommandQueue!Init
<1>2. IInv => StashHolds /\ CommandsHold
  BY HeldStash, HeldCommands
<1>3. IInv /\ StashHolds' /\ CommandsHold' /\ [Next]_vars => [StashQueue!Next]_(Contents(stash)) /\ [CommandQueue!Next]_(Contents(commands))
  BY StashStep, CommandStep DEF vars
<1> QED BY <1>1, <1>2, <1>3, Invariance, PTL DEF Spec, FifosAreQueues, StashQueue!Spec, CommandQueue!Spec
=============================================================================
