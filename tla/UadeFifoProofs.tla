--------------------------- MODULE UadeFifoProofs ---------------------------
(***************************************************************************)
(* Theorems about the fifo for bytes of any kind and transfers of any      *)
(* size: it never leaves its buffer, it is the queue fifo.h promises, and  *)
(* its buffer stays in proportion to what it held.                         *)
(***************************************************************************)
EXTENDS UadeFifo, SequenceTheorems, TLAPS

(* The capacities halve_fifo() compares.                                    *)
LEMMA Quarter ==
  ASSUME NEW c \in Nat
  PROVE  /\ c \div 2 \in Nat /\ c \div 4 \in Nat
         /\ c \div 4 <= c \div 2 /\ c \div 2 <= c
OBVIOUS

LEMMA MoreThanQuarter ==
  ASSUME NEW c \in Nat, NEW n \in Nat, c \div 4 < n
  PROVE  c < 4 * n
<1> DEFINE q == c \div 4
<1>1. q \in Nat /\ c < 4 * q + 4 /\ q < n
  OBVIOUS
<1> HIDE DEF q
<1> QED BY <1>1

(* A write keeps the bytes there are and puts its own behind them, in the   *)
(* old buffer or a larger one.                                              *)
LEMMA WrittenFifo ==
  ASSUME NEW f, FifoOK(f), NEW n \in Nat, NEW data \in [1..n -> Data]
  PROVE  LET g == fifo_written(f, data) IN
         /\ FifoOK(g)
         /\ g.lower = f.lower /\ g.upper = f.upper + n
         /\ g.peak >= f.peak /\ g.peak >= g.upper - g.lower
         /\ g.capacity = (IF Grows(f, n) THEN (f.upper + n) * 2 ELSE f.capacity)
         /\ \A i \in 1..f.upper : g.buf[i] = f.buf[i]
         /\ \A i \in 1..n : g.buf[f.upper + i] = data[i]
<1> DEFINE cap == IF Grows(f, n) THEN (f.upper + n) * 2 ELSE f.capacity
           g == fifo_written(f, data)
<1>1. Len(data) = n
  OBVIOUS
<1>2. cap \in Nat /\ f.upper + n <= cap
  BY DEF FifoOK, Grows
<1>3. g = Appended(f, data, cap)
  BY <1>1 DEF fifo_written
<1>4. /\ g.lower = f.lower /\ g.upper = f.upper + n /\ g.capacity = cap
      /\ g.peak = Larger(f.peak, fifo_len(f) + n)
  BY <1>1, <1>3 DEF Appended
<1>5. /\ \A i \in 1..cap : i <= f.upper => g.buf[i] = f.buf[i]
      /\ \A i \in 1..cap : i > f.upper /\ i <= f.upper + n => g.buf[i] = data[i - f.upper]
      /\ \A i \in 1..cap : i > f.upper + n => g.buf[i] = Junk
      /\ g.buf = [i \in 1..cap |-> g.buf[i]]
  <2>1. g.buf = [i \in 1..cap |-> IF i <= f.upper THEN f.buf[i]
                                 ELSE IF i <= f.upper + n THEN data[i - f.upper] ELSE Junk]
    BY <1>1, <1>3 DEF Appended
  <2> QED BY <2>1, <1>2 DEF FifoOK
<1> HIDE DEF g, cap
<1>6. \A i \in 1..f.upper : i \in 1..cap /\ g.buf[i] = f.buf[i]
  BY <1>2, <1>5 DEF FifoOK
<1>7. \A i \in 1..n : f.upper + i \in 1..cap /\ g.buf[f.upper + i] = data[i]
  <2> TAKE i \in 1..n
  <2>1. f.upper + i \in 1..cap /\ f.upper + i > f.upper /\ f.upper + i <= f.upper + n
        /\ (f.upper + i) - f.upper = i
    BY <1>2 DEF FifoOK
  <2> QED BY <2>1, <1>5
<1>8. /\ g.peak \in Nat /\ g.peak >= f.peak /\ g.peak >= g.upper - g.lower
  BY <1>4 DEF FifoOK, fifo_len, Larger
<1>9. g.buf \in [1..cap -> Data \cup {Junk}]
  <2>2. \A i \in 1..cap : g.buf[i] \in Data \cup {Junk}
    <3> TAKE i \in 1..cap
    <3>1. CASE i <= f.upper
      BY <3>1, <1>6 DEF FifoOK
    <3>2. CASE i > f.upper /\ i <= f.upper + n
      <4>1. i - f.upper \in 1..n
        BY <3>2 DEF FifoOK
      <4> QED BY <3>2, <4>1, <1>5
    <3>3. CASE i > f.upper + n
      BY <3>3, <1>5 DEF FifoOK
    <3> QED BY <3>1, <3>2, <3>3 DEF FifoOK
  <2> QED BY <1>5, <2>2
<1>10. \A i \in g.lower + 1..g.upper : g.buf[i] \in Data
  <2> TAKE i \in g.lower + 1..g.upper
  <2>1. CASE i <= f.upper
    BY <2>1, <1>4, <1>6 DEF FifoOK
  <2>2. CASE i > f.upper
    <3>1. i - f.upper \in 1..n /\ f.upper + (i - f.upper) = i
      BY <2>2, <1>4 DEF FifoOK
    <3> QED BY <3>1, <1>7
  <2> QED BY <2>1, <2>2, <1>4 DEF FifoOK
<1>11. FifoOK(g)
  BY <1>2, <1>4, <1>8, <1>9, <1>10 DEF FifoOK, fifo_len
<1> USE DEF g, cap
<1> QED BY <1>4, <1>6, <1>7, <1>8, <1>11

(* The bytes stay what they are when they move down.                        *)
LEMMA MovedFifo ==
  ASSUME NEW f, FifoOK(f), NEW capacity \in Nat,
         capacity <= f.capacity, fifo_len(f) <= capacity
  PROVE  LET g == Moved(f, capacity) IN
         /\ FifoOK(g) /\ Contents(g) = Contents(f)
         /\ g.lower = 0 /\ g.upper = fifo_len(f) /\ g.capacity = capacity /\ g.peak = f.peak
<1> DEFINE g == Moved(f, capacity)
<1> fifo_len(f) \in Nat /\ fifo_len(f) = f.upper - f.lower
  BY DEF FifoOK, fifo_len
<1>1. /\ g.lower = 0 /\ g.upper = fifo_len(f) /\ g.capacity = capacity /\ g.peak = f.peak
      /\ g.buf = [i \in 1..capacity |-> IF i <= fifo_len(f) THEN f.buf[f.lower + i] ELSE f.buf[i]]
  BY DEF Moved
<1> HIDE DEF g
<1>2. \A i \in 1..fifo_len(f) :
        /\ i \in 1..capacity /\ f.lower + i \in f.lower + 1..f.upper
        /\ g.buf[i] = f.buf[f.lower + i] /\ g.buf[i] \in Data
  <2> TAKE i \in 1..fifo_len(f)
  <2>1. i \in 1..capacity /\ f.lower + i \in f.lower + 1..f.upper
    BY DEF FifoOK
  <2>2. g.buf[i] = f.buf[f.lower + i]
    BY <2>1, <1>1
  <2>3. f.buf[f.lower + i] \in Data
    BY <2>1 DEF FifoOK
  <2> QED BY <2>1, <2>2, <2>3
<1>3. g.buf \in [1..capacity -> Data \cup {Junk}]
  <2>1. \A i \in 1..capacity : g.buf[i] \in Data \cup {Junk}
    <3> TAKE i \in 1..capacity
    <3>1. CASE i <= fifo_len(f)
      BY <3>1, <1>2
    <3>2. CASE ~(i <= fifo_len(f))
      <4>1. g.buf[i] = f.buf[i] /\ i \in 1..f.capacity
        BY <3>2, <1>1 DEF FifoOK
      <4> QED BY <4>1 DEF FifoOK
    <3> QED BY <3>1, <3>2
  <2> QED BY <1>1, <2>1
<1>4. FifoOK(g)
  <2>1. \A i \in g.lower + 1..g.upper : g.buf[i] \in Data
    <3>1. g.lower + 1 = 1 /\ g.upper = fifo_len(f)
      BY <1>1
    <3> QED BY <1>2, <3>1
  <2>2. g.lower \in Nat /\ g.upper \in Nat /\ g.capacity \in Nat /\ g.peak \in Nat
        /\ g.lower <= g.upper /\ g.upper <= g.capacity /\ g.upper - g.lower <= g.peak
    BY <1>1 DEF FifoOK
  <2> QED BY <1>1, <1>3, <2>1, <2>2 DEF FifoOK, fifo_len
<1>5. Contents(g) = Contents(f)
  <2>1. fifo_len(g) = fifo_len(f) /\ g.lower = 0
    BY <1>1 DEF fifo_len
  <2>2. \A i \in 1..fifo_len(f) : g.buf[g.lower + i] = f.buf[f.lower + i]
    BY <1>2, <2>1
  <2> QED BY <2>1, <2>2 DEF Contents
<1> USE DEF g
<1> QED BY <1>1, <1>4, <1>5

(* A read that takes n bytes leaves those behind them, wherever they then   *)
(* lie.                                                                     *)
ReadLeaves(f, n, g) ==
  /\ FifoOK(g) /\ g.peak = f.peak /\ g.capacity <= f.capacity
  /\ fifo_len(g) = fifo_len(f) - n
  /\ Contents(g) = [i \in 1..fifo_len(f) - n |-> Contents(f)[i + n]]
  /\ \/ g = f
     \/ g.lower = 0
     \/ g.lower = f.lower + n /\ g.upper = f.upper /\ g.capacity = f.capacity /\ ~Sparse(g)

LEMMA ReadFifo ==
  ASSUME NEW f, FifoOK(f), NEW bytes \in Nat, NEW g \in fifo_read(f, bytes)
  PROVE  LET n == Smaller(bytes, fifo_len(f)) IN n \in 0..fifo_len(f) /\ ReadLeaves(f, n, g)
<1> DEFINE n == Smaller(bytes, fifo_len(f))
           h == [f EXCEPT !.lower = @ + n]
<1>1. fifo_len(f) \in Nat /\ fifo_len(f) = f.upper - f.lower /\ n \in 0..fifo_len(f)
  BY DEF FifoOK, fifo_len, Smaller
<1>2. CASE fifo_len(f) = 0
  <2>1. g = f /\ n = 0
    BY <1>1, <1>2 DEF fifo_read
  <2> HIDE DEF n
  <2>2. Contents(g) = [i \in 1..fifo_len(f) - 0 |-> Contents(f)[i + 0]]
    BY <2>1, <1>2 DEF Contents
  <2>3. ReadLeaves(f, 0, g)
    BY <2>1, <2>2, <1>1 DEF ReadLeaves, FifoOK
  <2> QED BY <2>1, <2>3, <1>1 DEF n
<1>3. CASE fifo_len(f) # 0
  <2>1. g \in halve_fifo(h)
    BY <1>3 DEF fifo_read
  <2>2. /\ h.lower = f.lower + n /\ h.upper = f.upper /\ h.capacity = f.capacity
        /\ h.peak = f.peak /\ h.buf = f.buf
    BY DEF FifoOK
  <2>3. FifoOK(h) /\ fifo_len(h) = fifo_len(f) - n
    <3> HIDE DEF n, h
    <3>1. \A i \in h.lower + 1..h.upper : i \in f.lower + 1..f.upper
      BY <1>1, <2>2 DEF FifoOK
    <3> QED BY SMTT(30), <1>1, <2>2, <3>1 DEF FifoOK, fifo_len
  <2>4. Contents(h) = [i \in 1..fifo_len(f) - n |-> Contents(f)[i + n]]
    <3> HIDE DEF n, h
    <3>1. \A i \in 1..fifo_len(f) - n :
            i + n \in 1..fifo_len(f) /\ h.lower + i = f.lower + (i + n)
      BY <1>1, <2>2 DEF FifoOK
    <3> QED BY <2>2, <2>3, <3>1 DEF Contents
  <2>5. CASE ~Sparse(h)
    <3>1. g = h
      BY <2>1, <2>5 DEF halve_fifo
    <3> HIDE DEF n, h
    <3>2. ReadLeaves(f, n, g)
      BY <2>2, <2>3, <2>4, <2>5, <3>1 DEF ReadLeaves, FifoOK
    <3> QED BY <3>2, <1>1 DEF n
  <2>6. CASE Sparse(h)
    <3> HIDE DEF n, h
    <3>1. PICK capacity \in {h.capacity \div 2, h.capacity} : g = Moved(h, capacity)
      BY <2>1, <2>6 DEF halve_fifo
    <3>2. capacity \in Nat /\ capacity <= h.capacity /\ fifo_len(h) <= capacity
      <4>1. h.capacity \in Nat /\ fifo_len(h) \in Nat /\ fifo_len(h) <= h.capacity \div 4
        BY SMTT(30), <1>1, <2>3, <2>6 DEF Sparse, FifoOK
      <4> QED BY <4>1, Quarter
    <3>3. /\ FifoOK(g) /\ Contents(g) = Contents(h) /\ g.lower = 0
          /\ g.upper = fifo_len(h) /\ g.capacity = capacity /\ g.peak = h.peak
      BY <3>1, <3>2, <2>3, MovedFifo
    <3>4. fifo_len(g) = fifo_len(f) - n
      BY <1>1, <2>3, <3>3 DEF fifo_len
    <3>5. ReadLeaves(f, n, g)
      BY <2>2, <2>4, <3>2, <3>3, <3>4 DEF ReadLeaves
    <3> QED BY <3>5, <1>1 DEF n
  <2> QED BY <2>5, <2>6
<1> QED BY <1>2, <1>3

-----------------------------------------------------------------------------
(* Either little has been read, or less than three times what was held.     *)
SpaceInv == /\ FifoOK(fifo) /\ SpaceBound(fifo)
            /\ fifo.lower <= 7 \/ fifo.lower <= 3 * fifo.peak

(* A buffer that grows, behind bytes that are read, stays in proportion.    *)
LEMMA GrownSpace ==
  ASSUME NEW lower \in Nat, NEW upper \in Nat, NEW n \in Nat, NEW peak \in Nat, NEW peak2 \in Nat,
         lower <= 7 \/ lower <= 3 * peak, peak2 >= peak, peak2 >= (upper + n) - lower
  PROVE  (upper + n) * 2 <= 8 * peak2 + 14
OBVIOUS

LEMMA EmptyIsOK == FifoOK(EmptyFifo) /\ SpaceBound(EmptyFifo)
BY DEF FifoOK, EmptyFifo, fifo_len, SpaceBound

LEMMA SpaceStep ==
  ASSUME SpaceInv, [Next]_fifo
  PROVE  SpaceInv'
<1> USE DEF SpaceInv
<1>1. CASE Write
  <2>0. PICK n \in 1..MaxBytes : \E data \in [1..n -> Data] : fifo' = fifo_written(fifo, data)
    BY <1>1 DEF Write
  <2>1. PICK data \in [1..n -> Data] : fifo' = fifo_written(fifo, data)
    BY <2>0
  <2>2. n \in Nat
    OBVIOUS
  <2>3. /\ FifoOK(fifo') /\ fifo'.lower = fifo.lower /\ fifo'.upper = fifo.upper + n
        /\ fifo'.peak >= fifo.peak /\ fifo'.peak >= fifo'.upper - fifo'.lower
        /\ fifo'.capacity = (IF Grows(fifo, n) THEN (fifo.upper + n) * 2 ELSE fifo.capacity)
    BY <2>1, <2>2, WrittenFifo
  <2>4. /\ fifo.lower \in Nat /\ fifo.upper \in Nat /\ fifo.capacity \in Nat /\ fifo.peak \in Nat
        /\ fifo'.peak \in Nat
    BY <2>3 DEF FifoOK
  <2>5. SpaceBound(fifo')
    <3>1. fifo'.peak >= (fifo.upper + n) - fifo.lower
      BY <2>3
    <3>2. (fifo.upper + n) * 2 <= 8 * fifo'.peak + 14
      BY <2>2, <2>3, <2>4, <3>1, GrownSpace
    <3>3. fifo.capacity <= 8 * fifo'.peak + 14
      BY SMTT(30), <2>3, <2>4 DEF SpaceBound
    <3> QED BY <2>3, <3>2, <3>3 DEF SpaceBound
  <2>6. fifo'.lower <= 7 \/ fifo'.lower <= 3 * fifo'.peak
    BY <2>3, <2>4
  <2> QED BY <2>3, <2>5, <2>6
<1>2. CASE Read
  <2>1. PICK bytes \in 0..MaxBytes : fifo' \in fifo_read(fifo, bytes)
    BY <1>2 DEF Read
  <2>2. PICK n \in 0..fifo_len(fifo) : ReadLeaves(fifo, n, fifo')
    BY <2>1, ReadFifo
  <2>3. FifoOK(fifo') /\ SpaceBound(fifo')
    BY <2>2 DEF ReadLeaves, SpaceBound, FifoOK
  <2>4. CASE ~Sparse(fifo')
    <3>1. fifo'.capacity < 8 \/ fifo'.capacity \div 4 < fifo'.upper - fifo'.lower
      BY <2>3, <2>4 DEF Sparse, fifo_len, FifoOK
    <3>2. fifo'.capacity < 8 \/ fifo'.capacity < 4 * (fifo'.upper - fifo'.lower)
      <4>1. fifo'.capacity \in Nat /\ fifo'.upper - fifo'.lower \in Nat
        BY <2>3 DEF FifoOK
      <4> QED BY <3>1, <4>1, MoreThanQuarter
    <3>3. /\ fifo'.lower \in Nat /\ fifo'.upper \in Nat /\ fifo'.capacity \in Nat
          /\ fifo'.lower <= fifo'.upper /\ fifo'.upper <= fifo'.capacity
          /\ fifo'.peak \in Nat /\ fifo'.upper - fifo'.lower <= fifo'.peak
      BY <2>3 DEF FifoOK, fifo_len
    <3>4. fifo'.lower <= 7 \/ fifo'.lower <= 3 * fifo'.peak
      BY <3>2, <3>3
    <3> QED BY <2>3, <3>4
  <2>5. CASE Sparse(fifo')
    BY <2>2, <2>3, <2>5 DEF ReadLeaves
  <2> QED BY <2>4, <2>5
<1>3. CASE EraseTail
  <2>1. PICK bytes \in 0..MaxBytes : fifo' = fifo_erase_tail(fifo, bytes)
    BY <1>3 DEF EraseTail
  <2>2. CASE fifo_len(fifo) < bytes
    BY <2>1, <2>2 DEF fifo_erase_tail
  <2>3. CASE ~(fifo_len(fifo) < bytes)
    <3>1. fifo' = [fifo EXCEPT !.upper = @ - bytes]
      BY <2>1, <2>3 DEF fifo_erase_tail
    <3>2. /\ fifo'.lower = fifo.lower /\ fifo'.capacity = fifo.capacity /\ fifo'.peak = fifo.peak
          /\ fifo'.buf = fifo.buf /\ fifo'.upper = fifo.upper - bytes
      BY <3>1 DEF FifoOK
    <3>3. \A i \in fifo'.lower + 1..fifo'.upper : i \in fifo.lower + 1..fifo.upper
      BY <3>2 DEF FifoOK
    <3>4. FifoOK(fifo')
      BY SMTT(30), <2>3, <3>2, <3>3 DEF FifoOK, fifo_len
    <3> QED BY <3>2, <3>4 DEF SpaceBound
  <2> QED BY <2>2, <2>3
<1>4. CASE Flush
  <2>1. /\ fifo'.lower = 0 /\ fifo'.upper = 0 /\ fifo'.capacity = fifo.capacity
        /\ fifo'.peak = fifo.peak /\ fifo'.buf = fifo.buf
    BY <1>4 DEF Flush, fifo_flush, FifoOK
  <2>2. FifoOK(fifo')
    BY <2>1 DEF FifoOK, fifo_len
  <2> QED BY <2>1, <2>2 DEF SpaceBound
<1>5. CASE Free
  BY <1>5, EmptyIsOK DEF Free, EmptyFifo
<1>6. CASE UNCHANGED fifo
  BY <1>6
<1> QED BY <1>1, <1>2, <1>3, <1>4, <1>5, <1>6 DEF Next

(* However a fifo is used, its bytes stay inside its buffer and the buffer  *)
(* stays in proportion to the most bytes held (fifo_write, halve_fifo).     *)
THEOREM FifoStaysInSpace == Spec => []SpaceBounded
<1>1. Init => SpaceInv
  BY EmptyIsOK DEF Init, SpaceInv, EmptyFifo
<1>2. SpaceInv /\ [Next]_fifo => SpaceInv'
  BY SpaceStep
<1>3. SpaceInv => SpaceBounded
  BY DEF SpaceInv, SpaceBounded
<1> QED BY <1>1, <1>2, <1>3, PTL DEF Spec
-----------------------------------------------------------------------------
(* The contents as a sequence.                                              *)
LEMMA ContentsOf ==
  ASSUME NEW f, FifoOK(f)
  PROVE  /\ Contents(f) \in Seq(Data) /\ Len(Contents(f)) = fifo_len(f)
         /\ fifo_len(f) \in Nat
         /\ \A i \in 1..fifo_len(f) : Contents(f)[i] = f.buf[f.lower + i]
<1>1. fifo_len(f) \in Nat
  BY DEF FifoOK, fifo_len
<1>2. \A i \in 1..fifo_len(f) : f.buf[f.lower + i] \in Data
  <2> TAKE i \in 1..fifo_len(f)
  <2>1. f.lower + i \in f.lower + 1..f.upper
    BY DEF FifoOK, fifo_len
  <2> QED BY <2>1 DEF FifoOK
<1>3. Contents(f) \in [1..fifo_len(f) -> Data]
  BY <1>2 DEF Contents
<1> QED BY <1>1, <1>3 DEF Contents

LEMMA WriteIsQueues ==
  ASSUME SpaceInv, Write
  PROVE  Queue!Write
<1>0. PICK n \in 1..MaxBytes : \E data \in [1..n -> Data] : fifo' = fifo_written(fifo, data)
  BY DEF Write
<1>1. PICK data \in [1..n -> Data] : fifo' = fifo_written(fifo, data)
  BY <1>0
<1>2. /\ FifoOK(fifo') /\ fifo'.lower = fifo.lower /\ fifo'.upper = fifo.upper + n
      /\ \A i \in 1..fifo.upper : fifo'.buf[i] = fifo.buf[i]
      /\ \A i \in 1..n : fifo'.buf[fifo.upper + i] = data[i]
  BY <1>1, WrittenFifo DEF SpaceInv
<1>3. FifoOK(fifo)
  BY DEF SpaceInv
<1>4. /\ fifo.lower \in Nat /\ fifo.upper \in Nat /\ fifo.lower <= fifo.upper
      /\ fifo_len(fifo) = fifo.upper - fifo.lower /\ fifo_len(fifo') = fifo_len(fifo) + n
  BY <1>2, <1>3 DEF FifoOK, fifo_len
<1>5. /\ Contents(fifo) \in Seq(Data) /\ Len(Contents(fifo)) = fifo_len(fifo)
      /\ Contents(fifo') \in Seq(Data) /\ Len(Contents(fifo')) = fifo_len(fifo) + n
      /\ fifo_len(fifo) \in Nat
  BY <1>2, <1>3, <1>4, ContentsOf
<1>6. \A i \in 1..fifo_len(fifo) : Contents(fifo')[i] = Contents(fifo)[i]
  <2> TAKE i \in 1..fifo_len(fifo)
  <2>1. fifo.lower + i \in 1..fifo.upper /\ i \in 1..fifo_len(fifo) + n
    BY <1>4
  <2>2. fifo'.buf[fifo.lower + i] = fifo.buf[fifo.lower + i]
    BY <2>1, <1>2
  <2>3. Contents(fifo)[i] = fifo.buf[fifo.lower + i]
    BY <1>3, ContentsOf
  <2>4. \A j \in 1..fifo_len(fifo') : Contents(fifo')[j] = fifo'.buf[fifo'.lower + j]
    BY <1>2, ContentsOf
  <2>5. Contents(fifo')[i] = fifo'.buf[fifo.lower + i]
    BY <2>1, <2>4, <1>2, <1>4
  <2> QED BY <2>2, <2>3, <2>5
<1>7. SubSeq(Contents(fifo'), 1, Len(Contents(fifo))) = Contents(fifo)
  <2>1. /\ SubSeq(Contents(fifo'), 1, fifo_len(fifo)) \in Seq(Data)
        /\ Len(SubSeq(Contents(fifo'), 1, fifo_len(fifo))) = fifo_len(fifo)
        /\ \A i \in 1..fifo_len(fifo) :
             SubSeq(Contents(fifo'), 1, fifo_len(fifo))[i] = Contents(fifo')[i]
    BY <1>5
  <2> QED BY <2>1, <1>5, <1>6, SeqEqual
<1> QED BY <1>5, <1>7 DEF Queue!Write

LEMMA ReadIsQueues ==
  ASSUME SpaceInv, Read
  PROVE  Queue!Read
<1>1. PICK bytes \in 0..MaxBytes : fifo' \in fifo_read(fifo, bytes)
  BY DEF Read
<1>2. PICK n \in 0..fifo_len(fifo) : ReadLeaves(fifo, n, fifo')
  BY <1>1, ReadFifo DEF SpaceInv
<1>3. /\ Contents(fifo) \in Seq(Data) /\ Len(Contents(fifo)) = fifo_len(fifo) /\ fifo_len(fifo) \in Nat
  BY ContentsOf DEF SpaceInv
<1>4. Contents(fifo') = [i \in 1..fifo_len(fifo) - n |-> Contents(fifo)[i + n]]
  BY <1>2 DEF ReadLeaves
<1>5. SubSeq(Contents(fifo), n + 1, Len(Contents(fifo)))
        = [i \in 1..fifo_len(fifo) - n |-> Contents(fifo)[i + n]]
  BY <1>3
<1> QED BY <1>3, <1>4, <1>5 DEF Queue!Read, Queue!Without

LEMMA EraseIsQueues ==
  ASSUME SpaceInv, EraseTail
  PROVE  Queue!EraseTail
<1>1. PICK bytes \in 0..MaxBytes : fifo' = fifo_erase_tail(fifo, bytes)
  BY DEF EraseTail
<1>2. /\ Contents(fifo) \in Seq(Data) /\ Len(Contents(fifo)) = fifo_len(fifo) /\ fifo_len(fifo) \in Nat
  BY ContentsOf DEF SpaceInv
<1>3. CASE fifo_len(fifo) < bytes
  <2>1. Contents(fifo') = SubSeq(Contents(fifo), 1, Len(Contents(fifo)) - 0)
    BY <1>1, <1>2, <1>3 DEF fifo_erase_tail
  <2> QED BY <1>2, <2>1 DEF Queue!EraseTail, Queue!First
<1>4. CASE ~(fifo_len(fifo) < bytes)
  <2>1. fifo'.lower = fifo.lower /\ fifo'.buf = fifo.buf /\ fifo_len(fifo') = fifo_len(fifo) - bytes
    BY <1>1, <1>4 DEF fifo_erase_tail, SpaceInv, FifoOK, fifo_len
  <2>2. Contents(fifo') = SubSeq(Contents(fifo), 1, Len(Contents(fifo)) - bytes)
    BY <1>2, <1>4, <2>1 DEF Contents
  <2>3. bytes \in 0..Len(Contents(fifo))
    BY <1>2, <1>4
  <2> QED BY <2>2, <2>3 DEF Queue!EraseTail, Queue!First
<1> QED BY <1>3, <1>4

LEMMA EmptiedIsQueues ==
  ASSUME SpaceInv, Flush \/ Free
  PROVE  Queue!Flush
<1>1. fifo_len(fifo') = 0
  <2>1. CASE Flush
    <3>1. fifo'.lower = 0 /\ fifo'.upper = 0
      BY <2>1 DEF Flush, fifo_flush, SpaceInv, FifoOK
    <3> QED BY <3>1 DEF fifo_len
  <2>2. CASE Free
    BY <2>2 DEF Free, EmptyFifo, fifo_len
  <2> QED BY <2>1, <2>2
<1>2. Contents(fifo') = <<>>
  BY <1>1 DEF Contents
<1> QED BY <1>2 DEF Queue!Flush

(* The buffer that grows, halves and moves is the queue fifo.h describes:   *)
(* no byte is lost, repeated or out of order.                               *)
THEOREM FifoIsQueue == Spec => Queue!Spec
<1>1. Init => SpaceInv /\ Queue!Init
  BY EmptyIsOK DEF Init, SpaceInv, EmptyFifo, Queue!Init, Contents, fifo_len
<1>2. SpaceInv /\ [Next]_fifo => SpaceInv'
  BY SpaceStep
<1>3. SpaceInv /\ [Next]_fifo => [Queue!Next]_(Contents(fifo))
  <2> SUFFICES ASSUME SpaceInv, [Next]_fifo PROVE [Queue!Next]_(Contents(fifo))
    OBVIOUS
  <2>1. CASE Write
    BY <2>1, WriteIsQueues DEF Queue!Next
  <2>2. CASE Read
    BY <2>2, ReadIsQueues DEF Queue!Next
  <2>3. CASE EraseTail
    BY <2>3, EraseIsQueues DEF Queue!Next
  <2>4. CASE Flush \/ Free
    BY <2>4, EmptiedIsQueues DEF Queue!Next
  <2>5. CASE UNCHANGED fifo
    BY <2>5 DEF Contents, fifo_len
  <2> QED BY <2>1, <2>2, <2>3, <2>4, <2>5 DEF Next
<1> QED BY <1>1, <1>2, <1>3, PTL DEF Spec, Queue!Spec
=============================================================================
