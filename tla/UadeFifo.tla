------------------------------ MODULE UadeFifo ------------------------------
(***************************************************************************)
(* The queue of bytes in fifo.c, which keeps the bytes of a song that the  *)
(* caller of uade_read() has not taken yet, the commands for uadecore and  *)
(* the notifications of a state.  The bytes lie in buf[lower..upper-1];    *)
(* the buffer grows at its end and moves down when little of it is used.   *)
(* Memory may be refused whenever some is asked for.                       *)
(***************************************************************************)
EXTENDS Integers, Sequences

CONSTANTS Data,      (* values of a byte                                    *)
          Junk,      (* the contents of memory nobody has written           *)
          MaxBytes   (* bound: the most that is written or read at a time   *)

VARIABLE fifo        (* struct fifo; peak, a history, the most it has held  *)

(* fifo_create(), and fifo_free() followed by it.                           *)
EmptyFifo == [lower |-> 0, upper |-> 0, capacity |-> 0, buf |-> <<>>, peak |-> 0]

fifo_len(f) == f.upper - f.lower

Contents(f) == [i \in 1..fifo_len(f) |-> f.buf[f.lower + i]]

Larger(a, b) == IF a < b THEN b ELSE a
Smaller(a, b) == IF a < b THEN a ELSE b

-----------------------------------------------------------------------------
(* The fifo with n more bytes in a buffer of size capacity.                 *)
Appended(f, data, capacity) ==
  [lower |-> f.lower, upper |-> f.upper + Len(data), capacity |-> capacity,
   buf |-> [i \in 1..capacity |-> IF i <= f.upper THEN f.buf[i]
                                  ELSE IF i <= f.upper + Len(data) THEN data[i - f.upper] ELSE Junk],
   peak |-> Larger(f.peak, fifo_len(f) + Len(data))]

Grows(f, n) == f.upper + n > f.capacity

fifo_written(f, data) ==
  Appended(f, data, IF Grows(f, Len(data)) THEN (f.upper + Len(data)) * 2 ELSE f.capacity)

-----------------------------------------------------------------------------
(* Mutant: the bytes are not moved.                                         *)
Unmoved(f, capacity) ==
  [f EXCEPT !.lower = 0, !.upper = fifo_len(f), !.capacity = capacity,
            !.buf = [i \in 1..capacity |-> @[i]]]

(* The bytes move down in halve_fifo(), before the smaller buffer is asked  *)
(* for.                                                                     *)
Moved(f, capacity) ==
  [f EXCEPT !.lower = 0, !.upper = fifo_len(f), !.capacity = capacity,
            !.buf = [i \in 1..capacity |-> IF i <= fifo_len(f) THEN @[f.lower + i] ELSE @[i]]]

Sparse(f) == fifo_len(f) <= f.capacity \div 4 /\ f.capacity >= 8

halve_fifo(f) == IF Sparse(f) THEN {Moved(f, f.capacity \div 2), Moved(f, f.capacity)} ELSE {f}

(* What a read leaves; it gets the first bytes.                             *)
fifo_read(f, bytes) ==
  LET n == Smaller(bytes, fifo_len(f)) IN
  IF fifo_len(f) = 0 THEN {f} ELSE halve_fifo([f EXCEPT !.lower = @ + n])

fifo_erase_tail(f, bytes) ==
  IF fifo_len(f) < bytes THEN f ELSE [f EXCEPT !.upper = @ - bytes]

fifo_flush(f) == [f EXCEPT !.lower = 0, !.upper = 0]

-----------------------------------------------------------------------------
Write == \E n \in 1..MaxBytes : \E data \in [1..n -> Data] : fifo' = fifo_written(fifo, data)
Read == \E bytes \in 0..MaxBytes : fifo' \in fifo_read(fifo, bytes)
EraseTail == \E bytes \in 0..MaxBytes : fifo' = fifo_erase_tail(fifo, bytes)
Flush == fifo' = fifo_flush(fifo)
Free == fifo' = EmptyFifo

Init == fifo = EmptyFifo
Next == Write \/ Read \/ EraseTail \/ Flush \/ Free
Spec == Init /\ [][Next]_fifo

-----------------------------------------------------------------------------
(* The bytes the fifo holds lie inside its buffer, and every one of them    *)
(* was written (the assertions of fifo.c).                                  *)
FifoOK(f) ==
  /\ f.lower \in Nat /\ f.upper \in Nat /\ f.capacity \in Nat /\ f.peak \in Nat
  /\ f.lower <= f.upper /\ f.upper <= f.capacity /\ fifo_len(f) <= f.peak
  /\ f.buf \in [1..f.capacity -> Data \cup {Junk}]
  /\ \A i \in f.lower + 1..f.upper : f.buf[i] \in Data

(* However long a fifo lives and however it is read and written, its buffer *)
(* is no larger than eight times the most bytes it ever held, though it     *)
(* grows behind bytes that are already read.                                *)
SpaceBound(f) == f.capacity <= 8 * f.peak + 14
SpaceBounded == SpaceBound(fifo)

Queue == INSTANCE UadeQueue WITH queue <- Contents(fifo)
=============================================================================
