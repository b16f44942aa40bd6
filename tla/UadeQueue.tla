----------------------------- MODULE UadeQueue -----------------------------
(***************************************************************************)
(* What fifo.h promises: a queue of bytes, written at its tail and read at *)
(* its head, whose last bytes can be taken back.                           *)
(***************************************************************************)
EXTENDS Integers, Sequences

CONSTANTS Data,      (* values of a byte                                    *)
          MaxBytes   (* the most that is written at a time                  *)

VARIABLE queue

First(n) == SubSeq(queue, 1, n)
Without(n) == SubSeq(queue, n + 1, Len(queue))

(* Bytes come behind those there are.                                       *)
Write == /\ queue' \in Seq(Data) /\ Len(queue') - Len(queue) \in 1..MaxBytes
         /\ SubSeq(queue', 1, Len(queue)) = queue

(* No more is read than there is.                                           *)
Read == \E n \in 0..Len(queue) : queue' = Without(n)

EraseTail == \E n \in 0..Len(queue) : queue' = First(Len(queue) - n)

Flush == queue' = <<>>

Init == queue = <<>>
Next == Write \/ Read \/ EraseTail \/ Flush
Spec == Init /\ [][Next]_queue
=============================================================================
