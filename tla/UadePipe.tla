------------------------------ MODULE UadePipe ------------------------------
(***************************************************************************)
(* What uadechannel.c promises its callers, with no ring buffer, lock,     *)
(* condition variable, generation or timeout: a slot carries one           *)
(* connection after another, each a pair of byte streams, and a transfer   *)
(* only ever touches the connection whose endpoint its caller holds.       *)
(* UadeChannel implements this specification (Pipe!Spec there).            *)
(***************************************************************************)
EXTENDS Integers, Sequences

CONSTANTS
  Threads,   (* callers of the channel functions                           *)
  Slots,     (* table positions a connection may occupy                    *)
  Limit      (* the most bytes a stream holds                              *)

VARIABLES
  conn,      (* [Slots -> [serial, live, closed, stream]]                  *)
  at,        (* [Threads -> endpoint of its latest transfer]               *)
  out,       (* [Threads -> bytes of its write not yet accepted]           *)
  in         (* [Threads -> bytes of its read delivered so far]            *)

pvars == <<conn, at, out, in>>

Ends == {0, 1}
Other(e) == 1 - e

Dead(k) == [serial |-> k, live |-> FALSE,
            closed |-> [e \in Ends |-> FALSE], stream |-> [e \in Ends |-> <<>>]]

(* The endpoint p names the connection now in its slot, and is still open.  *)
Usable(p) ==
  LET c == conn[p.slot] IN c.live /\ c.serial = p.serial /\ ~c.closed[p.end]

Open(s) ==
  /\ ~conn[s].live
  /\ conn' = [conn EXCEPT ![s] = [Dead(@.serial + 1) EXCEPT !.live = TRUE]]
  /\ UNCHANGED <<at, out, in>>

(* A transfer starts on some endpoint, with bytes to send if it is a write  *)
(* and nothing delivered yet; or it ends and is forgotten.                  *)
Turn(t) ==
  /\ \A u \in Threads \ {t} : at'[u] = at[u] /\ out'[u] = out[u] /\ in'[u] = in[u]
  /\ in'[t] = <<>>
  /\ UNCHANGED conn

(* Part of a write: a prefix of what is left moves to the end of the peer's *)
(* stream, which never exceeds Limit; both ends are open.                   *)
Send(t) ==
  LET s == at[t].slot  d == Other(at[t].end) IN
  \E n \in 1..Len(out[t]) :
    /\ Usable(at[t]) /\ ~conn[s].closed[d]
    /\ Len(conn[s].stream[d]) + n <= Limit
    /\ conn' = [conn EXCEPT ![s].stream[d] = @ \o SubSeq(out[t], 1, n)]
    /\ out' = [out EXCEPT ![t] = SubSeq(@, n + 1, Len(@))]
    /\ UNCHANGED <<at, in>>

(* Part of a read: a prefix of the own stream moves to the caller.          *)
Receive(t) ==
  LET s == at[t].slot  d == at[t].end IN
  \E n \in 1..Len(conn[s].stream[d]) :
    /\ Usable(at[t])
    /\ in' = [in EXCEPT ![t] = @ \o SubSeq(conn[s].stream[d], 1, n)]
    /\ conn' = [conn EXCEPT ![s].stream[d] = SubSeq(@, n + 1, Len(@))]
    /\ UNCHANGED <<at, out>>

(* The second close ends the connection and drops both streams.             *)
Close(s, e) ==
  /\ conn[s].live /\ ~conn[s].closed[e]
  /\ conn' = [conn EXCEPT ![s] = IF @.closed[Other(e)] THEN Dead(@.serial)
                                 ELSE [@ EXCEPT !.closed[e] = TRUE]]
  /\ UNCHANGED <<at, out, in>>

-----------------------------------------------------------------------------
Init ==
  /\ conn = [s \in Slots |-> Dead(0)]
  /\ out = [t \in Threads |-> <<>>]
  /\ in = [t \in Threads |-> <<>>]

Next ==
  \/ \E s \in Slots : Open(s)
  \/ \E t \in Threads : Turn(t) \/ Send(t) \/ Receive(t)
  \/ \E s \in Slots, e \in Ends : Close(s, e)

Spec == Init /\ [][Next]_pvars
=============================================================================
