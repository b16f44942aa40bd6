------------------------------ MODULE UadeIpc ------------------------------
(***************************************************************************)
(* The message layer of uade/src/frontends/common/uadeipc.c over one       *)
(* channel.  A message is its type; the channel is what UadePipe promises, *)
(* a queue per direction, here of whole messages.  Both sides keep a       *)
(* protocol state: the side in S state may send, and hands the turn over   *)
(* with a TOKEN.                                                           *)
(*                                                                         *)
(* A side that has several messages to send keeps them in todo; it goes    *)
(* on when they are sent, and one send that fails drops the rest.          *)
(***************************************************************************)
EXTENDS Integers, Sequences, FiniteSets

CONSTANT Room     (* short messages the ring of one direction holds        *)

ASSUME RoomAssumption == Room \in Nat /\ Room >= 2

VARIABLES
  open,    (* [Sides -> whether the side has not closed its endpoint]      *)
  queue,   (* [Sides -> messages sent to the side and not yet received]    *)
  ipc,     (* [Sides -> uade_ipc.state]                                    *)
  todo     (* [Sides -> messages the side is in the middle of sending]     *)

ipcvars == <<open, queue, ipc, todo>>

Sides == {"host", "core"}
Other(p) == CHOOSE o \in Sides : o # p

FromHost == {"CONFIG", "SCORE", "FILE", "FILE_DATA", "NOFILE", "TOKEN",
             "OPTION", "SUBSONG", "READ", "REBOOT"}
FromCore == {"TOKEN", "CAN_PLAY", "CANT_PLAY", "DATA", "NAME", "MSG", "LOGS",
             "SUBSONG_INFO", "SONG_END", "REQUEST"}
From(p) == IF p = "host" THEN FromHost ELSE FromCore

(* The write waits while the ring has no room.  A file or a block of audio  *)
(* takes as much as a message can; the model gives it twice the room of the *)
(* others.                                                                  *)
Long == {"FILE", "FILE_DATA", "DATA"}
Level(q) == Len(q) + Cardinality({i \in DOMAIN q : q[i] \in Long})
Fits(q, m) == Level(Append(q, m)) <= Room

(* uade_set_peer() on both sides of a channel nothing was sent over.        *)
Connect(first) ==
  /\ open' = [p \in Sides |-> TRUE]
  /\ queue' = [p \in Sides |-> <<>>]
  /\ ipc' = [p \in Sides |-> "INITIAL"]
  /\ todo' = [p \in Sides |-> IF p = "host" THEN first ELSE <<>>]

-----------------------------------------------------------------------------
(* uade_send_message(), for the first message of todo.  The state leaves S  *)
(* with the token, before the write; uade_request_amiga_file() leaves it    *)
(* after the request, to receive the file.                                  *)
GivesTurn(m) == m \in {"TOKEN", "REQUEST"}

(* Mutant: the write does not wait for room.                                *)
SendsAtOnce(p) ==
  /\ todo[p] # <<>> /\ ipc[p] # "R" /\ open[p] /\ open[Other(p)]
  /\ queue' = [queue EXCEPT ![Other(p)] = Append(@, Head(todo[p]))]
  /\ todo' = [todo EXCEPT ![p] = Tail(@)]
  /\ ipc' = [ipc EXCEPT ![p] = IF GivesTurn(Head(todo[p])) THEN "R" ELSE "S"]
  /\ UNCHANGED open

SendsOne(p) ==
  /\ todo[p] # <<>> /\ ipc[p] # "R"
  /\ open[p] /\ open[Other(p)] /\ Fits(queue[Other(p)], Head(todo[p]))
  /\ queue' = [queue EXCEPT ![Other(p)] = Append(@, Head(todo[p]))]
  /\ todo' = [todo EXCEPT ![p] = Tail(@)]
  /\ ipc' = [ipc EXCEPT ![p] = IF GivesTurn(Head(todo[p])) THEN "R" ELSE "S"]
  /\ UNCHANGED open

(* The write fails: an end is closed, or the ring stayed full for the whole *)
(* timeout.  Sending in R state is the other error.                         *)
CannotSend(p) == todo[p] # <<>> /\ (ipc[p] = "R" \/ ~open[p] \/ ~open[Other(p)])

StaysFull(p) == /\ todo[p] # <<>> /\ ipc[p] # "R"
                /\ open[p] /\ open[Other(p)]
                /\ ~Fits(queue[Other(p)], Head(todo[p]))

AfterFailedSend(p) == IF ipc[p] = "R" \/ Head(todo[p]) = "TOKEN" THEN "R" ELSE "S"

-----------------------------------------------------------------------------
(* uade_receive_message() succeeds with a message m.  newstate is its       *)
(* AfterReceiving, unless the caller sets the state itself afterwards.      *)
Arrives(p, m) == /\ todo[p] = <<>> /\ ipc[p] # "S" /\ open[p]
                 /\ queue[p] # <<>> /\ m = Head(queue[p])

AfterReceiving(m) == IF m = "TOKEN" THEN "S" ELSE "R"

Take(p, newstate) ==
  /\ queue' = [queue EXCEPT ![p] = Tail(@)]
  /\ ipc' = [ipc EXCEPT ![p] = newstate]
  /\ UNCHANGED open

(* It fails at once: in S state, on a closed end, or at the end of a stream *)
(* whose writer has closed.                                                 *)
CannotReceive(p) == /\ todo[p] = <<>>
                    /\ ipc[p] = "S" \/ ~open[p] \/ (queue[p] = <<>> /\ ~open[Other(p)])

(* It blocks, and may end by the timeout.                                   *)
StaysEmpty(p) == /\ todo[p] = <<>> /\ ipc[p] # "S" /\ open[p] /\ open[Other(p)]
                 /\ queue[p] = <<>>

-----------------------------------------------------------------------------
IpcTypeOK ==
  /\ open \in [Sides -> BOOLEAN]
  /\ ipc \in [Sides -> {"INITIAL", "R", "S"}]
  /\ \A p \in Sides : /\ queue[p] \in Seq(From(Other(p))) /\ Level(queue[p]) <= Room
                      /\ todo[p] \in Seq(From(p))

IpcInit ==
  /\ open = [p \in Sides |-> FALSE]
  /\ queue = [p \in Sides |-> <<>>]
  /\ ipc = [p \in Sides |-> "INITIAL"]
  /\ todo = [p \in Sides |-> <<>>]
=============================================================================
