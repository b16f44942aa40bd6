---------------------------- MODULE UadeInstances ----------------------------
(***************************************************************************)
(* Several songs in one process: every uade_state has a channel and a core *)
(* thread of its own, but the core threads work with the same static       *)
(* variables, the end of the channel uadecore_ipc and the memory of the    *)
(* emulated machine among them (uade.c).  The plugin makes a second state  *)
(* to read the metadata of a file, while a song may be playing.            *)
(*                                                                         *)
(* An access to a static variable is one step here.  The states are not    *)
(* stopped; UadeSession has the whole life of one of them.                 *)
(***************************************************************************)
EXTENDS Sequences

CONSTANTS States, Nobody

VARIABLES
  uadecore_ipc,  (* static: the channel (peer) and the protocol state       *)
  module,        (* static: whose module is in the emulated memory          *)
  closed,        (* channels whose end in the core is closed                *)
  core,          (* [States -> what the thread does]                        *)
  waits,         (* [States -> channel the thread is in a read of]          *)
  host,          (* [States -> state of the song in libuade]                *)
  toCore,        (* [States -> messages to the core]                        *)
  toHost         (* [States -> messages to libuade]                         *)

static == <<uadecore_ipc, module, closed>>
vars == <<static, core, waits, host, toCore, toHost>>

Message(type) == [type |-> type, song |-> Nobody]
Of(type, s) == [type |-> type, song |-> s]

-----------------------------------------------------------------------------
(* libuade                                                                  *)

(* uade_new_state() with uade_arch_spawn()                                  *)
uade_new_state(s) ==
  /\ host[s] = "none"
  /\ host' = [host EXCEPT ![s] = "new"]
  /\ core' = [core EXCEPT ![s] = "starting"]
  /\ toCore' = [toCore EXCEPT ![s] = <<Message("CONFIG")>>]
  /\ UNCHANGED <<static, waits, toHost>>

uade_play(s) ==
  /\ host[s] = "new"
  /\ host' = [host EXCEPT ![s] = "playing"]
  /\ toCore' = [toCore EXCEPT ![s] = @ \o <<Of("FILE", s), Message("TOKEN")>>]
  /\ UNCHANGED <<static, core, waits, toHost>>

(* The song goes on while its caller reads.                                 *)
uade_read(s) ==
  /\ host[s] = "playing" /\ toHost[s] # <<>>
  /\ toHost' = [toHost EXCEPT ![s] = Tail(@)]
  /\ toCore' = [toCore EXCEPT ![s] =
                  IF Head(toHost[s]).type = "TOKEN" THEN @ \o <<Message("READ"), Message("TOKEN")>> ELSE @]
  /\ UNCHANGED <<static, core, waits, host>>

-----------------------------------------------------------------------------
(* The thread of a core                                                     *)

uadecore_option(s) ==
  /\ core[s] = "starting"
  /\ uadecore_ipc' = [peer |-> s, state |-> "INITIAL"]
  /\ core' = [core EXCEPT ![s] = "config"]
  /\ UNCHANGED <<module, closed, waits, host, toCore, toHost>>

(* close_ipc() closes the channel found in uadecore_ipc.                    *)
Exits(s) ==
  /\ core' = [core EXCEPT ![s] = "exited"]
  /\ closed' = closed \cup {uadecore_ipc.peer}
  /\ waits' = [waits EXCEPT ![s] = Nobody]

Awaited == {"config", "reset", "loaded", "turn"}

(* A read begins: the channel it waits for does not change after that.      *)
Waits(s) ==
  /\ core[s] \in Awaited /\ waits[s] = Nobody
  /\ IF uadecore_ipc.state = "S" \/ uadecore_ipc.peer \in closed
     THEN Exits(s) /\ UNCHANGED uadecore_ipc
     ELSE /\ uadecore_ipc' = [uadecore_ipc EXCEPT !.state = "R"]
          /\ waits' = [waits EXCEPT ![s] = uadecore_ipc.peer]
          /\ UNCHANGED <<core, closed>>
  /\ UNCHANGED <<module, host, toCore, toHost>>

(* Where a message takes the thread.                                        *)
After(pc, type) ==
  CASE pc = "config" /\ type = "CONFIG" -> "reset"
    [] pc = "reset" /\ type = "FILE" -> "loaded"
    [] pc = "loaded" /\ type = "TOKEN" -> "answer"
    [] pc = "turn" /\ type = "READ" -> "turn"
    [] pc = "turn" /\ type = "TOKEN" -> "run"
    [] OTHER -> "exited"

(* uade_receive_message() and what its callers make of the message: the     *)
(* module is copied into the emulated memory.                               *)
Receives(s) ==
  LET c == waits[s]
      m == Head(toCore[c])
      next == After(core[s], m.type)
  IN
  /\ c # Nobody /\ c \notin closed /\ toCore[c] # <<>>
  /\ toCore' = [toCore EXCEPT ![c] = Tail(@)]
  /\ uadecore_ipc' = IF m.type = "TOKEN" THEN [uadecore_ipc EXCEPT !.state = "S"] ELSE uadecore_ipc
  /\ IF next = "exited"
     THEN Exits(s)
     ELSE /\ core' = [core EXCEPT ![s] = next]
          /\ waits' = [waits EXCEPT ![s] = Nobody] /\ UNCHANGED closed
  /\ module' = IF next = "loaded" THEN m.song ELSE module
  /\ UNCHANGED <<host, toHost>>

EndOfFile(s) ==
  /\ waits[s] # Nobody /\ waits[s] \in closed
  /\ Exits(s)
  /\ UNCHANGED <<uadecore_ipc, module, host, toCore, toHost>>

(* uade_send_message() over uadecore_ipc, as it is at the time.             *)
Sends(s, m, next) ==
  /\ IF uadecore_ipc.state = "R" \/ uadecore_ipc.peer \in closed
     THEN Exits(s) /\ UNCHANGED <<uadecore_ipc, toHost>>
     ELSE /\ toHost' = [toHost EXCEPT ![uadecore_ipc.peer] = Append(@, m)]
          /\ uadecore_ipc' = [uadecore_ipc EXCEPT !.state = IF m.type = "TOKEN" THEN "R" ELSE "S"]
          /\ core' = [core EXCEPT ![s] = next] /\ UNCHANGED <<closed, waits>>
  /\ UNCHANGED <<module, host, toCore>>

Answers(s) == core[s] = "answer" /\ Sends(s, Message("CAN_PLAY"), "token")

(* The block is what the emulated machine plays.                            *)
SendsBlock(s) == core[s] = "run" /\ Sends(s, Of("DATA", module), "token")

SendsToken(s) == core[s] = "token" /\ Sends(s, Message("TOKEN"), "turn")

-----------------------------------------------------------------------------
Init ==
  /\ uadecore_ipc = [peer |-> Nobody, state |-> "INITIAL"]
  /\ module = Nobody /\ closed = {}
  /\ core = [s \in States |-> "none"] /\ waits = [s \in States |-> Nobody]
  /\ host = [s \in States |-> "none"]
  /\ toCore = [s \in States |-> <<>>] /\ toHost = [s \in States |-> <<>>]

Host(s) == uade_new_state(s) \/ uade_play(s) \/ uade_read(s)
Core(s) == \/ uadecore_option(s) \/ Waits(s) \/ Receives(s) \/ EndOfFile(s)
           \/ Answers(s) \/ SendsBlock(s) \/ SendsToken(s)

Next == \E s \in States : Host(s) \/ Core(s)
Spec == Init /\ [][Next]_vars

(* "If you have multiple uade_states, each can be called simultaneously":   *)
(* the caller of one hears its own song.                                    *)
OwnSong ==
  \A s \in States : \A i \in DOMAIN toHost[s] :
    toHost[s][i].type = "DATA" => toHost[s][i].song = s
=============================================================================
