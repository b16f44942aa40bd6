---------------------------- MODULE UadeChannel ----------------------------
(***************************************************************************)
(* The in-process channel between libuade (host thread) and uadecore       *)
(* (core thread): uade/src/frontends/common/uadechannel.c.                 *)
(*                                                                         *)
(* One static table of slots, one lock and one condition variable for all  *)
(* of them.  A transfer holds the lock for its whole loop and gives it up  *)
(* only while it waits; each pass of the loop is one step here.  Time is   *)
(* not modelled: a waiting call may time out at any moment, also after it  *)
(* was signalled, since pthread_cond_timedwait reports ETIMEDOUT on        *)
(* whichever comes first and the caller does not look at the ring again.   *)
(***************************************************************************)
EXTENDS Integers, Sequences, FiniteSets, FiniteSetsExt

CONSTANTS
  Threads,     (* threads that call the channel functions                  *)
  NoThread,    (* the lock's holder when it is free                        *)
  NSlots,      (* UADE_CHANNEL_MAX                                         *)
  Capacity,    (* UADE_CHANNEL_CAPACITY                                    *)
  GenMod,      (* UADE_CHANNEL_GEN_MASK + 1                                *)
  Bytes,       (* byte values                                              *)
  NoByte,      (* content of memory nothing has been written to            *)
  Payloads,    (* bound: the byte sequences writers pass                   *)
  MaxCount,    (* bound: longest transfer asked for                        *)
  MaxCreates   (* bound: channels created in one slot                      *)

ASSUME ChannelAssumption ==
  /\ NoThread \notin Threads /\ NoByte \notin Bytes
  /\ NSlots \in Nat \ {0} /\ Capacity \in Nat \ {0}
  /\ Payloads \subseteq {p \in Seq(Bytes) : Len(p) \in 1..MaxCount}
  /\ GenMod \in Nat \ {0} /\ MaxCount \in Nat /\ MaxCreates \in Nat

(* The generation identifies a channel as long as it has not wrapped; the   *)
(* code's 2^25 generations stand for "never" in the life of one process.    *)
ASSUME GenerationAssumption == MaxCreates < GenMod

VARIABLES
  channels,    (* the static table                                         *)
  serial,      (* history: how many channels each slot has carried         *)
  holder,      (* thread that holds channel_lock                           *)
  pc,          (* "idle", "loop" (in a pass), "wait", "woken"              *)
  call         (* the latest transfer of each thread                       *)

vars == <<channels, serial, holder, pc, call>>

Slots == 0..(NSlots - 1)
Ends == {0, 1}
Peer(e) == 1 - e

EmptyEnd == [buf |-> [i \in 0..(Capacity - 1) |-> NoByte],
             head |-> 0, level |-> 0, closed |-> FALSE]

FreeChannel(g) == [in_use |-> FALSE, generation |-> g,
                   end |-> [e \in Ends |-> EmptyEnd]]

(* An endpoint id [generation:25][slot:5][end:1].  serial is what the       *)
(* generation would be if it never wrapped; the code cannot see it.  ZeroId *)
(* is the id 0 in a struct uade_ipc that was never connected.               *)
EndpointId == [slot : Slots, end : Ends, serial : 0..MaxCreates]
ZeroId == [slot |-> 0, end |-> 0, serial |-> 0]
Held == {id \in EndpointId : id.serial \in 1..serial[id.slot]} \cup {ZeroId}
Generation(id) == id.serial % GenMod

(* Mutant: the slot is taken for the channel, its generation not compared.  *)
lookupAnyGeneration(id) == channels[id.slot].in_use

lookup(id) == /\ channels[id.slot].in_use
              /\ channels[id.slot].generation = Generation(id)

End(id) == channels[id.slot].end[id.end]
PeerEnd(id) == channels[id.slot].end[Peer(id.end)]

(* Mutant: pthread_cond_signal() in place of pthread_cond_broadcast().      *)
Signal == LET waiting == {t \in Threads : pc[t] = "wait"}
          IN IF waiting = {} THEN pc
             ELSE [pc EXCEPT ![CHOOSE t \in waiting : TRUE] = "woken"]

(* wake_channels(): a broadcast on the one condition variable.              *)
Broadcast == [t \in Threads |-> IF pc[t] = "wait" THEN "woken" ELSE pc[t]]

-----------------------------------------------------------------------------
(* Creating a channel takes the first free slot.  With none free the code   *)
(* frees its buffers and reports failure, and nothing here changes.         *)
uade_ipc_channel_create ==
  \E s \in Slots :
    LET g == (channels[s].generation + 1) % GenMod IN
    /\ holder = NoThread /\ serial[s] < MaxCreates
    /\ ~channels[s].in_use /\ \A r \in Slots : r < s => channels[r].in_use
    /\ channels' = [channels EXCEPT ![s] = [FreeChannel(g) EXCEPT !.in_use = TRUE]]
    /\ serial' = [serial EXCEPT ![s] = @ + 1]
    /\ UNCHANGED <<holder, pc, call>>

(* Mutant: the slot is marked free and its ends stay as they were.          *)
releaseFlagOnly(ch) == [ch EXCEPT !.in_use = FALSE]

release(ch) == FreeChannel(ch.generation)

(* Closing an unknown or stale id, or an end twice, changes nothing.        *)
uade_ipc_close(id) ==
  LET ch == channels[id.slot]
      closed == [ch EXCEPT !.end[id.end].closed = TRUE]
  IN /\ holder = NoThread /\ lookup(id)
     /\ pc' = IF ch.end[id.end].closed THEN pc ELSE Broadcast
     /\ channels' = [channels EXCEPT ![id.slot] =
                       IF \A e \in Ends : closed.end[e].closed
                       THEN release(closed) ELSE closed]
     /\ UNCHANGED <<serial, holder, call>>

(* A thread enters uade_ipc_read or uade_ipc_write and takes the lock.      *)
Enter(t, op, id, data, count) ==
  /\ pc[t] = "idle" /\ holder = NoThread
  /\ pc' = [pc EXCEPT ![t] = "loop"]
  /\ holder' = t
  /\ call' = [call EXCEPT ![t] = [op |-> op, id |-> id, data |-> data,
                                  count |-> count, done |-> 0, ret |-> "none"]]
  /\ UNCHANGED <<channels, serial>>

EnterRead(t) == \E id \in Held, n \in 1..MaxCount : Enter(t, "read", id, <<>>, n)

EnterWrite(t) == \E id \in Held, data \in Payloads :
                   Enter(t, "write", id, data, Len(data))

NoCall(ret) == [op |-> "none", id |-> ZeroId, data |-> <<>>,
                count |-> 0, done |-> 0, ret |-> ret]

(* unlock and return: all that is left of the call is its result.           *)
Return(t, ret) ==
  /\ pc' = [pc EXCEPT ![t] = "idle"]
  /\ holder' = NoThread
  /\ call' = [call EXCEPT ![t] = NoCall(ret)]
  /\ UNCHANGED <<channels, serial>>

(* wait_for_progress(): the lock is released for as long as the wait lasts. *)
Wait(t) ==
  /\ pc' = [pc EXCEPT ![t] = "wait"]
  /\ holder' = NoThread
  /\ UNCHANGED <<channels, serial, call>>

(* The end of a pass that moved n bytes: everyone waiting is woken.         *)
Moved(t, n, data) ==
  /\ call' = [call EXCEPT ![t].done = @ + n, ![t].data = data]
  /\ pc' = Broadcast
  /\ UNCHANGED <<serial, holder>>

(* The loop ends when the whole count is done; each pass begins here.       *)
InPass(t, op) ==
  pc[t] = "loop" /\ holder = t /\ call[t].op = op /\ call[t].done < call[t].count

Finishes(t) ==
  pc[t] = "loop" /\ holder = t /\ call[t].done = call[t].count /\ Return(t, "ok")

-----------------------------------------------------------------------------
(* One pass of uade_ipc_read.                                               *)
CanRead(id) == lookup(id) /\ ~End(id).closed

ReadFails(t) ==
  InPass(t, "read") /\ ~CanRead(call[t].id) /\ Return(t, "error")

(* Drained and the peer is gone: end of file, whatever was copied already.  *)
ReadEof(t) ==
  LET id == call[t].id IN
  /\ InPass(t, "read") /\ CanRead(id)
  /\ End(id).level = 0 /\ PeerEnd(id).closed
  /\ Return(t, "eof")

ReadWaits(t) ==
  LET id == call[t].id IN
  /\ InPass(t, "read") /\ CanRead(id)
  /\ End(id).level = 0 /\ ~PeerEnd(id).closed
  /\ Wait(t)

(* Mutant: a pass copies what was asked for, readable or not.               *)
ReadChunkUnread(left, self) == Min({left, Capacity - self.head})

ReadChunk(left, self) == Min({left, self.level, Capacity - self.head})

ReadCopies(t) ==
  LET id == call[t].id
      self == End(id)
      n == ReadChunk(call[t].count - call[t].done, self)
  IN /\ InPass(t, "read") /\ CanRead(id) /\ self.level > 0
     /\ channels' = [channels EXCEPT ![id.slot].end[id.end] =
          [self EXCEPT !.head = (self.head + n) % Capacity, !.level = self.level - n]]
     /\ Moved(t, n, call[t].data \o [i \in 1..n |-> self.buf[self.head + i - 1]])

(* One pass of uade_ipc_write.                                              *)
CanWrite(id) == lookup(id) /\ ~End(id).closed /\ ~PeerEnd(id).closed

WriteFails(t) ==
  InPass(t, "write") /\ ~CanWrite(call[t].id) /\ Return(t, "error")

WriteWaits(t) ==
  LET id == call[t].id IN
  /\ InPass(t, "write") /\ CanWrite(id)
  /\ PeerEnd(id).level = Capacity
  /\ Wait(t)

(* Mutant: the free space counts from the start of the buffer.              *)
TailAtLevel(peer) == peer.level % Capacity

TailOf(peer) == (peer.head + peer.level) % Capacity

(* Mutant: only the end of the buffer limits a pass, not the free space.    *)
WriteChunkToEnd(left, peer) == Min({left, Capacity - TailOf(peer)})

WriteChunk(left, peer) == Min({left, Capacity - peer.level, Capacity - TailOf(peer)})

WriteCopies(t) ==
  LET id == call[t].id
      peer == PeerEnd(id)
      tail == TailOf(peer)
      n == WriteChunk(call[t].count - call[t].done, peer)
      buf == [i \in DOMAIN peer.buf |-> IF i \in tail..(tail + n - 1)
                THEN call[t].data[call[t].done + 1 + i - tail] ELSE peer.buf[i]]
  IN /\ InPass(t, "write") /\ CanWrite(id) /\ peer.level < Capacity
     /\ channels' = [channels EXCEPT ![id.slot].end[Peer(id.end)] =
          [peer EXCEPT !.level = peer.level + n, !.buf = buf]]
     /\ Moved(t, n, call[t].data)

(* A woken thread takes the lock again and starts another pass; condition    *)
(* variables also wake up for no reason.                                    *)
TakeLock(t, from) ==
  /\ pc[t] = from /\ holder = NoThread
  /\ pc' = [pc EXCEPT ![t] = "loop"]
  /\ holder' = t
  /\ UNCHANGED <<channels, serial, call>>

Resume(t) == TakeLock(t, "woken")
SpuriousWake(t) == TakeLock(t, "wait")

(* Mutant: a read waits with no deadline.                                   *)
TimeOutWrite(t) ==
  /\ pc[t] \in {"wait", "woken"} /\ holder = NoThread
  /\ call[t].op = "write" /\ Return(t, "error")

(* The no-progress deadline passes while the thread waits.                  *)
TimeOut(t) ==
  pc[t] \in {"wait", "woken"} /\ holder = NoThread /\ Return(t, "error")

-----------------------------------------------------------------------------
Init ==
  /\ channels = [s \in Slots |-> FreeChannel(0)]
  /\ serial = [s \in Slots |-> 0]
  /\ holder = NoThread
  /\ pc = [t \in Threads |-> "idle"]
  /\ call = [t \in Threads |-> NoCall("none")]

Pass(t) == \/ Finishes(t) \/ ReadFails(t) \/ ReadEof(t) \/ ReadWaits(t) \/ ReadCopies(t)
           \/ WriteFails(t) \/ WriteWaits(t) \/ WriteCopies(t)

Next ==
  \/ uade_ipc_channel_create
  \/ \E id \in Held : uade_ipc_close(id)
  \/ \E t \in Threads : \/ EnterRead(t) \/ EnterWrite(t) \/ Pass(t)
                        \/ Resume(t) \/ SpuriousWake(t) \/ TimeOut(t)

Spec == Init /\ [][Next]_vars
-----------------------------------------------------------------------------
(* Fairness.  A thread that holds the lock finishes its pass (WF), and a    *)
(* woken thread gets the lock in the end although others keep taking it     *)
(* (SF: the lock does not starve a waiter).  Nothing is assumed of the      *)
(* callers, of spurious wakeups, or of timeouts.                            *)
FairSpec ==
  Spec /\ \A t \in Threads : WF_vars(Pass(t)) /\ SF_vars(Resume(t))

-----------------------------------------------------------------------------
EndType == [buf : [0..(Capacity - 1) -> Bytes \cup {NoByte}],
            head : 0..(Capacity - 1), level : 0..Capacity, closed : BOOLEAN]

ChannelType == [in_use : BOOLEAN, generation : 0..(GenMod - 1), end : [Ends -> EndType]]

CallType == [op : {"none", "read", "write"}, id : EndpointId,
             data : Seq(Bytes), count : 0..MaxCount, done : 0..MaxCount,
             ret : {"none", "ok", "eof", "error"}]

(* Every variable has its type: ring offsets and levels stay within the     *)
(* buffer, a reader is given only bytes that were written, a call never     *)
(* transfers more than its bound, and one thread at a time is in the loop,  *)
(* the lock's holder.                                                       *)
TypeOK ==
  /\ channels \in [Slots -> ChannelType]
  /\ serial \in [Slots -> 0..MaxCreates]
  /\ holder \in Threads \cup {NoThread}
  /\ pc \in [Threads -> {"idle", "loop", "wait", "woken"}]
  /\ call \in [Threads -> CallType]
  /\ \A t \in Threads : pc[t] = "loop" <=> holder = t

(* "The generation makes a stale id from a released channel fail lookup     *)
(* instead of aliasing a reused slot": an id that resolves is one of the    *)
(* channel now in the slot, and the all-zero id resolves to none.           *)
NoAliasing == \A id \in Held : lookup(id) => id.serial = serial[id.slot] /\ id.serial # 0

(* What a thread in its wait is waiting for has not happened: a broadcast   *)
(* has woken it on every change that lets its next pass go on.              *)
Blocked(t) ==
  LET id == call[t].id IN
  \/ call[t].op = "read" /\ CanRead(id) /\ End(id).level = 0 /\ ~PeerEnd(id).closed
  \/ call[t].op = "write" /\ CanWrite(id) /\ PeerEnd(id).level = Capacity

NoLostWakeup == \A t \in Threads : pc[t] = "wait" => Blocked(t)

(* Slots do not leak: a channel both of whose ends were closed has been     *)
(* released, and a free slot holds no byte, offset or flag of the channel   *)
(* that used it.                                                            *)
SlotsReclaimed ==
  \A s \in Slots :
    /\ channels[s].in_use => \E e \in Ends : ~channels[s].end[e].closed
    /\ ~channels[s].in_use => channels[s] = FreeChannel(channels[s].generation)

(* Every readable byte is one a writer put there: the ring never exposes    *)
(* memory that nobody has written.                                          *)
Contents(e) == [i \in 1..e.level |-> e.buf[(e.head + i - 1) % Capacity]]

ReadableWritten ==
  \A s \in Slots, e \in Ends : \A i \in 1..channels[s].end[e].level :
    Contents(channels[s].end[e])[i] \in Bytes

(* What NoAliasing rests on: the generation counts the slot's channels.     *)
GenerationCounts ==
  \A s \in Slots : /\ channels[s].generation = serial[s]
                   /\ channels[s].in_use => serial[s] # 0

(* The progress of a call and the bytes it holds agree.                     *)
CallProgress ==
  \A t \in Threads :
    /\ call[t].done <= call[t].count
    /\ call[t].op = "write" => Len(call[t].data) = call[t].count
    /\ call[t].op = "read" => Len(call[t].data) = call[t].done

(* The inductive invariant behind the safety properties above.              *)
IInv == /\ TypeOK /\ CallProgress /\ ReadableWritten
        /\ GenerationCounts /\ SlotsReclaimed /\ NoLostWakeup

(* The channel implements the byte pipe: streams are first in first out,    *)
(* lose, add and reorder nothing while the connection lives, never hold     *)
(* more than the capacity, and are invisible to any other connection.       *)
Pipe == INSTANCE UadePipe WITH
  Limit <- Capacity,
  conn <- [s \in Slots |->
             [serial |-> serial[s], live |-> channels[s].in_use,
              closed |-> [e \in Ends |-> channels[s].end[e].closed],
              stream |-> [e \in Ends |-> Contents(channels[s].end[e])]]],
  at <- [t \in Threads |-> call[t].id],
  out <- [t \in Threads |-> IF call[t].op = "write"
            THEN SubSeq(call[t].data, call[t].done + 1, call[t].count) ELSE <<>>],
  in <- [t \in Threads |-> IF call[t].op = "read" THEN call[t].data ELSE <<>>]

PipeSpec == Pipe!Spec

(* Closing unblocks: once an end of the connection a call uses is closed,   *)
(* or the connection is gone, the call returns, with no timeout's help.     *)
Severed(t) ==
  LET id == call[t].id IN
  pc[t] # "idle" /\ (~lookup(id) \/ End(id).closed \/ PeerEnd(id).closed)

CloseUnblocks == \A t \in Threads : Severed(t) ~> pc[t] = "idle"

(* A wedged peer blocks nobody for ever: if the deadline is kept, every     *)
(* transfer returns.  It is kept as strongly as SF says: it is re-derived   *)
(* from a monotonic clock only on progress, so wakeups that bring none      *)
(* cannot postpone it for ever.                                             *)
EveryCallReturns ==
  (\A t \in Threads : SF_vars(TimeOut(t)))
    => \A t \in Threads : pc[t] # "idle" ~> pc[t] = "idle"
=============================================================================
