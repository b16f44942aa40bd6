------------------------- MODULE UadeChannelProofs -------------------------
(***************************************************************************)
(* Proofs about UadeChannel for every number of threads and slots, every   *)
(* capacity, and every bound on transfers and creations.                   *)
(***************************************************************************)
EXTENDS UadeChannel, TLAPS

USE ChannelAssumption, GenerationAssumption

-----------------------------------------------------------------------------
(* Arithmetic of the ring: an offset wraps at most once.                    *)
Wrap(a) == a % Capacity

LEMMA WrapOnce ==
  ASSUME NEW a \in Nat, a < 2 * Capacity
  PROVE  Wrap(a) = IF a < Capacity THEN a ELSE a - Capacity
BY Z3 DEF Wrap

(* A serial below the modulus is its own generation.                        *)
LEMMA ModNone ==
  ASSUME NEW a \in 0..MaxCreates
  PROVE  a % GenMod = a
BY Z3

LEMMA MinOfThree ==
  ASSUME NEW a \in Int, NEW b \in Int, NEW c \in Int
  PROVE  /\ Min({a, b, c}) \in {a, b, c} /\ Min({a, b, c}) <= a
         /\ Min({a, b, c}) <= b /\ Min({a, b, c}) <= c
<1>1. \E m \in {a, b, c} : \A n \in {a, b, c} : m <= n
  <2>1. CASE a <= b /\ a <= c  BY <2>1
  <2>2. CASE b <= a /\ b <= c  BY <2>2
  <2>3. CASE c <= a /\ c <= b  BY <2>3
  <2>. QED BY <2>1, <2>2, <2>3
<1>. QED BY <1>1 DEF Min

(* Readable bytes, by offset from the head.                                 *)
LEMMA ReadableByOffset ==
  ASSUME NEW ch \in [Slots -> ChannelType]
  PROVE  (\A s \in Slots, e \in Ends : \A i \in 1..ch[s].end[e].level :
            Contents(ch[s].end[e])[i] \in Bytes)
         <=> (\A s \in Slots, e \in Ends : \A j \in 0..(ch[s].end[e].level - 1) :
            ch[s].end[e].buf[Wrap(ch[s].end[e].head + j)] \in Bytes)
<1>1. ASSUME NEW s \in Slots, NEW e \in Ends, NEW i \in 1..ch[s].end[e].level
      PROVE  Contents(ch[s].end[e])[i] = ch[s].end[e].buf[Wrap(ch[s].end[e].head + i - 1)]
  BY DEF Contents, Wrap
<1>2. ASSUME NEW s \in Slots, NEW e \in Ends
      PROVE  ch[s].end[e].level \in Nat /\ ch[s].end[e].head \in Nat
  BY DEF ChannelType, EndType
<1>3. ASSUME \A s \in Slots, e \in Ends : \A i \in 1..ch[s].end[e].level :
               Contents(ch[s].end[e])[i] \in Bytes,
             NEW s \in Slots, NEW e \in Ends, NEW j \in 0..(ch[s].end[e].level - 1)
      PROVE  ch[s].end[e].buf[Wrap(ch[s].end[e].head + j)] \in Bytes
  <2>1. j + 1 \in 1..ch[s].end[e].level
    BY <1>2
  <2>2. ch[s].end[e].head + (j + 1) - 1 = ch[s].end[e].head + j
    BY <1>2
  <2>. QED BY <1>1, <1>3, <2>1, <2>2
<1>4. ASSUME \A s \in Slots, e \in Ends : \A j \in 0..(ch[s].end[e].level - 1) :
               ch[s].end[e].buf[Wrap(ch[s].end[e].head + j)] \in Bytes,
             NEW s \in Slots, NEW e \in Ends, NEW i \in 1..ch[s].end[e].level
      PROVE  Contents(ch[s].end[e])[i] \in Bytes
  <2>1. i - 1 \in 0..(ch[s].end[e].level - 1)
    BY <1>2
  <2>2. ch[s].end[e].head + (i - 1) = ch[s].end[e].head + i - 1
    BY <1>2
  <2>. QED BY <1>1, <1>4, <2>1, <2>2
<1>. QED BY <1>3, <1>4

-----------------------------------------------------------------------------
LEMMA HeldType ==
  ASSUME NEW id \in Held
  PROVE  id \in EndpointId
BY DEF Held, EndpointId, ZeroId, Slots, Ends

LEMMA PeerType == \A e \in Ends : Peer(e) \in Ends /\ Peer(e) # e
BY DEF Ends, Peer

LEMMA FreeType ==
  ASSUME NEW g \in 0..(GenMod - 1)
  PROVE  FreeChannel(g) \in ChannelType
<1>1. EmptyEnd \in EndType
  BY DEF EmptyEnd, EndType
<1>. QED BY <1>1 DEF FreeChannel, ChannelType

LEMMA NoCallType ==
  ASSUME NEW ret \in {"none", "ok", "eof", "error"}
  PROVE  NoCall(ret) \in CallType
<1>1. ZeroId \in EndpointId
  BY DEF EndpointId, ZeroId, Slots, Ends
<1>2. <<>> \in Seq(Bytes)
  OBVIOUS
<1>. QED BY <1>1, <1>2 DEF NoCall, CallType

LEMMA InitInv == Init => IInv
<1> SUFFICES ASSUME Init PROVE IInv
  OBVIOUS
<1>1. TypeOK
  <2>1. 0 \in 0..(GenMod - 1)
    OBVIOUS
  <2>2. channels \in [Slots -> ChannelType]
    BY FreeType, <2>1 DEF Init
  <2>3. call \in [Threads -> CallType]
    BY NoCallType DEF Init
  <2>. QED BY <2>2, <2>3 DEF TypeOK, Init
<1>2. CallProgress
  BY DEF CallProgress, Init, NoCall
<1>3. ReadableWritten
  BY DEF ReadableWritten, Init, FreeChannel, EmptyEnd, Ends
<1>4. GenerationCounts
  BY DEF GenerationCounts, Init, FreeChannel
<1>5. SlotsReclaimed
  BY DEF SlotsReclaimed, Init, FreeChannel
<1>6. NoLostWakeup
  BY DEF NoLostWakeup, Init
<1>. QED BY <1>1, <1>2, <1>3, <1>4, <1>5, <1>6 DEF IInv

-----------------------------------------------------------------------------
(* A step that leaves the table alone preserves what is said of the table;  *)
(* what remains is typing, the calls, and the threads it puts to wait.      *)
LEMMA TableUnchanged ==
  ASSUME IInv, UNCHANGED <<channels, serial>>, TypeOK', CallProgress',
         \A u \in Threads : pc'[u] = "wait" =>
           Blocked(u)' \/ (pc[u] = "wait" /\ call'[u] = call[u])
  PROVE  IInv'
<1>1. ReadableWritten' /\ GenerationCounts' /\ SlotsReclaimed'
  BY DEF IInv, ReadableWritten, GenerationCounts, SlotsReclaimed
<1>2. ASSUME NEW u \in Threads, pc'[u] = "wait"
      PROVE  Blocked(u)'
  <2>1. CASE Blocked(u)'
    BY <2>1
  <2>2. CASE pc[u] = "wait" /\ call'[u] = call[u]
    <3>1. Blocked(u)
      BY <2>2 DEF IInv, NoLostWakeup
    <3>. QED BY <2>2, <3>1 DEF Blocked, CanRead, CanWrite, lookup, End, PeerEnd
  <2>. QED BY <1>2, <2>1, <2>2
<1>. QED BY <1>1, <1>2 DEF IInv, NoLostWakeup

LEMMA EnterInv ==
  ASSUME IInv, NEW t \in Threads, NEW op \in {"read", "write"}, NEW id \in Held,
         NEW data \in Seq(Bytes), NEW count \in 1..MaxCount,
         op = "read" => data = <<>>, op = "write" => Len(data) = count,
         Enter(t, op, id, data, count)
  PROVE  IInv'
<1>1. TypeOK'
  <2>1. id \in EndpointId
    BY HeldType
  <2>2. call' \in [Threads -> CallType]
    BY <2>1 DEF IInv, TypeOK, CallType, Enter
  <2>. QED BY <2>2 DEF IInv, TypeOK, Enter
<1>2. CallProgress'
  BY DEF IInv, TypeOK, CallProgress, Enter
<1>3. \A u \in Threads : pc'[u] = "wait" => pc[u] = "wait" /\ call'[u] = call[u]
  BY DEF Enter, IInv, TypeOK
<1>. QED BY <1>1, <1>2, <1>3, TableUnchanged DEF Enter

LEMMA ReturnInv ==
  ASSUME IInv, NEW t \in Threads, NEW ret \in {"none", "ok", "eof", "error"},
         holder \in {t, NoThread}, Return(t, ret)
  PROVE  IInv'
<1>1. TypeOK'
  <2>1. call' \in [Threads -> CallType]
    BY NoCallType DEF IInv, TypeOK, Return
  <2>. QED BY <2>1 DEF IInv, TypeOK, Return
<1>2. CallProgress'
  BY DEF IInv, TypeOK, CallProgress, Return, NoCall
<1>3. \A u \in Threads : pc'[u] = "wait" => pc[u] = "wait" /\ call'[u] = call[u]
  BY DEF Return, IInv, TypeOK
<1>. QED BY <1>1, <1>2, <1>3, TableUnchanged DEF Return

LEMMA WaitInv ==
  ASSUME IInv, NEW t \in Threads, holder = t, Wait(t), Blocked(t)
  PROVE  IInv'
<1>1. TypeOK'
  BY DEF IInv, TypeOK, Wait
<1>2. CallProgress'
  BY DEF IInv, CallProgress, Wait
<1>3. ASSUME NEW u \in Threads, pc'[u] = "wait"
      PROVE  Blocked(u)' \/ (pc[u] = "wait" /\ call'[u] = call[u])
  <2>1. CASE u = t
    BY <2>1 DEF Wait, Blocked, CanRead, CanWrite, lookup, End, PeerEnd
  <2>2. CASE u # t
    BY <1>3, <2>2 DEF Wait, IInv, TypeOK
  <2>. QED BY <2>1, <2>2
<1>. QED BY <1>1, <1>2, <1>3, TableUnchanged DEF Wait

LEMMA TakeLockInv ==
  ASSUME IInv, NEW t \in Threads, NEW from \in {"wait", "woken"}, TakeLock(t, from)
  PROVE  IInv'
<1>1. TypeOK'
  BY DEF IInv, TypeOK, TakeLock
<1>2. CallProgress'
  BY DEF IInv, CallProgress, TakeLock
<1>3. \A u \in Threads : pc'[u] = "wait" => pc[u] = "wait" /\ call'[u] = call[u]
  BY DEF TakeLock, IInv, TypeOK
<1>. QED BY <1>1, <1>2, <1>3, TableUnchanged DEF TakeLock

-----------------------------------------------------------------------------
LEMMA CreateInv ==
  ASSUME IInv, uade_ipc_channel_create
  PROVE  IInv'
<1>1. PICK s0 \in Slots :
        /\ ~channels[s0].in_use /\ holder = NoThread /\ serial[s0] < MaxCreates
        /\ channels' = [channels EXCEPT ![s0] = [FreeChannel((channels[s0].generation + 1)
                             % GenMod) EXCEPT !.in_use = TRUE]]
        /\ serial' = [serial EXCEPT ![s0] = @ + 1]
        /\ UNCHANGED <<holder, pc, call>>
  BY DEF uade_ipc_channel_create
<1> DEFINE g == (channels[s0].generation + 1) % GenMod
<1> DEFINE new == [FreeChannel(g) EXCEPT !.in_use = TRUE]
<1>2. channels' = [channels EXCEPT ![s0] = new]
  BY <1>1
<1>3. /\ ~channels[s0].in_use /\ serial[s0] < MaxCreates
      /\ serial' = [serial EXCEPT ![s0] = @ + 1]
      /\ UNCHANGED <<holder, pc, call>>
  BY <1>1
<1>4. g = serial[s0] + 1 /\ g \in 0..(GenMod - 1)
  <2>1. channels[s0].generation = serial[s0] /\ serial[s0] + 1 \in 0..MaxCreates
    BY <1>1 DEF IInv, TypeOK, GenerationCounts
  <2>. QED BY <2>1, ModNone
<1> HIDE DEF g
<1>5. /\ new \in ChannelType /\ new.in_use /\ new.generation = g
      /\ \A e \in Ends : new.end[e] = EmptyEnd
  BY <1>4, FreeType DEF ChannelType, FreeChannel
<1> HIDE DEF new
<1>6. TypeOK'
  BY <1>2, <1>3, <1>5 DEF IInv, TypeOK
<1>7. CallProgress'
  BY <1>3 DEF IInv, CallProgress
<1>8. GenerationCounts'
  BY <1>2, <1>3, <1>4, <1>5 DEF IInv, TypeOK, GenerationCounts
<1>9. SlotsReclaimed'
  <2>1. \E e \in Ends : ~new.end[e].closed
    BY <1>5 DEF Ends, EmptyEnd
  <2>. QED BY <1>2, <1>3, <1>5, <2>1 DEF IInv, TypeOK, SlotsReclaimed
<1>10. ReadableWritten'
  <2> SUFFICES ASSUME NEW s \in Slots, NEW e \in Ends,
                      NEW i \in 1..channels'[s].end[e].level
               PROVE  Contents(channels'[s].end[e])[i] \in Bytes
    BY DEF ReadableWritten, Contents
  <2>1. CASE s = s0
    BY <1>2, <1>5, <2>1 DEF IInv, TypeOK, EmptyEnd
  <2>2. CASE s # s0
    BY <1>2, <2>2 DEF IInv, TypeOK, ReadableWritten
  <2>. QED BY <2>1, <2>2
<1>11. NoLostWakeup'
  <2> SUFFICES ASSUME NEW t \in Threads, pc'[t] = "wait"
               PROVE  Blocked(t)'
    BY DEF NoLostWakeup
  <2>1. Blocked(t) /\ call'[t] = call[t] /\ call[t].id.slot \in Slots
    BY <1>3 DEF IInv, TypeOK, NoLostWakeup, CallType, EndpointId
  <2>2. channels[call[t].id.slot].in_use
    BY <2>1 DEF Blocked, CanRead, CanWrite, lookup
  <2>3. channels'[call[t].id.slot] = channels[call[t].id.slot]
    BY <1>2, <1>3, <2>1, <2>2 DEF IInv, TypeOK
  <2>. QED BY <2>1, <2>3 DEF Blocked, CanRead, CanWrite, lookup, End, PeerEnd
<1>. QED BY <1>6, <1>7, <1>8, <1>9, <1>10, <1>11 DEF IInv

(* A broadcast leaves no thread in the wait.                                *)
LEMMA BroadcastType ==
  ASSUME TypeOK
  PROVE  /\ Broadcast \in [Threads -> {"idle", "loop", "woken"}]
         /\ \A t \in Threads : Broadcast[t] = "loop" <=> pc[t] = "loop"
BY DEF TypeOK, Broadcast

LEMMA CloseInv ==
  ASSUME IInv, NEW id \in Held, uade_ipc_close(id)
  PROVE  IInv'
<1> DEFINE s0 == id.slot
<1> DEFINE ch == channels[s0]
<1> DEFINE closed == [ch EXCEPT !.end[id.end].closed = TRUE]
<1> DEFINE new == IF \A e \in Ends : closed.end[e].closed THEN release(closed) ELSE closed
<1>1. /\ holder = NoThread /\ ch.in_use
      /\ pc' = IF ch.end[id.end].closed THEN pc ELSE Broadcast
      /\ channels' = [channels EXCEPT ![s0] = new]
      /\ UNCHANGED <<serial, holder, call>>
  BY DEF uade_ipc_close, lookup
<1>2. s0 \in Slots /\ id.end \in Ends /\ ch \in ChannelType
  BY HeldType DEF EndpointId, IInv, TypeOK
<1>3. /\ closed \in ChannelType /\ closed.in_use /\ closed.generation = ch.generation
      /\ \A e \in Ends : /\ closed.end[e].buf = ch.end[e].buf
                         /\ closed.end[e].head = ch.end[e].head
                         /\ closed.end[e].level = ch.end[e].level
                         /\ closed.end[e].closed <=> (ch.end[e].closed \/ e = id.end)
  <2>1. \A e \in Ends : ch.end[e] \in EndType
    BY <1>2 DEF ChannelType
  <2>2. \A e \in Ends : closed.end[e] = IF e = id.end THEN [ch.end[e] EXCEPT !.closed = TRUE]
                                        ELSE ch.end[e]
    BY <1>2 DEF ChannelType
  <2>3. \A x \in EndType : LET y == [x EXCEPT !.closed = TRUE] IN
          y \in EndType /\ y.buf = x.buf /\ y.head = x.head /\ y.level = x.level /\ y.closed
    BY DEF EndType
  <2>4. \A e \in Ends : closed.end[e] \in EndType
    BY <2>1, <2>2, <2>3
  <2>5. closed.end \in [Ends -> EndType]
    <3>1. closed.end = [ch.end EXCEPT ![id.end].closed = TRUE] /\ ch.end \in [Ends -> EndType]
      BY <1>2 DEF ChannelType
    <3>. QED BY <2>4, <3>1
  <2>6. /\ closed.in_use = ch.in_use /\ closed.generation = ch.generation
        /\ closed = [ch EXCEPT !.end = closed.end]
    BY <1>2 DEF ChannelType
  <2>7. closed \in ChannelType
    BY <1>2, <2>5, <2>6 DEF ChannelType
  <2>8. closed.in_use /\ closed.generation = ch.generation
    BY <1>1, <2>6
  <2> HIDE DEF closed
  <2>9. ASSUME NEW e \in Ends
        PROVE  /\ closed.end[e].buf = ch.end[e].buf
               /\ closed.end[e].head = ch.end[e].head
               /\ closed.end[e].level = ch.end[e].level
               /\ closed.end[e].closed <=> (ch.end[e].closed \/ e = id.end)
    BY <2>1, <2>2, <2>3
  <2>. QED BY <2>7, <2>8, <2>9
<1>4. ch.end[id.end].closed => closed = ch
  <2> HAVE ch.end[id.end].closed
  <2>1. ch.end[id.end] \in EndType
    BY <1>2 DEF ChannelType
  <2>2. [ch.end[id.end] EXCEPT !.closed = TRUE] = ch.end[id.end]
    BY <2>1 DEF EndType
  <2>3. [ch.end EXCEPT ![id.end] = ch.end[id.end]] = ch.end
    BY <1>2 DEF ChannelType
  <2>4. closed = [ch EXCEPT !.end = [ch.end EXCEPT ![id.end] =
                                      [ch.end[id.end] EXCEPT !.closed = TRUE]]]
    BY <1>2 DEF ChannelType
  <2>5. [ch EXCEPT !.end = ch.end] = ch
    BY <1>2 DEF ChannelType
  <2>. QED BY <2>2, <2>3, <2>4, <2>5
<1>5. release(closed) = FreeChannel(ch.generation) /\ release(closed) \in ChannelType
  BY <1>3, FreeType DEF release, ChannelType
<1> HIDE DEF closed
<1>6. new \in ChannelType /\ new.generation = ch.generation
  BY <1>3, <1>5 DEF FreeChannel
<1>7. TypeOK'
  <2>1. channels' \in [Slots -> ChannelType]
    BY <1>1, <1>2, <1>6 DEF IInv, TypeOK
  <2>. QED BY <1>1, <2>1, BroadcastType DEF IInv, TypeOK
<1>8. CallProgress'
  BY <1>1 DEF IInv, CallProgress
<1>9. GenerationCounts'
  BY <1>1, <1>2, <1>6 DEF IInv, TypeOK, GenerationCounts
<1>10. SlotsReclaimed'
  <2> SUFFICES ASSUME NEW s \in Slots
               PROVE  /\ channels'[s].in_use => \E e \in Ends : ~channels'[s].end[e].closed
                      /\ ~channels'[s].in_use =>
                           channels'[s] = FreeChannel(channels'[s].generation)
    BY DEF SlotsReclaimed
  <2>1. CASE s # s0
    BY <1>1, <1>2, <2>1 DEF IInv, TypeOK, SlotsReclaimed
  <2>2. CASE s = s0 /\ new = closed /\ ~(\A e \in Ends : closed.end[e].closed)
    BY <1>1, <1>2, <1>3, <2>2 DEF IInv, TypeOK
  <2>3. CASE s = s0 /\ new = release(closed)
    <3>1. channels'[s] = FreeChannel(ch.generation)
      BY <1>1, <1>2, <1>5, <2>3 DEF IInv, TypeOK
    <3>2. ~FreeChannel(ch.generation).in_use
          /\ FreeChannel(ch.generation).generation = ch.generation
      BY DEF FreeChannel
    <3>. QED BY <3>1, <3>2
  <2>. QED BY <2>1, <2>2, <2>3
<1>11. ReadableWritten'
  <2> SUFFICES ASSUME NEW s \in Slots, NEW e \in Ends,
                      NEW i \in 1..channels'[s].end[e].level
               PROVE  Contents(channels'[s].end[e])[i] \in Bytes
    BY DEF ReadableWritten, Contents
  <2>1. CASE s = s0 /\ new = release(closed)
    BY <1>1, <1>2, <1>5, <2>1 DEF IInv, TypeOK, FreeChannel, EmptyEnd
  <2>2. CASE s = s0 /\ new = closed
    <3>1. channels'[s].end[e].buf = ch.end[e].buf /\ channels'[s].end[e].head = ch.end[e].head
          /\ channels'[s].end[e].level = ch.end[e].level
      BY <1>1, <1>2, <1>3, <2>2 DEF IInv, TypeOK
    <3>. QED BY <1>2, <2>2, <3>1 DEF IInv, ReadableWritten, Contents
  <2>3. CASE s # s0
    BY <1>1, <1>2, <2>3 DEF IInv, TypeOK, ReadableWritten
  <2>. QED BY <2>1, <2>2, <2>3
<1>12. NoLostWakeup'
  <2>1. CASE ch.end[id.end].closed
    <3>1. \E e \in Ends : ~ch.end[e].closed
      BY <1>1, <1>2 DEF IInv, SlotsReclaimed
    <3>2. channels' = channels
      BY <1>1, <1>2, <1>4, <2>1, <3>1 DEF IInv, TypeOK
    <3>. QED BY <1>1, <2>1, <3>2 DEF IInv, NoLostWakeup, Blocked, CanRead, CanWrite,
                                     lookup, End, PeerEnd
  <2>2. CASE ~ch.end[id.end].closed
    BY <1>1, <2>2, BroadcastType DEF IInv, NoLostWakeup
  <2>. QED BY <2>1, <2>2
<1>. QED BY <1>7, <1>8, <1>9, <1>10, <1>11, <1>12 DEF IInv

-----------------------------------------------------------------------------
(* A pass that moves bytes broadcasts, so it is enough to look at the table *)
(* and at its own call.                                                     *)
LEMMA MovedInv ==
  ASSUME IInv, NEW t \in Threads, NEW n \in Nat, NEW data \in Seq(Bytes),
         holder = t, Moved(t, n, data),
         n <= call[t].count - call[t].done,
         call[t].op = "write" => data = call[t].data,
         call[t].op = "read" => Len(data) = call[t].done + n,
         NEW s0 \in Slots, NEW e0 \in Ends, NEW new \in EndType,
         channels[s0].in_use, new.closed = channels[s0].end[e0].closed,
         \A j \in 0..(new.level - 1) : new.buf[Wrap(new.head + j)] \in Bytes,
         channels' = [channels EXCEPT ![s0].end[e0] = new]
  PROVE  IInv'
<1>1. /\ \A s \in Slots : /\ channels'[s].in_use = channels[s].in_use
                          /\ channels'[s].generation = channels[s].generation
      /\ \A s \in Slots, e \in Ends : (s # s0 \/ e # e0) =>
           channels'[s].end[e] = channels[s].end[e]
      /\ channels'[s0].end[e0] = new
      /\ \A s \in Slots : s # s0 => channels'[s] = channels[s]
      /\ channels' \in [Slots -> ChannelType]
  BY ZenonT(60) DEF IInv, TypeOK, ChannelType
<1>2. TypeOK'
  <2>1. [call[t] EXCEPT !.done = call[t].done + n, !.data = data] \in CallType
    <3>1. call[t] \in CallType
      BY DEF IInv, TypeOK
    <3>2. call[t].done + n \in 0..MaxCount
      BY <3>1 DEF CallType
    <3>. QED BY <3>1, <3>2 DEF CallType
  <2>2. call' = [call EXCEPT ![t] = [call[t] EXCEPT !.done = call[t].done + n, !.data = data]]
    BY DEF Moved, IInv, TypeOK, CallType
  <2>3. call' \in [Threads -> CallType]
    BY <2>1, <2>2 DEF IInv, TypeOK
  <2>. QED BY <1>1, <2>3, BroadcastType DEF IInv, TypeOK, Moved
<1>3. CallProgress'
  BY DEF IInv, TypeOK, CallType, CallProgress, Moved
<1>4. GenerationCounts'
  BY <1>1 DEF IInv, GenerationCounts, Moved
<1>5. SlotsReclaimed'
  BY <1>1 DEF IInv, SlotsReclaimed
<1>6. ReadableWritten'
  <2>1. \A s \in Slots, e \in Ends : \A j \in 0..(channels[s].end[e].level - 1) :
           channels[s].end[e].buf[Wrap(channels[s].end[e].head + j)] \in Bytes
    BY ReadableByOffset DEF IInv, TypeOK, ReadableWritten
  <2>2. \A s \in Slots, e \in Ends : \A j \in 0..(channels'[s].end[e].level - 1) :
           channels'[s].end[e].buf[Wrap(channels'[s].end[e].head + j)] \in Bytes
    BY <1>1, <2>1
  <2> SUFFICES ASSUME NEW s \in Slots, NEW e \in Ends,
                      NEW i \in 1..channels'[s].end[e].level
               PROVE  Contents(channels'[s].end[e])[i] \in Bytes
    BY DEF ReadableWritten, Contents
  <2> DEFINE ch == channels'
  <2>3. ch \in [Slots -> ChannelType]
    BY <1>1
  <2>4. \A r \in Slots, f \in Ends : \A j \in 0..(ch[r].end[f].level - 1) :
           ch[r].end[f].buf[Wrap(ch[r].end[f].head + j)] \in Bytes
    BY <2>2
  <2>5. i \in 1..ch[s].end[e].level
    OBVIOUS
  <2> HIDE DEF ch
  <2>6. Contents(ch[s].end[e])[i] \in Bytes
    BY <2>3, <2>4, <2>5, ReadableByOffset
  <2>. QED BY <2>6 DEF ch
<1>7. NoLostWakeup'
  BY BroadcastType DEF IInv, NoLostWakeup, Moved
<1>. QED BY <1>2, <1>3, <1>4, <1>5, <1>6, <1>7 DEF IInv

LEMMA ReadCopiesInv ==
  ASSUME IInv, NEW t \in Threads, ReadCopies(t)
  PROVE  IInv'
<1> DEFINE id == call[t].id
<1> DEFINE self == End(id)
<1> DEFINE n == Min({call[t].count - call[t].done, self.level, Capacity - self.head})
<1> DEFINE new == [self EXCEPT !.head = Wrap(self.head + n), !.level = self.level - n]
<1> DEFINE got == [i \in 1..n |-> self.buf[self.head + i - 1]]
<1>1. /\ holder = t /\ call[t].op = "read" /\ call[t].done < call[t].count
      /\ lookup(id) /\ self.level > 0
      /\ channels' = [channels EXCEPT ![id.slot].end[id.end] = new]
      /\ Moved(t, n, call[t].data \o got)
  BY DEF ReadCopies, ReadChunk, InPass, CanRead, End, Wrap
<1>2. /\ id.slot \in Slots /\ id.end \in Ends /\ call[t] \in CallType
      /\ self \in EndType /\ channels[id.slot].in_use
  BY ZenonT(60), <1>1 DEF IInv, TypeOK, CallType, EndpointId, ChannelType, End, lookup
<1>3. /\ n \in Nat \ {0} /\ n <= call[t].count - call[t].done
      /\ n <= self.level /\ self.head + n <= Capacity
  <2>1. /\ call[t].count - call[t].done \in Nat \ {0} /\ self.level \in Nat \ {0}
        /\ Capacity - self.head \in Nat \ {0} /\ self.head \in Nat
    <3>1. call[t].count \in Nat /\ call[t].done \in Nat
      BY <1>2 DEF CallType
    <3>2. self.level \in 0..Capacity /\ self.head \in 0..(Capacity - 1)
      BY <1>2 DEF EndType
    <3> HIDE DEF self
    <3>. QED BY SMTT(30), <1>1, <3>1, <3>2
  <2> HIDE DEF self
  <2>2. /\ n \in {call[t].count - call[t].done, self.level, Capacity - self.head}
        /\ n <= call[t].count - call[t].done /\ n <= self.level /\ n <= Capacity - self.head
    <3> DEFINE a == call[t].count - call[t].done
               c == Capacity - self.head
    <3>1. a \in Int /\ self.level \in Int /\ c \in Int /\ n = Min({a, self.level, c})
      BY <2>1
    <3> HIDE DEF a, c, n
    <3>2. n \in {a, self.level, c} /\ n <= a /\ n <= self.level /\ n <= c
      BY <3>1, MinOfThree
    <3>. QED BY <3>2 DEF a, c
  <2> HIDE DEF n
  <2>. QED BY <2>1, <2>2
<1> HIDE DEF n, self
<1>4. self.head + n < 2 * Capacity /\ self.head \in Nat /\ self.level \in Nat
  BY <1>2, <1>3 DEF EndType
<1>5. \A j \in 0..(self.level - 1) : self.buf[Wrap(self.head + j)] \in Bytes
  BY <1>2, ReadableByOffset DEF IInv, TypeOK, ReadableWritten, self, End
<1>6. got \in Seq(Bytes) /\ Len(got) = n
  <2>1. ASSUME NEW i \in 1..n PROVE self.buf[self.head + i - 1] \in Bytes
    <3>1. i - 1 \in 0..(self.level - 1)
      BY <1>3, <1>4
    <3>2. Wrap(self.head + (i - 1)) = self.head + i - 1
      BY <1>3, <1>4, WrapOnce
    <3>. QED BY <1>5, <3>1, <3>2
  <2>. QED BY <1>3, <2>1
<1>7. new \in EndType /\ new.closed = self.closed
  <2>1. Wrap(self.head + n) \in 0..(Capacity - 1) /\ self.level - n \in 0..Capacity
    BY <1>2, <1>3, <1>4, WrapOnce DEF EndType
  <2>. QED BY <1>2, <2>1 DEF EndType
<1>8. \A j \in 0..(new.level - 1) : new.buf[Wrap(new.head + j)] \in Bytes
  <2> SUFFICES ASSUME NEW j \in 0..(self.level - n - 1)
               PROVE  self.buf[Wrap(Wrap(self.head + n) + j)] \in Bytes
    BY <1>2 DEF EndType, Wrap
  <2>1. n + j \in 0..(self.level - 1) /\ self.level <= Capacity
    BY <1>2, <1>3, <1>4 DEF EndType
  <2>2. Wrap(Wrap(self.head + n) + j) = Wrap(self.head + (n + j))
    <3>1. /\ self.head + n < Capacity => Wrap(self.head + n) = self.head + n
          /\ self.head + n = Capacity => Wrap(self.head + n) = 0
      BY <1>3, <1>4, WrapOnce
    <3>2. CASE self.head + n < Capacity
      BY <1>3, <1>4, <3>1, <3>2
    <3>3. CASE self.head + n = Capacity
      <4>1. j \in Nat /\ j < Capacity /\ self.head + (n + j) = Capacity + j
        BY SMTT(30), <1>3, <1>4, <2>1, <3>3
      <4>2. Wrap(j) = j /\ Wrap(Capacity + j) = j
        BY <4>1, WrapOnce
      <4>. QED BY <3>1, <3>3, <4>1, <4>2
    <3>. QED BY SMTT(30), <1>3, <1>4, <3>2, <3>3
  <2>. QED BY <1>5, <2>1, <2>2
<1>9. call[t].data \o got \in Seq(Bytes) /\ Len(call[t].data \o got) = call[t].done + n
  <2>1. call[t].data \in Seq(Bytes) /\ Len(call[t].data) = call[t].done
    BY <1>1, <1>2 DEF CallType, IInv, CallProgress
  <2> HIDE DEF got
  <2>. QED BY <1>6, <2>1
<1> HIDE DEF got, new
<1>. QED BY <1>1, <1>2, <1>3, <1>7, <1>8, <1>9, MovedInv DEF self, End

LEMMA WriteCopiesInv ==
  ASSUME IInv, NEW t \in Threads, WriteCopies(t)
  PROVE  IInv'
<1> DEFINE id == call[t].id
<1> DEFINE peer == PeerEnd(id)
<1> DEFINE tail == Wrap(peer.head + peer.level)
<1> DEFINE n == Min({call[t].count - call[t].done, Capacity - peer.level, Capacity - tail})
<1> DEFINE buf == [i \in DOMAIN peer.buf |-> IF i \in tail..(tail + n - 1)
                     THEN call[t].data[call[t].done + 1 + i - tail] ELSE peer.buf[i]]
<1> DEFINE new == [peer EXCEPT !.level = peer.level + n, !.buf = buf]
<1>1. /\ holder = t /\ call[t].op = "write" /\ call[t].done < call[t].count
      /\ lookup(id) /\ peer.level < Capacity
      /\ channels' = [channels EXCEPT ![id.slot].end[Peer(id.end)] = new]
      /\ Moved(t, n, call[t].data)
  BY DEF WriteCopies, WriteChunk, TailOf, InPass, CanWrite, PeerEnd, Wrap
<1>2. /\ id.slot \in Slots /\ Peer(id.end) \in Ends /\ call[t] \in CallType
      /\ peer \in EndType /\ channels[id.slot].in_use
  BY <1>1, PeerType DEF IInv, TypeOK, CallType, EndpointId, ChannelType, PeerEnd, lookup
<1> HIDE DEF peer
<1>13. call[t].done < call[t].count /\ peer.level < Capacity
  BY <1>1
<1>3. /\ peer.level \in Nat /\ peer.level <= Capacity
      /\ peer.head \in Nat /\ peer.head < Capacity
      /\ call[t].count \in Nat /\ call[t].done \in Nat /\ Capacity \in Nat
  BY <1>2 DEF EndType, CallType
<1>14. peer.buf \in [0..(Capacity - 1) -> Bytes \cup {NoByte}]
  BY <1>2 DEF EndType
<1>4. tail = (IF peer.head + peer.level < Capacity THEN peer.head + peer.level
              ELSE peer.head + peer.level - Capacity) /\ tail \in 0..(Capacity - 1)
  BY <1>3, WrapOnce
<1> HIDE DEF tail
<1>5. /\ n \in Nat \ {0} /\ n <= call[t].count - call[t].done
      /\ peer.level + n <= Capacity /\ tail + n <= Capacity
  <2> DEFINE a == call[t].count - call[t].done
             b == Capacity - peer.level
             c == Capacity - tail
  <2>1. /\ a \in Nat \ {0} /\ b \in Nat \ {0} /\ c \in Nat \ {0}
    <3>1. tail \in Nat /\ tail < Capacity
      BY <1>4
    <3> HIDE DEF n
    <3>. QED BY <1>13, <1>3, <3>1
  <2>2. a \in Int /\ b \in Int /\ c \in Int /\ n = Min({a, b, c})
    BY <2>1
  <2> HIDE DEF a, b, c, n
  <2>3. n \in {a, b, c} /\ n <= a /\ n <= b /\ n <= c
    BY <2>2, MinOfThree
  <2>4. n \in Nat \ {0}
    BY <2>1, <2>3
  <2>. QED BY <1>3, <1>4, <2>3, <2>4 DEF a, b, c
<1> HIDE DEF n
<1>6. call[t].data \in Seq(Bytes) /\ Len(call[t].data) = call[t].count
  BY <1>1, <1>2 DEF CallType, IInv, CallProgress
<1>7. ASSUME NEW i \in tail..(tail + n - 1)
      PROVE  i \in 0..(Capacity - 1) /\ buf[i] \in Bytes
  <2>1. i \in 0..(Capacity - 1) /\ call[t].done + 1 + i - tail \in 1..call[t].count
    <3>1. tail \in Nat /\ i \in Int /\ i >= tail /\ i <= tail + n - 1
      BY <1>4, <1>5
    <3>. QED BY <1>3, <1>5, <3>1
  <2>2. call[t].data[call[t].done + 1 + i - tail] \in Bytes
    BY <1>6, <2>1
  <2>. QED BY <1>14, <2>1, <2>2
<1>8. buf \in [0..(Capacity - 1) -> Bytes \cup {NoByte}]
  BY <1>14, <1>7
<1> HIDE DEF buf
<1>9. new \in EndType /\ new.closed = peer.closed /\ new.level = peer.level + n
      /\ new.head = peer.head /\ new.buf = buf
  BY SMTT(30), <1>2, <1>3, <1>5, <1>8 DEF EndType
<1>10. \A j \in 0..(peer.level - 1) : peer.buf[Wrap(peer.head + j)] \in Bytes
  BY <1>2, ReadableByOffset DEF IInv, TypeOK, ReadableWritten, peer, PeerEnd
<1>11. ASSUME NEW j \in 0..(peer.level + n - 1)
       PROVE  buf[Wrap(peer.head + j)] \in Bytes
  <2> DEFINE a == peer.head + j
  <2>1. j \in Nat /\ j < peer.level + n /\ j < Capacity /\ tail \in Nat
    BY SMTT(30), <1>3, <1>4, <1>5
  <2>2. a \in Nat /\ a < 2 * Capacity /\ a = peer.head + j
    BY <1>3, <2>1
  <2> HIDE DEF a
  <2>3. Wrap(a) = IF a < Capacity THEN a ELSE a - Capacity
    BY <2>2, WrapOnce
  <2>4. CASE j < peer.level
    <3>1. Wrap(a) \in 0..(Capacity - 1)
      BY <1>3, <2>2, <2>3
    <3>2. CASE Wrap(a) \in tail..(tail + n - 1)
      BY <1>7, <2>2, <3>2
    <3>3. CASE Wrap(a) \notin tail..(tail + n - 1)
      <4>1. peer.buf[Wrap(a)] \in Bytes
        BY <1>3, <1>10, <2>1, <2>2, <2>4
      <4>2. buf[Wrap(a)] = peer.buf[Wrap(a)]
        BY <1>14, <3>1, <3>3 DEF buf
      <4>. QED BY <2>2, <4>1, <4>2
    <3>. QED BY <3>2, <3>3
  <2>5. CASE ~(j < peer.level)
    <3>1. j - peer.level \in Nat /\ tail + (j - peer.level) < Capacity
          /\ j - peer.level < n
      BY <1>3, <1>5, <2>1, <2>5
    <3>2. Wrap(a) = tail + (j - peer.level)
      <4>1. CASE peer.head + peer.level < Capacity
        <5>1. tail = peer.head + peer.level
          BY <1>4, <4>1
        <5>2. a < Capacity
          BY <1>3, <2>1, <2>2, <3>1, <5>1
        <5>. QED BY <1>3, <2>1, <2>2, <2>3, <5>1, <5>2
      <4>2. CASE ~(peer.head + peer.level < Capacity)
        <5>1. tail = peer.head + peer.level - Capacity
          BY <1>4, <4>2
        <5>2. ~(a < Capacity)
          BY <1>3, <2>1, <2>2, <2>5, <4>2
        <5>. QED BY <1>3, <2>1, <2>2, <2>3, <5>1, <5>2
      <4>. QED BY <4>1, <4>2
    <3>3. Wrap(a) \in tail..(tail + n - 1)
      BY <1>5, <2>1, <3>1, <3>2
    <3>. QED BY <1>7, <2>2, <3>3
  <2>. QED BY <2>4, <2>5
<1>12. \A j \in 0..(new.level - 1) : new.buf[Wrap(new.head + j)] \in Bytes
  <2>1. new.level = peer.level + n /\ new.head = peer.head /\ new.buf = buf
    BY <1>9
  <2> HIDE DEF new
  <2>2. ASSUME NEW j \in 0..(new.level - 1)
        PROVE  new.buf[Wrap(new.head + j)] \in Bytes
    <3>1. j \in 0..(peer.level + n - 1)
      BY <1>3, <1>5, <2>1
    <3>2. new.buf[Wrap(new.head + j)] = buf[Wrap(peer.head + j)]
      BY <2>1
    <3>. QED BY <1>11, <3>1, <3>2
  <2>. QED BY <2>2
<1> HIDE DEF new
<1>. QED BY <1>1, <1>2, <1>5, <1>6, <1>9, <1>12, MovedInv DEF peer, PeerEnd

-----------------------------------------------------------------------------
LEMMA StepInv == IInv /\ [Next]_vars => IInv'
<1> SUFFICES ASSUME IInv, [Next]_vars PROVE IInv'
  OBVIOUS
<1>1. CASE uade_ipc_channel_create
  BY <1>1, CreateInv
<1>2. ASSUME NEW id \in Held, uade_ipc_close(id) PROVE IInv'
  BY <1>2, CloseInv
<1>3. ASSUME NEW t \in Threads, EnterRead(t) PROVE IInv'
  <2>1. PICK id \in Held, count \in 1..MaxCount : Enter(t, "read", id, <<>>, count)
    BY <1>3 DEF EnterRead
  <2>2. <<>> \in Seq(Bytes)
    OBVIOUS
  <2>. QED BY <2>1, <2>2, EnterInv
<1>4. ASSUME NEW t \in Threads, EnterWrite(t) PROVE IInv'
  <2>1. \A data \in Payloads : data \in Seq(Bytes) /\ Len(data) \in 1..MaxCount
    OBVIOUS
  <2>. QED BY <1>4, <2>1, EnterInv DEF EnterWrite
<1>5. ASSUME NEW t \in Threads, Pass(t) PROVE IInv'
  <2>1. ASSUME Finishes(t) \/ ReadFails(t) \/ ReadEof(t) \/ WriteFails(t) PROVE IInv'
    BY <2>1, ReturnInv DEF Finishes, ReadFails, ReadEof, WriteFails, InPass
  <2>2. ASSUME ReadWaits(t) \/ WriteWaits(t) PROVE IInv'
    BY <2>2, WaitInv DEF ReadWaits, WriteWaits, InPass, Blocked
  <2>3. CASE ReadCopies(t)
    BY <2>3, ReadCopiesInv
  <2>4. CASE WriteCopies(t)
    BY <2>4, WriteCopiesInv
  <2>. QED BY <1>5, <2>1, <2>2, <2>3, <2>4 DEF Pass
<1>6. ASSUME NEW t \in Threads, Resume(t) \/ SpuriousWake(t) PROVE IInv'
  BY <1>6, TakeLockInv DEF Resume, SpuriousWake
<1>7. ASSUME NEW t \in Threads, TimeOut(t) PROVE IInv'
  BY <1>7, ReturnInv DEF TimeOut
<1>8. CASE UNCHANGED vars
  <2>1. TypeOK' /\ CallProgress'
    BY <1>8 DEF vars, IInv, TypeOK, CallProgress
  <2>. QED BY <1>8, <2>1, TableUnchanged DEF vars
<1>. QED BY <1>1, <1>2, <1>3, <1>4, <1>5, <1>6, <1>7, <1>8 DEF Next

(* Everything below follows from one inductive invariant.                   *)
THEOREM Invariance == Spec => []IInv
<1>. QED BY InitInv, StepInv, PTL DEF Spec

(* Whatever the interleaving of the callers, offsets and levels stay inside *)
(* the 16 KiB buffers, no reader is given an unwritten byte, and one thread *)
(* at a time runs the loops of uade_ipc_read and uade_ipc_write.            *)
THEOREM TypeCorrect == Spec => []TypeOK
<1>1. IInv => TypeOK
  BY DEF IInv
<1>. QED BY <1>1, Invariance, PTL

(* While fewer channels than generations have been created in a slot, an    *)
(* endpoint id never resolves to a later channel in the same slot, and the  *)
(* zero id of an unconnected struct uade_ipc never resolves at all.         *)
THEOREM StaleIdsDead == Spec => []NoAliasing
<1>1. IInv => NoAliasing
  <2> SUFFICES ASSUME IInv, NEW id \in Held, lookup(id)
               PROVE  id.serial = serial[id.slot] /\ id.serial # 0
    BY DEF NoAliasing
  <2>1. id.slot \in Slots /\ id.serial \in 0..MaxCreates
    BY HeldType DEF EndpointId
  <2>2. id.serial % GenMod = id.serial
    BY <2>1, ModNone
  <2>. QED BY <2>1, <2>2 DEF IInv, GenerationCounts, lookup, Generation
<1>. QED BY <1>1, Invariance, PTL

(* The single condition variable loses no wakeup: a thread still in its     *)
(* wait has nothing to read, or no room to write, and an open peer.         *)
THEOREM WakeupsKept == Spec => []NoLostWakeup
<1>1. IInv => NoLostWakeup
  BY DEF IInv
<1>. QED BY <1>1, Invariance, PTL

(* Closing both ends returns the slot to the table, empty.                  *)
THEOREM NoSlotLeak == Spec => []SlotsReclaimed
<1>1. IInv => SlotsReclaimed
  BY DEF IInv
<1>. QED BY <1>1, Invariance, PTL

(* Every byte a ring offers to its reader is a byte that was written to it. *)
THEOREM OnlyWrittenBytes == Spec => []ReadableWritten
<1>1. IInv => ReadableWritten
  BY DEF IInv
<1>. QED BY <1>1, Invariance, PTL
=============================================================================
