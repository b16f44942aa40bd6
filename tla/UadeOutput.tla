----------------------------- MODULE UadeOutput -----------------------------
(***************************************************************************)
(* The audio of a song from the emulated sound chip to the caller: frames  *)
(* are collected in sndbuffer (audio.c, sd-sound-generic.c), sent as a     *)
(* block when as many as requested are there (uade.c), kept in the stash   *)
(* of libuade and copied to the caller piece by piece (uadestate.c).       *)
(* Commands of the caller wait in a queue until it is the host's turn.     *)
(* Stash and queue are fifos of fifo.c.  UadeReading has the seeks, the    *)
(* subsongs and the time limits; here the bytes themselves are followed.   *)
(*                                                                         *)
(* Frames are numbered modulo Numbers, and the bytes of each frame.        *)
(***************************************************************************)
EXTENDS Integers, Sequences

CONSTANTS
  Frame,         (* bytes of a frame, 4                                     *)
  Block,         (* bytes uade_read_request() asks for                      *)
  SndSize,       (* bytes of sndbuffer, MAX_SOUND_BUF_SIZE                  *)
  Burst,         (* bound: frames an instruction can make                   *)
  SizeBytes,     (* sizeof(size_t)                                          *)
  CommandBytes,  (* bytes of a filter command                               *)
  Filters,       (* filter states the caller sets                           *)
  MaxCommands,   (* bound: commands that wait                               *)
  MaxEnds,       (* bound: ends of the song told in a block                 *)
  ReadSizes,     (* sizes the caller asks uade_read() for                   *)
  Numbers,       (* bound: different numbers of frames                      *)
  Junk, Unknown

ASSUME OutputAssumption ==
  /\ {Frame, Block, SndSize, SizeBytes, CommandBytes, Numbers} \subseteq Nat \ {0}
  /\ Block % Frame = 0 /\ Block <= SndSize /\ Burst * Frame <= SndSize
  /\ ReadSizes \subseteq Nat \ {0} /\ {Burst, MaxCommands, MaxEnds} \subseteq Nat
  /\ Burst < Numbers /\ Unknown \notin Nat

VARIABLES
  pc,        (* core: "reset" for a song, "turn" in uadecore_handle_r_state() *)
             (*   or emulating                                              *)
  snd,       (* core: frames in sndbuffer, request (uadecore_read_size),    *)
             (*   output (uadecore_audio_output), reboot, filter            *)
  made,      (* number of the frame to be made next                         *)
  ended,     (* history: the song has ended within the block being made     *)
  wire,      (* messages to the host                                        *)
  host,      (* state of the song, of libuade                               *)
  tail,      (* songend.tailbytes                                           *)
  stash,     (* state->readstash and                                        *)
  commands,  (* state->write_queue, two fifos                               *)
  read,      (* the uade_read() in progress: bytes wanted and copied        *)
  wanted,    (* history: the filter the core should have                    *)
  heard      (* history: number of the byte due next, or Unknown            *)

vars == <<pc, snd, made, ended, wire, host, tail, stash, commands, read, wanted, heard>>
coreVars == <<pc, snd, made, ended>>
hostVars == <<host, tail, stash, commands, read, wanted, heard>>

Fifo(f) == INSTANCE UadeFifo WITH fifo <- f, Data <- {}, MaxBytes <- 0
EmptyFifo == Fifo(<<>>)!EmptyFifo
Length(f) == Fifo(f)!fifo_len(f)
Contents(f) == Fifo(f)!Contents(f)

(* A fifo without what is never looked at: the bytes of its buffer that are *)
(* not in use, and the history, which is as if it had held no more.         *)
Kept(f) ==
  [f EXCEPT !.buf = [i \in DOMAIN @ |-> IF i \in f.lower + 1..f.upper THEN @[i] ELSE Junk],
            !.peak = Length(f)]

(* A smaller buffer is not refused here; UadeFifo has both outcomes.        *)
After(f, bytes) ==
  LET S == Fifo(f)!fifo_read(f, bytes)
  IN  Kept(CHOOSE g \in S : \A h \in S : g.capacity <= h.capacity)

ByteCount == Numbers * Frame
Bytes(frames) ==
  [i \in 1..Len(frames) * Frame |-> frames[((i - 1) \div Frame) + 1] * Frame + ((i - 1) % Frame)]

Idle == read.want = 0

-----------------------------------------------------------------------------
(* The core makes a frame: write_left_right() and check_sound_buffers().    *)
Filled == Append(snd.frames, made)
Emulating == pc = "run" /\ ~snd.reboot
Makes == made' = (made + 1) % Numbers /\ UNCHANGED hostVars

(* Frames are skipped until output begins.                                  *)
Skips == Emulating /\ ~snd.output /\ Makes /\ UNCHANGED <<pc, snd, ended, wire>>

Collects ==
  /\ Emulating /\ snd.output /\ Len(Filled) * Frame # snd.request
  /\ snd' = [snd EXCEPT !.frames = Filled]
  /\ Makes /\ UNCHANGED <<pc, ended, wire>>

(* Mutant: the frames sent stay in the buffer.                              *)
SendsBlockKeeps ==
  /\ Emulating /\ snd.output /\ Len(Filled) * Frame = snd.request
  /\ wire' = wire \o <<[type |-> "DATA", frames |-> Filled], [type |-> "TOKEN"]>>
  /\ snd' = [snd EXCEPT !.frames = Filled, !.request = 0]
  /\ pc' = "turn" /\ ended' = FALSE /\ Makes

(* The block is complete: uadecore_check_sound_buffers() sends it and waits *)
(* for the host's turn to end.                                              *)
SendsBlock ==
  /\ Emulating /\ snd.output /\ Len(Filled) * Frame = snd.request
  /\ wire' = wire \o <<[type |-> "DATA", frames |-> Filled], [type |-> "TOKEN"]>>
  /\ snd' = [snd EXCEPT !.frames = <<>>, !.request = 0]
  /\ pc' = "turn" /\ ended' = FALSE /\ Makes

(* After a reboot command frames are made until the instruction ends.       *)
MakesInBurst ==
  /\ pc = "run" /\ snd.reboot /\ made < Burst
  /\ snd' = [snd EXCEPT !.frames = Filled]
  /\ made' = made + 1
  /\ UNCHANGED <<pc, ended, wire, hostVars>>

-----------------------------------------------------------------------------
(* AMIGAMSG_START_OUTPUT                                                    *)
StartsOutput ==
  /\ Emulating /\ snd' = [snd EXCEPT !.output = TRUE]
  /\ UNCHANGED <<pc, made, ended, wire, hostVars>>

(* Mutant: the output is not begun for the end of the song.                 *)
SongEndsOnly ==
  /\ Emulating /\ Len(wire) < MaxEnds
  /\ wire' = Append(wire, [type |-> "SONG_END", tail |-> Len(snd.frames) * Frame, at |-> made])
  /\ ended' = TRUE
  /\ UNCHANGED <<pc, snd, made, hostVars>>

(* Mutant: the tail is what is left to fill of the block.                   *)
SongEndsRest ==
  /\ Emulating /\ Len(wire) < MaxEnds
  /\ wire' = Append(wire, [type |-> "SONG_END", tail |-> snd.request - Len(snd.frames) * Frame, at |-> made])
  /\ snd' = [snd EXCEPT !.output = TRUE]
  /\ ended' = TRUE
  /\ UNCHANGED <<pc, made, hostVars>>

(* uadecore_song_end() tells how much of the block is already made, and     *)
(* begins output so that the block is completed.                            *)
SongEnds ==
  /\ Emulating /\ Len(wire) < MaxEnds
  /\ wire' = Append(wire, [type |-> "SONG_END", tail |-> Len(snd.frames) * Frame, at |-> made])
  /\ snd' = [snd EXCEPT !.output = TRUE]
  /\ ended' = TRUE
  /\ UNCHANGED <<pc, made, hostVars>>

(* m68k_go() acknowledges the reboot; uadecore_reset() waits for a song and *)
(* uade_stop() forgets the one there was.                                   *)
Reboots ==
  /\ pc = "run" /\ snd.reboot
  /\ pc' = "reset" /\ host' = "none" /\ tail' = 0
  /\ UNCHANGED <<snd, made, ended, wire, stash, commands, read, wanted, heard>>

-----------------------------------------------------------------------------
(* uade_play(), with uadecore_reset(): the options include the filter, as   *)
(* the caller has left it in the configuration.                             *)
uade_play(v) ==
  /\ Idle /\ host = "none" /\ pc = "reset"
  /\ host' = "initialized" /\ pc' = "turn"
  /\ snd' = [snd EXCEPT !.frames = <<>>, !.output = FALSE, !.reboot = FALSE, !.filter = v]
  /\ wanted' = v /\ made' = 0 /\ ended' = FALSE /\ heard' = Unknown
  /\ UNCHANGED <<wire, tail, stash, commands, read>>

(* A command is queued with its size before it.  If there is no memory for  *)
(* the command, its size is erased.                                         *)
Command(v) == [i \in 1..CommandBytes |-> v]
Size == [i \in 1..SizeBytes |-> "size"]
Queued(f, data) == Kept(Fifo(f)!fifo_written(f, data))
MayFail(f, data) == Fifo(f)!Grows(f, Len(data))
Erased(f) == Kept(Fifo(f)!fifo_erase_tail(f, SizeBytes))

Accepted(v) == wanted' = v

queue_command(v) ==
  LET sized == Queued(commands, Size) IN
  \/ commands' = Queued(sized, Command(v)) /\ Accepted(v)
  \/ MayFail(commands, Size) /\ UNCHANGED <<commands, wanted>>
  \/ MayFail(sized, Command(v)) /\ commands' = Erased(sized) /\ UNCHANGED wanted

(* In S state the command is sent at once.                                  *)
uade_set_filter_state(v) ==
  /\ Idle /\ host \in {"initialized", "receive", "end", "wait"}
  /\ IF host = "initialized"
     THEN snd' = [snd EXCEPT !.filter = v] /\ Accepted(v) /\ UNCHANGED commands
     ELSE /\ Length(commands) < MaxCommands * (SizeBytes + CommandBytes)
          /\ queue_command(v) /\ UNCHANGED snd
  /\ UNCHANGED <<pc, made, ended, wire, host, tail, stash, read, heard>>

(* uade_stop() frees the fifos, waits for the core to end its turn and      *)
(* orders the reboot.                                                       *)
uade_stop ==
  /\ Idle /\ host \in {"initialized", "receive", "end", "wait"}
  /\ stash' = EmptyFifo /\ commands' = EmptyFifo /\ heard' = Unknown
  /\ host' = IF host = "initialized" THEN "ordering" ELSE "stopping"
  /\ UNCHANGED <<coreVars, wire, tail, read, wanted>>

Drains ==
  /\ host = "stopping" /\ wire # <<>>
  /\ wire' = Tail(wire)
  /\ host' = IF Head(wire).type = "TOKEN" THEN "ordering" ELSE host
  /\ UNCHANGED <<coreVars, tail, stash, commands, read, wanted, heard>>

OrdersReboot ==
  /\ host = "ordering"
  /\ snd' = [snd EXCEPT !.reboot = TRUE] /\ pc' = "run" /\ made' = 0
  /\ host' = "rebooting"
  /\ UNCHANGED <<ended, wire, tail, stash, commands, read, wanted, heard>>

-----------------------------------------------------------------------------
uade_read(bytes) ==
  /\ Idle /\ host \in {"initialized", "receive", "end", "wait"}
  /\ read' = [want |-> bytes, copied |-> 0]
  /\ UNCHANGED <<coreVars, wire, host, tail, stash, commands, wanted, heard>>

Returned == [want |-> 0, copied |-> 0]
Returns == read' = Returned

(* The first request is made without a look at the queue.                   *)
FirstRequest ==
  /\ ~Idle /\ host = "initialized"
  /\ host' = "receive" /\ pc' = "run" /\ snd' = [snd EXCEPT !.request = Block]
  /\ UNCHANGED <<made, ended, wire, tail, stash, commands, read, wanted, heard>>

(* Mutant: a read that has enough drops the rest of the block.              *)
FromStashDrops ==
  LET n == read.want - read.copied
      got == IF n < Length(stash) THEN n ELSE Length(stash)
  IN
  /\ ~Idle /\ Length(stash) > 0
  /\ stash' = IF got = n THEN EmptyFifo ELSE After(stash, n)
  /\ heard' = (heard + got) % ByteCount
  /\ read' = IF got = n THEN Returned ELSE [read EXCEPT !.copied = @ + got]
  /\ UNCHANGED <<coreVars, wire, host, tail, commands, wanted>>

FromStash ==
  LET n == read.want - read.copied
      got == IF n < Length(stash) THEN n ELSE Length(stash)
  IN
  /\ ~Idle /\ Length(stash) > 0
  /\ stash' = After(stash, n)
  /\ heard' = (heard + got) % ByteCount
  /\ read' = IF got = n THEN Returned ELSE [read EXCEPT !.copied = @ + got]
  /\ UNCHANGED <<coreVars, wire, host, tail, commands, wanted>>

Event(state, type) ==
  /\ ~Idle /\ Length(stash) = 0 /\ host \in state
  /\ wire # <<>> /\ Head(wire).type = type /\ wire' = Tail(wire)

HearsSongEnd ==
  /\ Event({"receive", "end"}, "SONG_END")
  /\ host' = "end" /\ tail' = Head(wire).tail
  /\ UNCHANGED <<coreVars, stash, commands, read, wanted, heard>>

(* The last block of a song is cut to its tail.  A block for which there is *)
(* no memory is lost.                                                       *)
TakesBlock ==
  /\ Event({"receive", "end"}, "DATA")
  /\ LET bytes == Bytes(Head(wire).frames)
         data == IF host = "end" THEN SubSeq(bytes, 1, tail) ELSE bytes
     IN  \/ /\ stash' = Queued(stash, data)
            /\ heard' = IF heard = Unknown /\ data # <<>> THEN data[1] ELSE heard
            /\ UNCHANGED read
         \/ /\ Fifo(stash)!Grows(stash, Len(data)) /\ Returns
            /\ heard' = Unknown /\ UNCHANGED stash
  /\ UNCHANGED <<coreVars, host, tail, commands, wanted>>

(* The end is told after the last block; another subsong may follow.  The   *)
(* tail is not looked at again.                                             *)
EndsSubsong ==
  /\ ~Idle /\ Length(stash) = 0 /\ host = "end" /\ wire # <<>> /\ Head(wire).type = "TOKEN"
  /\ \/ host' = "receive" /\ UNCHANGED read
     \/ host' = "wait" /\ Returns
  /\ heard' = Unknown /\ tail' = 0
  /\ UNCHANGED <<coreVars, wire, stash, commands, wanted>>

(* After an end a read gets nothing, or the next subsong, if the end was a  *)
(* crash before the last one.                                               *)
Waits ==
  /\ ~Idle /\ Length(stash) = 0 /\ host = "wait"
  /\ \/ Returns /\ UNCHANGED host
     \/ host' = "receive" /\ UNCHANGED read
  /\ UNCHANGED <<coreVars, wire, tail, stash, commands, wanted, heard>>

-----------------------------------------------------------------------------
(* The host's turn: the commands that wait, then the request for a block.   *)
TakesTurn ==
  /\ Event({"receive"}, "TOKEN") /\ host' = "turn"
  /\ UNCHANGED <<coreVars, tail, stash, commands, read, wanted, heard>>

SendsCommand ==
  /\ host = "turn" /\ Length(commands) > 0
  /\ LET sized == After(commands, SizeBytes) IN
       /\ commands' = After(sized, CommandBytes)
       /\ snd' = [snd EXCEPT !.filter = Contents(sized)[1]]
  /\ UNCHANGED <<pc, made, ended, wire, host, tail, stash, read, wanted, heard>>

Request ==
  /\ host' = "receive" /\ pc' = "run" /\ snd' = [snd EXCEPT !.request = Block]
  /\ UNCHANGED <<made, ended, wire, tail, stash, commands, read, wanted, heard>>

(* Mutant: the block is asked for before the commands are sent.             *)
RequestsAtOnce == host = "turn" /\ Request

RequestsBlock == host = "turn" /\ Length(commands) = 0 /\ Request

-----------------------------------------------------------------------------
Init ==
  /\ pc = "reset" /\ made = 0 /\ ended = FALSE /\ wire = <<>>
  /\ wanted \in Filters
  /\ snd = [frames |-> <<>>, request |-> 0, output |-> FALSE, reboot |-> FALSE, filter |-> wanted]
  /\ host = "none" /\ tail = 0 /\ stash = EmptyFifo /\ commands = EmptyFifo
  /\ read = Returned /\ heard = Unknown

Sample == Skips \/ Collects \/ SendsBlock
Core == Sample \/ MakesInBurst \/ StartsOutput \/ SongEnds \/ Reboots
Caller == \/ uade_stop \/ \E v \in Filters : uade_play(v) \/ uade_set_filter_state(v)
          \/ \E bytes \in ReadSizes : uade_read(bytes)
Host == \/ Drains \/ OrdersReboot \/ FirstRequest \/ FromStash \/ HearsSongEnd \/ TakesBlock
        \/ EndsSubsong \/ Waits \/ TakesTurn \/ SendsCommand \/ RequestsBlock

Next == Core \/ Caller \/ Host

Spec == Init /\ [][Next]_vars

(* The emulation goes on making frames.                                     *)
FairSpec == Spec /\ WF_vars(Sample)
-----------------------------------------------------------------------------
TypeOK ==
  /\ pc \in {"reset", "turn", "run"}
  /\ host \in {"none", "initialized", "receive", "end", "wait", "turn", "stopping", "ordering", "rebooting"}
  /\ snd.frames \in Seq(0..Numbers - 1) /\ snd.request \in {0, Block}
  /\ {snd.output, snd.reboot} \subseteq BOOLEAN /\ made \in 0..Numbers - 1 /\ tail \in 0..Block - 1
  /\ Length(stash) \in 0..stash.capacity /\ Length(commands) \in 0..commands.capacity
  /\ read.want \in ReadSizes \cup {0} /\ wanted \in Filters

(* The buffers keep within their bounds.  The comparison for equality in    *)
(* check_sound_buffers() meets every block: frames wait only below the      *)
(* request, and none while output has not begun; after a reboot command the *)
(* rest of an instruction fits.  The fifos grow behind bytes that are read  *)
(* but stay in proportion to what they held.                                *)
BuffersBounded ==
  /\ Len(snd.frames) * Frame <= SndSize
  /\ Emulating => /\ Len(snd.frames) * Frame < snd.request
                  /\ ~snd.output => snd.frames = <<>>
  /\ stash.capacity <= 8 * Block + 14
  /\ commands.capacity <= 8 * MaxCommands * (SizeBytes + CommandBytes) + 14

(* The tail the host cuts a block to, computed from sndbufpt when the end   *)
(* was announced last, before the block was full, is where the song ended   *)
(* in it.                                                                   *)
EndsAtTail ==
  \A i \in 1..Len(wire) - 1 :
    wire[i].type = "SONG_END" /\ wire[i + 1].type = "DATA" =>
      wire[i + 1].frames[(wire[i].tail \div Frame) + 1] = wire[i].at

(* The bytes in the stash are those due next, one after another: whatever   *)
(* the sizes of reads and blocks, nothing is lost, repeated or reordered on *)
(* the way from the buffer in the core, unless memory was refused.          *)
StashInOrder ==
  \A i \in 1..Length(stash) : Contents(stash)[i] = (heard + (i - 1)) % ByteCount

(* When a block is asked for, all commands accepted until then have reached *)
(* the core, the last one last, though some were refused memory half way.   *)
FilterFollows ==
  [][pc = "turn" /\ pc' = "run" /\ ~snd'.reboot => snd'.filter = wanted]_vars

(* Stash and commands are queues as fifo.h promises, in the hands of their  *)
(* users.                                                                   *)
StashQueue == INSTANCE UadeQueue
                WITH queue <- Contents(stash), Data <- 0..ByteCount - 1, MaxBytes <- Block
CommandQueue == INSTANCE UadeQueue
                  WITH queue <- Contents(commands), Data <- Filters \cup {"size"},
                       MaxBytes <- SizeBytes + CommandBytes
FifosAreQueues == StashQueue!Spec /\ CommandQueue!Spec

(* A block that was asked for is completed after the song's end, though the *)
(* emulated player may never begin its output ("uade must finish the        *)
(* pending sound data request").                                            *)
EndCompletesBlock == ended /\ Emulating ~> ~Emulating
=============================================================================
