---------------------------- MODULE UadeReading ----------------------------
(***************************************************************************)
(* The audio of one libuade state, from uadecore's blocks to the caller's  *)
(* buffer: uade_read(), the event loop under it, seeking, the change of    *)
(* subsongs and the ends of a song, of uadestate.c, and read_data() of the *)
(* plugin on top.  UadeSession models when messages may be exchanged; here *)
(* they always are, and what counts is which bytes they carry.             *)
(*                                                                         *)
(* Bytes are counted in units.  A block the core sends is identified by    *)
(* the subsong and the position it was really played from; the host never  *)
(* sees these.  The subsongs are 0..MaxSubsong.                            *)
(***************************************************************************)
EXTENDS Integers, Sequences

CONSTANTS
  Block,          (* units uade_read_request() asks for at a time          *)
  MaxSubsong,     (* info.subsongs.max; info.subsongs.min is 0             *)
  Length,         (* bound: no subsong plays on behind this position       *)
  SilenceLimit,   (* config.silence_timeout, config.timeout and            *)
  SongLimit,      (* config.subsong_timeout in units, -1 for none          *)
  SubsongLimit,
  ReadSizes,      (* sizes the caller asks uade_read() for                 *)
  SeekOffsets,    (* offsets it seeks to, or by                            *)
  MaxCalls        (* bound: calls to seek or change the subsong, per song  *)

ASSUME ReadingAssumption ==
  /\ Block \in Nat \ {0} /\ MaxSubsong \in Nat /\ Length \in Nat /\ MaxCalls \in Nat
  /\ {SilenceLimit, SongLimit, SubsongLimit} \subseteq Nat \cup {-1}
  /\ ReadSizes \subseteq Nat \ {0} /\ SeekOffsets \subseteq Nat

VARIABLES
  song,     (* the fields of uade_song_state that are about positions      *)
  seek,     (* and those about seeks and changes of subsong                *)
  stash,    (* state->readstash: rest of at most one block                 *)
  read,     (* the uade_read() in progress: bytes wanted and copied        *)
  told,     (* whether an end of song is among the notifications           *)
  status,   (* what read_data() has last returned                          *)
  core,     (* the block being asked for, the subsong and position played  *)
  wire,     (* messages from the core                                      *)
  calls,    (* number of seeks and subsong changes since uade_play()       *)
  due,      (* history: what the caller is to hear next                    *)
  over,     (* history: a read has returned 0, and no call changed that    *)
  limited   (* history: a limit has ended the song during a seek           *)

vars == <<song, seek, stash, read, told, status, core, wire, calls, due, over, limited>>
history == <<due, over, limited>>

Subsongs == 0..MaxSubsong
Lesser(a, b) == IF a < b THEN a ELSE b
NotSeeking == "NOT_SEEKING"
NoTrigger == [mode |-> NotSeeking, subsong |-> -1, offs |-> 0]
NoEnd == [tail |-> 0, stopnow |-> FALSE]
NotDue == [subsong |-> -1, at |-> 0]

(* memset() of uade_song_state. *)
NoSong == [state |-> "INVALID", cur |-> 0, def |-> 0, bytes |-> 0, subsongbytes |-> 0,
           silence |-> 0, end |-> NoEnd, one_subsong |-> FALSE]
NoSeek == [mode |-> NotSeeking, songoffs |-> 0, subsongoffs |-> 0,
           trigger |-> NoTrigger, next |-> FALSE]

Idle == read.want = 0
Playing == song.state \in {"RECEIVE_MSGS", "SONG_END_PENDING", "WAIT_SUBSONG_CHANGE"}

-----------------------------------------------------------------------------
(* Seeks are only noted, and start with the next turn.                      *)
Triggers(mode, subsong, offs) ==
  [seek EXCEPT !.trigger = [mode |-> mode, subsong |-> subsong, offs |-> offs]]

Called == /\ Idle /\ Playing /\ calls < MaxCalls
          /\ calls' = calls + 1 /\ over' = FALSE
          /\ UNCHANGED <<song, stash, read, told, status, core, wire, due, limited>>

(* uade_seek() to a time of a subsong, of the song, or by some time.        *)
SeekSubsong(subsong, offs) == Called /\ seek' = Triggers("SUBSONG_RELATIVE", subsong, offs)
SeekSong(offs) == Called /\ seek' = Triggers("SONG_RELATIVE", 0, offs)

SeekPosition(by) ==
  LET base == IF seek.mode # NotSeeking THEN seek.subsongoffs ELSE song.subsongbytes
      offs == IF base + by < 0 THEN 0 ELSE base + by
  IN  Called /\ seek' = Triggers("SUBSONG_RELATIVE", song.cur, offs)

uade_seek == \E offs \in SeekOffsets :
               \/ SeekSong(offs) \/ SeekPosition(offs) \/ SeekPosition(-offs)
               \/ \E subsong \in Subsongs : SeekSubsong(subsong, offs)

(* Mutant: the last subsong has a next one.                                 *)
HasNextAlways == song.cur <= MaxSubsong /\ ~song.one_subsong

(* uade_next_subsong(), by the caller and inside uade_read().               *)
HasNext == song.cur < MaxSubsong /\ ~song.one_subsong

uade_next_subsong == HasNext /\ Called /\ seek' = [seek EXCEPT !.next = TRUE]

-----------------------------------------------------------------------------
(* Mutant: the position is not restarted with the subsong.                  *)
RestartsCoreOnly(subsong) ==
  /\ song' = [song EXCEPT !.cur = subsong, !.silence = 0, !.end = NoEnd]
  /\ core' = [subsong |-> subsong, at |-> 0, asked |-> TRUE]

(* set_subsong() at the start of a turn: the command to uadecore, if any,   *)
(* restarts the position.                                                   *)
Restarts(subsong) ==
  /\ song' = [song EXCEPT !.cur = subsong, !.subsongbytes = 0, !.silence = 0, !.end = NoEnd]
  /\ core' = [subsong |-> subsong, at |-> 0, asked |-> TRUE]

GoesOn == song' = song /\ core' = [core EXCEPT !.asked = TRUE]

(* The next subsong stops a seek inside a subsong, and leaves a trigger.    *)
ToNextSubsong ==
  /\ seek.next
  /\ Restarts(song.cur + 1)
  /\ seek' = [seek EXCEPT !.next = FALSE,
                          !.mode = IF @ = "SONG_RELATIVE" THEN @ ELSE NotSeeking]
  /\ due' = IF seek.mode = "SONG_RELATIVE" THEN NotDue
            ELSE [subsong |-> song.cur + 1, at |-> 0]

Triggered(mode) == ~seek.next /\ seek.trigger.mode = mode

(* Mutant: the target is not compared with the position.                    *)
SubsongSeekOnwards ==
  /\ Triggered("SUBSONG_RELATIVE")
  /\ seek' = [seek EXCEPT !.mode = "SUBSONG_RELATIVE", !.subsongoffs = seek.trigger.offs,
                          !.trigger = NoTrigger]
  /\ IF seek.trigger.subsong # song.cur THEN Restarts(seek.trigger.subsong) ELSE GoesOn
  /\ due' = [subsong |-> seek.trigger.subsong, at |-> seek.trigger.offs]

ToSubsongPosition ==
  /\ Triggered("SUBSONG_RELATIVE")
  /\ seek' = [seek EXCEPT !.mode = "SUBSONG_RELATIVE", !.subsongoffs = seek.trigger.offs,
                          !.trigger = NoTrigger]
  /\ IF seek.trigger.subsong # song.cur \/ seek.trigger.offs < song.subsongbytes
     THEN Restarts(seek.trigger.subsong) ELSE GoesOn
  /\ due' = [subsong |-> seek.trigger.subsong, at |-> seek.trigger.offs]

(* A position of the song may lie in any subsong.                           *)
ToSongPosition ==
  /\ Triggered("SONG_RELATIVE")
  /\ seek' = [seek EXCEPT !.mode = "SONG_RELATIVE", !.songoffs = seek.trigger.offs,
                          !.trigger = NoTrigger]
  /\ IF seek.trigger.offs < song.bytes
     THEN /\ song' = [song EXCEPT !.cur = song.def, !.subsongbytes = 0, !.bytes = 0,
                                  !.silence = 0, !.end = NoEnd]
          /\ core' = [subsong |-> song.def, at |-> 0, asked |-> TRUE]
     ELSE GoesOn
  /\ due' = NotDue

NoChange == Triggered(NotSeeking) /\ GoesOn /\ UNCHANGED <<seek, due>>

-----------------------------------------------------------------------------
(* uade_play() up to the subsong info, from which the playing subsong is    *)
(* known.  A subsong asked for is sought, at its beginning; the host's      *)
(* first guess of the current subsong is 0.                                 *)
uade_play(subsong, default, one_subsong) ==
  LET first == IF subsong \in {-1, 0} THEN default ELSE subsong IN
  /\ Idle /\ song.state = "INVALID"
  /\ song' = [NoSong EXCEPT !.state = "RECEIVE_MSGS", !.cur = first, !.def = first,
                            !.one_subsong = one_subsong]
  /\ seek' = [NoSeek EXCEPT !.mode = IF subsong = -1 THEN NotSeeking ELSE "SUBSONG_RELATIVE"]
  /\ core' = [subsong |-> first, at |-> 0, asked |-> TRUE]
  /\ wire' = <<>> /\ calls' = 0
  /\ due' = [subsong |-> first, at |-> 0] /\ over' = FALSE /\ limited' = FALSE
  /\ UNCHANGED <<stash, read, told, status>>

uade_stop ==
  /\ Idle /\ Playing
  /\ song' = NoSong /\ seek' = NoSeek /\ stash' = [subsong |-> 0, from |-> 0, len |-> 0]
  /\ told' = FALSE /\ wire' = <<>> /\ core' = [core EXCEPT !.asked = FALSE]
  /\ calls' = 0 /\ due' = NotDue /\ over' = FALSE /\ limited' = FALSE /\ status' = "Ok"
  /\ UNCHANGED read

-----------------------------------------------------------------------------
(* The core fills the block that is asked for.  The end of the subsong may  *)
(* come anywhere in it, and announces how much of the block is still part   *)
(* of the subsong; the song is killed when the player crashes.              *)
Data(silent) == [type |-> "DATA", subsong |-> core.subsong, from |-> core.at, silent |-> silent]
Ends == {<<>>} \cup {<<[type |-> "SONG_END", tail |-> t, kill |-> k]>> : t \in 0..Block - 1, k \in BOOLEAN}

CoreBlock ==
  /\ core.asked
  /\ \E end \in Ends, silent \in BOOLEAN :
       /\ end = <<>> => core.at + Block <= Length
       /\ wire' = wire \o end \o <<Data(silent), [type |-> "TOKEN"]>>
  /\ core' = [core EXCEPT !.asked = FALSE, !.at = @ + Block]
  /\ UNCHANGED <<song, seek, stash, read, told, status, calls, history>>

-----------------------------------------------------------------------------
(* uade_read() forgets the notifications nobody has read.                   *)
uade_read(bytes) ==
  /\ Idle /\ Playing
  /\ read' = [want |-> bytes, copied |-> 0] /\ told' = FALSE
  /\ UNCHANGED <<song, seek, stash, status, core, wire, calls, history>>

(* It returns, and so does read_data(): finished if nothing was read and an *)
(* end of song was notified.                                                *)
ReturnsAt(copied, notified) ==
  /\ read' = [want |-> 0, copied |-> copied]
  /\ status' = IF copied = 0 /\ notified THEN "Finished" ELSE "Ok"
  /\ over' = (over \/ copied = 0)

FromStash ==
  LET n == Lesser(stash.len, read.want - read.copied) IN
  /\ ~Idle /\ stash.len > 0
  /\ stash' = [stash EXCEPT !.from = @ + n, !.len = @ - n]
  /\ IF read.copied + n = read.want THEN ReturnsAt(read.want, told)
     ELSE read' = [read EXCEPT !.copied = @ + n] /\ UNCHANGED <<status, over>>
  /\ UNCHANGED <<song, seek, told, core, wire, calls, due, limited>>

(* With an empty stash it takes the next event: one message, or the end of  *)
(* the song that came with the last one.                                    *)
Event(type) ==
  /\ ~Idle /\ stash.len = 0 /\ song.state \in {"RECEIVE_MSGS", "SONG_END_PENDING"}
  /\ wire # <<>> /\ Head(wire).type = type
  /\ wire' = Tail(wire)

(* set_end_event()                                                          *)
EndEvent(tail, happy, stopnow) ==
  [tail |-> tail, stopnow |-> ~happy \/ stopnow \/ song.cur >= MaxSubsong]

EventSongEnd ==
  /\ Event("SONG_END")
  /\ song' = [song EXCEPT !.state = "SONG_END_PENDING",
                          !.end = EndEvent(Head(wire).tail, ~Head(wire).kill, FALSE)]
  /\ UNCHANGED <<seek, stash, read, told, status, core, calls, history>>

EventReady ==
  /\ song.state = "RECEIVE_MSGS" /\ Event("TOKEN")
  /\ ToNextSubsong \/ ToSubsongPosition \/ ToSongPosition \/ NoChange
  /\ UNCHANGED <<stash, read, told, status, calls, over, limited>>

(* uade_read() hears of the end of a song: it returns, or lets the next     *)
(* subsong begin.                                                           *)
HearsEnd(end) ==
  /\ told' = TRUE
  /\ IF end.stopnow \/ ~HasNext
     THEN ReturnsAt(read.copied, TRUE) /\ UNCHANGED seek
     ELSE seek' = [seek EXCEPT !.next = TRUE] /\ UNCHANGED <<read, status, over>>

(* Mutant: the end stays pending after it has been heard.                   *)
EndPendingStill ==
  /\ ~Idle /\ stash.len = 0 /\ song.state = "SONG_END_PENDING"
  /\ Head(wire).type = "TOKEN"
  /\ HearsEnd(song.end)
  /\ UNCHANGED <<song, stash, core, wire, calls, due, limited>>

(* The event of a pending end comes after its last block, and once.         *)
EndPending ==
  /\ ~Idle /\ stash.len = 0 /\ song.state = "SONG_END_PENDING"
  /\ Head(wire).type = "TOKEN"
  /\ song' = [song EXCEPT !.state = "WAIT_SUBSONG_CHANGE"]
  /\ HearsEnd(song.end)
  /\ UNCHANGED <<stash, core, wire, calls, due, limited>>

(* Mutant: that no subsong is left is not notified.                         *)
WaitUnnotified ==
  /\ ~Idle /\ stash.len = 0 /\ song.state = "WAIT_SUBSONG_CHANGE"
  /\ IF HasNext
     THEN /\ song' = [song EXCEPT !.state = "RECEIVE_MSGS"]
          /\ seek' = [seek EXCEPT !.next = TRUE]
          /\ UNCHANGED <<read, status, over>>
     ELSE ReturnsAt(read.copied, told) /\ UNCHANGED <<song, seek>>
  /\ UNCHANGED <<told, stash, core, wire, calls, due, limited>>

WaitSubsongChange ==
  /\ ~Idle /\ stash.len = 0 /\ song.state = "WAIT_SUBSONG_CHANGE"
  /\ IF HasNext
     THEN /\ song' = [song EXCEPT !.state = "RECEIVE_MSGS"]
          /\ seek' = [seek EXCEPT !.next = TRUE]
          /\ UNCHANGED <<told, read, status, over>>
     ELSE /\ song' = [song EXCEPT !.end = EndEvent(0, TRUE, TRUE)]
          /\ told' = TRUE /\ ReturnsAt(read.copied, TRUE) /\ UNCHANGED seek
  /\ UNCHANGED <<stash, core, wire, calls, due, limited>>

-----------------------------------------------------------------------------
(* handle_data(): the block is counted, before anything else is made of it. *)
IsEnd == song.state = "SONG_END_PENDING"
Size == IF IsEnd THEN song.end.tail ELSE Block

(* uade_test_silence()                                                      *)
Silence == IF Head(wire).silent THEN song.silence + Block ELSE 0
SilenceEnds == SilenceLimit >= 0 /\ Head(wire).silent /\ Silence >= SilenceLimit

(* Mutant: the last block of a subsong is counted whole.                    *)
CountedWhole == [song EXCEPT !.bytes = @ + Block, !.subsongbytes = @ + Block,
                             !.silence = CASE IsEnd \/ SilenceLimit < 0 -> @
                                           [] SilenceEnds -> 0
                                           [] OTHER -> Silence]

Counted == [song EXCEPT !.bytes = @ + Size, !.subsongbytes = @ + Size,
                        !.silence = CASE IsEnd \/ SilenceLimit < 0 -> @
                                      [] SilenceEnds -> 0
                                      [] OTHER -> Silence]

(* test_timeouts()                                                          *)
SongTimesOut == SongLimit >= 0 /\ Counted.bytes >= SongLimit
SubsongTimesOut == SubsongLimit >= 0 /\ Counted.subsongbytes >= SubsongLimit
AtLimit == ~IsEnd /\ (SilenceEnds \/ SongTimesOut \/ SubsongTimesOut)

(* The block that reaches a limit is replaced by an end of the song, of     *)
(* which the song's state keeps no trace.                                   *)
DataAtLimit ==
  /\ Event("DATA") /\ AtLimit
  /\ LET end == EndEvent(0, TRUE, ~SilenceEnds /\ SongTimesOut)
     IN  song' = [Counted EXCEPT !.end = end] /\ HearsEnd(end)
  /\ due' = IF seek.mode = NotSeeking THEN [due EXCEPT !.at = @ + Block] ELSE due
  /\ limited' = (limited \/ seek.mode # NotSeeking)
  /\ UNCHANGED <<stash, core, calls>>

(* Mutant: the units behind the target are counted before the block is.     *)
BehindStale == IF seek.mode = "SONG_RELATIVE" THEN song.bytes - seek.songoffs
               ELSE song.subsongbytes - seek.subsongoffs

(* handle_seek(): units of the block that lie behind the target.            *)
Behind == IF seek.mode = "SONG_RELATIVE" THEN Counted.bytes - seek.songoffs
          ELSE Counted.subsongbytes - seek.subsongoffs

SeekDone == [seek EXCEPT !.mode = NotSeeking, !.songoffs = 0, !.subsongoffs = 0]
AfterSeek == IF seek.mode # NotSeeking /\ Behind >= 0 THEN SeekDone ELSE seek
AfterBlock == [subsong |-> Head(wire).subsong, at |-> Head(wire).from + Size]

DataSkipped ==
  /\ Event("DATA") /\ ~IsEnd /\ ~AtLimit
  /\ seek.mode # NotSeeking /\ Behind <= 0
  /\ song' = Counted /\ seek' = AfterSeek
  /\ due' = IF due = NotDue /\ Behind = 0 THEN AfterBlock ELSE due
  /\ UNCHANGED <<stash, read, told, status, core, calls, over, limited>>

(* The rest goes to the stash: all of it if nothing is sought, or if the    *)
(* subsong ends before the target.                                          *)
DataStashed ==
  LET all == seek.mode = NotSeeking \/ (IsEnd /\ Behind <= 0)
      n == IF all THEN Size ELSE Behind
  IN
  /\ Event("DATA") /\ ~AtLimit /\ (all \/ Behind \in 1..Size)
  /\ song' = Counted /\ seek' = AfterSeek
  /\ stash' = [subsong |-> Head(wire).subsong, from |-> Head(wire).from + Size - n, len |-> n]
  /\ due' = AfterBlock
  /\ UNCHANGED <<read, told, status, core, calls, over, limited>>

(* assert(skipfrombuffer >= 0) fails.                                       *)
Aborts ==
  /\ Event("DATA") /\ ~AtLimit /\ seek.mode # NotSeeking /\ Behind > Size
  /\ song' = [Counted EXCEPT !.state = "ABORTED"]
  /\ UNCHANGED <<seek, stash, read, told, status, core, calls, history>>

ReadStep == \/ FromStash \/ EventSongEnd \/ EventReady \/ EndPending \/ WaitSubsongChange
            \/ DataAtLimit \/ DataSkipped \/ DataStashed \/ Aborts

-----------------------------------------------------------------------------
Init ==
  /\ song = NoSong /\ seek = NoSeek
  /\ stash = [subsong |-> 0, from |-> 0, len |-> 0] /\ read = [want |-> 0, copied |-> 0]
  /\ told = FALSE /\ status = "Ok"
  /\ core = [subsong |-> 0, at |-> 0, asked |-> FALSE] /\ wire = <<>> /\ calls = 0
  /\ due = NotDue /\ over = FALSE /\ limited = FALSE

Caller == \/ \E subsong \in Subsongs \cup {-1}, default \in Subsongs, one \in BOOLEAN :
               uade_play(subsong, default, one)
          \/ \E bytes \in ReadSizes : uade_read(bytes)
          \/ uade_seek \/ uade_next_subsong \/ uade_stop

Next == Caller \/ CoreBlock \/ ReadStep

Spec == Init /\ [][Next]_vars

(* A call runs until it returns and the core fills the blocks it is asked   *)
(* for; nothing is assumed of the caller.                                   *)
FairSpec == Spec /\ WF_vars(ReadStep) /\ WF_vars(CoreBlock)
-----------------------------------------------------------------------------
Mode == {NotSeeking, "SONG_RELATIVE", "SUBSONG_RELATIVE"}

TypeOK ==
  /\ song.state \in {"INVALID", "RECEIVE_MSGS", "SONG_END_PENDING", "WAIT_SUBSONG_CHANGE", "ABORTED"}
  /\ song.cur \in Subsongs /\ song.def \in Subsongs /\ song.bytes \in Nat
  /\ song.subsongbytes \in 0..Length + Block /\ song.silence \in Nat /\ song.one_subsong \in BOOLEAN
  /\ song.end \in [tail : 0..Block - 1, stopnow : BOOLEAN]
  /\ seek.mode \in Mode /\ seek.songoffs \in Nat /\ seek.subsongoffs \in Nat /\ seek.next \in BOOLEAN
  /\ seek.trigger \in [mode : Mode, subsong : Subsongs \cup {-1}, offs : Nat]
  /\ stash \in [subsong : Subsongs, from : Nat, len : 0..Block]
  /\ read.want \in ReadSizes \cup {0} /\ read.copied \in Nat
  /\ told \in BOOLEAN /\ status \in {"Ok", "Finished"} /\ calls \in 0..MaxCalls
  /\ core \in [subsong : Subsongs, at : Nat, asked : BOOLEAN]
  /\ Len(wire) <= 3 /\ over \in BOOLEAN /\ limited \in BOOLEAN

(* The position the host counts from block sizes, restarts and the lengths  *)
(* of the last blocks is where the core really is.  So the target of a seek *)
(* lies in the block that reaches it, as handle_seek() asserts, unless a    *)
(* limit or silence ended the song during the seek.                         *)
Unread == IF \E i \in DOMAIN wire : wire[i].type = "DATA" THEN Block ELSE 0
PositionTrue ==
  /\ song.state = "RECEIVE_MSGS" /\ ~seek.next =>
       song.cur = core.subsong /\ song.subsongbytes + Unread = core.at
  /\ song.state = "ABORTED" => limited

(* Across partial reads, dropped blocks, restarts and changes of subsong,   *)
(* what reaches the caller goes on exactly where the last audio stopped, or *)
(* begins exactly at the target of a seek, in its subsong; nothing is heard *)
(* twice or left out.  Only the last part of a subsong that ends before the *)
(* target is heard during a seek (handle_data), and where a position of the *)
(* song lies is not known here.                                             *)
HeardExactly ==
  [][stash.len = 0 /\ stash'.len > 0 =>
       /\ stash'.subsong = song.cur
       /\ \/ stash'.subsong = due.subsong /\ stash'.from = due.at
          \/ due = NotDue
          \/ IsEnd /\ seek.mode # NotSeeking]_vars

(* When the end of a subsong is reported, all its audio has been delivered. *)
EndComesLast ==
  song.state = "WAIT_SUBSONG_CHANGE" =>
    /\ stash.len = 0
    /\ seek.mode = NotSeeking => due = [subsong |-> song.cur, at |-> song.subsongbytes]

(* A read returns, however far a seek has to go.                            *)
ReadReturns == ~Idle ~> Idle \/ song.state = "ABORTED"

(* A caller of read_data() that keeps reading is told of the end of the     *)
(* song the core has announced, though a notification that comes with audio *)
(* is flushed by the next read.                                             *)
KeepsReading == []<>~Idle
EndTold == KeepsReading =>
  (song.state = "WAIT_SUBSONG_CHANGE" ~> status = "Finished" \/ song.state # "WAIT_SUBSONG_CHANGE")

-----------------------------------------------------------------------------
(* What the API's documentation and an assertion say.                       *)

(* Once a read has returned 0, a read returns 0 again, indefinitely.        *)
EndIsFinal == over => read.copied = 0

(* A seek never passes its target by more than the block at hand.           *)
SeekStopsInBlock == song.state # "ABORTED"
=============================================================================
