------------------------- MODULE UadeReadingProofs -------------------------
(***************************************************************************)
(* Proofs about UadeReading, for blocks, limits and reads of any size, any *)
(* number of subsongs and of calls: the position the host counts is the    *)
(* one the core plays from, the caller hears what is due, without a gap or *)
(* a repetition, and hears all of a song before its end is told.           *)
(*                                                                         *)
(* The invariant says what can be on the way to the host, in its turn and  *)
(* in the core's, and how the positions of the two are related then.       *)
(***************************************************************************)
EXTENDS UadeReading, SequenceTheorems, TLAPS

(* The fields of the song, of its seeks and of a read.                     *)
SongType ==
  [state : {"INVALID", "RECEIVE_MSGS", "SONG_END_PENDING", "WAIT_SUBSONG_CHANGE", "ABORTED"},
   cur : Subsongs, def : Subsongs, bytes : Nat, subsongbytes : 0..Length + Block, silence : Nat,
   end : [tail : 0..Block - 1, stopnow : BOOLEAN], one_subsong : BOOLEAN]
SeekType ==
  [mode : Mode, songoffs : Nat, subsongoffs : Nat,
   trigger : [mode : Mode, subsong : Subsongs \cup {-1}, offs : Nat], next : BOOLEAN]

Types ==
  /\ TypeOK
  /\ song \in SongType /\ seek \in SeekType /\ read \in [want : ReadSizes \cup {0}, copied : Nat]
  /\ due \in [subsong : Subsongs \cup {-1}, at : Nat]

(* The messages of the core. The block that follows the position the host  *)
(* has counted is the one it has not heard of yet.                         *)
Token == [type |-> "TOKEN"]
SongEnd(tail, kill) == [type |-> "SONG_END", tail |-> tail, kill |-> kill]
DataOf(subsong, from, silent) == [type |-> "DATA", subsong |-> subsong, from |-> from, silent |-> silent]
Unheard(silent) == DataOf(song.cur, song.subsongbytes, silent)

(* What can be on the way to the host: the last two, three or one          *)
(* messages of what the core sends in its turn.                            *)
Nothing == wire = <<>>
TokenOnly == wire = <<Token>>
BlockLeft == \E silent \in BOOLEAN : wire = <<Unheard(silent), Token>>
EndLeft == \E tail \in 0..Block - 1, kill \in BOOLEAN, silent \in BOOLEAN :
             wire = <<SongEnd(tail, kill), Unheard(silent), Token>>

(* Nothing is on the way while it is the core's turn, and an end of the    *)
(* song is followed by the block it happened in.                           *)
Turns ==
  /\ Nothing \/ TokenOnly \/ BlockLeft \/ EndLeft
  /\ Nothing <=> core.asked \/ song.state = "INVALID"
  /\ core.asked => song.state = "RECEIVE_MSGS"
  /\ BlockLeft => song.state \in {"RECEIVE_MSGS", "SONG_END_PENDING"}
  /\ EndLeft => song.state = "RECEIVE_MSGS"

(* A block of the current subsong will be heard, or skipped, before the    *)
(* host's next turn or at it.                                              *)
Ahead == core.asked \/ BlockLeft \/ EndLeft \/ (song.state = "RECEIVE_MSGS" /\ ~seek.next)

(* The host counts the blocks it takes, the core those it has sent: they   *)
(* differ by the one on the way. No block begins behind the end of a       *)
(* subsong.                                                                *)
Position ==
  /\ song.state # "INVALID" => song.cur = core.subsong
  /\ core.asked => core.at = song.subsongbytes
  /\ core.asked => core.at <= Length
  /\ BlockLeft \/ EndLeft => song.subsongbytes + Block = core.at
  /\ BlockLeft /\ song.state = "RECEIVE_MSGS" => core.at <= Length
  /\ BlockLeft \/ EndLeft => core.at <= Length + Block
  /\ TokenOnly /\ song.state = "RECEIVE_MSGS" /\ ~seek.next =>
       song.subsongbytes = core.at /\ core.at <= Length

(* A subsong to change to is there. A seek is never behind its target      *)
(* while blocks are skipped, if no limit ended it.                         *)
Seeks ==
  /\ seek.next => HasNext
  /\ seek.trigger.mode = "SUBSONG_RELATIVE" => seek.trigger.subsong \in Subsongs
  /\ ~limited /\ Playing =>
       /\ seek.mode = "SUBSONG_RELATIVE" /\ Ahead => song.subsongbytes <= seek.subsongoffs
       /\ seek.mode = "SONG_RELATIVE" => song.bytes <= seek.songoffs
  /\ song.state = "ABORTED" => limited

(* What is due is what the position says, or the target of the seek.       *)
Heard ==
  /\ Playing /\ seek.mode = NotSeeking => due = [subsong |-> song.cur, at |-> song.subsongbytes]
  /\ Ahead /\ seek.mode = "SUBSONG_RELATIVE" => due = [subsong |-> song.cur, at |-> seek.subsongoffs]
  /\ Ahead /\ seek.mode = "SONG_RELATIVE" => due = NotDue

(* A read in progress wants more, and the last block is heard before the   *)
(* end.                                                                    *)
Reads ==
  /\ ~Idle => read.copied < read.want /\ song.state # "INVALID"
  /\ song.state = "WAIT_SUBSONG_CHANGE" => stash.len = 0

(* The inductive invariant.                                                *)
IInv == Types /\ Turns /\ Position /\ Seeks /\ Heard /\ Reads

(* Sequences of up to three messages.                                      *)
LEMMA Tuples ==
  /\ Len(<<>>) = 0
  /\ \A a : Len(<<a>>) = 1 /\ Head(<<a>>) = a /\ Tail(<<a>>) = <<>> /\ <<a>> # <<>>
  /\ \A a, b : Len(<<a, b>>) = 2 /\ Head(<<a, b>>) = a /\ Tail(<<a, b>>) = <<b>> /\ <<a, b>> # <<>>
  /\ \A a, b, c : /\ Len(<<a, b, c>>) = 3 /\ Head(<<a, b, c>>) = a /\ Tail(<<a, b, c>>) = <<b, c>>
                  /\ <<a, b, c>> # <<>>
OBVIOUS

(* What the core sends: a block and the turn, behind at most one end of a  *)
(* song.                                                                   *)
LEMMA Concatenated ==
  /\ \A b, c : <<>> \o <<>> \o <<b, c>> = <<b, c>>
  /\ \A a, b, c : <<>> \o <<a>> \o <<b, c>> = <<a, b, c>>
<1>1. ASSUME NEW b, NEW c PROVE <<>> \o <<>> \o <<b, c>> = <<b, c>>
  OBVIOUS
<1>2. ASSUME NEW a, NEW b, NEW c PROVE <<>> \o <<a>> \o <<b, c>> = <<a, b, c>>
  <2> DEFINE S == {a, b, c}
             s == <<a>>
             t == <<b, c>>
             u == <<a, b, c>>
  <2>1. /\ s \in Seq(S) /\ t \in Seq(S) /\ u \in Seq(S) /\ <<>> \o s = s
        /\ Len(s) = 1 /\ Len(t) = 2 /\ Len(u) = 3
        /\ s[1] = a /\ t[1] = b /\ t[2] = c /\ u[1] = a /\ u[2] = b /\ u[3] = c
    OBVIOUS
  <2> HIDE DEF s, t, u
  <2>2. s \o t = u
    <3> HIDE DEF S
    <3>6. s \in Seq(S) /\ t \in Seq(S)
      BY <2>1
    <3>7. /\ s \o t \in Seq(S) /\ Len(s \o t) = Len(s) + Len(t)
          /\ \A i \in 1..Len(s) + Len(t) :
               (s \o t)[i] = IF i <= Len(s) THEN s[i] ELSE t[i - Len(s)]
      BY <3>6, ConcatProperties
    <3>1. s \o t \in Seq(S) /\ Len(s \o t) = 3
      BY <2>1, <3>7
    <3>5. \A i \in 1..3 : (s \o t)[i] = IF i <= 1 THEN s[i] ELSE t[i - 1]
      <4> SUFFICES ASSUME NEW i \in 1..3 PROVE (s \o t)[i] = IF i <= 1 THEN s[i] ELSE t[i - 1]
        OBVIOUS
      <4>1. i \in 1..Len(s) + Len(t)
        BY <2>1
      <4>2. (s \o t)[i] = IF i <= Len(s) THEN s[i] ELSE t[i - Len(s)]
        BY <3>7, <4>1
      <4> QED BY <2>1, <4>2
    <3>2. (s \o t)[1] = a /\ (s \o t)[2] = b /\ (s \o t)[3] = c
      <4>1. 1 \in 1..3 /\ 2 \in 1..3 /\ 3 \in 1..3 /\ 2 - 1 = 1 /\ 3 - 1 = 2 /\ 1 <= 1 /\ ~(2 <= 1) /\ ~(3 <= 1)
        OBVIOUS
      <4> QED BY <2>1, <3>5, <4>1
    <3>3. \A i \in 1..3 : i = 1 \/ i = 2 \/ i = 3
      OBVIOUS
    <3>4. \A i \in 1..Len(u) : (s \o t)[i] = u[i]
      BY <2>1, <3>2, <3>3
    <3> QED BY <2>1, <3>1, <3>4, SeqEqual
  <2> QED BY <2>1, <2>2 DEF s, t, u
<1> QED BY <1>1, <1>2

(* The shapes of what is on the way are told apart by their lengths.       *)
LEMMA Lengths ==
  /\ Nothing => Len(wire) = 0
  /\ TokenOnly => Len(wire) = 1
  /\ BlockLeft => Len(wire) = 2
  /\ EndLeft => Len(wire) = 3
  /\ Nothing' => Len(wire') = 0
  /\ TokenOnly' => Len(wire') = 1
  /\ BlockLeft' => Len(wire') = 2
  /\ EndLeft' => Len(wire') = 3
BY Tuples DEF Nothing, TokenOnly, BlockLeft, EndLeft

(* The type of the first message tells the shape of what is on the way,    *)
(* and what is left of it.                                                 *)
LEMMA Read ==
  ASSUME Turns, NEW type, Event(type)
  PROVE  /\ type = "TOKEN" => TokenOnly /\ wire' = <<>> /\ Nothing'
         /\ type = "DATA" =>
              /\ BlockLeft /\ wire' = <<Token>> /\ TokenOnly'
              /\ \E silent \in BOOLEAN : Head(wire) = Unheard(silent)
         /\ type = "SONG_END" =>
              /\ EndLeft
              /\ \E tail \in 0..Block - 1, kill \in BOOLEAN, silent \in BOOLEAN :
                   Head(wire) = SongEnd(tail, kill) /\ wire' = <<Unheard(silent), Token>>
<1>1. wire # <<>> /\ Head(wire).type = type /\ wire' = Tail(wire)
  BY DEF Event
<1>2. CASE TokenOnly
  <2>1. Head(wire) = Token /\ wire' = <<>> /\ type = "TOKEN"
    BY <1>1, <1>2, Tuples DEF TokenOnly, Token
  <2> QED BY <1>2, <2>1 DEF Nothing
<1>3. CASE BlockLeft
  <2>1. PICK silent \in BOOLEAN : wire = <<Unheard(silent), Token>>
    BY <1>3 DEF BlockLeft
  <2>2. Head(wire) = Unheard(silent) /\ wire' = <<Token>>
    BY <1>1, <2>1, Tuples
  <2>3. type = "DATA"
    BY <1>1, <2>2 DEF Unheard, DataOf
  <2> QED BY <1>3, <2>2, <2>3 DEF TokenOnly
<1>4. CASE EndLeft
  <2>1. PICK tail \in 0..Block - 1, kill \in BOOLEAN, silent \in BOOLEAN :
          wire = <<SongEnd(tail, kill), Unheard(silent), Token>>
    BY <1>4 DEF EndLeft
  <2>2. Head(wire) = SongEnd(tail, kill) /\ wire' = <<Unheard(silent), Token>>
    BY <1>1, <2>1, Tuples
  <2>3. type = "SONG_END"
    BY <1>1, <2>2 DEF SongEnd
  <2> QED BY <1>4, <2>2, <2>3
<1> QED BY <1>1, <1>2, <1>3, <1>4 DEF Turns, Nothing

(* The variables of the next state, one by one.                            *)
LEMMA TypesKept ==
  ASSUME IInv, song' \in SongType, seek' \in SeekType,
         read' \in [want : ReadSizes \cup {0}, copied : Nat],
         due' \in [subsong : Subsongs \cup {-1}, at : Nat],
         stash' \in [subsong : Subsongs, from : Nat, len : 0..Block],
         core' \in [subsong : Subsongs, at : Nat, asked : BOOLEAN],
         told' \in BOOLEAN, status' \in {"Ok", "Finished"}, calls' \in 0..MaxCalls,
         Len(wire') <= 3, over' \in BOOLEAN, limited' \in BOOLEAN
  PROVE  Types'
<1>1. /\ song'.state \in {"INVALID", "RECEIVE_MSGS", "SONG_END_PENDING", "WAIT_SUBSONG_CHANGE", "ABORTED"}
      /\ song'.cur \in Subsongs /\ song'.def \in Subsongs /\ song'.bytes \in Nat
      /\ song'.subsongbytes \in 0..Length + Block /\ song'.silence \in Nat /\ song'.one_subsong \in BOOLEAN
      /\ song'.end \in [tail : 0..Block - 1, stopnow : BOOLEAN]
  BY DEF SongType
<1>2. /\ seek'.mode \in Mode /\ seek'.songoffs \in Nat /\ seek'.subsongoffs \in Nat /\ seek'.next \in BOOLEAN
      /\ seek'.trigger \in [mode : Mode, subsong : Subsongs \cup {-1}, offs : Nat]
  BY DEF SeekType
<1>3. read'.want \in ReadSizes \cup {0} /\ read'.copied \in Nat
  OBVIOUS
<1> QED BY <1>1, <1>2, <1>3 DEF Types, TypeOK

(* The variables of a state, one by one.                                   *)
LEMMA HasTypes ==
  ASSUME IInv
  PROVE  /\ song \in SongType /\ seek \in SeekType
         /\ read \in [want : ReadSizes \cup {0}, copied : Nat]
         /\ due \in [subsong : Subsongs \cup {-1}, at : Nat]
         /\ stash \in [subsong : Subsongs, from : Nat, len : 0..Block]
         /\ core \in [subsong : Subsongs, at : Nat, asked : BOOLEAN]
         /\ told \in BOOLEAN /\ status \in {"Ok", "Finished"} /\ calls \in 0..MaxCalls
         /\ Len(wire) <= 3 /\ over \in BOOLEAN /\ limited \in BOOLEAN
BY DEF IInv, Types, TypeOK

-----------------------------------------------------------------------------
(* Calls between reads leave the audio and the position alone.              *)
LEMMA SameShape ==
  ASSUME wire' = wire, song'.cur = song.cur, song'.subsongbytes = song.subsongbytes
  PROVE  /\ Nothing' = Nothing /\ TokenOnly' = TokenOnly /\ BlockLeft' = BlockLeft /\ EndLeft' = EndLeft
BY DEF Nothing, TokenOnly, BlockLeft, EndLeft, Unheard

(* A call between reads changes nothing but what is to be done at the      *)
(* next turn.                                                              *)
LEMMA CalledInv ==
  ASSUME IInv, Called, seek' \in SeekType, seek'.mode = seek.mode,
         seek'.songoffs = seek.songoffs, seek'.subsongoffs = seek.subsongoffs,
         seek.next => seek'.next, seek'.next => HasNext,
         seek'.trigger.mode = "SUBSONG_RELATIVE" => seek'.trigger.subsong \in Subsongs
  PROVE  IInv'
<1>1. /\ calls' = calls + 1 /\ calls < MaxCalls /\ over' = FALSE /\ Playing
      /\ UNCHANGED <<song, stash, read, told, status, core, wire, due, limited>>
  BY DEF Called
<1>2. /\ Nothing' = Nothing /\ TokenOnly' = TokenOnly /\ BlockLeft' = BlockLeft /\ EndLeft' = EndLeft
  BY <1>1, SameShape
<1>3. Types'
  <2>1. calls + 1 \in 0..MaxCalls
    BY <1>1, ReadingAssumption DEF IInv, Types, TypeOK
  <2> QED BY ZenonT(60), <1>1, <2>1 DEF IInv, Types, TypeOK, SeekType
<1>4. Turns' /\ Reads'
  BY <1>1, <1>2 DEF IInv, Turns, Reads, Idle
<1>5. Position'
  BY <1>1, <1>2 DEF IInv, Position
<1>6. Ahead' => Ahead
  BY <1>1, <1>2 DEF Ahead
<1>7. Seeks'
  BY <1>1, <1>6 DEF IInv, Seeks, Playing, HasNext
<1>8. Heard'
  BY <1>1, <1>6 DEF IInv, Heard, Playing
<1> QED BY <1>3, <1>4, <1>5, <1>7, <1>8 DEF IInv

(* Seeks, and the next subsong.                                            *)
LEMMA CallsInv == ASSUME IInv, uade_seek \/ uade_next_subsong PROVE IInv'
<1>1. /\ seek \in SeekType /\ song.cur \in Subsongs /\ song.subsongbytes \in Nat /\ 0 \in Subsongs
      /\ (seek.next => HasNext)
  <2>1. 0 \in Subsongs /\ song.subsongbytes \in 0..Length + Block
    BY ReadingAssumption DEF Subsongs, IInv, Types, TypeOK
  <2>2. song.subsongbytes \in Nat
    BY <2>1, ReadingAssumption
  <2> QED BY <2>1, <2>2 DEF IInv, Types, TypeOK, Seeks
<1>2. ASSUME NEW mode \in Mode, NEW subsong \in Subsongs, NEW offs \in Nat, Called,
             seek' = Triggers(mode, subsong, offs)
      PROVE  IInv'
  <2>1. /\ seek' \in SeekType /\ seek'.mode = seek.mode /\ seek'.next = seek.next
        /\ seek'.songoffs = seek.songoffs /\ seek'.subsongoffs = seek.subsongoffs
        /\ seek'.trigger = [mode |-> mode, subsong |-> subsong, offs |-> offs]
    BY <1>1, <1>2 DEF Triggers, SeekType
  <2> QED BY <1>1, <1>2, <2>1, CalledInv
<1>3. ASSUME NEW offs \in SeekOffsets, NEW by \in {offs, -offs}, SeekPosition(by) PROVE IInv'
  <2> DEFINE base == IF seek.mode # NotSeeking THEN seek.subsongoffs ELSE song.subsongbytes
             target == IF base + by < 0 THEN 0 ELSE base + by
  <2>1. base \in Nat /\ by \in Int
    BY <1>1, ReadingAssumption DEF SeekType
  <2> HIDE DEF base
  <2>2. target \in Nat
    BY <2>1
  <2>3. Called /\ seek' = Triggers("SUBSONG_RELATIVE", song.cur, target)
    BY <1>3 DEF SeekPosition, base
  <2>4. "SUBSONG_RELATIVE" \in Mode
    BY DEF Mode
  <2> HIDE DEF target
  <2> QED BY <1>1, <1>2, <2>2, <2>3, <2>4
<1>4. CASE uade_seek
  <2>1. PICK offs \in SeekOffsets :
          \/ SeekSong(offs) \/ SeekPosition(offs) \/ SeekPosition(-offs)
          \/ \E subsong \in Subsongs : SeekSubsong(subsong, offs)
    BY <1>4 DEF uade_seek
  <2>2. offs \in Nat /\ {"SONG_RELATIVE", "SUBSONG_RELATIVE"} \subseteq Mode
    BY ReadingAssumption DEF Mode
  <2>3. CASE SeekSong(offs)
    BY <1>1, <1>2, <2>2, <2>3 DEF SeekSong
  <2>4. CASE \E subsong \in Subsongs : SeekSubsong(subsong, offs)
    BY <1>2, <2>2, <2>4 DEF SeekSubsong
  <2> QED BY <1>3, <2>1, <2>3, <2>4
<1>5. CASE uade_next_subsong
  <2>1. /\ HasNext /\ Called /\ seek' = [seek EXCEPT !.next = TRUE]
    BY <1>5 DEF uade_next_subsong
  <2>2. /\ seek' \in SeekType /\ seek'.mode = seek.mode /\ seek'.trigger = seek.trigger
        /\ seek'.songoffs = seek.songoffs /\ seek'.subsongoffs = seek.subsongoffs /\ seek'.next
    BY <1>1, <2>1 DEF SeekType
  <2> QED BY <2>1, <2>2, CalledInv DEF IInv, Seeks
<1> QED BY <1>4, <1>5

(* A new song: its first turn is the core's.                               *)
LEMMA uade_playInv ==
  ASSUME IInv, NEW subsong \in Subsongs \cup {-1}, NEW default \in Subsongs, NEW one \in BOOLEAN,
         uade_play(subsong, default, one)
  PROVE  IInv'
<1> DEFINE first == IF subsong \in {-1, 0} THEN default ELSE subsong
           mode == IF subsong = -1 THEN NotSeeking ELSE "SUBSONG_RELATIVE"
<1>1. first \in Subsongs /\ mode \in {NotSeeking, "SUBSONG_RELATIVE"}
  OBVIOUS
<1>2. /\ song' = [NoSong EXCEPT !.state = "RECEIVE_MSGS", !.cur = first, !.def = first, !.one_subsong = one]
      /\ seek' = [NoSeek EXCEPT !.mode = mode]
      /\ core' = [subsong |-> first, at |-> 0, asked |-> TRUE] /\ wire' = <<>> /\ calls' = 0
      /\ due' = [subsong |-> first, at |-> 0] /\ over' = FALSE /\ limited' = FALSE
      /\ UNCHANGED <<stash, read, told, status>> /\ Idle
  BY DEF uade_play
<1> HIDE DEF first, mode
<1>3. /\ song'.state = "RECEIVE_MSGS" /\ song'.cur = first /\ song'.subsongbytes = 0 /\ song'.bytes = 0
      /\ seek'.mode = mode /\ seek'.subsongoffs = 0 /\ ~seek'.next /\ seek'.trigger.mode = NotSeeking
  BY <1>2 DEF NoSong, NoSeek, NoTrigger
<1>4. Types'
  <2>1. 0 \in 0..Length + Block /\ 0 \in 0..Block - 1 /\ 0 \in 0..MaxCalls /\ 0 \in Nat /\ Len(<<>>) <= 3
    BY ReadingAssumption, Tuples
  <2>2. song' \in SongType
    BY <1>1, <1>2, <2>1 DEF SongType, NoSong, NoEnd
  <2>3. seek' \in SeekType
    BY <1>1, <1>2, <2>1 DEF SeekType, NoSeek, NoTrigger, Mode
  <2>4. read' \in [want : ReadSizes \cup {0}, copied : Nat] /\ due' \in [subsong : Subsongs \cup {-1}, at : Nat]
    BY <1>1, <1>2 DEF IInv, Types
  <2>5. core' \in [subsong : Subsongs, at : Nat, asked : BOOLEAN]
    BY <1>1, <1>2
  <2> QED BY <1>2, <2>1, <2>2, <2>3, <2>4, <2>5 DEF IInv, Types, TypeOK, SongType, SeekType
<1>5. Nothing' /\ ~TokenOnly' /\ ~BlockLeft' /\ ~EndLeft'
  BY <1>2, Lengths DEF Nothing
<1>6. Turns' /\ Position'
  BY <1>2, <1>3, <1>5, ReadingAssumption DEF Turns, Position
<1>7. Seeks' /\ Heard' /\ Reads'
  BY <1>1, <1>2, <1>3 DEF Seeks, Heard, Reads, Playing, Idle, NotSeeking
<1> QED BY <1>4, <1>6, <1>7 DEF IInv

(* Nothing is left of a song that is stopped.                              *)
LEMMA uade_stopInv == ASSUME IInv, uade_stop PROVE IInv'
<1>1. /\ song' = NoSong /\ seek' = NoSeek /\ stash' = [subsong |-> 0, from |-> 0, len |-> 0]
      /\ told' = FALSE /\ wire' = <<>> /\ core' = [core EXCEPT !.asked = FALSE]
      /\ calls' = 0 /\ due' = NotDue /\ over' = FALSE /\ limited' = FALSE /\ status' = "Ok"
      /\ UNCHANGED read /\ Idle
  BY DEF uade_stop
<1>2. /\ song'.state = "INVALID" /\ seek'.mode = NotSeeking /\ ~seek'.next /\ seek'.trigger.mode = NotSeeking
  BY <1>1 DEF NoSong, NoSeek, NoTrigger
<1>3. core' \in [subsong : Subsongs, at : Nat, asked : BOOLEAN] /\ ~core'.asked
  BY <1>1 DEF IInv, Types, TypeOK
<1>4. Types'
  <2>1. /\ 0 \in 0..Length + Block /\ 0 \in 0..Block - 1 /\ 0 \in 0..MaxCalls /\ 0 \in Nat /\ Len(<<>>) <= 3
        /\ 0 \in Subsongs /\ 0 \in 0..Block
    BY ReadingAssumption, Tuples DEF Subsongs
  <2>2. song' \in SongType
    BY <1>1, <2>1 DEF SongType, NoSong, NoEnd
  <2>3. seek' \in SeekType
    BY <1>1, <2>1 DEF SeekType, NoSeek, NoTrigger, Mode
  <2>4. /\ read' \in [want : ReadSizes \cup {0}, copied : Nat] /\ due' \in [subsong : Subsongs \cup {-1}, at : Nat]
        /\ stash' \in [subsong : Subsongs, from : Nat, len : 0..Block]
    BY <1>1, <2>1 DEF IInv, Types, NotDue
  <2> QED BY <1>1, <1>3, <2>1, <2>2, <2>3, <2>4 DEF IInv, Types, TypeOK, SongType, SeekType
<1>5. Nothing' /\ ~TokenOnly' /\ ~BlockLeft' /\ ~EndLeft'
  BY <1>1, Lengths DEF Nothing
<1>6. Turns' /\ Position'
  BY <1>2, <1>3, <1>5 DEF Turns, Position
<1>7. Seeks' /\ Heard' /\ Reads'
  BY <1>1, <1>2, <1>3, <1>5 DEF Seeks, Heard, Reads, Playing, Idle, Ahead, NotSeeking
<1> QED BY <1>4, <1>6, <1>7 DEF IInv

(* The core's block is the audio that follows the position.                 *)
LEMMA CoreBlockInv == ASSUME IInv, CoreBlock PROVE IInv'
<1> DEFINE data(silent) == DataOf(core.subsong, core.at, silent)
<1>1. PICK end \in Ends, silent \in BOOLEAN :
        /\ end = <<>> => core.at + Block <= Length
        /\ wire' = wire \o end \o <<data(silent), Token>>
        /\ core' = [core EXCEPT !.asked = FALSE, !.at = core.at + Block]
        /\ UNCHANGED <<song, seek, stash, read, told, status, calls, due, over, limited>>
  BY DEF CoreBlock, Data, history, DataOf, Token
<1>2. /\ core.asked /\ wire = <<>> /\ song.state = "RECEIVE_MSGS" /\ song.cur = core.subsong
      /\ core.at = song.subsongbytes /\ core.at <= Length /\ core.at \in Nat
      /\ Block \in Nat \ {0} /\ Length \in Nat
  BY ReadingAssumption DEF CoreBlock, IInv, Types, TypeOK, Turns, Nothing, Position
<1>3. data(silent) = Unheard(silent)
  BY <1>2 DEF Unheard
<1> HIDE DEF data
<1>4. core' \in [subsong : Subsongs, at : Nat, asked : BOOLEAN] /\ ~core'.asked
      /\ core'.at = core.at + Block /\ core'.subsong = core.subsong
  <2>1. core.at + Block \in Nat
    BY <1>2
  <2>2. core \in [subsong : Subsongs, at : Nat, asked : BOOLEAN]
    BY DEF IInv, Types, TypeOK
  <2> QED BY <1>1, <2>1, <2>2
<1>5. \/ BlockLeft' /\ core'.at <= Length
      \/ EndLeft'
  <2>1. CASE end = <<>>
    <3>1. wire' = <<data(silent), Token>>
      BY <1>1, <1>2, <2>1, Concatenated
    <3>2. wire' = <<Unheard(silent)', Token>>
      BY <1>1, <1>3, <3>1 DEF Unheard
    <3> QED BY <1>1, <1>4, <2>1, <3>2 DEF BlockLeft
  <2>2. CASE end # <<>>
    <3>1. PICK tail \in 0..Block - 1, kill \in BOOLEAN : end = <<SongEnd(tail, kill)>>
      BY <1>1, <2>2 DEF Ends, SongEnd
    <3>2. wire' = <<SongEnd(tail, kill), data(silent), Token>>
      BY <1>1, <1>2, <3>1, Concatenated
    <3>3. wire' = <<SongEnd(tail, kill), Unheard(silent)', Token>>
      BY <1>1, <1>3, <3>2 DEF Unheard
    <3> QED BY <3>3 DEF EndLeft
  <2> QED BY <2>1, <2>2
<1>6. ~Nothing' /\ ~TokenOnly' /\ (BlockLeft' => ~EndLeft') /\ Len(wire') <= 3
  <2>1. CASE BlockLeft'
    <3>1. Len(wire') = 2
      BY <2>1, Lengths
    <3> QED BY <3>1, Lengths
  <2>2. CASE EndLeft'
    <3>1. Len(wire') = 3
      BY <2>2, Lengths
    <3> QED BY <3>1, Lengths
  <2> QED BY <1>5, <2>1, <2>2
<1>7. Types'
  BY <1>1, <1>4, <1>6 DEF IInv, Types, TypeOK
<1>8. Turns'
  BY <1>1, <1>2, <1>4, <1>5, <1>6 DEF IInv, Turns
<1>9. Position'
  <2>1. core'.at = song.subsongbytes + Block /\ core'.at <= Length + Block
    BY <1>2, <1>4
  <2> QED BY <1>1, <1>2, <1>4, <1>5, <1>6, <2>1 DEF IInv, Position
<1>10. Ahead
  BY <1>2 DEF Ahead
<1>11. Seeks' /\ Heard' /\ Reads'
  BY <1>1, <1>10 DEF IInv, Seeks, Heard, Reads, Playing, HasNext, Idle
<1> QED BY <1>7, <1>8, <1>9, <1>11 DEF IInv

-----------------------------------------------------------------------------
(* Steps of a read that take no message.                                    *)
LEMMA uade_readInv == ASSUME IInv, NEW bytes \in ReadSizes, uade_read(bytes) PROVE IInv'
<1>1. /\ Playing /\ read' = [want |-> bytes, copied |-> 0] /\ told' = FALSE
      /\ UNCHANGED <<song, seek, stash, status, core, wire, calls, due, over, limited>>
  BY DEF uade_read, history
<1>2. /\ Nothing' = Nothing /\ TokenOnly' = TokenOnly /\ BlockLeft' = BlockLeft /\ EndLeft' = EndLeft
  BY <1>1, SameShape
<1>3. Types' /\ 0 < bytes
  <2>1. 0 < bytes /\ bytes \in ReadSizes \cup {0} /\ 0 \in Nat
    BY ReadingAssumption
  <2>2. read' \in [want : ReadSizes \cup {0}, copied : Nat] /\ told' \in BOOLEAN
    BY <1>1, <2>1
  <2> QED BY <1>1, <2>1, <2>2 DEF IInv, Types, TypeOK
<1>4. Turns' /\ Position'
  BY <1>1, <1>2 DEF IInv, Turns, Position
<1>5. Seeks' /\ Heard' /\ Reads'
  BY <1>1, <1>2, <1>3 DEF IInv, Seeks, Heard, Reads, Playing, HasNext, Idle, Ahead
<1> QED BY <1>3, <1>4, <1>5 DEF IInv

(* A read that is served from the stash moves on in what is due.           *)
LEMMA FromStashInv == ASSUME IInv, FromStash PROVE IInv'
<1> DEFINE n == Lesser(stash.len, read.want - read.copied)
<1>1. /\ ~Idle /\ stash.len > 0 /\ stash' = [stash EXCEPT !.from = stash.from + n, !.len = stash.len - n]
      /\ UNCHANGED <<song, seek, told, core, wire, calls, due, limited>>
  BY DEF FromStash
<1>2. /\ read \in [want : ReadSizes \cup {0}, copied : Nat] /\ stash \in [subsong : Subsongs, from : Nat, len : 0..Block]
      /\ read.want \in Nat /\ read.copied < read.want /\ song.state # "INVALID" /\ Block \in Nat
  BY <1>1, ReadingAssumption DEF IInv, Types, TypeOK, Reads
<1>3. n \in Nat /\ n >= 1 /\ n <= stash.len /\ read.copied + n <= read.want
  BY <1>1, <1>2 DEF Lesser
<1>4. \/ read' = [want |-> 0, copied |-> read.want] /\ over' \in BOOLEAN /\ status' \in {"Ok", "Finished"}
      \/ /\ read' = [read EXCEPT !.copied = read.copied + n] /\ UNCHANGED <<status, over>>
         /\ read.copied + n # read.want
  BY <1>2, <1>3 DEF FromStash, ReturnsAt, IInv, Types, TypeOK
<1> HIDE DEF n
<1>5. stash' \in [subsong : Subsongs, from : Nat, len : 0..Block] /\ (stash.len = 0 => stash'.len = 0)
  <2>1. stash.from + n \in Nat /\ stash.len - n \in 0..Block
    BY <1>2, <1>3
  <2>2. stash' \in [subsong : Subsongs, from : Nat, len : 0..Block]
    BY <1>1, <1>2, <2>1
  <2>3. stash.len # 0
    BY <1>1
  <2> QED BY <2>2, <2>3
<1>6. /\ read' \in [want : ReadSizes \cup {0}, copied : Nat]
      /\ (read'.want # 0 => read'.copied < read'.want)
      /\ over' \in BOOLEAN /\ status' \in {"Ok", "Finished"}
  <2>1. CASE read' = [want |-> 0, copied |-> read.want] /\ over' \in BOOLEAN /\ status' \in {"Ok", "Finished"}
    BY <1>2, <2>1
  <2>2. CASE read' = [read EXCEPT !.copied = read.copied + n] /\ UNCHANGED <<status, over>> /\ read.copied + n # read.want
    <3>1. read.copied + n \in Nat /\ read.copied + n < read.want
      BY <1>2, <1>3, <2>2
    <3>2. read' \in [want : ReadSizes \cup {0}, copied : Nat] /\ read'.copied < read'.want
      BY <1>2, <2>2, <3>1
    <3> QED BY <2>2, <3>2 DEF IInv, Types, TypeOK
  <2> QED BY <1>4, <2>1, <2>2
<1>7. Types'
  BY <1>1, <1>5, <1>6 DEF IInv, Types, TypeOK
<1>8. /\ Nothing' = Nothing /\ TokenOnly' = TokenOnly /\ BlockLeft' = BlockLeft /\ EndLeft' = EndLeft
  BY <1>1, SameShape
<1>9. Turns' /\ Position'
  BY <1>1, <1>8 DEF IInv, Turns, Position
<1>10. Seeks' /\ Heard' /\ Reads'
  BY <1>1, <1>2, <1>5, <1>6, <1>8 DEF IInv, Seeks, Heard, Reads, Playing, HasNext, Idle, Ahead
<1> QED BY <1>7, <1>9, <1>10 DEF IInv

-----------------------------------------------------------------------------
(* A step of a read that goes on, or returns.                               *)
LEMMA Returns ==
  ASSUME IInv, ~Idle, NEW notified \in BOOLEAN,
         ReturnsAt(read.copied, notified) \/ UNCHANGED <<read, status, over>>
  PROVE  /\ read' \in [want : ReadSizes \cup {0}, copied : Nat]
         /\ (read'.want # 0 => read'.copied < read'.want)
         /\ over' \in BOOLEAN /\ status' \in {"Ok", "Finished"}
<1>1. /\ read \in [want : ReadSizes \cup {0}, copied : Nat] /\ read.copied < read.want
      /\ over \in BOOLEAN /\ status \in {"Ok", "Finished"}
  BY DEF IInv, Types, TypeOK, Reads
<1>2. CASE ReturnsAt(read.copied, notified)
  BY <1>1, <1>2 DEF ReturnsAt
<1>3. CASE UNCHANGED <<read, status, over>>
  BY <1>1, <1>3
<1> QED BY <1>2, <1>3

(* The end of a song overtakes the block it belongs to.                    *)
LEMMA EventSongEndInv == ASSUME IInv, EventSongEnd PROVE IInv'
<1>1. /\ EndLeft /\ wire # <<>> /\ ~Idle /\ stash.len = 0 /\ song.state \in {"RECEIVE_MSGS", "SONG_END_PENDING"}
      /\ UNCHANGED <<seek, stash, read, told, status, core, calls, due, over, limited>>
      /\ Event("SONG_END")
  BY Read DEF EventSongEnd, Event, IInv, history
<1>2. PICK tail \in 0..Block - 1, kill \in BOOLEAN, silent \in BOOLEAN :
        Head(wire) = SongEnd(tail, kill) /\ wire' = <<Unheard(silent), Token>>
  BY <1>1, Read DEF IInv
<1>3. PICK stopnow \in BOOLEAN :
        song' = [song EXCEPT !.state = "SONG_END_PENDING", !.end = [tail |-> tail, stopnow |-> stopnow]]
  <2> DEFINE stopnow == kill \/ FALSE \/ song.cur >= MaxSubsong
  <2>1. Head(wire).tail = tail /\ Head(wire).kill = kill
    BY <1>2 DEF SongEnd
  <2>2. (~~kill \/ FALSE \/ song.cur >= MaxSubsong) = stopnow /\ stopnow \in BOOLEAN
    OBVIOUS
  <2>3. EndEvent(tail, ~kill, FALSE) = [tail |-> tail, stopnow |-> stopnow]
    BY <2>2 DEF EndEvent
  <2> HIDE DEF stopnow
  <2>4. song' = [song EXCEPT !.state = "SONG_END_PENDING", !.end = EndEvent(tail, ~kill, FALSE)]
    BY <2>1 DEF EventSongEnd
  <2> QED BY <2>2, <2>3, <2>4
<1>4. /\ song' \in SongType /\ song'.state = "SONG_END_PENDING" /\ song'.cur = song.cur
      /\ song'.subsongbytes = song.subsongbytes /\ song'.bytes = song.bytes
      /\ song'.one_subsong = song.one_subsong /\ song.state = "RECEIVE_MSGS" /\ ~core.asked
  <2>1. song \in SongType /\ song.state = "RECEIVE_MSGS"
    BY <1>1 DEF IInv, Types, Turns
  <2>2. ~core.asked
    BY <1>1, Lengths DEF IInv, Turns, Nothing
  <2> QED BY <1>3, <2>1, <2>2 DEF SongType
<1>5. BlockLeft'
  BY <1>2, <1>4 DEF BlockLeft, Unheard
<1>6. ~Nothing' /\ ~TokenOnly' /\ ~EndLeft' /\ Len(wire') = 2
  <2>1. Len(wire') = 2
    BY <1>5, Lengths
  <2> QED BY <2>1, Lengths
<1>7. Types'
  BY <1>1, <1>4, <1>6 DEF IInv, Types, TypeOK, SongType
<1>8. Turns'
  BY <1>1, <1>4, <1>5, <1>6 DEF IInv, Turns
<1>9. Position'
  BY <1>1, <1>4, <1>5, <1>6 DEF IInv, Position
<1>10. Ahead
  BY <1>1 DEF Ahead
<1>11. Seeks' /\ Heard' /\ Reads'
  BY <1>1, <1>4, <1>10 DEF IInv, Seeks, Heard, Reads, Playing, HasNext, Idle
<1> QED BY <1>7, <1>8, <1>9, <1>11 DEF IInv

(* The next turn: a restart, or the audio that follows.                     *)
LEMMA Restarted ==
  ASSUME IInv, song.state = "RECEIVE_MSGS", ~Idle, wire' = <<>>,
         UNCHANGED <<stash, read, told, status, calls, over, limited>>,
         NEW subsong \in Subsongs, NEW bytes \in Nat,
         song' = [song EXCEPT !.cur = subsong, !.subsongbytes = 0, !.bytes = bytes, !.silence = 0, !.end = NoEnd],
         core' = [subsong |-> subsong, at |-> 0, asked |-> TRUE],
         seek' \in SeekType, ~seek'.next,
         seek'.trigger.mode = "SUBSONG_RELATIVE" => seek'.trigger.subsong \in Subsongs,
         ~limited /\ seek'.mode = "SONG_RELATIVE" => bytes <= seek'.songoffs,
         due' \in [subsong : Subsongs \cup {-1}, at : Nat],
         seek'.mode = NotSeeking => due' = [subsong |-> subsong, at |-> 0],
         seek'.mode = "SUBSONG_RELATIVE" => due' = [subsong |-> subsong, at |-> seek'.subsongoffs],
         seek'.mode = "SONG_RELATIVE" => due' = NotDue
  PROVE  IInv'
<1>1. /\ song' \in SongType /\ song'.cur = subsong /\ song'.subsongbytes = 0 /\ song'.bytes = bytes
      /\ song'.state = "RECEIVE_MSGS"
  <2>1. 0 \in 0..Length + Block /\ 0 \in 0..Block - 1 /\ 0 \in Nat
    BY ReadingAssumption
  <2>2. song \in SongType
    BY DEF IInv, Types
  <2> QED BY <2>1, <2>2 DEF SongType, NoEnd
<1>2. Nothing' /\ ~TokenOnly' /\ ~BlockLeft' /\ ~EndLeft' /\ Len(wire') = 0
  BY Lengths DEF Nothing
<1>3. core' \in [subsong : Subsongs, at : Nat, asked : BOOLEAN] /\ core'.asked
  OBVIOUS
<1>4. Types'
  BY <1>1, <1>2, <1>3, HasTypes, TypesKept
<1>5. Turns' /\ Position'
  BY <1>1, <1>2, <1>3, ReadingAssumption DEF Turns, Position
<1>6. 0 <= seek'.subsongoffs
  BY DEF SeekType
<1>7. Seeks' /\ Heard' /\ Reads'
  BY <1>1, <1>6 DEF IInv, Seeks, Heard, Reads, Playing, Idle
<1> QED BY <1>4, <1>5, <1>7 DEF IInv

(* A turn that changes nothing asks for the audio that follows.            *)
LEMMA WentOn ==
  ASSUME IInv, song.state = "RECEIVE_MSGS", ~seek.next, TokenOnly, ~Idle, wire' = <<>>,
         UNCHANGED <<stash, read, told, status, calls, over, limited>>,
         song' = song, core' = [core EXCEPT !.asked = TRUE],
         seek' \in SeekType, ~seek'.next,
         seek'.trigger.mode = "SUBSONG_RELATIVE" => seek'.trigger.subsong \in Subsongs,
         ~limited /\ seek'.mode = "SONG_RELATIVE" => song.bytes <= seek'.songoffs,
         ~limited /\ seek'.mode = "SUBSONG_RELATIVE" => song.subsongbytes <= seek'.subsongoffs,
         due' \in [subsong : Subsongs \cup {-1}, at : Nat],
         seek'.mode = NotSeeking => due' = [subsong |-> song.cur, at |-> song.subsongbytes],
         seek'.mode = "SUBSONG_RELATIVE" => due' = [subsong |-> song.cur, at |-> seek'.subsongoffs],
         seek'.mode = "SONG_RELATIVE" => due' = NotDue
  PROVE  IInv'
<1>1. Nothing' /\ ~TokenOnly' /\ ~BlockLeft' /\ ~EndLeft' /\ Len(wire') = 0
  BY Lengths DEF Nothing
<1>2. core' \in [subsong : Subsongs, at : Nat, asked : BOOLEAN] /\ core'.asked
      /\ core'.at = core.at /\ core'.subsong = core.subsong
  BY DEF IInv, Types, TypeOK
<1>3. Types'
  BY <1>1, <1>2, HasTypes, TypesKept
<1>4. Turns' /\ Position'
  BY <1>1, <1>2 DEF IInv, Turns, Position
<1>5. Seeks' /\ Heard' /\ Reads'
  BY DEF IInv, Seeks, Heard, Reads, Playing, Idle
<1> QED BY <1>3, <1>4, <1>5 DEF IInv

(* The host's turn: the changes of subsong and the seeks that wait.        *)
LEMMA EventReadyInv == ASSUME IInv, EventReady PROVE IInv'
<1>1. /\ song.state = "RECEIVE_MSGS" /\ Event("TOKEN")
      /\ ToNextSubsong \/ ToSubsongPosition \/ ToSongPosition \/ NoChange
      /\ UNCHANGED <<stash, read, told, status, calls, over, limited>>
  BY DEF EventReady
<1>2. TokenOnly /\ wire' = <<>> /\ ~Idle
  BY <1>1, Read DEF IInv, Event
<1>3. /\ seek \in SeekType /\ song \in SongType /\ due \in [subsong : Subsongs \cup {-1}, at : Nat]
      /\ song.bytes \in Nat /\ song.subsongbytes \in Nat /\ song.cur \in Subsongs /\ song.def \in Subsongs
      /\ NotDue \in [subsong : Subsongs \cup {-1}, at : Nat] /\ Playing
  <2>1. song.subsongbytes \in 0..Length + Block
    BY DEF IInv, Types, TypeOK
  <2>2. song.subsongbytes \in Nat
    BY <2>1, ReadingAssumption
  <2> QED BY <1>1, <2>2 DEF IInv, Types, TypeOK, NotDue, Playing
<1>4. ASSUME ToNextSubsong PROVE IInv'
  <2> DEFINE mode == IF seek.mode = "SONG_RELATIVE" THEN seek.mode ELSE NotSeeking
  <2>1. /\ seek.next /\ seek' = [seek EXCEPT !.next = FALSE, !.mode = mode]
        /\ due' = IF seek.mode = "SONG_RELATIVE" THEN NotDue ELSE [subsong |-> song.cur + 1, at |-> 0]
        /\ song' = [song EXCEPT !.cur = song.cur + 1, !.subsongbytes = 0, !.silence = 0, !.end = NoEnd]
        /\ core' = [subsong |-> song.cur + 1, at |-> 0, asked |-> TRUE]
    BY <1>4 DEF ToNextSubsong, Restarts
  <2>2. song.cur + 1 \in Subsongs
    BY <1>3, <2>1, ReadingAssumption DEF IInv, Seeks, HasNext, Subsongs
  <2>3. mode \in Mode /\ (mode = "SONG_RELATIVE" => seek.mode = "SONG_RELATIVE") /\ mode # "SUBSONG_RELATIVE"
        /\ (mode = NotSeeking => seek.mode # "SONG_RELATIVE")
    BY DEF Mode, NotSeeking
  <2> HIDE DEF mode
  <2>4. /\ seek' \in SeekType /\ seek'.mode = mode /\ ~seek'.next /\ seek'.trigger = seek.trigger
        /\ seek'.songoffs = seek.songoffs
    BY <1>3, <2>1, <2>3 DEF SeekType
  <2>5. due' \in [subsong : Subsongs \cup {-1}, at : Nat]
    BY <1>3, <2>1, <2>2
  <2>6. song' = [song EXCEPT !.cur = song.cur + 1, !.subsongbytes = 0, !.bytes = song.bytes, !.silence = 0, !.end = NoEnd]
    BY <1>3, <2>1 DEF SongType
  <2>7. /\ seek.trigger.mode = "SUBSONG_RELATIVE" => seek.trigger.subsong \in Subsongs
        /\ ~limited /\ seek.mode = "SONG_RELATIVE" => song.bytes <= seek.songoffs
    BY <1>3 DEF IInv, Seeks
  <2> QED BY <1>1, <1>2, <1>3, <2>1, <2>2, <2>3, <2>4, <2>5, <2>6, <2>7, Restarted
<1>5. ASSUME ToSubsongPosition PROVE IInv'
  <2> DEFINE subsong == seek.trigger.subsong
             offs == seek.trigger.offs
  <2>1. /\ ~seek.next /\ seek.trigger.mode = "SUBSONG_RELATIVE"
        /\ seek' = [seek EXCEPT !.mode = "SUBSONG_RELATIVE", !.subsongoffs = offs, !.trigger = NoTrigger]
        /\ due' = [subsong |-> subsong, at |-> offs]
    BY <1>5 DEF ToSubsongPosition, Triggered
  <2>2. subsong \in Subsongs /\ offs \in Nat
    BY <1>3, <2>1 DEF IInv, Seeks, SeekType
  <2>3. /\ \/ /\ song' = [song EXCEPT !.cur = subsong, !.subsongbytes = 0, !.silence = 0, !.end = NoEnd]
              /\ core' = [subsong |-> subsong, at |-> 0, asked |-> TRUE]
           \/ /\ subsong = song.cur /\ ~(offs < song.subsongbytes)
              /\ song' = song /\ core' = [core EXCEPT !.asked = TRUE]
    BY <1>5 DEF ToSubsongPosition, Restarts, GoesOn
  <2> HIDE DEF subsong, offs
  <2>4. /\ seek' \in SeekType /\ seek'.mode = "SUBSONG_RELATIVE" /\ ~seek'.next /\ seek'.subsongoffs = offs
        /\ seek'.trigger.mode = NotSeeking
    BY <1>3, <2>1, <2>2 DEF SeekType, NoTrigger, Mode
  <2>5. due' \in [subsong : Subsongs \cup {-1}, at : Nat]
    BY <2>1, <2>2
  <2>6. CASE /\ song' = [song EXCEPT !.cur = subsong, !.subsongbytes = 0, !.silence = 0, !.end = NoEnd]
             /\ core' = [subsong |-> subsong, at |-> 0, asked |-> TRUE]
    <3>1. song' = [song EXCEPT !.cur = subsong, !.subsongbytes = 0, !.bytes = song.bytes, !.silence = 0, !.end = NoEnd]
      BY <1>3, <2>6 DEF SongType
    <3> QED BY <1>1, <1>2, <1>3, <2>1, <2>2, <2>4, <2>5, <2>6, <3>1, Restarted DEF NotSeeking
  <2>7. CASE /\ subsong = song.cur /\ ~(offs < song.subsongbytes)
             /\ song' = song /\ core' = [core EXCEPT !.asked = TRUE]
    <3>1. song.subsongbytes <= offs
      BY <1>3, <2>2, <2>7
    <3> QED BY <1>1, <1>2, <1>3, <2>1, <2>4, <2>5, <2>7, <3>1, WentOn DEF NotSeeking
  <2> QED BY <2>3, <2>6, <2>7
<1>6. ASSUME ToSongPosition PROVE IInv'
  <2> DEFINE offs == seek.trigger.offs
  <2>1. /\ ~seek.next /\ due' = NotDue
        /\ seek' = [seek EXCEPT !.mode = "SONG_RELATIVE", !.songoffs = offs, !.trigger = NoTrigger]
    BY <1>6 DEF ToSongPosition, Triggered
  <2>2. offs \in Nat
    BY <1>3 DEF SeekType
  <2>3. /\ \/ /\ song' = [song EXCEPT !.cur = song.def, !.subsongbytes = 0, !.bytes = 0, !.silence = 0, !.end = NoEnd]
              /\ core' = [subsong |-> song.def, at |-> 0, asked |-> TRUE]
           \/ /\ ~(offs < song.bytes) /\ song' = song /\ core' = [core EXCEPT !.asked = TRUE]
    BY <1>6 DEF ToSongPosition, GoesOn
  <2> HIDE DEF offs
  <2>4. /\ seek' \in SeekType /\ seek'.mode = "SONG_RELATIVE" /\ ~seek'.next /\ seek'.songoffs = offs
        /\ seek'.trigger.mode = NotSeeking
    BY <1>3, <2>1, <2>2 DEF SeekType, NoTrigger, Mode
  <2>6. CASE /\ song' = [song EXCEPT !.cur = song.def, !.subsongbytes = 0, !.bytes = 0, !.silence = 0, !.end = NoEnd]
             /\ core' = [subsong |-> song.def, at |-> 0, asked |-> TRUE]
    <3>1. 0 <= offs /\ 0 \in Nat
      BY <2>2
    <3> QED BY <1>1, <1>2, <1>3, <2>1, <2>4, <2>6, <3>1, Restarted DEF NotSeeking
  <2>7. CASE ~(offs < song.bytes) /\ song' = song /\ core' = [core EXCEPT !.asked = TRUE]
    <3>1. song.bytes <= offs
      BY <1>3, <2>2, <2>7
    <3> QED BY <1>1, <1>2, <1>3, <2>1, <2>4, <2>7, <3>1, WentOn DEF NotSeeking
  <2> QED BY <2>3, <2>6, <2>7
<1>7. ASSUME NoChange PROVE IInv'
  <2>1. /\ ~seek.next /\ seek' = seek /\ due' = due /\ song' = song /\ core' = [core EXCEPT !.asked = TRUE]
    BY <1>7 DEF NoChange, Triggered, GoesOn
  <2>2. Ahead
    BY <1>1, <2>1 DEF Ahead
  <2>3. /\ seek.trigger.mode = "SUBSONG_RELATIVE" => seek.trigger.subsong \in Subsongs
        /\ ~limited /\ seek.mode = "SONG_RELATIVE" => song.bytes <= seek.songoffs
        /\ ~limited /\ seek.mode = "SUBSONG_RELATIVE" => song.subsongbytes <= seek.subsongoffs
    BY <1>3, <2>2 DEF IInv, Seeks
  <2>4. /\ seek.mode = NotSeeking => due = [subsong |-> song.cur, at |-> song.subsongbytes]
        /\ seek.mode = "SUBSONG_RELATIVE" => due = [subsong |-> song.cur, at |-> seek.subsongoffs]
        /\ seek.mode = "SONG_RELATIVE" => due = NotDue
    BY <1>3, <2>2 DEF IInv, Heard
  <2> QED BY <1>1, <1>2, <1>3, <2>1, <2>3, <2>4, WentOn
<1> QED BY <1>1, <1>4, <1>5, <1>6, <1>7

-----------------------------------------------------------------------------
(* The end of a song is heard: the read returns, or the next subsong is due.*)
LEMMA EndHeard ==
  ASSUME IInv, ~Idle, NEW end, HearsEnd(end)
  PROVE  /\ read' \in [want : ReadSizes \cup {0}, copied : Nat]
         /\ (read'.want # 0 => read'.copied < read'.want)
         /\ over' \in BOOLEAN /\ status' \in {"Ok", "Finished"} /\ told' \in BOOLEAN
         /\ seek' \in SeekType /\ seek'.mode = seek.mode /\ seek'.trigger = seek.trigger
         /\ seek'.songoffs = seek.songoffs /\ seek'.subsongoffs = seek.subsongoffs
         /\ (seek.next => seek'.next) /\ (seek'.next => HasNext)
<1>1. seek \in SeekType /\ told' = TRUE /\ (seek.next => HasNext)
  BY HasTypes DEF HearsEnd, IInv, Seeks
<1>2. CASE ReturnsAt(read.copied, TRUE) /\ UNCHANGED seek
  BY <1>1, <1>2, Returns
<1>3. CASE HasNext /\ seek' = [seek EXCEPT !.next = TRUE] /\ UNCHANGED <<read, status, over>>
  <2>1. /\ seek' \in SeekType /\ seek'.mode = seek.mode /\ seek'.trigger = seek.trigger
        /\ seek'.songoffs = seek.songoffs /\ seek'.subsongoffs = seek.subsongoffs /\ seek'.next
    BY <1>1, <1>3 DEF SeekType
  <2> QED BY <1>1, <1>3, <2>1, Returns
<1> QED BY <1>2, <1>3 DEF HearsEnd

(* After the last block the end is told, or the next subsong follows.      *)
LEMMA EndPendingInv == ASSUME IInv, EndPending PROVE IInv'
<1>1. /\ ~Idle /\ stash.len = 0 /\ song.state = "SONG_END_PENDING" /\ Head(wire).type = "TOKEN"
      /\ song' = [song EXCEPT !.state = "WAIT_SUBSONG_CHANGE"] /\ HearsEnd(song.end)
      /\ UNCHANGED <<stash, core, wire, calls, due, limited>>
  BY DEF EndPending
<1>2. /\ song' \in SongType /\ song'.state = "WAIT_SUBSONG_CHANGE" /\ song'.cur = song.cur
      /\ song'.subsongbytes = song.subsongbytes /\ song'.bytes = song.bytes
      /\ song'.one_subsong = song.one_subsong
  BY <1>1, HasTypes DEF SongType
<1>3. TokenOnly /\ ~core.asked /\ ~Nothing
  <2>1. ~BlockLeft
    <3> SUFFICES ASSUME NEW silent \in BOOLEAN, wire = <<Unheard(silent), Token>> PROVE FALSE
      BY DEF BlockLeft
    <3>1. Head(wire) = Unheard(silent)
      BY Tuples
    <3> QED BY <1>1, <3>1 DEF Unheard, DataOf
  <2> QED BY <1>1, <2>1 DEF IInv, Turns
<1>4. TokenOnly' /\ ~Nothing' /\ ~BlockLeft' /\ ~EndLeft'
  <2>1. TokenOnly'
    BY <1>1, <1>3 DEF TokenOnly
  <2>2. Len(wire') = 1
    BY <2>1, Lengths
  <2> QED BY <2>1, <2>2, Lengths
<1>5. Types'
  BY <1>1, <1>2, HasTypes, EndHeard, TypesKept
<1>6. Turns' /\ Position' /\ ~Ahead'
  BY <1>1, <1>2, <1>3, <1>4 DEF IInv, Turns, Position, Ahead
<1>7. Seeks' /\ Heard' /\ Reads'
  BY <1>1, <1>2, <1>6, EndHeard DEF IInv, Seeks, Heard, Reads, Playing, HasNext, Idle
<1> QED BY <1>5, <1>6, <1>7 DEF IInv

(* A read after the end returns, or goes on with the subsong asked for.    *)
LEMMA WaitSubsongChangeInv == ASSUME IInv, WaitSubsongChange PROVE IInv'
<1>1. /\ ~Idle /\ stash.len = 0 /\ song.state = "WAIT_SUBSONG_CHANGE"
      /\ UNCHANGED <<stash, core, wire, calls, due, limited>>
  BY DEF WaitSubsongChange
<1>2. TokenOnly /\ ~core.asked /\ ~Nothing
  BY <1>1 DEF IInv, Turns
<1>3. TokenOnly' /\ ~Nothing' /\ ~BlockLeft' /\ ~EndLeft'
  <2>1. TokenOnly'
    BY <1>1, <1>2 DEF TokenOnly
  <2>2. Len(wire') = 1
    BY <2>1, Lengths
  <2> QED BY <2>1, <2>2, Lengths
<1>4. CASE /\ HasNext /\ song' = [song EXCEPT !.state = "RECEIVE_MSGS"]
           /\ seek' = [seek EXCEPT !.next = TRUE] /\ UNCHANGED <<told, read, status, over>>
  <2>1. /\ song' \in SongType /\ song'.state = "RECEIVE_MSGS" /\ song'.cur = song.cur
        /\ song'.subsongbytes = song.subsongbytes /\ song'.bytes = song.bytes
        /\ song'.one_subsong = song.one_subsong
    BY <1>4, HasTypes DEF SongType
  <2>2. /\ seek' \in SeekType /\ seek'.mode = seek.mode /\ seek'.trigger = seek.trigger
        /\ seek'.songoffs = seek.songoffs /\ seek'.subsongoffs = seek.subsongoffs /\ seek'.next
    BY <1>4, HasTypes DEF SeekType
  <2>3. Types'
    BY <1>1, <1>4, <2>1, <2>2, HasTypes, TypesKept
  <2>4. Turns' /\ Position' /\ ~Ahead'
    BY <1>1, <1>2, <1>3, <2>1, <2>2 DEF IInv, Turns, Position, Ahead
  <2>5. Seeks' /\ Heard' /\ Reads'
    BY <1>1, <1>4, <2>1, <2>2, <2>4 DEF IInv, Seeks, Heard, Reads, Playing, HasNext, Idle
  <2> QED BY <2>3, <2>4, <2>5 DEF IInv
<1>5. CASE /\ song' = [song EXCEPT !.end = EndEvent(0, TRUE, TRUE)]
           /\ told' = TRUE /\ ReturnsAt(read.copied, TRUE) /\ UNCHANGED seek
  <2>1. EndEvent(0, TRUE, TRUE) \in [tail : 0..Block - 1, stopnow : BOOLEAN]
    <3>1. 0 \in 0..Block - 1 /\ (~TRUE \/ TRUE \/ song.cur >= MaxSubsong) \in BOOLEAN
      BY ReadingAssumption
    <3> QED BY <3>1 DEF EndEvent
  <2>2. /\ song' \in SongType /\ song'.state = song.state /\ song'.cur = song.cur
        /\ song'.subsongbytes = song.subsongbytes /\ song'.bytes = song.bytes
        /\ song'.one_subsong = song.one_subsong
    BY <1>5, <2>1, HasTypes DEF SongType
  <2>3. Types'
    BY <1>1, <1>5, <2>2, HasTypes, Returns, TypesKept
  <2>4. Turns' /\ Position' /\ ~Ahead'
    BY <1>1, <1>2, <1>3, <2>2 DEF IInv, Turns, Position, Ahead
  <2>5. Seeks' /\ Heard' /\ Reads'
    BY <1>1, <1>5, <2>2, <2>4, Returns DEF IInv, Seeks, Heard, Reads, Playing, HasNext, Idle
  <2> QED BY <2>3, <2>4, <2>5 DEF IInv
<1> QED BY <1>4, <1>5 DEF WaitSubsongChange

-----------------------------------------------------------------------------
(* A block: where it begins, and what it adds to the position.              *)
LEMMA BlockRead ==
  ASSUME IInv, Event("DATA")
  PROVE  /\ BlockLeft /\ TokenOnly' /\ ~Nothing' /\ ~BlockLeft' /\ ~EndLeft' /\ Len(wire') = 1 /\ Len(wire') <= 3
         /\ Head(wire).subsong = song.cur /\ Head(wire).from = song.subsongbytes
         /\ ~Idle /\ stash.len = 0 /\ Ahead /\ Playing /\ ~core.asked /\ song.state \in {"RECEIVE_MSGS", "SONG_END_PENDING"}
         /\ Size \in 0..Block /\ (~IsEnd => Size = Block) /\ Block \in Nat /\ song.subsongbytes \in Nat
         /\ Counted \in SongType /\ Counted.state = song.state /\ Counted.cur = song.cur
         /\ Counted.bytes = song.bytes + Size /\ Counted.subsongbytes = song.subsongbytes + Size
         /\ Counted.one_subsong = song.one_subsong
<1>1. /\ BlockLeft /\ TokenOnly' /\ ~Idle /\ stash.len = 0 /\ song.state \in {"RECEIVE_MSGS", "SONG_END_PENDING"}
      /\ \E silent \in BOOLEAN : Head(wire) = Unheard(silent)
  BY Read DEF IInv, Event
<1>2. Head(wire).subsong = song.cur /\ Head(wire).from = song.subsongbytes /\ Head(wire).silent \in BOOLEAN
  BY <1>1 DEF Unheard, DataOf
<1>3. Len(wire') = 1 /\ ~Nothing' /\ ~BlockLeft' /\ ~EndLeft' /\ Len(wire) = 2 /\ ~Nothing
  <2>1. Len(wire') = 1 /\ Len(wire) = 2
    BY <1>1, Lengths
  <2> QED BY <2>1, Lengths
<1>4. ~core.asked /\ Ahead /\ Playing
  BY <1>1, <1>3 DEF IInv, Turns, Ahead, Playing
<1>5. /\ song \in SongType /\ song.end.tail \in 0..Block - 1 /\ Block \in Nat \ {0} /\ Length \in Nat
      /\ song.subsongbytes \in 0..Length + Block /\ song.bytes \in Nat /\ song.silence \in Nat
  BY HasTypes, ReadingAssumption DEF SongType
<1>6. Size \in 0..Block /\ (~IsEnd => Size = Block)
  BY <1>5 DEF Size
<1>7. song.subsongbytes + Size \in 0..Length + Block /\ song.bytes + Size \in Nat
  <2>1. song.subsongbytes + Block <= Length + Block
    BY <1>1 DEF IInv, Position
  <2> QED BY <1>5, <1>6, <2>1
<1>8. (CASE IsEnd \/ SilenceLimit < 0 -> song.silence [] SilenceEnds -> 0 [] OTHER -> Silence) \in Nat
  <2>1. Silence \in Nat
    BY <1>5 DEF Silence
  <2>2. CASE IsEnd \/ SilenceLimit < 0
    BY <1>5, <2>2
  <2>3. CASE ~(IsEnd \/ SilenceLimit < 0) /\ SilenceEnds
    BY <2>3
  <2>4. CASE ~(IsEnd \/ SilenceLimit < 0) /\ ~SilenceEnds
    BY <2>1, <2>4
  <2> QED BY <2>2, <2>3, <2>4
<1>9. /\ Counted \in SongType /\ Counted.state = song.state /\ Counted.cur = song.cur
      /\ Counted.bytes = song.bytes + Size /\ Counted.subsongbytes = song.subsongbytes + Size
      /\ Counted.one_subsong = song.one_subsong
  <2> DEFINE silence == CASE IsEnd \/ SilenceLimit < 0 -> song.silence [] SilenceEnds -> 0 [] OTHER -> Silence
  <2>1. Counted = [song EXCEPT !.bytes = song.bytes + Size, !.subsongbytes = song.subsongbytes + Size,
                               !.silence = silence]
    BY DEF Counted
  <2>2. silence \in Nat
    BY <1>8
  <2> HIDE DEF silence
  <2> QED BY <1>5, <1>7, <2>1, <2>2 DEF SongType
<1>10. song.subsongbytes \in Nat
  BY <1>5
<1>11. Len(wire') <= 3
  <2>1. 1 <= 3
    OBVIOUS
  <2> QED BY <1>3, <2>1
<1> QED BY <1>1, <1>2, <1>3, <1>4, <1>5, <1>6, <1>9, <1>10, <1>11

(* A block that reaches a limit ends the song.                             *)
LEMMA DataAtLimitInv == ASSUME IInv, DataAtLimit PROVE IInv'
<1>1. /\ Event("DATA") /\ ~IsEnd
      /\ due' = IF seek.mode = NotSeeking THEN [due EXCEPT !.at = due.at + Block] ELSE due
      /\ limited' = (limited \/ seek.mode # NotSeeking)
      /\ UNCHANGED <<stash, core, calls>>
  BY DEF DataAtLimit, AtLimit
<1>2. PICK end \in [tail : 0..Block - 1, stopnow : BOOLEAN] :
        song' = [Counted EXCEPT !.end = end] /\ HearsEnd(end)
  <2> DEFINE stopnow == ~TRUE \/ (~SilenceEnds /\ SongTimesOut) \/ song.cur >= MaxSubsong
  <2>1. stopnow \in BOOLEAN /\ 0 \in 0..Block - 1
    BY ReadingAssumption
  <2>2. EndEvent(0, TRUE, ~SilenceEnds /\ SongTimesOut) = [tail |-> 0, stopnow |-> stopnow]
    BY DEF EndEvent
  <2> HIDE DEF stopnow
  <2> QED BY <2>1, <2>2 DEF DataAtLimit
<1>3. /\ song' \in SongType /\ song'.state = song.state /\ song'.cur = song.cur
      /\ song'.bytes = song.bytes + Size /\ song'.subsongbytes = song.subsongbytes + Size
      /\ song'.one_subsong = song.one_subsong /\ song.state = "RECEIVE_MSGS" /\ Size = Block
  BY <1>1, <1>2, BlockRead DEF SongType, IsEnd
<1>4. due' \in [subsong : Subsongs \cup {-1}, at : Nat] /\ limited' \in BOOLEAN
      /\ (seek.mode = NotSeeking => due' = [subsong |-> song'.cur, at |-> song'.subsongbytes])
  <2>1. due \in [subsong : Subsongs \cup {-1}, at : Nat] /\ Block \in Nat /\ song.subsongbytes \in Nat
    BY <1>1, HasTypes, BlockRead
  <2>2. due.at + Block \in Nat
    BY <2>1
  <2>3. seek.mode = NotSeeking => due = [subsong |-> song.cur, at |-> song.subsongbytes]
    BY <1>1, BlockRead DEF IInv, Heard
  <2>4. (limited \/ seek.mode # NotSeeking) \in BOOLEAN
    OBVIOUS
  <2> QED BY <1>1, <1>3, <2>1, <2>2, <2>3, <2>4
<1>5. Types'
  <2>1. ~Idle /\ Len(wire') = 1
    BY <1>1, BlockRead
  <2> QED BY <1>1, <1>2, <1>3, <1>4, <2>1, HasTypes, EndHeard, TypesKept
<1>6. Turns'
  BY <1>1, <1>3, BlockRead DEF IInv, Turns
<1>7. Position'
  BY <1>1, <1>3, BlockRead DEF IInv, Position
<1>8. /\ seek'.mode = seek.mode /\ seek'.trigger = seek.trigger
      /\ seek'.songoffs = seek.songoffs /\ seek'.subsongoffs = seek.subsongoffs
      /\ (seek'.next => HasNext) /\ (read'.want # 0 => read'.copied < read'.want)
  BY <1>1, <1>2, BlockRead, EndHeard
<1>9. Seeks'
  BY <1>1, <1>3, <1>8, BlockRead DEF IInv, Seeks, HasNext, NotSeeking
<1>10. Heard'
  BY <1>1, <1>3, <1>4, <1>8, BlockRead DEF IInv, Heard, NotSeeking
<1>11. Reads'
  BY <1>1, <1>3, <1>8, BlockRead DEF IInv, Reads, Idle
<1> QED BY <1>5, <1>6, <1>7, <1>9, <1>10, <1>11 DEF IInv

(* The target of a seek is not passed before the block that reaches it.     *)
LEMMA Sought ==
  ASSUME IInv, Event("DATA"), seek.mode # NotSeeking
  PROVE  /\ Behind \in Int
         /\ seek.mode = "SONG_RELATIVE" =>
              Behind = Counted.bytes - seek.songoffs /\ due = NotDue
         /\ seek.mode # "SONG_RELATIVE" =>
              /\ seek.mode = "SUBSONG_RELATIVE"
              /\ Behind = Counted.subsongbytes - seek.subsongoffs
              /\ due = [subsong |-> song.cur, at |-> seek.subsongoffs]
         /\ ~limited => Behind <= Size
<1>1. /\ seek.mode \in {"SONG_RELATIVE", "SUBSONG_RELATIVE"} /\ seek.songoffs \in Nat /\ seek.subsongoffs \in Nat
      /\ song.bytes \in Nat
  BY HasTypes DEF SeekType, SongType, Mode
<1>2. /\ Ahead /\ Playing /\ Size \in Nat /\ song.subsongbytes \in Nat
      /\ Counted.bytes = song.bytes + Size /\ Counted.subsongbytes = song.subsongbytes + Size
  BY BlockRead
<1>3. /\ seek.mode = "SONG_RELATIVE" => Behind = Counted.bytes - seek.songoffs
      /\ seek.mode # "SONG_RELATIVE" => Behind = Counted.subsongbytes - seek.subsongoffs
  BY DEF Behind
<1>4. /\ ~limited /\ seek.mode = "SUBSONG_RELATIVE" => song.subsongbytes <= seek.subsongoffs
      /\ ~limited /\ seek.mode = "SONG_RELATIVE" => song.bytes <= seek.songoffs
  BY <1>2 DEF IInv, Seeks
<1>5. Behind \in Int /\ (~limited => Behind <= Size)
  BY <1>1, <1>2, <1>3, <1>4
<1>6. /\ seek.mode = "SUBSONG_RELATIVE" => due = [subsong |-> song.cur, at |-> seek.subsongoffs]
      /\ seek.mode = "SONG_RELATIVE" => due = NotDue
  BY <1>2 DEF IInv, Heard
<1> QED BY <1>1, <1>3, <1>5, <1>6

(* A seek ends with the block that reaches its target.                     *)
LEMMA SoughtDone ==
  ASSUME IInv
  PROVE  /\ AfterSeek \in SeekType /\ AfterSeek.next = seek.next /\ AfterSeek.trigger = seek.trigger
         /\ seek.mode = NotSeeking \/ Behind >= 0 => AfterSeek.mode = NotSeeking
         /\ ~(seek.mode = NotSeeking \/ Behind >= 0) => AfterSeek = seek
<1>1. seek \in SeekType
  BY HasTypes
<1>2. /\ SeekDone \in SeekType /\ SeekDone.next = seek.next /\ SeekDone.trigger = seek.trigger
      /\ SeekDone.mode = NotSeeking
  BY <1>1 DEF SeekType, SeekDone, Mode
<1> QED BY <1>1, <1>2 DEF AfterSeek

(* A block before the target is skipped.                                   *)
LEMMA DataSkippedInv == ASSUME IInv, DataSkipped PROVE IInv'
<1>1. /\ Event("DATA") /\ ~IsEnd /\ seek.mode # NotSeeking /\ Behind <= 0
      /\ song' = Counted /\ seek' = AfterSeek
      /\ due' = IF due = NotDue /\ Behind = 0 THEN AfterBlock ELSE due
      /\ UNCHANGED <<stash, read, told, status, core, calls, over, limited>>
  BY DEF DataSkipped
<1>2. song.state = "RECEIVE_MSGS" /\ Size = Block
  BY <1>1, BlockRead DEF IsEnd
<1>3. AfterBlock = [subsong |-> song.cur, at |-> song'.subsongbytes] /\ song'.subsongbytes \in Nat
  BY <1>1, BlockRead DEF AfterBlock
<1>4. due' \in [subsong : Subsongs \cup {-1}, at : Nat]
  BY <1>1, <1>3, HasTypes DEF SongType
<1>5. Types'
  <2>1. Len(wire') <= 3
    BY <1>1, BlockRead
  <2> QED BY <1>1, <1>4, <2>1, HasTypes, BlockRead, SoughtDone, TypesKept
<1>6. Turns'
  BY <1>1, <1>2, BlockRead DEF IInv, Turns
<1>7. Position'
  BY <1>1, <1>2, BlockRead, SoughtDone DEF IInv, Position
<1>8. CASE Behind = 0
  <2>1. seek'.mode = NotSeeking
    BY <1>1, <1>8, SoughtDone
  <2>2. due' = [subsong |-> song'.cur, at |-> song'.subsongbytes]
    <3>1. song'.cur = song.cur /\ song'.subsongbytes = Counted.subsongbytes /\ seek.subsongoffs \in Nat
      BY <1>1, HasTypes, BlockRead DEF SeekType
    <3>2. CASE seek.mode = "SONG_RELATIVE"
      BY <1>1, <1>3, <1>8, <3>1, <3>2, Sought
    <3>3. CASE seek.mode # "SONG_RELATIVE"
      <4>1. Counted.subsongbytes - seek.subsongoffs = 0 /\ due = [subsong |-> song.cur, at |-> seek.subsongoffs]
        BY <1>1, <1>8, <3>3, Sought
      <4>2. seek.subsongoffs = song'.subsongbytes
        BY <1>3, <3>1, <4>1
      <4>3. due # NotDue
        <5>1. song.cur # -1
          BY HasTypes, ReadingAssumption DEF SongType, Subsongs
        <5> QED BY <4>1, <5>1 DEF NotDue
      <4> QED BY <1>1, <3>1, <4>1, <4>2, <4>3
    <3> QED BY <3>2, <3>3
  <2> QED BY <1>1, <2>1, <2>2, <1>2, <1>5, <1>6, <1>7, BlockRead, SoughtDone
          DEF IInv, Seeks, Heard, Reads, HasNext, Idle, NotSeeking
<1>9. CASE Behind # 0
  <2>1. seek' = seek /\ due' = due
    <3>1. Behind \in Int
      BY <1>1, Sought
    <3> QED BY <1>1, <1>9, <3>1, SoughtDone
  <2>2. /\ seek.mode = "SUBSONG_RELATIVE" => song'.subsongbytes <= seek.subsongoffs
        /\ seek.mode = "SONG_RELATIVE" => song'.bytes <= seek.songoffs
    <3>1. seek.songoffs \in Nat /\ seek.subsongoffs \in Nat /\ song'.bytes \in Nat /\ song'.subsongbytes \in Nat
      BY <1>1, <1>3, HasTypes, BlockRead DEF SeekType, SongType
    <3> QED BY <1>1, <3>1, Sought
  <2>3. Seeks'
    BY <1>1, <1>2, <2>1, <2>2, BlockRead DEF IInv, Seeks, HasNext
  <2>4. Heard' /\ Reads'
    BY <1>1, <1>2, <2>1, BlockRead DEF IInv, Heard, Reads, Idle
  <2> QED BY <1>5, <1>6, <1>7, <2>3, <2>4 DEF IInv
<1> QED BY <1>8, <1>9

(* A block that is heard begins, in the stash, at what is due.             *)
LEMMA DataStashedInv == ASSUME IInv, DataStashed PROVE IInv'
<1> DEFINE all == seek.mode = NotSeeking \/ (IsEnd /\ Behind <= 0)
           n == IF all THEN Size ELSE Behind
<1>1. /\ Event("DATA") /\ (all \/ Behind \in 1..Size) /\ song' = Counted /\ seek' = AfterSeek
      /\ stash' = [subsong |-> Head(wire).subsong, from |-> Head(wire).from + Size - n, len |-> n]
      /\ due' = AfterBlock
      /\ UNCHANGED <<read, told, status, core, calls, over, limited>>
  BY DEF DataStashed
<1>2. /\ Size \in 0..Block /\ Block \in Nat /\ song.subsongbytes \in Nat /\ song.cur \in Subsongs
      /\ Head(wire).subsong = song.cur /\ Head(wire).from = song.subsongbytes
  BY <1>1, HasTypes, BlockRead DEF SongType
<1>3. due' = [subsong |-> song'.cur, at |-> song'.subsongbytes] /\ song'.subsongbytes \in Nat /\ song'.cur = song.cur
  BY <1>1, BlockRead DEF AfterBlock
<1>4. n \in 0..Size /\ (~all => Behind \in 1..Size)
  BY <1>1, <1>2
<1>5. stash' \in [subsong : Subsongs, from : Nat, len : 0..Block]
  <2> HIDE DEF n
  <2>1. song.subsongbytes + Size - n \in Nat /\ n \in 0..Block
    BY <1>2, <1>4
  <2> QED BY <1>1, <1>2, <2>1
<1>6. Types'
  <2>1. Len(wire') <= 3 /\ due' \in [subsong : Subsongs \cup {-1}, at : Nat]
    BY <1>1, <1>2, <1>3, BlockRead
  <2> QED BY <1>1, <1>5, <2>1, HasTypes, BlockRead, SoughtDone, TypesKept
<1>7. Turns'
  BY <1>1, BlockRead DEF IInv, Turns
<1>8. Position'
  BY <1>1, BlockRead, SoughtDone DEF IInv, Position, IsEnd
<1>9. CASE seek.mode = NotSeeking \/ Behind >= 0
  <2>1. seek'.mode = NotSeeking
    BY <1>1, <1>9, SoughtDone
  <2> QED BY <1>1, <2>1, <1>3, <1>6, <1>7, <1>8, BlockRead, SoughtDone
          DEF IInv, Seeks, Heard, Reads, HasNext, Idle, NotSeeking
<1>10. CASE ~(seek.mode = NotSeeking \/ Behind >= 0)
  <2>1. seek' = seek /\ IsEnd /\ Behind < 0 /\ Behind \in Int
    <3>1. Behind \in Int
      BY <1>1, <1>10, Sought
    <3> QED BY <1>1, <1>4, <1>10, <3>1, SoughtDone
  <2>2. ~Ahead'
    BY <1>1, <2>1, BlockRead DEF Ahead, IsEnd
  <2>3. seek.mode = "SONG_RELATIVE" => song'.bytes <= seek.songoffs
    <3>1. seek.songoffs \in Nat /\ song'.bytes \in Nat
      BY <1>1, HasTypes, BlockRead DEF SeekType, SongType
    <3> QED BY <1>1, <1>10, <2>1, <3>1, Sought
  <2>4. Seeks'
    BY <1>1, <2>1, <2>2, <2>3, BlockRead DEF IInv, Seeks, HasNext
  <2>5. Heard' /\ Reads'
    BY <1>1, <1>10, <2>1, <2>2, BlockRead DEF IInv, Heard, Reads, Idle, IsEnd
  <2> QED BY <1>6, <1>7, <1>8, <2>4, <2>5 DEF IInv
<1> QED BY <1>9, <1>10

(* The end of a song that a limit has ended during a seek.                 *)
LEMMA AbortsInv == ASSUME IInv, Aborts PROVE IInv'
<1>1. /\ Event("DATA") /\ seek.mode # NotSeeking /\ Behind > Size
      /\ song' = [Counted EXCEPT !.state = "ABORTED"]
      /\ UNCHANGED <<seek, stash, read, told, status, core, calls, due, over, limited>>
  BY DEF Aborts, history
<1>2. /\ song' \in SongType /\ song'.state = "ABORTED" /\ song'.cur = song.cur
      /\ song'.one_subsong = song.one_subsong
  BY <1>1, BlockRead DEF SongType
<1>3. limited
  <2>1. Behind \in Int /\ Size \in Int /\ ~(Behind <= Size)
    BY <1>1, BlockRead, Sought
  <2> QED BY <1>1, <2>1, Sought
<1>4. Types'
  <2>1. Len(wire') <= 3
    BY <1>1, BlockRead
  <2> QED BY <1>1, <1>2, <2>1, HasTypes, TypesKept
<1>5. Turns' /\ Position' /\ ~Ahead'
  BY <1>1, <1>2, BlockRead DEF IInv, Turns, Position, Ahead
<1>6. Seeks' /\ Heard' /\ Reads'
  BY <1>1, <1>2, <1>3, <1>5, BlockRead DEF IInv, Seeks, Heard, Reads, Playing, HasNext, Idle
<1> QED BY <1>4, <1>5, <1>6 DEF IInv

-----------------------------------------------------------------------------
(* Nothing is playing.                                                     *)
LEMMA InitInv == Init => IInv
<1> SUFFICES ASSUME Init PROVE IInv
  OBVIOUS
<1>1. /\ 0 \in 0..Length + Block /\ 0 \in 0..Block - 1 /\ 0 \in 0..MaxCalls /\ 0 \in Nat /\ Len(<<>>) = 0 /\ 0 <= 3
      /\ 0 \in Subsongs /\ 0 \in 0..Block
  BY ReadingAssumption, Tuples DEF Subsongs
<1>2. song \in SongType /\ seek \in SeekType
  BY <1>1 DEF Init, NoSong, NoSeek, NoEnd, NoTrigger, SongType, SeekType, Mode
<1>3. Types
  <2>1. TypeOK
    BY <1>1, <1>2 DEF Init, TypeOK, SongType, SeekType
  <2> QED BY <1>1, <1>2, <2>1 DEF Init, Types, NotDue
<1>4. /\ song.state = "INVALID" /\ seek.mode = NotSeeking /\ ~seek.next /\ seek.trigger.mode = NotSeeking
      /\ Nothing /\ ~core.asked /\ read.want = 0
  BY DEF Init, NoSong, NoSeek, NoTrigger, Nothing
<1>5. ~TokenOnly /\ ~BlockLeft /\ ~EndLeft
  BY <1>4, Lengths
<1>6. Turns /\ Position /\ ~Ahead
  BY <1>4, <1>5 DEF Turns, Position, Ahead
<1>7. Seeks /\ Heard /\ Reads
  BY <1>4, <1>6 DEF Seeks, Heard, Reads, Playing, Idle, NotSeeking
<1> QED BY <1>3, <1>6, <1>7 DEF IInv

(* The invariant is inductive.                                             *)
LEMMA NextInv == IInv /\ [Next]_vars => IInv'
<1> SUFFICES ASSUME IInv, [Next]_vars PROVE IInv'
  OBVIOUS
<1>1. ASSUME Caller PROVE IInv'
  BY <1>1, uade_playInv, uade_readInv, CallsInv, uade_stopInv DEF Caller
<1>2. ASSUME ReadStep PROVE IInv'
  BY <1>2, FromStashInv, EventSongEndInv, EventReadyInv, EndPendingInv, WaitSubsongChangeInv,
     DataAtLimitInv, DataSkippedInv, DataStashedInv, AbortsInv DEF ReadStep
<1>3. ASSUME UNCHANGED vars PROVE IInv'
  <2>1. /\ UNCHANGED <<song, seek, stash, read, told, status, core, wire, calls, due, over, limited>>
        /\ Nothing' = Nothing /\ TokenOnly' = TokenOnly /\ BlockLeft' = BlockLeft /\ EndLeft' = EndLeft
    BY <1>3, SameShape DEF vars
  <2>2. Types'
    BY <2>1, HasTypes, TypesKept
  <2>3. Turns' /\ Position' /\ Ahead' = Ahead
    BY <2>1 DEF IInv, Turns, Position, Ahead
  <2>4. Seeks' /\ Heard' /\ Reads'
    BY <2>1, <2>3 DEF IInv, Seeks, Heard, Reads, Playing, HasNext, Idle
  <2> QED BY <2>2, <2>3, <2>4 DEF IInv
<1> QED BY <1>1, <1>2, <1>3, CoreBlockInv DEF Next

(* In every state, whatever the limits, sizes and calls of the caller,     *)
(* IInv holds: what is on the way, where the host believes the core to     *)
(* be, and what is due to be heard fit together.                           *)
THEOREM Invariance == Spec => []IInv
BY InitInv, NextInv, PTL DEF Spec

(* Every variable has its type: the position never leaves the song by      *)
(* more than a block, and at most an end, a block and a turn are on the    *)
(* way (TypeOK).                                                           *)
THEOREM TypeCorrect == Spec => []TypeOK
<1>1. IInv => TypeOK
  BY DEF IInv, Types
<1> QED BY <1>1, Invariance, PTL

(* handle_data(), set_subsong() and the seeks of uade_get_event_ready():   *)
(* the position the host counts is the one the core plays from, whatever   *)
(* was skipped, cut or restarted (PositionTrue).                           *)
THEOREM PositionsAgree == Spec => []PositionTrue
<1>1. IInv => PositionTrue
  <2> SUFFICES ASSUME IInv PROVE PositionTrue
    OBVIOUS
  <2>1. song.state = "ABORTED" => limited
    BY DEF IInv, Seeks
  <2>2. ASSUME song.state = "RECEIVE_MSGS", ~seek.next
        PROVE  song.cur = core.subsong /\ song.subsongbytes + Unread = core.at
    <3>1. /\ song.cur = core.subsong /\ song.subsongbytes \in Nat /\ core.at \in Nat /\ Block \in Nat
      <4>1. song.subsongbytes \in 0..Length + Block
        BY HasTypes DEF SongType
      <4> QED BY <2>2, <4>1, HasTypes, ReadingAssumption DEF IInv, Position
    <3>2. ASSUME wire = <<>> PROVE song.subsongbytes + Unread = core.at
      <4>1. core.asked /\ core.at = song.subsongbytes
        BY <2>2, <3>2 DEF IInv, Turns, Position, Nothing
      <4>2. Unread = 0
        BY <3>2 DEF Unread
      <4> QED BY <3>1, <4>1, <4>2
    <3>3. ASSUME TokenOnly PROVE song.subsongbytes + Unread = core.at
      <4>1. core.at = song.subsongbytes
        BY <2>2, <3>3 DEF IInv, Position
      <4>2. Unread = 0
        <5>1. DOMAIN wire = {1} /\ wire[1] = Token
          BY <3>3 DEF TokenOnly
        <5>2. Token.type # "DATA"
          BY DEF Token
        <5> QED BY <5>1, <5>2 DEF Unread
      <4> QED BY <3>1, <4>1, <4>2
    <3>4. ASSUME BlockLeft \/ EndLeft PROVE song.subsongbytes + Unread = core.at
      <4>1. core.at = song.subsongbytes + Block
        BY <3>4 DEF IInv, Position
      <4>2. \E i \in DOMAIN wire : wire[i].type = "DATA"
        <5>1. CASE BlockLeft
          <6>1. PICK silent \in BOOLEAN : wire = <<Unheard(silent), Token>>
            BY <5>1 DEF BlockLeft
          <6>2. 1 \in DOMAIN wire /\ wire[1] = Unheard(silent)
            BY <6>1
          <6> QED BY <6>2 DEF Unheard, DataOf
        <5>2. CASE EndLeft
          <6>1. PICK tail \in 0..Block - 1, kill \in BOOLEAN, silent \in BOOLEAN :
                  wire = <<SongEnd(tail, kill), Unheard(silent), Token>>
            BY <5>2 DEF EndLeft
          <6>2. 2 \in DOMAIN wire /\ wire[2] = Unheard(silent)
            BY <6>1
          <6> QED BY <6>2 DEF Unheard, DataOf
        <5> QED BY <3>4, <5>1, <5>2
      <4> QED BY <4>1, <4>2 DEF Unread
    <3> QED BY <3>1, <3>2, <3>3, <3>4 DEF IInv, Turns, Nothing
  <2> QED BY <2>1, <2>2 DEF PositionTrue
<1> QED BY <1>1, Invariance, PTL

(* uade_read() and read_data(): a song or subsong that has ended has       *)
(* nothing left in the stash, so its end is never told before its audio    *)
(* is heard (EndComesLast).                                                *)
THEOREM EndIsLast == Spec => []EndComesLast
<1>1. IInv => EndComesLast
  BY DEF IInv, Heard, Reads, EndComesLast, Playing
<1> QED BY <1>1, Invariance, PTL

(* A block put into the stash begins where the caller is to hear on: at    *)
(* the end of the last one, or at the target of the last seek, in the      *)
(* subsong that is the current one (HeardExactly).                         *)
THEOREM NothingLostOrTwice == Spec => HeardExactly
<1> DEFINE Heard1 == stash.len = 0 /\ stash'.len > 0 =>
                       /\ stash'.subsong = song.cur
                       /\ \/ stash'.subsong = due.subsong /\ stash'.from = due.at
                          \/ due = NotDue
                          \/ IsEnd /\ seek.mode # NotSeeking
<1>1. IInv /\ [Next]_vars => [Heard1]_vars
  <2> SUFFICES ASSUME IInv, Next, stash.len = 0, stash'.len > 0
               PROVE  /\ stash'.subsong = song.cur
                      /\ \/ stash'.subsong = due.subsong /\ stash'.from = due.at
                         \/ due = NotDue
                         \/ IsEnd /\ seek.mode # NotSeeking
    BY DEF vars
  <2>1. DataStashed
    <3>1. stash' # stash /\ ~FromStash /\ ~uade_stop
      BY DEF FromStash, uade_stop
    <3> QED BY <3>1 DEF Next, Caller, ReadStep, CoreBlock, uade_play, uade_read, uade_seek, uade_next_subsong,
                        SeekSong, SeekPosition, SeekSubsong, Called, EventSongEnd, EventReady, EndPending,
                        WaitSubsongChange, DataAtLimit, DataSkipped, Aborts
  <2> DEFINE all == seek.mode = NotSeeking \/ (IsEnd /\ Behind <= 0)
             n == IF all THEN Size ELSE Behind
  <2>2. /\ Event("DATA") /\ (all \/ Behind \in 1..Size)
        /\ stash' = [subsong |-> Head(wire).subsong, from |-> Head(wire).from + Size - n, len |-> n]
    BY <2>1 DEF DataStashed
  <2>3. /\ stash'.subsong = song.cur /\ stash'.from = song.subsongbytes + Size - n
        /\ Size \in Nat /\ song.subsongbytes \in Nat /\ Playing
        /\ Counted.subsongbytes = song.subsongbytes + Size
    BY <2>2, BlockRead
  <2>4. CASE seek.mode = NotSeeking
    <3>1. due = [subsong |-> song.cur, at |-> song.subsongbytes]
      BY <2>3, <2>4 DEF IInv, Heard
    <3>2. stash'.from = song.subsongbytes
      BY <2>3, <2>4
    <3> QED BY <2>3, <3>1, <3>2
  <2>5. CASE seek.mode # NotSeeking /\ ~IsEnd
    <3>1. n = Behind /\ Behind \in Int
      BY <2>2, <2>5, Sought
    <3>2. CASE seek.mode = "SONG_RELATIVE"
      BY <2>2, <2>3, <2>5, <3>2, Sought
    <3>3. CASE seek.mode # "SONG_RELATIVE"
      <4>1. /\ Behind = song.subsongbytes + Size - seek.subsongoffs /\ seek.subsongoffs \in Nat
            /\ due = [subsong |-> song.cur, at |-> seek.subsongoffs]
        BY <2>2, <2>3, <2>5, <3>3, Sought, HasTypes DEF SeekType
      <4>2. stash'.from = song.subsongbytes + Size - Behind
        BY <2>3, <3>1
      <4>3. stash'.from = seek.subsongoffs
        <5> HIDE DEF n, all
        <5> DEFINE b == Behind
                   s == Size
        <5>1. /\ b = song.subsongbytes + s - seek.subsongoffs /\ stash'.from = song.subsongbytes + s - b
              /\ s \in Nat /\ song.subsongbytes \in Nat /\ seek.subsongoffs \in Nat
          BY <2>3, <4>1, <4>2
        <5> HIDE DEF b, s
        <5> QED BY <5>1
      <4> QED BY <2>3, <4>1, <4>3
    <3> QED BY <3>2, <3>3
  <2> QED BY <2>3, <2>4, <2>5
<1>2. Spec => [][Heard1]_vars
  BY <1>1, Invariance, PTL DEF Spec
<1> QED BY <1>2 DEF HeardExactly
=============================================================================
