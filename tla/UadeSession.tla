---------------------------- MODULE UadeSession ----------------------------
(***************************************************************************)
(* A libuade state and the uadecore thread it spawns, talking over UadeIpc:*)
(* the calls of uadestate.c and uadecontrol.c in the host's thread, and    *)
(* uade.c, audio.c and newcpu.c's outer loop in the core's.                *)
(*                                                                         *)
(* The host makes any of the calls its state allows, in any order and with *)
(* any pause between them.  The program the core emulates (score, player   *)
(* and module) posts any messages.  What the core keeps in static          *)
(* variables outlives its thread: the next state's core starts with it.    *)
(***************************************************************************)
EXTENDS UadeIpc

CONSTANTS
  MaxPosts,           (* bound: messages the Amiga program posts in one turn *)
  FilterBetweenSongs  (* whether uade_set_filter_state() is also called      *)
                      (* while no song plays                                 *)

ASSUME PostsAssumption == MaxPosts \in Nat
ASSUME FilterAssumption == FilterBetweenSongs \in BOOLEAN

VARIABLES
  host,    (* the call in progress, and what uade_state keeps              *)
  core,    (* where the core's thread is, and its static variables         *)
  late     (* history: some wait has reached the 30 s timeout              *)

vars == <<open, queue, ipc, todo, host, core, late>>

(* song is enum uade_state_symbol, trigger a pending subsong or seek, queued*)
(* a command in write_queue, back where a served file returns to; broken:   *)
(* uade_play() has returned -1, after which the state may only be cleaned   *)
(* up.                                                                      *)
NoHost == [pc |-> "none", api |-> "none", back |-> "none", song |-> "INVALID",
           trigger |-> FALSE, queued |-> FALSE, broken |-> FALSE]

(* read_size counts in requests of uade_read_request(), slow and output are *)
(* uadecore_audio_start_slow and uadecore_audio_output.                     *)
NewCore == [pc |-> "none", read_size |-> 0, reboot |-> FALSE, output |-> FALSE,
            slow |-> 0, posts |-> 0]

-----------------------------------------------------------------------------
(* uade_new_state(): a channel, a thread for the core, the config's name.   *)
uade_new_state ==
  /\ host.pc = "none"
  /\ Connect(<<"CONFIG">>)
  /\ host' = [NoHost EXCEPT !.pc = "idle"]
  /\ core' = [core EXCEPT !.pc = "config"]
  /\ UNCHANGED late

Idle == host.pc = "idle" /\ todo["host"] = <<>>

(* uade_play() of a song some player is found for.  The module is missing   *)
(* when the song is a player itself.                                        *)
uade_play(module, subsong) ==
  /\ Idle /\ host.song = "INVALID" /\ ~host.broken
  /\ todo' = [todo EXCEPT !["host"] = <<"SCORE", "FILE", "FILE_DATA">> \o module \o <<"TOKEN">>]
  /\ host' = [host EXCEPT !.pc = "ack", !.api = "play", !.trigger = subsong]
  /\ UNCHANGED <<open, queue, ipc, core, late>>

(* uade_read() of one block: the part of uade_get_event() that depends on   *)
(* the song's state.  The end of a song is reported before the next subsong *)
(* is read, if there is one; errors are reported at once.                   *)
uade_read ==
  /\ Idle
  /\ \/ /\ host.song = "RECEIVE_MSGS"
        /\ host' = [host EXCEPT !.pc = "event", !.api = "read"]
     \/ /\ host.song = "SONG_END_PENDING"
        /\ \E more \in BOOLEAN :
             host' = [host EXCEPT !.song = "WAIT_SUBSONG_CHANGE", !.trigger = @ \/ more]
     \/ /\ host.song = "WAIT_SUBSONG_CHANGE"
        /\ host' = [host EXCEPT !.pc = "event", !.api = "read", !.song = "RECEIVE_MSGS",
                                !.trigger = TRUE]
  /\ UNCHANGED <<open, queue, ipc, todo, core, late>>

(* queue_command(): sent at once in S state, else with the next request.    *)
uade_set_filter_state ==
  /\ Idle /\ (host.song # "INVALID" \/ FilterBetweenSongs)
  /\ IF ipc["host"] = "S"
     THEN todo' = [todo EXCEPT !["host"] = <<"OPTION">>] /\ UNCHANGED host
     ELSE host' = [host EXCEPT !.queued = TRUE] /\ UNCHANGED todo
  /\ UNCHANGED <<open, queue, ipc, core, late>>

(* uade_seek() only leaves a trigger for the next turn.                     *)
uade_seek ==
  /\ Idle /\ host.song # "INVALID" /\ ~host.trigger
  /\ host' = [host EXCEPT !.trigger = TRUE]
  /\ UNCHANGED <<open, queue, ipc, todo, core, late>>

(* uade_stop() does nothing to a state that plays nothing; uade_cleanup_    *)
(* state() stops, then closes the channel and waits for the thread.         *)
uade_stop ==
  /\ Idle /\ host.song # "INVALID"
  /\ host' = [host EXCEPT !.pc = "flush1", !.api = "stop", !.queued = FALSE]
  /\ UNCHANGED <<open, queue, ipc, todo, core, late>>

uade_cleanup_state ==
  /\ Idle
  /\ host' = [host EXCEPT !.pc = IF host.song = "INVALID" THEN "close" ELSE "flush1",
                          !.api = "cleanup", !.queued = FALSE]
  /\ UNCHANGED <<open, queue, ipc, todo, core, late>>

Caller == \/ uade_new_state \/ uade_read \/ uade_seek \/ uade_set_filter_state
          \/ uade_stop \/ uade_cleanup_state
          \/ \E module \in {<<"FILE", "FILE_DATA">>, <<"NOFILE">>}, subsong \in BOOLEAN :
               uade_play(module, subsong)

-----------------------------------------------------------------------------
(* How the calls go on.  uade_stop() returns to its caller.                 *)
StopReturns(ok) ==
  [host EXCEPT !.pc = IF host.api = "cleanup" THEN "close" ELSE "idle",
               !.song = IF ok THEN "INVALID" ELSE "ERROR",
               !.trigger = IF ok THEN FALSE ELSE @,
               !.broken = @ \/ (host.api = "play" /\ ~ok)]

(* uade_play_internal() gives up.  fatal: it will return -1.                *)
PlayStops(fatal) ==
  [host EXCEPT !.pc = "flush1", !.queued = FALSE, !.broken = @ \/ fatal]

PlayReturns(ok) == [host EXCEPT !.pc = "idle", !.broken = ~ok]

(* uade_get_event() fails: error_state() and -1.                            *)
EventFails == [IF host.api = "play" THEN PlayStops(TRUE) ELSE [host EXCEPT !.pc = "idle"]
                 EXCEPT !.song = "ERROR"]

(* Mutant: get_pending_events() tries again after an error.                 *)
FailsOrRetries(pc) ==
  CASE pc = "idle" -> [host EXCEPT !.pc = "close", !.api = "cleanup"]
    [] pc \in {"ack", "acktoken", "canttoken", "options"} -> PlayReturns(FALSE)
    [] pc = "event" -> EventFails
    [] pc \in {"flush1", "flush2"} -> host

(* What a failed send or receive makes of the call that was at pc.          *)
Fails(pc) ==
  CASE pc = "idle" -> [host EXCEPT !.pc = "close", !.api = "cleanup"]
    [] pc \in {"ack", "acktoken", "canttoken", "options"} -> PlayReturns(FALSE)
    [] pc = "event" -> EventFails
    [] pc \in {"flush1", "flush2"} -> StopReturns(FALSE)

Sending(messages) == todo' = [todo EXCEPT !["host"] = messages]
Receives(m) == Arrives("host", m) /\ Take("host", AfterReceiving(m))
HostGoes(h) == host' = h /\ UNCHANGED <<core, late>>

(* set_subsong(), if triggered and if the seek needs it, the commands queued *)
(* and read_request().  The first request of a song leaves the queue alone. *)
Request(queued) ==
  {subsong \o queued \o <<"READ", "TOKEN">> :
     subsong \in {<<>>} \cup (IF host.trigger THEN {<<"SUBSONG">>} ELSE {})}

-----------------------------------------------------------------------------
(* uade_song_initialization(): the core accepts or refuses the song, then   *)
(* gives the turn back.                                                     *)
SongAck(m) ==
  /\ host.pc = "ack" /\ Receives(m) /\ UNCHANGED todo
  /\ HostGoes(CASE m = "CAN_PLAY" -> [host EXCEPT !.pc = "acktoken"]
                [] m = "CANT_PLAY" -> [host EXCEPT !.pc = "canttoken"]
                [] OTHER -> PlayReturns(FALSE))

SongAckToken(m) ==
  /\ host.pc \in {"acktoken", "canttoken"} /\ Receives(m)
  /\ IF m = "TOKEN" /\ host.pc = "acktoken"
     THEN Sending(<<"OPTION">>) /\ HostGoes([host EXCEPT !.pc = "options"])
     ELSE UNCHANGED todo /\ HostGoes(PlayReturns(m = "TOKEN"))

(* With the options sent the song is initialized, and the first             *)
(* uade_get_event() asks for its first block.                               *)
SongInitialized ==
  /\ host.pc = "options" /\ todo["host"] = <<>>
  /\ \E request \in Request(<<>>) : Sending(request)
  /\ HostGoes([host EXCEPT !.pc = "event", !.song = "RECEIVE_MSGS", !.trigger = FALSE])
  /\ UNCHANGED <<open, queue, ipc>>

-----------------------------------------------------------------------------
(* receive_messages(), and what the play or read loop does with the event   *)
(* it returns.                                                              *)
Event(m) == host.pc = "event" /\ Receives(m)

(* The core gives the turn: commands and the next request.  The event that  *)
(* follows, EAGAIN, is one that uade_play() does not handle.                *)
EventReady ==
  /\ Event("TOKEN")
  /\ \E request \in Request(IF host.queued THEN <<"OPTION">> ELSE <<>>) : Sending(request)
  /\ HostGoes([IF host.api = "play" THEN PlayStops(TRUE) ELSE host
                 EXCEPT !.trigger = FALSE, !.queued = FALSE])

EventSongEnd ==
  /\ Event("SONG_END") /\ UNCHANGED todo
  /\ HostGoes([host EXCEPT !.song = "SONG_END_PENDING"])

(* A block: a read returns with it; uade_play() gives up if it was the last *)
(* one of the song, or silence or a time limit ends the song.               *)
EventData ==
  /\ Event("DATA") /\ UNCHANGED todo
  /\ HostGoes(IF host.api = "read" THEN [host EXCEPT !.pc = "idle"] ELSE PlayStops(FALSE))

(* A block that is dropped: by uade_play(), on the way to where a seek      *)
(* goes, or where silence or a time limit ends a subsong and there is       *)
(* another.                                                                 *)
EventSkipped ==
  /\ Event("DATA") /\ UNCHANGED todo /\ host.song = "RECEIVE_MSGS"
  /\ \E next \in BOOLEAN :
       HostGoes([host EXCEPT !.trigger = @ \/ (next /\ host.api = "read")])

(* Mutant: a file requested while the song is being stopped gets no answer. *)
RequestDropped ==
  /\ host.pc \in {"event", "flush1", "flush2"} /\ Arrives("host", "REQUEST")
  /\ Take("host", IF host.pc = "event" THEN "S" ELSE "R")
  /\ IF host.pc = "event" THEN Sending(<<"NOFILE">>) ELSE UNCHANGED todo
  /\ HostGoes(IF host.pc = "event" THEN [host EXCEPT !.pc = "serve", !.back = "event"] ELSE host)

EventRequestFile ==
  /\ host.pc \in {"event", "flush1", "flush2"} /\ Arrives("host", "REQUEST")
  /\ Take("host", "S")       \* send_file_back() forces the send state
  /\ \E file \in {<<"FILE", "FILE_DATA">>, <<"NOFILE">>} :
       (host.pc # "event" => file = <<"NOFILE">>) /\ Sending(file)
  /\ HostGoes([host EXCEPT !.pc = "serve", !.back = host.pc])

(* Mutant: the host is left in the state the file was sent in.              *)
FileServedInS ==
  /\ host.pc = "serve" /\ todo["host"] = <<>>
  /\ HostGoes([host EXCEPT !.pc = host.back, !.back = "none"])
  /\ UNCHANGED <<open, queue, ipc, todo>>

FileServed ==
  /\ host.pc = "serve" /\ todo["host"] = <<>>
  /\ ipc' = [ipc EXCEPT !["host"] = "R"]
  /\ HostGoes([host EXCEPT !.pc = host.back, !.back = "none"])
  /\ UNCHANGED <<open, queue, todo>>

(* An answer to a song's start is invalid.  Once the end is pending every   *)
(* other event is dropped.  Before, uade_play waits for the subsong info    *)
(* and fails on a log, uade_read fails on events that belong to the start   *)
(* of a song.                                                               *)
OtherEvents == {"NAME", "MSG", "LOGS", "SUBSONG_INFO", "CAN_PLAY", "CANT_PLAY"}

EventOther(m) ==
  /\ Event(m) /\ UNCHANGED todo
  /\ HostGoes(
       CASE m \in {"CAN_PLAY", "CANT_PLAY"} -> EventFails
         [] host.song = "SONG_END_PENDING" -> host
         [] host.api = "play" -> CASE m = "SUBSONG_INFO" -> PlayReturns(TRUE)
                                   [] m = "LOGS" -> PlayStops(TRUE)
                                   [] OTHER -> host
         [] OTHER -> IF m \in {"MSG", "LOGS"} THEN host ELSE [host EXCEPT !.pc = "idle"])

-----------------------------------------------------------------------------
(* uade_stop(): get_pending_events() drops what the core still sends until  *)
(* it gives the turn; the core is told to reboot, and what it sends up to   *)
(* its acknowledging token is dropped too.                                  *)
Flush(m) ==
  /\ host.pc \in {"flush1", "flush2"} /\ m # "REQUEST"
  /\ Receives(m) /\ UNCHANGED todo /\ HostGoes(host)

(* Mutant: the reboot is sent without waiting for the turn.                 *)
RebootsAtOnce ==
  /\ host.pc = "flush1" /\ todo["host"] = <<>>
  /\ Sending(<<"REBOOT", "TOKEN">>)
  /\ HostGoes([host EXCEPT !.pc = "flush2"])
  /\ UNCHANGED <<open, queue, ipc>>

Reboots ==
  /\ host.pc = "flush1" /\ todo["host"] = <<>> /\ ipc["host"] # "R"
  /\ Sending(<<"REBOOT", "TOKEN">>)
  /\ HostGoes([host EXCEPT !.pc = "flush2"])
  /\ UNCHANGED <<open, queue, ipc>>

(* Mutant: uade_stop() does not wait for the acknowledgement of the reboot. *)
StoppedEarly ==
  /\ host.pc = "flush2" /\ todo["host"] = <<>>
  /\ HostGoes(StopReturns(TRUE))
  /\ UNCHANGED ipcvars

Stopped ==
  /\ host.pc = "flush2" /\ todo["host"] = <<>> /\ ipc["host"] # "R"
  /\ HostGoes(StopReturns(TRUE))
  /\ UNCHANGED ipcvars

(* uade_arch_kill_and_wait_uadecore().                                      *)
ClosesChannel ==
  /\ host.pc = "close"
  /\ open' = [open EXCEPT !["host"] = FALSE]
  /\ HostGoes([host EXCEPT !.pc = "join"])
  /\ UNCHANGED <<queue, ipc, todo>>

Joined ==
  /\ host.pc = "join" /\ core.pc = "gone"
  /\ HostGoes(NoHost)
  /\ UNCHANGED ipcvars

-----------------------------------------------------------------------------
HostSends == SendsOne("host") /\ UNCHANGED <<host, core, late>>

(* A subsong change that cannot be sent is only warned about, and so are    *)
(* some of the options; a request that cannot be sent, before uade_play()   *)
(* stops, is an error of the event.                                         *)
OnlyWarned(m) == m = "SUBSONG" \/ (m = "OPTION" /\ host.pc \in {"options", "idle"})

HostSendFails(why) ==
  /\ why
  /\ ipc' = [ipc EXCEPT !["host"] = AfterFailedSend("host")]
  /\ \/ /\ OnlyWarned(Head(todo["host"]))
        /\ Sending(Tail(todo["host"])) /\ UNCHANGED host
     \/ /\ Head(todo["host"]) # "SUBSONG" /\ <<host.pc, Head(todo["host"])>> # <<"idle", "OPTION">>
        /\ Sending(<<>>)
        /\ host' = CASE host.pc = "serve" -> [Fails(host.back) EXCEPT !.back = "none"]
                     [] host.pc = "flush1" -> [host EXCEPT !.song = "ERROR"]
                     [] OTHER -> Fails(host.pc)
  /\ UNCHANGED <<open, queue, core>>

HostWaits == \/ host.pc \in {"ack", "acktoken", "canttoken", "event"}
             \/ host.pc \in {"flush1", "flush2"} /\ ipc["host"] = "R"

HostReceiveFails(why) ==
  /\ HostWaits /\ why
  /\ host' = Fails(host.pc)
  /\ UNCHANGED <<open, queue, ipc, todo, core>>

HostStep ==
  \/ \E m \in FromCore : SongAck(m) \/ SongAckToken(m) \/ Flush(m)
  \/ \E m \in OtherEvents : EventOther(m)
  \/ SongInitialized \/ EventReady \/ EventSongEnd \/ EventData \/ EventSkipped
  \/ EventRequestFile \/ FileServed \/ Reboots \/ Stopped \/ ClosesChannel \/ Joined \/ HostSends
  \/ HostSendFails(CannotSend("host")) /\ UNCHANGED late
  \/ HostReceiveFails(CannotReceive("host")) /\ UNCHANGED late

HostTimesOut == /\ HostSendFails(StaysFull("host")) \/ HostReceiveFails(StaysEmpty("host"))
                /\ late' = TRUE

-----------------------------------------------------------------------------
(* The core's thread ends by exit().  Statics keep their values; the end of *)
(* the channel is closed only where close_ipc() is called before.           *)
Exits(closes) ==
  /\ core' = [core EXCEPT !.pc = "gone"]
  /\ open' = [open EXCEPT !["core"] = ~closes /\ @]
  /\ todo' = [todo EXCEPT !["core"] = <<>>]

CoreArrives(m) == Arrives("core", m)
CoreTakes(m) == Take("core", AfterReceiving(m))
CoreSending(messages) == todo' = [todo EXCEPT !["core"] = messages]
CoreGoes(c) == core' = c /\ UNCHANGED <<host, late>>

(* What uadecore_option(), uadecore_reset() and uade_request_amiga_file()   *)
(* wait for, one message after another: pc, the message, the next pc.       *)
Expected == {<<"config", "CONFIG", "score">>,
             <<"score", "SCORE", "player">>, <<"rebooted", "SCORE", "player">>,
             <<"player", "FILE", "player_data">>, <<"player_data", "FILE_DATA", "module">>,
             <<"module", "FILE", "module_data">>, <<"module", "NOFILE", "start">>,
             <<"module_data", "FILE_DATA", "start">>,
             <<"request", "FILE", "request_data">>}

CoreLoads(m) ==
  \E e \in Expected :
    /\ core.pc = e[1] /\ m = e[2] /\ CoreArrives(m) /\ CoreTakes(m)
    /\ CoreGoes([core EXCEPT !.pc = e[3], !.reboot = @ \/ m = "CONFIG"])
    /\ UNCHANGED todo

(* The config names a file the core cannot load.                            *)
ConfigUnreadable ==
  /\ core.pc = "config" /\ CoreArrives("CONFIG")
  /\ queue' = [queue EXCEPT !["core"] = Tail(@)]
  /\ Exits(TRUE)
  /\ UNCHANGED <<ipc, host, late>>

(* Mutant: a refused song is followed by commands, as an accepted one.      *)
CoreStartsAnyway ==
  /\ core.pc = "start" /\ CoreArrives("TOKEN") /\ CoreTakes("TOKEN")
  /\ \E ack \in {"CAN_PLAY", "CANT_PLAY"} : CoreSending(<<ack, "TOKEN">>)
  /\ CoreGoes([core EXCEPT !.pc = "commands", !.reboot = FALSE, !.output = FALSE, !.slow = 0])

(* The song can be played, or not; either way the turn goes back.           *)
CoreStarts ==
  /\ core.pc = "start" /\ CoreArrives("TOKEN") /\ CoreTakes("TOKEN")
  /\ \/ /\ CoreSending(<<"CAN_PLAY", "TOKEN">>)
        /\ CoreGoes([core EXCEPT !.pc = "commands", !.reboot = FALSE,
                                 !.output = FALSE, !.slow = 0])
     \/ /\ CoreSending(<<"CANT_PLAY", "TOKEN">>)
        /\ CoreGoes([core EXCEPT !.pc = "score"])

(* uadecore_handle_r_state(): commands up to the token.                     *)
Command(m) == core.pc = "commands" /\ CoreArrives(m)

CoreCommand(m) ==
  /\ Command(m) /\ CoreTakes(m) /\ UNCHANGED todo
  /\ m \in {"OPTION", "SUBSONG", "REBOOT", "TOKEN"} \/ (m = "READ" /\ core.read_size = 0)
  /\ CoreGoes(CASE m = "READ" -> [core EXCEPT !.read_size = 1]
                [] m = "REBOOT" -> [core EXCEPT !.reboot = TRUE]
                [] m = "TOKEN" -> [core EXCEPT !.pc = "run", !.posts = 0]
                [] OTHER -> core)

(* Any other message, in any of these places, is an error that ends uadecore.*)
Unexpected(m) ==
  CASE core.pc = "commands" -> \/ m \notin {"OPTION", "SUBSONG", "REBOOT", "TOKEN", "READ"}
                               \/ m = "READ" /\ core.read_size # 0
    [] core.pc = "start" -> m # "TOKEN"
    [] core.pc = "request" -> m \notin {"FILE", "NOFILE"}
    [] core.pc = "request_data" -> m # "FILE_DATA"
    [] OTHER -> \A e \in Expected : <<core.pc, m>> # <<e[1], e[2]>>

CoreRejects(m) ==
  /\ core.pc \notin {"none", "gone", "run"}
  /\ CoreArrives(m) /\ Unexpected(m)
  /\ queue' = [queue EXCEPT !["core"] = Tail(@)]
  /\ Exits(TRUE)
  /\ UNCHANGED <<ipc, host, late>>

-----------------------------------------------------------------------------
(* The emulation, while no reboot is pending.                               *)
Emulates == core.pc = "run" /\ todo["core"] = <<>> /\ ~core.reboot

(* The Amiga program posts a message, announces the end of the song, asks   *)
(* for a file, or reports that its audio output starts.                     *)
Posts(m) ==
  /\ Emulates /\ core.posts < MaxPosts
  /\ CoreSending(<<m>>)
  /\ CoreGoes([core EXCEPT !.posts = @ + 1, !.pc = IF m = "REQUEST" THEN "request" ELSE @,
                           !.output = @ \/ m = "SONG_END"])
  /\ UNCHANGED <<open, queue, ipc>>

AmigaPosts == \E m \in {"NAME", "MSG", "SUBSONG_INFO", "SONG_END", "REQUEST"} : Posts(m)

StartsOutput ==
  /\ Emulates /\ ~core.output
  /\ CoreGoes([core EXCEPT !.output = TRUE])
  /\ UNCHANGED ipcvars

(* The requested file has come: uade_request_amiga_file() is in S again.    *)
FileReceived(m) ==
  /\ <<core.pc, m>> \in {<<"request", "NOFILE">>, <<"request_data", "FILE_DATA">>}
  /\ CoreArrives(m) /\ Take("core", "S") /\ UNCHANGED todo
  /\ CoreGoes([core EXCEPT !.pc = "run"])

(* check_sound_buffers() as emulated time passes.  Before the output starts *)
(* only its lateness is logged, once.  The start is logged, then every full *)
(* block goes to the host, with the turn.                                   *)
LogsSlowStart ==
  /\ Emulates /\ ~core.output /\ core.slow = 0
  /\ CoreSending(<<"LOGS">>)
  /\ CoreGoes([core EXCEPT !.slow = 1])
  /\ UNCHANGED <<open, queue, ipc>>

LogsStart ==
  /\ Emulates /\ core.output /\ core.slow < 2
  /\ CoreSending(<<"LOGS">>)
  /\ CoreGoes([core EXCEPT !.slow = 2])
  /\ UNCHANGED <<open, queue, ipc>>

BlockFull ==
  /\ Emulates /\ core.output /\ core.slow = 2
  /\ CoreSending(<<"DATA", "TOKEN">>)
  /\ CoreGoes([core EXCEPT !.pc = "commands"])
  /\ UNCHANGED <<open, queue, ipc>>

(* m68k_go() leaves the emulation and acknowledges the reboot.              *)
RebootAck ==
  /\ core.pc = "run" /\ todo["core"] = <<>> /\ core.reboot
  /\ CoreSending(<<"TOKEN">>)
  /\ CoreGoes([core EXCEPT !.pc = "rebooted"])
  /\ UNCHANGED <<open, queue, ipc>>

-----------------------------------------------------------------------------
(* Mutant: the request is not cleared when its block is sent.               *)
CoreSendsOnly == SendsOne("core") /\ UNCHANGED <<host, core, late>>

(* A block that was sent has been read.                                     *)
CoreSends ==
  /\ SendsOne("core")
  /\ CoreGoes([core EXCEPT !.read_size = IF Head(todo["core"]) = "DATA" THEN 0 ELSE @])

(* Names and debug messages that cannot be sent are forgotten.  A log or    *)
(* the reboot's acknowledgement that cannot be sent ends the thread with    *)
(* its end of the channel open; all else closes it first.                   *)
Forgotten(m) == m \in {"NAME", "MSG"}
ClosesIpc(m) == m # "LOGS" /\ core.pc # "rebooted"

CoreSendFails(why) ==
  LET m == Head(todo["core"]) IN
  /\ why
  /\ ipc' = [ipc EXCEPT !["core"] = AfterFailedSend("core")]
  /\ IF Forgotten(m) THEN CoreSending(<<>>) /\ UNCHANGED <<core, open>>
     ELSE Exits(ClosesIpc(m))
  /\ UNCHANGED <<queue, host>>

(* End of file, timeout or error on a read: close_ipc() and exit().         *)
CoreReceiveFails(why) ==
  /\ core.pc \notin {"none", "gone", "run"} /\ why
  /\ Exits(TRUE)
  /\ UNCHANGED <<queue, ipc, host>>

CoreStep ==
  \/ \E m \in FromHost : CoreLoads(m) \/ CoreCommand(m) \/ CoreRejects(m) \/ FileReceived(m)
  \/ ConfigUnreadable \/ CoreStarts \/ LogsSlowStart \/ LogsStart \/ BlockFull \/ RebootAck \/ CoreSends
  \/ CoreSendFails(CannotSend("core")) /\ UNCHANGED late
  \/ CoreReceiveFails(CannotReceive("core")) /\ UNCHANGED late

CoreTimesOut == /\ CoreSendFails(StaysFull("core")) \/ CoreReceiveFails(StaysEmpty("core"))
                /\ late' = TRUE

-----------------------------------------------------------------------------
Init == IpcInit /\ host = NoHost /\ core = NewCore /\ late = FALSE

Next == Caller \/ HostStep \/ HostTimesOut \/ CoreStep \/ AmigaPosts \/ StartsOutput
        \/ CoreTimesOut

Spec == Init /\ [][Next]_vars

(* Both threads run, emulated time passes, and no wait outlasts its         *)
(* timeout.  A seek ends: every block moves the position towards it, and    *)
(* the subsongs are finitely many.  Nothing is assumed of the callers and   *)
(* of the Amiga program.                                                    *)
FairSpec == /\ Spec
            /\ WF_vars(HostStep) /\ WF_vars(HostTimesOut)
            /\ WF_vars(CoreStep) /\ WF_vars(CoreTimesOut)
            /\ SF_vars(EventData)
-----------------------------------------------------------------------------
HostType ==
  [pc : {"none", "idle", "ack", "acktoken", "canttoken", "options", "event", "serve",
         "flush1", "flush2", "close", "join"},
   api : {"none", "play", "read", "stop", "cleanup"},
   back : {"none", "event", "flush1", "flush2"},
   song : {"INVALID", "RECEIVE_MSGS", "SONG_END_PENDING", "WAIT_SUBSONG_CHANGE", "ERROR"},
   trigger : BOOLEAN, queued : BOOLEAN, broken : BOOLEAN]

CoreType ==
  [pc : {"none", "config", "score", "rebooted", "player", "player_data", "module",
         "module_data", "start", "commands", "run", "request", "request_data", "gone"},
   read_size : {0, 1}, reboot : BOOLEAN, output : BOOLEAN, slow : 0..2, posts : 0..MaxPosts]

(* Every variable has its type, and no ring holds more than it has room for;*)
(* a file is served only on behalf of a call.                               *)
TypeOK == /\ IpcTypeOK /\ host \in HostType /\ core \in CoreType /\ late \in BOOLEAN
          /\ host.pc = "serve" => host.back # "none"

CoreWaits == core.pc \notin {"none", "gone", "run"}

(* "The protocol is a strict token ping-pong, so only one side is ever      *)
(* sending" (uadechannel.c): a side that sends has read all there was for   *)
(* it, and the other side sends nothing.                                    *)
OneSideSends ==
  \A p \in Sides : todo[p] # <<>> => queue[p] = <<>> /\ todo[Other(p)] = <<>>

(* The states uadestate.c, uadeipc.c and audio.c assert or answer with      *)
(* "protocol error": nobody sends in R state or receives in S state, a song *)
(* that has ended leaves the host in R state, and the core emulates only    *)
(* with a request for audio to fill.                                        *)
StatesRespected ==
  /\ \A p \in Sides : todo[p] # <<>> => ipc[p] # "R"
  /\ HostWaits /\ todo["host"] = <<>> => ipc["host"] # "S"
  /\ CoreWaits /\ todo["core"] = <<>> => ipc["core"] # "S"
  /\ Idle /\ host.song \in {"SONG_END_PENDING", "WAIT_SUBSONG_CHANGE"} => ipc["host"] = "R"
  /\ Emulates => core.read_size > 0

(* The two threads never wait for each other's message, unless one of them  *)
(* has given up on a message before: no call ends by the timeout only.      *)
NoMutualWait ==
  ~late => ~(HostWaits /\ StaysEmpty("host") /\ CoreWaits /\ StaysEmpty("core"))

(* A message is read where it is expected.  What the core sends is never    *)
(* taken for something else; what the host sends ends the core with an      *)
(* error at most after a timeout, when a call was given up half way.        *)
HostUnderstands ==
  \A m \in FromCore : Arrives("host", m) =>
    CASE host.pc = "ack" -> m \in {"CAN_PLAY", "CANT_PLAY"}
      [] host.pc \in {"acktoken", "canttoken"} -> m = "TOKEN"
      [] host.pc = "event" -> m \notin {"CAN_PLAY", "CANT_PLAY"}
      [] OTHER -> TRUE

CoreUnderstands == CoreWaits => \A m \in FromHost : CoreArrives(m) => ~Unexpected(m)

MessagesUnderstood == HostUnderstands /\ (~late => CoreUnderstands)

(* Between songs, "the next song can be played without additional           *)
(* bureaucracy" (uade_stop): nothing of the last song is left to receive,   *)
(* the host has the turn, and the core waits for a song, unless it ended.   *)
ReadyForNext ==
  Idle /\ host.song = "INVALID" /\ ~host.broken =>
    /\ queue["host"] = <<>> /\ ipc["host"] # "R"
    /\ core.pc \in {"config", "score", "rebooted", "gone"}

(* When uade_cleanup_state() has returned, the core has closed its end of   *)
(* the channel, which frees the slot, and left no request in the static     *)
(* variables the next core starts with, unless there was a timeout.         *)
CleanAtEnd == ~late /\ host.pc = "none" => ~open["core"] /\ core.read_size = 0

(* Provided that the emulated program, as long as it runs, comes to start   *)
(* its audio output, every call returns to its caller: no interleaving of   *)
(* messages, ends and timeouts leaves it waiting.                           *)
OutputComes == []<>(Emulates => core.output)
CallsReturn ==
  OutputComes => (host.pc \notin {"none", "idle"} ~> host.pc \in {"none", "idle"})

-----------------------------------------------------------------------------
(* What comments and the API's documentation say, and the code does not do. *)

(* Closing the host's end ends the core, so the cleanup gets its thread.    *)
JoinReturns == host.pc = "join" ~> host.pc = "none"
=============================================================================
