-------------------------- MODULE UadeTurnsProofs --------------------------
(***************************************************************************)
(* More proofs about UadeSession: what holds as long as no wait has        *)
(* reached its timeout.  The two threads never wait for each other, the    *)
(* core reads every message where it expects it, and its thread leaves     *)
(* nothing behind for the next one.                                        *)
(*                                                                         *)
(* To what UadeSessionProofs says of the messages on the way, this         *)
(* invariant adds that they come: while a thread runs, the one that waits  *)
(* is sent what it waits for.                                              *)
(***************************************************************************)
EXTENDS UadeSessionProofs

(* Every message of M is followed by an m.                                 *)
Before(s, M, m) == \A i \in 1..Len(s) : s[i] \in M => i < Len(s) /\ s[i + 1] = m

(* The core has a request to fill; no song is being started, played or     *)
(* stopped.                                                                *)
Serving == {"commands", "run", "request", "request_data"}
AtRest == (host.pc = "idle" /\ host.song = "INVALID") \/ host.pc \in {"close", "join"}

(* A core that has ended has closed its end of the channel, and has left   *)
(* no request behind.                                                      *)
Ended ==
  /\ Alive <=> open["core"]
  /\ core.pc \notin Serving => core.read_size = 0

(* Between songs the core waits for the next one.                          *)
Rests ==
  AtRest => /\ ToHost = <<>> /\ core.pc \in {"config", "score", "rebooted"}
            /\ All(ToCore, {"CONFIG", "OPTION"})

(* While both threads wait, the turn or a file is on the way to the core.  *)
Given ==
  CoreWaits /\ ToHost = <<>> /\ (ipc["host"] = "R" \/ ServedAll) =>
    EndsIn(ToCore, {"TOKEN"}) \/ core.pc \in Requested

(* A request is answered with a file, and the core that waits for one has  *)
(* not given the turn.                                                     *)
Answered ==
  /\ core.pc \in Requested /\ ToHost = <<>> => EndsIn(ToCore, Completions)
  /\ core.pc \in {"run"} \cup Requested => Lacks(ToHost, {"TOKEN"})

(* A request or a reboot is the last command of a turn. A request is read  *)
(* when the last one is filled, and only uade_stop() reboots the core.     *)
Commanded ==
  /\ core.pc = "commands" =>
       /\ Before(ToCore, {"READ", "REBOOT"}, "TOKEN")
       /\ core.read_size = 0 \/ Begins(ToCore, "TOKEN") \/ ~Lacks(todo["core"], {"DATA"})
       /\ core.reboot => core.read_size = 0 /\ Begins(ToCore, "TOKEN")
       /\ core.reboot \/ ~Lacks(ToCore, {"REBOOT"}) => host.pc = "flush2"
  /\ core.pc = "run" /\ core.reboot => core.read_size = 0 /\ host.pc = "flush2"
  /\ core.pc = "rebooted" /\ InSong => host.pc = "flush2"

(* What is still to come of a song or a file, by what the core waits for.  *)
SongParts == {<<"SCORE", "FILE", "FILE_DATA", "FILE", "FILE_DATA", "TOKEN">>,
              <<"SCORE", "FILE", "FILE_DATA", "NOFILE", "TOKEN">>}
PlayerParts == {<<"FILE", "FILE_DATA", "FILE", "FILE_DATA", "TOKEN">>,
                <<"FILE", "FILE_DATA", "NOFILE", "TOKEN">>}
PlayerData == {<<"FILE_DATA", "FILE", "FILE_DATA", "TOKEN">>, <<"FILE_DATA", "NOFILE", "TOKEN">>}
ModuleParts == {<<"FILE", "FILE_DATA", "TOKEN">>, <<"NOFILE", "TOKEN">>}

(* A song comes next, or a filter command that was sent between songs.     *)
SongNext(s) == s = <<>> \/ s \in SongParts \/ (FilterBetweenSongs /\ Begins(s, "OPTION"))

Loads ==
  /\ core.pc = "config" => Begins(ToCore, "CONFIG") /\ SongNext(Tail(ToCore))
  /\ core.pc \in {"score", "rebooted"} => SongNext(ToCore)
  /\ core.pc = "player" => ToCore \in PlayerParts
  /\ core.pc = "player_data" => ToCore \in PlayerData
  /\ core.pc = "module" => ToCore \in ModuleParts
  /\ core.pc = "module_data" => ToCore = <<"FILE_DATA", "TOKEN">>
  /\ core.pc = "start" => ToCore = <<"TOKEN">>
  /\ core.pc = "request" => ToCore \in {<<>>, <<"FILE", "FILE_DATA">>, <<"NOFILE">>}
  /\ core.pc = "request_data" => ToCore = <<"FILE_DATA">>

(* The invariant of the behaviours without a timeout.                      *)
Calm == Rests /\ Given /\ Answered /\ Commanded /\ Loads
InTime == Ended /\ (Alive => Calm)
TInv == IInv /\ (~late => InTime)

-----------------------------------------------------------------------------
(* What is said of commands when the first one is taken or others follow.  *)
LEMMA BeforeTail ==
  ASSUME NEW S, NEW s \in Seq(S), s # <<>>, NEW M, NEW m, Before(s, M, m)
  PROVE  Before(Tail(s), M, m) /\ (Head(s) \in M => Begins(Tail(s), m))
<1> DEFINE t == Tail(s)
<1>1. /\ Len(s) \in Nat /\ Len(s) >= 1 /\ Head(s) = s[1]
      /\ t \in Seq(S) /\ Len(t) = Len(s) - 1
      /\ \A i \in 1..Len(t) : t[i] = s[i + 1]
  OBVIOUS
<1> HIDE DEF t
<1>2. Len(t) > 0 => t # <<>> /\ Head(t) = t[1]
  BY <1>1
<1>3. ASSUME NEW i \in 1..Len(t), t[i] \in M PROVE i < Len(t) /\ t[i + 1] = m
  <2>1. i + 1 \in 1..Len(s) /\ s[i + 1] \in M
    BY <1>1, <1>3
  <2>2. i + 1 < Len(s) /\ s[i + 2] = m
    BY <2>1 DEF Before
  <2>3. i + 1 \in 1..Len(t) /\ (i + 1) + 1 = i + 2
    BY <1>1, <2>2
  <2> QED BY <1>1, <2>2, <2>3
<1>4. ASSUME Head(s) \in M PROVE Begins(t, m)
  <2>1. 1 \in 1..Len(s) /\ 1 + 1 = 2
    BY <1>1
  <2>2. 1 < Len(s) /\ s[2] = m
    BY <1>1, <1>4, <2>1 DEF Before
  <2>3. 1 \in 1..Len(t) /\ t[1] = m
    BY <1>1, <2>1, <2>2
  <2> QED BY <1>1, <1>2, <2>3 DEF Begins
<1> QED BY <1>3, <1>4 DEF Before, t

LEMMA BeforeCat ==
  ASSUME NEW S, NEW s \in Seq(S), NEW t \in Seq(S), NEW M, NEW m, Before(s, M, m), Before(t, M, m)
  PROVE  Before(s \o t, M, m)
<1>1. /\ s \o t \in Seq(S) /\ Len(s \o t) = Len(s) + Len(t) /\ Len(s) \in Nat /\ Len(t) \in Nat
      /\ \A i \in 1..Len(s) + Len(t) : (s \o t)[i] = IF i <= Len(s) THEN s[i] ELSE t[i - Len(s)]
  BY ConcatProperties, LenProperties
<1> SUFFICES ASSUME NEW i \in 1..Len(s \o t), (s \o t)[i] \in M
             PROVE  i < Len(s \o t) /\ (s \o t)[i + 1] = m
  BY DEF Before
<1>2. CASE i <= Len(s)
  <2>1. i \in 1..Len(s) /\ s[i] \in M
    BY <1>1, <1>2
  <2>2. i < Len(s) /\ s[i + 1] = m
    BY <2>1 DEF Before
  <2>3. i + 1 \in 1..Len(s) + Len(t) /\ i + 1 <= Len(s)
    BY <1>1, <2>2
  <2> QED BY <1>1, <2>2, <2>3
<1>3. CASE ~(i <= Len(s))
  <2>1. i - Len(s) \in 1..Len(t) /\ t[i - Len(s)] \in M
    BY <1>1, <1>3
  <2>2. i - Len(s) < Len(t) /\ t[(i - Len(s)) + 1] = m
    BY <2>1 DEF Before
  <2>3. i + 1 \in 1..Len(s) + Len(t) /\ ~(i + 1 <= Len(s)) /\ (i + 1) - Len(s) = (i - Len(s)) + 1
    BY <1>1, <1>3, <2>2
  <2> QED BY <1>1, <2>2, <2>3
<1> QED BY <1>2, <1>3

LEMMA BeginsCat ==
  ASSUME NEW S, NEW s \in Seq(S), NEW t \in Seq(S), s # <<>>
  PROVE  s \o t # <<>> /\ Head(s \o t) = Head(s) /\ Tail(s \o t) = Tail(s) \o t
BY CatKeeps

LEMMA LacksBefore == ASSUME NEW s, NEW M, NEW m, Lacks(s, M) PROVE Before(s, M, m)
BY DEF Lacks, Before

(* A single message, and none.                                             *)
LEMMA Short ==
  /\ \A M : ~EndsIn(<<>>, M)
  /\ \A M, m : Before(<<>>, M, m) /\ ~Begins(<<>>, m)
  /\ \A M, n : n \notin M => \A m : Before(<<n>>, M, m)
BY DEF EndsIn, Before, Begins

(* The commands of a request, and of a reboot, are in order.               *)
LEMMA RequestsBefore ==
  ASSUME NEW queued \in {<<>>, <<"OPTION">>}, NEW r \in Request(queued)
  PROVE  Before(r, {"READ", "REBOOT"}, "TOKEN") /\ Lacks(r, {"REBOOT"})
<1>1. PICK subsong \in {<<>>, <<"SUBSONG">>} : r = subsong \o queued \o <<"READ", "TOKEN">>
  BY DEF Request
<1> DEFINE M == {"READ", "REBOOT"}
           t == <<"READ", "TOKEN">>
<1>2. t \in Seq(FromHost) /\ Before(t, M, "TOKEN") /\ Lacks(t, {"REBOOT"})
  BY DEF FromHost, Before, Lacks
<1>3. ASSUME NEW s, s = <<>> \/ (\E n \in {"SUBSONG", "OPTION"} : s = <<n>>)
      PROVE  s \in Seq(FromHost) /\ Before(s, M, "TOKEN") /\ Lacks(s, {"REBOOT"})
  <2>1. ASSUME NEW n \in {"SUBSONG", "OPTION"}
        PROVE  <<n>> \in Seq(FromHost) /\ Lacks(<<n>>, M) /\ Lacks(<<n>>, {"REBOOT"})
    <3>1. n \in FromHost
      BY DEF FromHost
    <3> QED BY <3>1, One
  <2>2. <<>> \in Seq(FromHost) /\ Lacks(<<>>, M) /\ Lacks(<<>>, {"REBOOT"})
    BY Empty
  <2>3. s \in Seq(FromHost) /\ Lacks(s, M) /\ Lacks(s, {"REBOOT"})
    BY <1>3, <2>1, <2>2
  <2> QED BY <2>3, LacksBefore
<1> HIDE DEF M, t
<1> DEFINE s == subsong \o queued
<1>4. /\ subsong \in Seq(FromHost) /\ Before(subsong, M, "TOKEN") /\ Lacks(subsong, {"REBOOT"})
      /\ queued \in Seq(FromHost) /\ Before(queued, M, "TOKEN") /\ Lacks(queued, {"REBOOT"})
  BY <1>3
<1>5. s \in Seq(FromHost) /\ Before(s, M, "TOKEN") /\ Lacks(s, {"REBOOT"})
  BY <1>4, CatKeeps, BeforeCat
<1>7. r = s \o t
  BY <1>1 DEF t
<1> HIDE DEF s
<1>6. Before(s \o t, M, "TOKEN") /\ Lacks(s \o t, {"REBOOT"})
  BY <1>2, <1>5, CatKeeps, BeforeCat
<1> QED BY <1>6, <1>7 DEF M

LEMMA RebootBefore ==
  Before(<<"REBOOT", "TOKEN">>, {"READ", "REBOOT"}, "TOKEN") /\ ~Lacks(<<"REBOOT", "TOKEN">>, {"REBOOT"})
BY DEF Before, Lacks

(* A concatenation, given by its elements.                                 *)
LEMMA CatTuples ==
  ASSUME NEW S, NEW s \in Seq(S), NEW t \in Seq(S), NEW u \in Seq(S), Len(u) = Len(s) + Len(t),
         \A i \in 1..Len(s) : u[i] = s[i], \A i \in 1..Len(t) : u[Len(s) + i] = t[i]
  PROVE  s \o t = u
<1>1. /\ s \o t \in Seq(S) /\ Len(s \o t) = Len(s) + Len(t) /\ Len(s) \in Nat /\ Len(t) \in Nat
      /\ \A i \in 1..Len(s) + Len(t) : (s \o t)[i] = IF i <= Len(s) THEN s[i] ELSE t[i - Len(s)]
  BY ConcatProperties, LenProperties
<1>2. ASSUME NEW i \in 1..Len(u) PROVE (s \o t)[i] = u[i]
  <2>1. CASE i <= Len(s)
    <3>1. i \in 1..Len(s)
      BY <1>1, <2>1
    <3> QED BY <1>1, <2>1, <3>1
  <2>2. CASE ~(i <= Len(s))
    <3>1. i - Len(s) \in 1..Len(t) /\ Len(s) + (i - Len(s)) = i
      BY <1>1, <2>2
    <3> QED BY <1>1, <2>2, <3>1
  <2> QED BY <2>1, <2>2
<1>3. s \o t \in Seq(S) /\ u \in Seq(S) /\ Len(s \o t) = Len(u)
  BY <1>1
<1> QED BY <1>2, <1>3, SeqEqual

(* The messages of a song, as a list.                                      *)
LEMMA SongIs ==
  /\ <<"SCORE", "FILE", "FILE_DATA">> \o <<"FILE", "FILE_DATA">> \o <<"TOKEN">> =
       <<"SCORE", "FILE", "FILE_DATA", "FILE", "FILE_DATA", "TOKEN">>
  /\ <<"SCORE", "FILE", "FILE_DATA">> \o <<"NOFILE">> \o <<"TOKEN">> =
       <<"SCORE", "FILE", "FILE_DATA", "NOFILE", "TOKEN">>
<1> DEFINE s == <<"SCORE", "FILE", "FILE_DATA">>
           m1 == <<"FILE", "FILE_DATA">>
           m2 == <<"NOFILE">>
           t == <<"TOKEN">>
           u1 == <<"SCORE", "FILE", "FILE_DATA", "FILE", "FILE_DATA">>
           u2 == <<"SCORE", "FILE", "FILE_DATA", "NOFILE">>
           v1 == <<"SCORE", "FILE", "FILE_DATA", "FILE", "FILE_DATA", "TOKEN">>
           v2 == <<"SCORE", "FILE", "FILE_DATA", "NOFILE", "TOKEN">>
<1>1. /\ s \in Seq(FromHost) /\ m1 \in Seq(FromHost) /\ m2 \in Seq(FromHost) /\ t \in Seq(FromHost)
      /\ u1 \in Seq(FromHost) /\ u2 \in Seq(FromHost) /\ v1 \in Seq(FromHost) /\ v2 \in Seq(FromHost)
  BY DEF FromHost
<1>2. /\ Len(s) = 3 /\ Len(m1) = 2 /\ Len(m2) = 1 /\ Len(t) = 1
      /\ Len(u1) = 5 /\ Len(u2) = 4 /\ Len(v1) = 6 /\ Len(v2) = 5
  OBVIOUS
<1>3. /\ \A i \in 1..3 : u1[i] = s[i] /\ u2[i] = s[i]
      /\ \A i \in 1..2 : u1[3 + i] = m1[i]
      /\ \A i \in 1..1 : u2[3 + i] = m2[i]
  OBVIOUS
<1>4. /\ \A i \in 1..5 : v1[i] = u1[i]
      /\ \A i \in 1..4 : v2[i] = u2[i]
      /\ \A i \in 1..1 : v1[5 + i] = t[i] /\ v2[4 + i] = t[i]
  OBVIOUS
<1> HIDE DEF s, m1, m2, t, u1, u2, v1, v2
<1>5. s \o m1 = u1
  <2>1. /\ s \in Seq(FromHost) /\ m1 \in Seq(FromHost) /\ u1 \in Seq(FromHost) /\ Len(u1) = Len(s) + Len(m1)
        /\ \A i \in 1..Len(s) : u1[i] = s[i]
        /\ \A i \in 1..Len(m1) : u1[Len(s) + i] = m1[i]
    BY <1>1, <1>2, <1>3
  <2> QED BY <2>1, CatTuples
<1>6. s \o m2 = u2
  <2>1. /\ s \in Seq(FromHost) /\ m2 \in Seq(FromHost) /\ u2 \in Seq(FromHost) /\ Len(u2) = Len(s) + Len(m2)
        /\ \A i \in 1..Len(s) : u2[i] = s[i]
        /\ \A i \in 1..Len(m2) : u2[Len(s) + i] = m2[i]
    BY <1>1, <1>2, <1>3
  <2> QED BY <2>1, CatTuples
<1>7. u1 \o t = v1
  <2>1. /\ u1 \in Seq(FromHost) /\ t \in Seq(FromHost) /\ v1 \in Seq(FromHost) /\ Len(v1) = Len(u1) + Len(t)
        /\ \A i \in 1..Len(u1) : v1[i] = u1[i]
        /\ \A i \in 1..Len(t) : v1[Len(u1) + i] = t[i]
    BY <1>1, <1>2, <1>4
  <2> QED BY <2>1, CatTuples
<1>8. u2 \o t = v2
  <2>1. /\ u2 \in Seq(FromHost) /\ t \in Seq(FromHost) /\ v2 \in Seq(FromHost) /\ Len(v2) = Len(u2) + Len(t)
        /\ \A i \in 1..Len(u2) : v2[i] = u2[i]
        /\ \A i \in 1..Len(t) : v2[Len(u2) + i] = t[i]
    BY <1>1, <1>2, <1>4
  <2> QED BY <2>1, CatTuples
<1>9. s \o m1 \o t = v1 /\ s \o m2 \o t = v2
  BY <1>5, <1>6, <1>7, <1>8
<1> QED BY <1>9 DEF s, m1, m2, t, v1, v2

(* What arrives at the host is the first message on the way to it.         *)
LEMMA FirstToHost ==
  ASSUME IInv, NEW m, Arrives("host", m)
  PROVE  ToHost \in Seq(FromCore) /\ ToHost # <<>> /\ m = Head(ToHost)
<1> DEFINE q == queue["host"]
           t == todo["core"]
<1>1. /\ q \in Seq(FromCore) /\ t \in Seq(FromCore) /\ q # <<>> /\ m = Head(q)
      /\ ToHost = q \o t /\ ToHost \in Seq(FromCore)
  BY Types DEF Arrives, IInv, TypeOK, ToHost
<1> HIDE DEF q, t
<1> QED BY <1>1, CatKeeps

(* The same for the core.                                                  *)
LEMMA FirstToCore ==
  ASSUME IInv, NEW m, Arrives("core", m)
  PROVE  ToCore \in Seq(FromHost) /\ ToCore # <<>> /\ m = Head(ToCore)
<1> DEFINE q == queue["core"]
           t == todo["host"]
<1>1. /\ q \in Seq(FromHost) /\ t \in Seq(FromHost) /\ q # <<>> /\ m = Head(q)
      /\ ToCore = q \o t /\ ToCore \in Seq(FromHost)
  BY Types DEF Arrives, IInv, TypeOK, ToCore
<1> HIDE DEF q, t
<1> QED BY <1>1, CatKeeps

-----------------------------------------------------------------------------
(* Once the core's thread has ended there is nothing more to say of it.    *)
LEMMA Over ==
  ASSUME InTime, ~Alive, core' = core, open'["core"] = open["core"]
  PROVE  InTime'
BY DEF InTime, Ended, Alive

(* A step of the host that leaves what is on the way as it is.             *)
LEMMA HostKeeps ==
  ASSUME IInv, InTime, core' = core, open'["core"] = open["core"], todo'["core"] = todo["core"],
         ToCore' = ToCore, ToHost' = ToHost,
         Alive => Rests' /\ Given',
         Alive /\ host.pc = "flush2" => host'.pc = "flush2" \/ core.pc = "rebooted",
         core.pc = "rebooted" /\ InSong' => host'.pc = "flush2"
  PROVE  InTime'
<1>1. CASE ~Alive
  BY <1>1, Over
<1>2. CASE Alive
  <2>1. Ended /\ Calm
    BY <1>2 DEF InTime
  <2>2. Ended' /\ Rests' /\ Given'
    BY <1>2, <2>1 DEF Ended, Alive
  <2>3. Answered'
    BY <2>1 DEF Calm, Answered
  <2>4. Commanded'
    BY <1>2, <2>1 DEF Calm, Commanded
  <2>5. Loads'
    BY <2>1 DEF Calm, Loads
  <2> QED BY <2>2, <2>3, <2>4, <2>5 DEF InTime, Calm
<1> QED BY <1>1, <1>2

(* When the host has the turn the core, if it runs, waits for commands or   *)
(* for a song.                                                             *)
LEMMA HostsTurn ==
  ASSUME IInv, InTime, Alive, todo["host"] = <<>>, ipc["host"] # "R", host.pc # "serve"
  PROVE  ToHost = <<>> /\ core.pc # "run" /\ core.pc \notin Requested
<1>1. ToHost = <<>>
  BY DEF IInv, Wire, ServedAll
<1>2. core.pc # "run"
  BY DEF IInv, CoreSide, Wire, ServedAll
<1>3. core.pc \notin Requested
  <2> SUFFICES ASSUME core.pc \in Requested PROVE FALSE
    OBVIOUS
  <2>1. EndsIn(ToCore, Completions)
    BY <1>1 DEF InTime, Calm, Answered
  <2> QED BY <2>1 DEF IInv, Wire, ServedAll
<1> QED BY <1>1, <1>2, <1>3

(* The host has the turn and starts to send commands or a song.            *)
LEMMA HostAdds ==
  ASSUME IInv, InTime, UNCHANGED <<open, queue, ipc, core, late>>, host.pc # "serve", host'.pc # "serve",
         todo["host"] = <<>>, ipc["host"] # "R",
         NEW new \in Seq(FromHost), new # <<>>, todo' = [todo EXCEPT !["host"] = new],
         Alive => Rests',
         Alive /\ host.pc = "flush2" => host'.pc = "flush2",
         Before(new, {"READ", "REBOOT"}, "TOKEN") \/ ~InSong,
         Lacks(new, {"REBOOT"}) \/ host'.pc = "flush2",
         core.pc = "rebooted" /\ InSong' => host'.pc = "flush2",
         InSong \/ (AtRest /\ SongNext(new)),
         Alive /\ InSong => core.pc = "commands",
         Alive /\ ~InSong => core.pc \in {"config", "score", "rebooted"}
  PROVE  InTime'
<1>1. CASE ~Alive
  BY <1>1, Over
<1>2. CASE Alive
  <2>1. Ended /\ Calm /\ Ended'
    BY <1>2 DEF InTime, Ended, Alive
  <2>2. ToHost = <<>> /\ core.pc # "run" /\ core.pc \notin Requested
    BY <1>2, HostsTurn
  <2>3. todo'["host"] = new /\ todo'["core"] = todo["core"] /\ queue["core"] \in Seq(FromHost)
    BY Types DEF IInv, TypeOK, Shape, Sides
  <2>4. ToHost' = <<>> /\ ToCore' = ToCore \o new /\ ToCore \in Seq(FromHost)
    <3>1. queue["core"] \o <<>> = queue["core"]
      BY <2>3
    <3> QED BY <2>2, <2>3, <3>1 DEF ToCore, ToHost
  <2>5. Rests' /\ Given'
    BY <1>2 DEF Given, ServedAll
  <2>6. Answered'
    BY <2>2 DEF Answered
  <2>7. Commanded'
    <3> SUFFICES ASSUME InSong PROVE Commanded'
      BY <1>2, <2>2 DEF Commanded
    <3>1. core.pc = "commands"
      BY <1>2
    <3>2. Before(ToCore, {"READ", "REBOOT"}, "TOKEN") /\ Before(new, {"READ", "REBOOT"}, "TOKEN")
      BY <2>1, <3>1 DEF Calm, Commanded
    <3>3. Before(ToCore', {"READ", "REBOOT"}, "TOKEN")
      BY <2>4, <3>2, BeforeCat
    <3>4. Begins(ToCore, "TOKEN") => Begins(ToCore', "TOKEN")
      BY <2>4, BeginsCat DEF Begins
    <3>5. Lacks(ToCore', {"REBOOT"}) <=> Lacks(ToCore, {"REBOOT"}) /\ Lacks(new, {"REBOOT"})
      BY <2>4, CatKeeps
    <3> QED BY <1>2, <2>1, <2>3, <3>1, <3>3, <3>4, <3>5 DEF Calm, Commanded
  <2>8. Loads'
    <3> SUFFICES ASSUME ~InSong PROVE Loads'
      BY <1>2 DEF Loads, Requested
    <3>1. SongNext(new) /\ core.pc \in {"config", "score", "rebooted"}
      BY <1>2
    <3>2. ASSUME NEW s \in Seq(FromHost), SongNext(s), All(s, {"CONFIG", "OPTION"})
          PROVE  SongNext(s \o new)
      <4>1. CASE s = <<>>
        <5>1. <<>> \o new = new
          OBVIOUS
        <5> QED BY <3>1, <4>1, <5>1
      <4>2. CASE s # <<>>
        <5>1. Head(s) \in {"CONFIG", "OPTION"}
          BY <3>2, <4>2, TailKeeps
        <5>2. s \notin SongParts
          BY <5>1 DEF SongParts
        <5>3. FilterBetweenSongs /\ Begins(s \o new, "OPTION")
          BY <3>2, <4>2, <5>1, <5>2, BeginsCat DEF SongNext, Begins
        <5> QED BY <5>3 DEF SongNext
      <4> QED BY <4>1, <4>2
    <3>3. All(ToCore, {"CONFIG", "OPTION"})
      BY <2>1 DEF Calm, Rests
    <3>4. CASE core.pc = "config"
      <4>1. Begins(ToCore, "CONFIG") /\ SongNext(Tail(ToCore))
        BY <2>1, <3>4 DEF Calm, Loads
      <4>2. Tail(ToCore) \in Seq(FromHost) /\ All(Tail(ToCore), {"CONFIG", "OPTION"})
        BY <2>4, <3>3, <4>1, TailKeeps DEF Begins
      <4>3. SongNext(Tail(ToCore) \o new)
        BY <3>2, <4>1, <4>2
      <4>4. Begins(ToCore', "CONFIG") /\ Tail(ToCore') = Tail(ToCore) \o new
        BY <2>4, <4>1, BeginsCat DEF Begins
      <4> QED BY <1>2, <3>4, <4>3, <4>4 DEF Loads, Requested
    <3>5. CASE core.pc # "config"
      <4>1. SongNext(ToCore')
        BY <2>1, <2>4, <3>1, <3>2, <3>3, <3>5 DEF Calm, Loads
      <4> QED BY <3>1, <3>5, <4>1 DEF Loads, Requested
    <3> QED BY <3>4, <3>5
  <2> QED BY <2>1, <2>5, <2>6, <2>7, <2>8 DEF InTime, Calm
<1> QED BY <1>1, <1>2

(* A step of the host that takes a message: what it answers goes to a core  *)
(* that waits for it.                                                      *)
LEMMA HostTakesInTime ==
  ASSUME IInv, InTime, UNCHANGED <<core, late>>, host.pc # "serve",
         host' \in HostType, host'.pc = "serve" => host'.back # "none",
         NEW m, NEW state \in {"R", "S"}, NEW new \in Seq(FromHost), HostTakes(m, state, new),
         state = "S" <=> m \in Turns,
         new # <<>> => m \in Turns /\ state = "S",
         OnlyLast(new, {"TOKEN"}), OnlyLast(new, Completions),
         Alive => Rests',
         host'.pc = "serve" => m = "REQUEST",
         m = "REQUEST" => EndsIn(new, Completions) /\ (Alive => core.pc = "request"),
         Alive /\ new # <<>> => \/ core.pc = "commands"
                                \/ core.pc = "request" /\ new \in {<<"FILE", "FILE_DATA">>, <<"NOFILE">>},
         Alive /\ core.pc = "commands" /\ new # <<>> =>
           /\ Before(new, {"READ", "REBOOT"}, "TOKEN") /\ Lacks(new, {"REBOOT"}),
         Alive /\ host.pc = "flush2" => host'.pc = "flush2",
         core.pc = "rebooted" /\ InSong' => host'.pc = "flush2"
  PROVE  InTime'
<1>1. CASE ~Alive
  BY <1>1, Over, HostTookOne
<1>2. CASE Alive
  <2>1. /\ m \in FromCore /\ ToHost # <<>> /\ m = Head(ToHost) /\ ToHost' = Tail(ToHost)
        /\ m \in Turns => ToHost' = <<>>
        /\ ToCore = <<>> /\ ToCore' = new
        /\ todo["host"] = <<>> /\ todo'["host"] = new
        /\ ipc'["host"] = state /\ open' = open
        /\ \A M : Lacks(ToHost, M) => m \notin M /\ Lacks(ToHost', M)
    BY HostTookOne
  <2>2. todo'["core"] = todo["core"] /\ ToHost \in Seq(FromCore)
    BY HostTook, Types DEF IInv, TypeOK
  <2>3. Ended /\ Calm /\ Ended'
    BY <1>2, <2>1 DEF InTime, Ended, Alive
  <2>4. CoreWaits /\ ToHost' = <<>> => m \in Turns
    <3>1. EndsIn(ToHost, Turns) /\ Tail(ToHost) = <<>> => Head(ToHost) \in Turns
      BY <2>1, <2>2, TailKeeps
    <3> QED BY <2>1, <3>1 DEF IInv, Wire
  <2>5. Given'
    BY <1>2, <2>1, <2>4 DEF Given, CoreWaits, ServedAll, Requested, Turns
  <2>6. Answered'
    <3>1. core.pc \in Requested => CoreWaits /\ m # "TOKEN"
      BY <2>1, <2>3 DEF Calm, Answered, Requested, CoreWaits
    <3> QED BY <2>1, <2>3, <2>4, <3>1 DEF Calm, Answered, Turns
  <2>7. Commanded'
    <3>1. core.pc = "commands" => ~core.reboot /\ (core.read_size = 0 \/ ~Lacks(todo["core"], {"DATA"}))
      BY <2>1, <2>3, Short DEF Calm, Commanded
    <3>2. new = <<>> => Before(new, {"READ", "REBOOT"}, "TOKEN") /\ Lacks(new, {"REBOOT"})
      BY Short, Empty
    <3> QED BY <1>2, <2>1, <2>2, <2>3, <3>1, <3>2 DEF Calm, Commanded
  <2>8. Loads'
    <3>1. core.pc \notin {"config", "player", "player_data", "module", "module_data", "start", "request_data"}
      BY <2>1, <2>3 DEF Calm, Loads, Begins, PlayerParts, PlayerData, ModuleParts
    <3> QED BY <1>2, <2>1, <3>1 DEF Loads, SongNext
  <2> QED BY <1>2, <2>3, <2>5, <2>6, <2>7, <2>8 DEF InTime, Calm
<1> QED BY <1>1, <1>2

(* The host takes a message and answers nothing.                           *)
LEMMA HostReceivesInTime ==
  ASSUME IInv, InTime, UNCHANGED <<todo, core, late>>, host.pc # "serve", host'.pc # "serve",
         host' \in HostType, NEW m, m # "REQUEST", Receives(m),
         Alive => Rests',
         Alive /\ host.pc = "flush2" => host'.pc = "flush2",
         core.pc = "rebooted" /\ InSong' => host'.pc = "flush2"
  PROVE  InTime'
<1> DEFINE state == AfterReceiving(m)
<1>1. state \in {"R", "S"} /\ (state = "S" <=> m \in Turns)
  BY DEF AfterReceiving, Turns
<1>2. HostTakes(m, state, <<>>)
  <2>1. todo["host"] = <<>>
    BY DEF Receives, Arrives
  <2>2. todo' = [todo EXCEPT !["host"] = <<>>]
    BY <2>1, NothingNew DEF IInv, Sides
  <2> QED BY <2>2 DEF HostTakes, Receives
<1>3. OnlyLast(<<>>, {"TOKEN"}) /\ OnlyLast(<<>>, Completions) /\ <<>> \in Seq(FromHost)
  BY Empty
<1> HIDE DEF state
<1> QED BY <1>1, <1>2, <1>3, HostTakesInTime

-----------------------------------------------------------------------------
(* Calls that only change what the host keeps, and calls that end.         *)
LEMMA CallsInTime ==
  ASSUME IInv, InTime, uade_read \/ uade_seek \/ uade_stop \/ uade_cleanup_state
  PROVE  InTime'
<1>1. /\ host.pc = "idle" /\ UNCHANGED <<open, queue, ipc, todo, core, late>>
      /\ \/ host.song # "INVALID" /\ host'.song # "INVALID" /\ host'.pc \in {"idle", "event", "flush1"}
         \/ host.song = "INVALID" /\ host'.pc = "close"
  BY DEF uade_read, uade_seek, uade_stop, uade_cleanup_state, Idle, IInv, TypeOK, HostType
<1>2. ToCore' = ToCore /\ ToHost' = ToHost /\ ~ServedAll' /\ ~ServedAll
  BY <1>1 DEF ToCore, ToHost, ServedAll
<1>3. (AtRest' <=> AtRest) /\ (InSong' <=> InSong)
  BY <1>1 DEF AtRest, InSong
<1>4. Alive => Rests' /\ Given'
  BY <1>1, <1>2, <1>3 DEF InTime, Calm, Rests, Given, CoreWaits
<1>5. ~(core.pc = "rebooted" /\ InSong')
  BY <1>1, <1>3 DEF InTime, Calm, Commanded, Alive
<1> QED BY <1>1, <1>2, <1>4, <1>5, HostKeeps

(* A filter command is queued, or follows what the core has been sent.     *)
LEMMA FilterInTime == ASSUME IInv, InTime, uade_set_filter_state PROVE InTime'
<1>1. /\ host.pc = "idle" /\ todo["host"] = <<>> /\ UNCHANGED <<open, queue, ipc, core, late>>
      /\ InSong \/ (AtRest /\ FilterBetweenSongs)
  BY DEF uade_set_filter_state, Idle, InSong, AtRest
<1>2. core.pc # "rebooted" \/ ~InSong
  BY <1>1 DEF InTime, Calm, Commanded, Alive
<1>3. CASE ipc["host"] = "S"
  <2> DEFINE new == <<"OPTION">>
  <2>1. /\ new \in Seq(FromHost) /\ new # <<>> /\ Lacks(new, {"READ", "REBOOT"}) /\ Lacks(new, {"REBOOT"})
        /\ Begins(new, "OPTION") /\ All(new, {"CONFIG", "OPTION"})
        /\ OnlyLast(new, {"TOKEN"}) /\ OnlyLast(new, Completions)
    <3>1. "OPTION" \in FromHost
      BY DEF FromHost
    <3> QED BY <3>1, One DEF Begins
  <2>2. Before(new, {"READ", "REBOOT"}, "TOKEN")
    BY <2>1, LacksBefore
  <2>3. todo' = [todo EXCEPT !["host"] = new] /\ host' = host
    BY <1>3 DEF uade_set_filter_state
  <2> HIDE DEF new
  <2>4. InSong \/ (AtRest /\ SongNext(new))
    BY <1>1, <2>1 DEF SongNext
  <2>5. (AtRest' <=> AtRest) /\ (InSong' <=> InSong) /\ ~(AtRest /\ InSong)
    BY <1>1, <2>3 DEF AtRest, InSong
  <2>6. Alive => ToHost = <<>> /\ core.pc # "run" /\ core.pc \notin Requested
    BY <1>1, <1>3, HostsTurn
  <2>7. Alive /\ InSong => core.pc = "commands"
    BY <1>2, <2>6 DEF IInv, Plays, Alive, Requested
  <2>8. Alive /\ ~InSong => core.pc \in {"config", "score", "rebooted"}
    BY <1>1 DEF InTime, Calm, Rests
  <2>9. Alive => Rests'
    <3> SUFFICES ASSUME Alive, AtRest PROVE ToHost' = <<>> /\ All(ToCore', {"CONFIG", "OPTION"})
      BY <1>1, <2>5 DEF Rests, InTime, Calm
    <3>1. ToHost' = <<>> /\ ToCore' = ToCore \o new /\ ToCore \in Seq(FromHost)
      <4>1. host' \in HostType /\ host.pc # "serve" /\ host'.pc # "serve" /\ ipc["host"] # "R"
        BY <1>1, <1>3, <2>3 DEF IInv, TypeOK
      <4> QED BY <1>1, <2>1, <2>3, <4>1, HostStarts
    <3> QED BY <2>1, <3>1, CatKeeps DEF InTime, Calm, Rests
  <2> QED BY <1>1, <1>2, <1>3, <2>1, <2>2, <2>3, <2>4, <2>5, <2>7, <2>8, <2>9, HostAdds
<1>4. CASE ipc["host"] # "S"
  <2>1. /\ host' = [host EXCEPT !.queued = TRUE] /\ UNCHANGED todo
    BY <1>4 DEF uade_set_filter_state
  <2>2. host'.pc = "idle" /\ host'.song = host.song
    BY <1>1, <2>1 DEF IInv, TypeOK, HostType
  <2>3. ToCore' = ToCore /\ ToHost' = ToHost /\ (AtRest' <=> AtRest) /\ (InSong' <=> InSong)
    BY <1>1, <2>1, <2>2 DEF ToCore, ToHost, AtRest, InSong
  <2>4. Alive => Rests' /\ Given'
    BY <1>1, <2>1, <2>2, <2>3 DEF InTime, Calm, Rests, Given, CoreWaits, ServedAll
  <2> QED BY <1>1, <1>2, <2>1, <2>2, <2>3, <2>4, HostKeeps
<1> QED BY <1>3, <1>4

(* A song is sent to a core that waits for one.                            *)
LEMMA uade_playInTime ==
  ASSUME IInv, InTime, NEW module \in {<<"FILE", "FILE_DATA">>, <<"NOFILE">>}, NEW subsong \in BOOLEAN,
         uade_play(module, subsong)
  PROVE  InTime'
<1>1. PICK new : new = <<"SCORE", "FILE", "FILE_DATA">> \o module \o <<"TOKEN">>
  OBVIOUS
<1>2. new \in Seq(FromHost) /\ new # <<>>
  BY <1>1, Songs
<1>3. new \in SongParts
  <2>1. CASE module = <<"FILE", "FILE_DATA">>
    <3>1. new = <<"SCORE", "FILE", "FILE_DATA", "FILE", "FILE_DATA", "TOKEN">>
      BY <1>1, <2>1, SongIs
    <3> QED BY <3>1 DEF SongParts
  <2>2. CASE module = <<"NOFILE">>
    <3>1. new = <<"SCORE", "FILE", "FILE_DATA", "NOFILE", "TOKEN">>
      BY <1>1, <2>2, SongIs
    <3> QED BY <3>1 DEF SongParts
  <2> QED BY <2>1, <2>2
<1>4. /\ AtRest /\ host.pc = "idle" /\ todo["host"] = <<>> /\ Ready /\ ~InSong
      /\ todo' = [todo EXCEPT !["host"] = new] /\ UNCHANGED <<open, queue, ipc, core, late>>
      /\ host' = [host EXCEPT !.pc = "ack", !.api = "play", !.trigger = subsong]
  BY <1>1 DEF uade_play, Idle, AtRest, Ready, InSong
<1>5. host'.pc = "ack" /\ ~AtRest' /\ ~InSong' /\ ipc["host"] # "R"
  BY <1>4 DEF IInv, TypeOK, HostType, AtRest, InSong, Starts
<1>6. SongNext(new) /\ (Alive => Rests') /\ (Alive => core.pc \in {"config", "score", "rebooted"})
  BY <1>3, <1>4, <1>5 DEF SongNext, Rests, InTime, Calm
<1>7. Lacks(new, {"REBOOT"})
  BY <1>3 DEF SongParts, Lacks
<1> QED BY <1>2, <1>4, <1>5, <1>6, <1>7, HostAdds

(* A request, or the reboot, is sent to a core that waits for commands.    *)
LEMMA SongInitializedInTime == ASSUME IInv, InTime, SongInitialized PROVE InTime'
<1>1. PICK new \in Request(<<>>) :
        /\ host.pc = "options" /\ todo["host"] = <<>> /\ UNCHANGED <<open, queue, ipc, core, late>>
        /\ todo' = [todo EXCEPT !["host"] = new]
        /\ host' = [host EXCEPT !.pc = "event", !.song = "RECEIVE_MSGS", !.trigger = FALSE]
  BY DEF SongInitialized, Sending, HostGoes
<1>2. /\ new \in Seq(FromHost) /\ new # <<>>
      /\ Before(new, {"READ", "REBOOT"}, "TOKEN") /\ Lacks(new, {"REBOOT"})
  BY <1>1, Requests, RequestsBefore
<1>3. host'.pc = "event" /\ ipc["host"] = "S" /\ InSong /\ ~AtRest'
  BY <1>1 DEF IInv, TypeOK, HostType, HostSide, InSong, AtRest
<1>4. core.pc # "rebooted"
  BY <1>1, <1>3 DEF InTime, Calm, Commanded, Alive
<1>5. Alive => core.pc = "commands" /\ Rests'
  BY <1>1, <1>3, <1>4, HostsTurn DEF IInv, Plays, Alive, Requested, Rests
<1> QED BY <1>1, <1>2, <1>3, <1>4, <1>5, HostAdds

LEMMA RebootsInTime == ASSUME IInv, InTime, Reboots PROVE InTime'
<1> DEFINE new == <<"REBOOT", "TOKEN">>
<1>1. /\ host.pc = "flush1" /\ todo["host"] = <<>> /\ UNCHANGED <<open, queue, ipc, core, late>>
      /\ ipc["host"] # "R" /\ todo' = [todo EXCEPT !["host"] = new]
      /\ host' = [host EXCEPT !.pc = "flush2"]
  BY DEF Reboots, Sending, HostGoes
<1>2. new \in Seq(FromHost) /\ new # <<>> /\ Before(new, {"READ", "REBOOT"}, "TOKEN")
  BY Reboot, RebootBefore
<1> HIDE DEF new
<1>3. host'.pc = "flush2" /\ InSong /\ ~AtRest'
  BY <1>1 DEF IInv, TypeOK, HostType, InSong, AtRest
<1>4. core.pc # "rebooted"
  BY <1>1, <1>3 DEF InTime, Calm, Commanded, Alive
<1>5. Alive => core.pc = "commands" /\ Rests'
  BY <1>1, <1>3, <1>4, HostsTurn DEF IInv, Plays, Alive, Requested, Rests
<1> QED BY <1>1, <1>2, <1>3, <1>4, <1>5, HostAdds

(* The core has acknowledged the reboot, and is at rest.                   *)
LEMMA StoppedInTime == ASSUME IInv, InTime, Stopped PROVE InTime'
<1>1. /\ host.pc = "flush2" /\ ipc["host"] # "R" /\ todo["host"] = <<>> /\ ToHost = <<>>
      /\ host'.song = "INVALID" /\ host'.pc \in {"close", "idle"}
      /\ UNCHANGED <<open, queue, ipc, todo, core, late>>
  <2>1. /\ host.pc = "flush2" /\ ipc["host"] # "R" /\ todo["host"] = <<>>
        /\ host' = StopReturns(TRUE) /\ UNCHANGED <<open, queue, ipc, todo, core, late>>
    BY DEF Stopped, HostGoes, ipcvars
  <2>2. ToHost = <<>>
    BY <2>1 DEF IInv, Wire, ServedAll
  <2>3. host'.song = "INVALID" /\ host'.pc \in {"close", "idle"}
    BY <2>1, Outcomes DEF IInv, TypeOK
  <2> QED BY <2>1, <2>2, <2>3
<1>2. core.pc \in {"rebooted", "gone"} /\ ToCore = <<>>
  BY <1>1 DEF IInv, Stops
<1>3. ToCore' = ToCore /\ ToHost' = ToHost /\ ~InSong' /\ ~ServedAll'
  BY <1>1 DEF ToCore, ToHost, InSong, ServedAll
<1>4. Alive => Rests' /\ Given'
  BY <1>1, <1>2, <1>3, Empty DEF Alive, Rests, Given
<1> QED BY <1>1, <1>2, <1>3, <1>4, HostKeeps DEF Alive

(* The host closes the channel of a core at rest, and waits for its end.   *)
LEMMA ClosesInTime == ASSUME IInv, InTime, ClosesChannel \/ Joined PROVE InTime'
<1>1. /\ host.pc \in {"close", "join"} /\ host'.pc \in {"join", "none"} /\ (host'.pc = "none" => ~Alive)
      /\ open'["core"] = open["core"] /\ UNCHANGED <<queue, ipc, todo, core, late>>
  BY DEF ClosesChannel, Joined, HostGoes, NoHost, ipcvars, Alive, IInv, TypeOK, IpcTypeOK, HostType, Sides
<1>2. ToCore' = ToCore /\ ToHost' = ToHost /\ ~InSong' /\ ~ServedAll'
  BY <1>1 DEF ToCore, ToHost, InSong, ServedAll
<1>3. Alive => Rests' /\ Given'
  BY <1>1, <1>2 DEF InTime, Calm, AtRest, Rests, Given, CoreWaits
<1> QED BY <1>1, <1>2, <1>3, HostKeeps

(* The next message of a batch goes out.  With the last one of a turn the  *)
(* core gets it.                                                           *)
LEMMA HostSendsInTime == ASSUME IInv, InTime, HostSends PROVE InTime'
<1> DEFINE t == todo["host"]
           m == Head(todo["host"])
<1>1. SendsOne("host") /\ UNCHANGED <<host, core, late>>
  BY DEF HostSends
<1>2. /\ ToCore' = ToCore /\ ToHost' = ToHost
      /\ todo'["core"] = todo["core"] /\ todo'["host"] = Tail(t)
      /\ t # <<>> /\ ipc["host"] # "R" /\ open' = open
      /\ ipc'["host"] = IF m \in Turns THEN "R" ELSE "S"
  BY <1>1, HostSent DEF IInv, TypeOK
<1>3. /\ t \in Seq(FromHost) /\ queue["core"] \in Seq(FromHost) /\ ToCore = queue["core"] \o t
      /\ m \in FromHost
  BY <1>2, Types, TailKeeps DEF IInv, TypeOK, ToCore
<1>4. host.pc = "serve" => core.pc \in Requested \cup {"gone"}
  BY <1>2 DEF IInv, Plays
<1>5. m \in Turns => EndsIn(ToCore, {"TOKEN"})
  <2> SUFFICES ASSUME m \in Turns PROVE EndsIn(ToCore, {"TOKEN"})
    OBVIOUS
  <2> HIDE DEF t
  <2>1. m = "TOKEN" /\ m = Head(t)
    BY <1>3 DEF Turns, FromHost, t
  <2>2. OnlyLast(t, {"TOKEN"})
    BY <1>2, <1>3, CatKeeps DEF IInv, Wire
  <2>3. EndsIn(t, {"TOKEN"})
    BY <1>2, <1>3, <2>1, <2>2, TailKeeps
  <2> QED BY <1>2, <1>3, <2>3, CatKeeps
<1>6. AtRest' = AtRest /\ InSong' = InSong
  BY <1>1 DEF AtRest, InSong
<1>7. Alive => Rests' /\ Given'
  BY <1>1, <1>2, <1>4, <1>5, <1>6 DEF InTime, Calm, Rests, Given, ServedAll, CoreWaits, Alive
<1>8. core.pc = "rebooted" /\ InSong' => host'.pc = "flush2"
  BY <1>1, <1>6 DEF InTime, Calm, Commanded, Alive
<1> QED BY <1>1, <1>2, <1>7, <1>8, HostKeeps

(* The file is sent: the host waits again, and the core has the file.      *)
LEMMA FileServedInTime == ASSUME IInv, InTime, FileServed PROVE InTime'
<1>1. /\ host.pc = "serve" /\ todo["host"] = <<>> /\ UNCHANGED <<open, queue, todo, core, late>>
      /\ host' = [host EXCEPT !.pc = host.back, !.back = "none"]
  BY DEF FileServed, HostGoes
<1>2. /\ host'.pc \in {"event", "flush1"} /\ host'.song # "INVALID"
      /\ ToCore' = ToCore /\ ToHost' = ToHost /\ ServedAll /\ InSong
  BY <1>1 DEF IInv, TypeOK, HostType, HostSide, ToCore, ToHost, ServedAll, InSong
<1>3. Alive => Rests' /\ Given'
  BY <1>1, <1>2 DEF InTime, Calm, Rests, AtRest, Given, ServedAll, CoreWaits
<1>4. core.pc # "rebooted"
  BY <1>1, <1>2 DEF InTime, Calm, Commanded, Alive
<1> QED BY <1>1, <1>2, <1>3, <1>4, HostKeeps

-----------------------------------------------------------------------------
(* The host receives: the answer to a song, and the turn after it.         *)
LEMMA SongAckInTime == ASSUME IInv, IInv', InTime, NEW m \in FromCore, SongAck(m) PROVE InTime'
<1>1. /\ host.pc = "ack" /\ Receives(m) /\ UNCHANGED <<todo, core, late>>
      /\ host' = CASE m = "CAN_PLAY" -> [host EXCEPT !.pc = "acktoken"]
                   [] m = "CANT_PLAY" -> [host EXCEPT !.pc = "canttoken"]
                   [] OTHER -> PlayReturns(FALSE)
      /\ host \in HostType /\ host' \in HostType
  BY DEF SongAck, HostGoes, IInv, TypeOK
<1>3. ToHost # <<>> /\ m = Head(ToHost)
  BY <1>1, FirstToHost DEF Receives
<1>4. m \in {"CAN_PLAY", "CANT_PLAY"}
  BY <1>1, <1>3 DEF IInv, Starts
<1>5. host'.pc \in {"acktoken", "canttoken"}
  BY <1>1, <1>4 DEF HostType
<1>6. ~InSong' /\ Rests'
  BY <1>5 DEF InSong, Rests, AtRest
<1> QED BY <1>1, <1>4, <1>5, <1>6, HostReceivesInTime

LEMMA SongAckTokenInTime ==
  ASSUME IInv, IInv', InTime, NEW m \in FromCore, SongAckToken(m)
  PROVE  InTime'
<1>1. /\ host.pc \in {"acktoken", "canttoken"} /\ Receives(m) /\ UNCHANGED <<core, late>>
      /\ host \in HostType /\ host' \in HostType /\ host.song = "INVALID"
  BY DEF SongAckToken, HostGoes, IInv, TypeOK, HostSide
<1>2. m = "TOKEN"
  <2>3. ToHost \in Seq(FromCore) /\ ToHost # <<>> /\ m = Head(ToHost)
    BY <1>1, FirstToHost DEF Receives
  <2>4. All(ToHost, {"TOKEN"})
    BY <1>1 DEF IInv, Starts
  <2>5. m \in {"TOKEN"}
    BY <2>3, <2>4, TailKeeps
  <2> QED BY <2>5
<1>3. CASE host.pc = "acktoken"
  <2> DEFINE new == <<"OPTION">>
  <2>1. todo' = [todo EXCEPT !["host"] = new] /\ host'.pc = "options" /\ ~AtRest'
    BY <1>1, <1>2, <1>3 DEF SongAckToken, HostGoes, Sending, HostType, AtRest
  <2>2. /\ new \in Seq(FromHost) /\ OnlyLast(new, {"TOKEN"}) /\ OnlyLast(new, Completions)
        /\ Lacks(new, {"READ", "REBOOT"}) /\ Lacks(new, {"REBOOT"})
    <3>1. "OPTION" \in FromHost
      BY DEF FromHost
    <3> QED BY <3>1, One
  <2>3. Before(new, {"READ", "REBOOT"}, "TOKEN")
    BY <2>2, LacksBefore
  <2>4. HostTakes(m, "S", new) /\ m \in Turns
    BY <1>1, <1>2, <2>1 DEF HostTakes, Receives, AfterReceiving, Turns
  <2> HIDE DEF new
  <2>5. core.pc \in {"commands", "gone"}
    BY <1>1, <1>3 DEF IInv, Starts
  <2> QED BY <1>1, <1>2, <1>3, <2>1, <2>2, <2>3, <2>4, <2>5, HostTakesInTime DEF Alive, Rests
<1>4. CASE host.pc = "canttoken"
  <2>1. host' = PlayReturns(TRUE) /\ UNCHANGED todo
    BY <1>1, <1>2, <1>4 DEF SongAckToken, HostGoes
  <2>2. host'.pc = "idle" /\ host'.song = "INVALID" /\ ~host'.broken
    BY <1>1, <2>1, Outcomes
  <2>3. Alive => Rests'
    BY <1>1, <2>2 DEF IInv, Starts, Ready, Rests, AtRest, Alive
  <2>4. ~InSong'
    BY <2>2 DEF InSong
  <2> QED BY <1>1, <1>2, <1>4, <2>1, <2>2, <2>3, <2>4, HostReceivesInTime
<1> QED BY <1>1, <1>3, <1>4

(* The events of a song that is read, and what is dropped when it stops.   *)
LEMMA EventsInTime ==
  ASSUME IInv, IInv', InTime,
         EventSongEnd \/ EventData \/ EventSkipped \/ (\E m \in OtherEvents : EventOther(m))
  PROVE  InTime'
<1>1. PICK m \in FromCore \ Turns :
        /\ Event(m) /\ UNCHANGED <<todo, core, late>>
        /\ host' \in HostType /\ host'.pc \in {"event", "idle", "flush1"} /\ host'.song # "INVALID"
  BY EventOutcomes
<1>2. host.pc = "event" /\ Receives(m) /\ InSong /\ m # "REQUEST"
  BY <1>1 DEF Event, InSong, Turns
<1>3. Rests' /\ core.pc # "rebooted"
  BY <1>1, <1>2 DEF Rests, AtRest, InTime, Calm, Commanded, Alive
<1> QED BY <1>1, <1>2, <1>3, HostReceivesInTime

LEMMA FlushInTime == ASSUME IInv, IInv', InTime, NEW m \in FromCore, Flush(m) PROVE InTime'
<1>1. /\ host.pc \in {"flush1", "flush2"} /\ m # "REQUEST" /\ Receives(m)
      /\ UNCHANGED <<todo, host, core, late>> /\ host' \in HostType /\ InSong /\ ~AtRest'
  BY DEF Flush, HostGoes, IInv, TypeOK, InSong, AtRest
<1>2. core.pc = "rebooted" => host.pc = "flush2"
  BY <1>1 DEF InTime, Calm, Commanded, Alive
<1> QED BY <1>1, <1>2, HostReceivesInTime DEF Rests

(* The core gives the turn, and gets commands and a request.               *)
LEMMA EventReadyInTime == ASSUME IInv, IInv', InTime, EventReady PROVE InTime'
<1> DEFINE queued == IF host.queued THEN <<"OPTION">> ELSE <<>>
<1>1. PICK new \in Request(queued) :
        /\ host.pc = "event" /\ Receives("TOKEN") /\ UNCHANGED <<core, late>>
        /\ todo' = [todo EXCEPT !["host"] = new]
        /\ host' = [IF host.api = "play" THEN PlayStops(TRUE) ELSE host
                      EXCEPT !.trigger = FALSE, !.queued = FALSE]
  BY DEF EventReady, Event, HostGoes, Sending
<1>2. queued \in {<<>>, <<"OPTION">>}
  OBVIOUS
<1> HIDE DEF queued
<1>3. /\ new \in Seq(FromHost) /\ OnlyLast(new, {"TOKEN"}) /\ OnlyLast(new, Completions)
      /\ Before(new, {"READ", "REBOOT"}, "TOKEN") /\ Lacks(new, {"REBOOT"})
  BY <1>1, <1>2, Requests, RequestsBefore
<1>4. host \in HostType /\ host' \in HostType
  BY DEF IInv, TypeOK
<1>5. host'.pc \in {"event", "flush1"}
  <2>1. CASE host.api = "play"
    <3>1. PlayStops(TRUE) \in HostType /\ PlayStops(TRUE).pc = "flush1"
      BY <1>4, Outcomes
    <3>2. host' = [PlayStops(TRUE) EXCEPT !.trigger = FALSE, !.queued = FALSE]
      BY <1>1, <2>1
    <3> QED BY <3>1, <3>2 DEF HostType
  <2>2. CASE host.api # "play"
    BY <1>1, <1>4, <2>2 DEF HostType
  <2> QED BY <2>1, <2>2
<1>6. HostTakes("TOKEN", "S", new) /\ "TOKEN" \in Turns /\ InSong /\ ~AtRest'
  BY <1>1, <1>5 DEF HostTakes, Receives, AfterReceiving, Turns, InSong, AtRest
<1>7. Alive => core.pc = "commands"
  <2> SUFFICES ASSUME Alive PROVE core.pc = "commands"
    OBVIOUS
  <2>1. ~Lacks(ToHost, {"TOKEN"})
    <3>1. Lacks(ToHost, {"TOKEN"}) => "TOKEN" \notin {"TOKEN"}
      BY <1>1, <1>3, <1>4, <1>5, <1>6, HostTookOne
    <3> QED BY <3>1
  <2> QED BY <1>1, <1>6, <2>1 DEF IInv, Plays, InTime, Calm, Answered, Commanded, Alive, Requested
<1> QED BY <1>1, <1>3, <1>4, <1>5, <1>6, <1>7, HostTakesInTime DEF Rests, Alive

(* The core gets the file it has requested.                                *)
LEMMA EventRequestFileInTime == ASSUME IInv, IInv', InTime, EventRequestFile PROVE InTime'
<1>1. PICK new \in {<<"FILE", "FILE_DATA">>, <<"NOFILE">>} :
        /\ host.pc \in {"event", "flush1", "flush2"} /\ UNCHANGED <<core, late>>
        /\ HostTakes("REQUEST", "S", new)
        /\ host' = [host EXCEPT !.pc = "serve", !.back = host.pc]
  BY DEF EventRequestFile, HostGoes, Sending, HostTakes
<1>2. /\ new \in Seq(FromHost) /\ new # <<>>
      /\ OnlyLast(new, {"TOKEN"}) /\ OnlyLast(new, Completions) /\ EndsIn(new, Completions)
  BY Files
<1>3. host' \in HostType /\ host'.pc = "serve" /\ host'.back # "none" /\ "REQUEST" \in Turns /\ ~AtRest'
  BY <1>1 DEF IInv, TypeOK, HostType, Turns, AtRest
<1>4. /\ \A M : Lacks(ToHost, M) => "REQUEST" \notin M
      /\ \A M : All(ToHost, M) => "REQUEST" \in M
  BY <1>1, <1>2, <1>3, HostTookOne
<1>5. Alive => core.pc = "request"
  BY <1>4 DEF IInv, Plays, Alive
<1>6. host.pc # "flush2"
  BY <1>4 DEF IInv, Stops
<1> QED BY <1>1, <1>2, <1>3, <1>5, <1>6, HostTakesInTime DEF Rests, Alive

-----------------------------------------------------------------------------
(* A send or a receive of the host fails at once only when the core's      *)
(* thread has ended.                                                       *)
LEMMA HostFailsInTime ==
  ASSUME IInv, InTime, HostSendFails(CannotSend("host")) \/ HostReceiveFails(CannotReceive("host"))
  PROVE  InTime'
<1>1. open["host"] /\ core' = core /\ open' = open
  <2>1. CASE HostSendFails(CannotSend("host"))
    BY <2>1 DEF HostSendFails, CannotSend, IInv, HostSide
  <2>2. CASE HostReceiveFails(CannotReceive("host"))
    BY <2>2 DEF HostReceiveFails, HostWaits, IInv, HostSide
  <2> QED BY <2>1, <2>2
<1>2. ~open["core"]
  <2>1. CASE HostSendFails(CannotSend("host"))
    <3>1. todo["host"] # <<>> /\ (ipc["host"] = "R" \/ ~open["host"] \/ ~open["core"])
      BY <2>1, OtherSide DEF HostSendFails, CannotSend
    <3> QED BY <1>1, <3>1 DEF IInv, HostSide
  <2>2. CASE HostReceiveFails(CannotReceive("host"))
    <3>1. /\ todo["host"] = <<>> /\ HostWaits
          /\ ipc["host"] = "S" \/ ~open["host"] \/ ~open["core"]
      BY <2>2, OtherSide DEF HostReceiveFails, CannotReceive
    <3>2. ipc["host"] = "R"
      BY <3>1 DEF HostWaits, IInv, HostSide
    <3> QED BY <1>1, <3>1, <3>2
  <2> QED BY <2>1, <2>2
<1> QED BY <1>1, <1>2, Over DEF InTime, Ended

(* A new thread finds the name of the config, and nothing else.            *)
LEMMA uade_new_stateInTime == ASSUME IInv, InTime, uade_new_state PROVE InTime'
<1>1. /\ host.pc = "none" /\ ~Alive /\ core.read_size = 0
      /\ core' = [core EXCEPT !.pc = "config"] /\ core \in CoreType
      /\ open'["core"] = TRUE /\ queue'["core"] = <<>> /\ queue'["host"] = <<>>
      /\ ipc'["host"] = "INITIAL" /\ todo'["core"] = <<>> /\ todo'["host"] = <<"CONFIG">>
      /\ host'.pc = "idle" /\ host'.song = "INVALID"
  <2>1. host.pc = "none" /\ ~Alive /\ core \in CoreType
    BY DEF uade_new_state, IInv, Starts, TypeOK
  <2>2. core.read_size = 0
    BY <2>1 DEF InTime, Ended, Alive, Serving
  <2>3. host'.pc = "idle" /\ host'.song = "INVALID"
    BY DEF uade_new_state, NoHost
  <2> QED BY <2>1, <2>2, <2>3 DEF uade_new_state, Connect, Sides
<1>2. core'.pc = "config" /\ core'.read_size = 0 /\ Alive'
  BY <1>1 DEF CoreType, Alive
<1> DEFINE config == <<"CONFIG">>
<1>3. /\ config # <<>> /\ Head(config) = "CONFIG" /\ Tail(config) = <<>>
      /\ All(config, {"CONFIG", "OPTION"}) /\ <<>> \o config = config /\ <<>> \o <<>> = <<>>
  <2>1. "CONFIG" \in FromHost
    BY DEF FromHost
  <2> QED BY <2>1, One
<1> HIDE DEF config
<1>4. ToCore' = config /\ ToHost' = <<>>
  BY <1>1, <1>3 DEF ToCore, ToHost, config
<1>5. Rests' /\ Given' /\ Ended'
  BY <1>1, <1>2, <1>3, <1>4 DEF Rests, Given, Ended, ServedAll
<1>6. Answered' /\ Commanded' /\ Loads'
  BY <1>2, <1>3, <1>4 DEF Answered, Commanded, Loads, Requested, Begins, SongNext
<1> QED BY <1>5, <1>6 DEF InTime, Calm

-----------------------------------------------------------------------------
(* What is left of a song when the core has read the first part of it.     *)
LEMMA Parts ==
  /\ \A s \in SongParts : Head(s) = "SCORE" /\ Tail(s) \in PlayerParts
  /\ \A s \in PlayerParts : Head(s) = "FILE" /\ Tail(s) \in PlayerData
  /\ \A s \in PlayerData : Head(s) = "FILE_DATA" /\ Tail(s) \in ModuleParts
  /\ \A s \in ModuleParts : \/ Head(s) = "FILE" /\ Tail(s) = <<"FILE_DATA", "TOKEN">>
                            \/ Head(s) = "NOFILE" /\ Tail(s) = <<"TOKEN">>
  /\ Head(<<"FILE_DATA", "TOKEN">>) = "FILE_DATA" /\ Tail(<<"FILE_DATA", "TOKEN">>) = <<"TOKEN">>
  /\ Head(<<"TOKEN">>) = "TOKEN" /\ Head(<<"FILE_DATA">>) = "FILE_DATA" /\ Head(<<"NOFILE">>) = "NOFILE"
  /\ Head(<<"FILE", "FILE_DATA">>) = "FILE" /\ Tail(<<"FILE", "FILE_DATA">>) = <<"FILE_DATA">>
<1>1. ASSUME NEW s \in SongParts PROVE Head(s) = "SCORE" /\ Tail(s) \in PlayerParts
  <2>1. CASE s = <<"SCORE", "FILE", "FILE_DATA", "FILE", "FILE_DATA", "TOKEN">>
    <3>1. Head(s) = "SCORE" /\ Tail(s) = <<"FILE", "FILE_DATA", "FILE", "FILE_DATA", "TOKEN">>
      BY <2>1
    <3> QED BY <3>1 DEF PlayerParts
  <2>2. CASE s = <<"SCORE", "FILE", "FILE_DATA", "NOFILE", "TOKEN">>
    <3>1. Head(s) = "SCORE" /\ Tail(s) = <<"FILE", "FILE_DATA", "NOFILE", "TOKEN">>
      BY <2>2
    <3> QED BY <3>1 DEF PlayerParts
  <2> QED BY <2>1, <2>2 DEF SongParts
<1>2. ASSUME NEW s \in PlayerParts PROVE Head(s) = "FILE" /\ Tail(s) \in PlayerData
  <2>1. CASE s = <<"FILE", "FILE_DATA", "FILE", "FILE_DATA", "TOKEN">>
    <3>1. Head(s) = "FILE" /\ Tail(s) = <<"FILE_DATA", "FILE", "FILE_DATA", "TOKEN">>
      BY <2>1
    <3> QED BY <3>1 DEF PlayerData
  <2>2. CASE s = <<"FILE", "FILE_DATA", "NOFILE", "TOKEN">>
    <3>1. Head(s) = "FILE" /\ Tail(s) = <<"FILE_DATA", "NOFILE", "TOKEN">>
      BY <2>2
    <3> QED BY <3>1 DEF PlayerData
  <2> QED BY <2>1, <2>2 DEF PlayerParts
<1>3. ASSUME NEW s \in PlayerData PROVE Head(s) = "FILE_DATA" /\ Tail(s) \in ModuleParts
  <2>1. CASE s = <<"FILE_DATA", "FILE", "FILE_DATA", "TOKEN">>
    <3>1. Head(s) = "FILE_DATA" /\ Tail(s) = <<"FILE", "FILE_DATA", "TOKEN">>
      BY <2>1
    <3> QED BY <3>1 DEF ModuleParts
  <2>2. CASE s = <<"FILE_DATA", "NOFILE", "TOKEN">>
    <3>1. Head(s) = "FILE_DATA" /\ Tail(s) = <<"NOFILE", "TOKEN">>
      BY <2>2
    <3> QED BY <3>1 DEF ModuleParts
  <2> QED BY <2>1, <2>2 DEF PlayerData
<1>4. ASSUME NEW s \in ModuleParts
      PROVE  \/ Head(s) = "FILE" /\ Tail(s) = <<"FILE_DATA", "TOKEN">>
             \/ Head(s) = "NOFILE" /\ Tail(s) = <<"TOKEN">>
  <2>1. CASE s = <<"FILE", "FILE_DATA", "TOKEN">>
    BY <2>1
  <2>2. CASE s = <<"NOFILE", "TOKEN">>
    BY <2>2
  <2> QED BY <2>1, <2>2 DEF ModuleParts
<1> QED BY <1>1, <1>2, <1>3, <1>4

(* The core reads what it expects, unless a filter command was sent between *)
(* songs.                                                                  *)
LEMMA OnlyFilterUnexpected ==
  ASSUME IInv, Calm, CoreWaits, NEW m \in FromHost, CoreArrives(m), Unexpected(m)
  PROVE  core.pc \in {"score", "rebooted"} /\ FilterBetweenSongs
<1>1. ToCore \in Seq(FromHost) /\ ToCore # <<>> /\ m = Head(ToCore) /\ todo["core"] = <<>>
  BY FirstToCore DEF CoreArrives, Arrives
<1>2. core.pc # "commands"
  <2> SUFFICES ASSUME core.pc = "commands" PROVE FALSE
    OBVIOUS
  <2>1. m \in Commands
    BY <1>1, TailKeeps DEF IInv, Plays
  <2>2. m = "READ" /\ core.read_size # 0
    BY <2>1 DEF Unexpected, Commands
  <2>3. ~Begins(ToCore, "TOKEN") /\ Lacks(todo["core"], {"DATA"})
    BY <1>1, <2>2, Empty DEF Begins
  <2> QED BY <2>2, <2>3 DEF Calm, Commanded
<1>3. core.pc \notin {"start", "request", "request_data"}
  BY <1>1, Parts DEF Calm, Loads, Unexpected
<1>4. core.pc \in {"config", "score", "rebooted", "player", "player_data", "module", "module_data"}
  BY <1>2, <1>3 DEF IInv, TypeOK, CoreType, CoreWaits
<1>5. \A e \in Expected : <<core.pc, m>> # <<e[1], e[2]>>
  BY <1>4 DEF Unexpected
<1>6. /\ <<core.pc, m>> \notin {<<"config", "CONFIG">>, <<"score", "SCORE">>, <<"rebooted", "SCORE">>,
                                <<"player", "FILE">>, <<"player_data", "FILE_DATA">>,
                                <<"module", "FILE">>, <<"module", "NOFILE">>, <<"module_data", "FILE_DATA">>}
  BY <1>5 DEF Expected
<1>7. core.pc \in {"score", "rebooted"}
  BY <1>1, <1>4, <1>6, Parts DEF Calm, Loads, Begins
<1>8. FilterBetweenSongs
  BY <1>1, <1>6, <1>7, Parts DEF Calm, Loads, SongNext
<1> QED BY <1>7, <1>8

-----------------------------------------------------------------------------
(* The core ends where it could not go on: with its end closed, and no     *)
(* request left.                                                           *)
LEMMA CoreEndsInTime ==
  ASSUME IInv, InTime,
         \/ ConfigUnreadable \/ CoreReceiveFails(CannotReceive("core"))
         \/ (\E m \in FromHost : CoreRejects(m))
  PROVE  InTime'
<1>1. CoreWaits /\ Exits(TRUE)
  BY DEF ConfigUnreadable, CoreReceiveFails, CoreRejects, CoreWaits
<1>2. Alive /\ Ended /\ Calm
  BY <1>1 DEF CoreWaits, Alive, InTime
<1>3. core.pc \notin Serving
  <2>1. CASE ConfigUnreadable
    BY <2>1 DEF ConfigUnreadable, Serving
  <2>2. CASE CoreReceiveFails(CannotReceive("core"))
    <3>1. todo["core"] = <<>> /\ (ipc["core"] = "S" \/ ~open["core"] \/ ~open["host"])
      BY <2>2, OtherSide DEF CoreReceiveFails, CannotReceive
    <3>2. ipc["core"] # "S" /\ open["core"]
      BY <1>1, <1>2, <3>1 DEF IInv, CoreSide, Ended
    <3>3. AtRest
      BY <1>2, <3>1, <3>2 DEF IInv, HostSide, Starts, AtRest
    <3> QED BY <1>2, <3>3 DEF Calm, Rests, Serving
  <2>3. ASSUME NEW m \in FromHost, CoreRejects(m) PROVE core.pc \notin Serving
    BY <1>1, <1>2, <2>3, OnlyFilterUnexpected DEF CoreRejects, Serving
  <2> QED BY <2>1, <2>2, <2>3
<1>4. core.read_size = 0
  BY <1>2, <1>3 DEF Ended
<1>5. core'.pc = "gone" /\ core'.read_size = 0 /\ open'["core"] = FALSE
  BY <1>1, <1>4 DEF Exits, IInv, TypeOK, IpcTypeOK, CoreType, Sides
<1> QED BY <1>5 DEF InTime, Ended, Alive

(* No send of the core fails at once: the host keeps its end open for as    *)
(* long as the core has something to send.                                 *)
LEMMA CoreSendsAlways == ASSUME IInv, InTime, CoreSendFails(CannotSend("core")) PROVE FALSE
<1>1. todo["core"] # <<>> /\ (ipc["core"] = "R" \/ ~open["core"] \/ ~open["host"])
  BY OtherSide DEF CoreSendFails, CannotSend
<1>2. Alive /\ ipc["core"] = "S"
  BY <1>1 DEF IInv, CoreSide, Alive
<1>3. open["core"] /\ Calm
  BY <1>2 DEF InTime, Ended
<1>4. AtRest
  BY <1>1, <1>2, <1>3 DEF IInv, HostSide, Starts, AtRest
<1>5. ToHost = <<>>
  BY <1>3, <1>4 DEF Calm, Rests
<1>6. queue["host"] \in Seq(FromCore) /\ todo["core"] \in Seq(FromCore)
  BY Types DEF IInv, TypeOK
<1> QED BY <1>1, <1>5, <1>6, CatKeeps DEF ToHost

(* The core takes a message that does not give it the turn.                 *)
LEMMA CoreReadsOn ==
  ASSUME IInv, InTime, Alive, Alive', UNCHANGED <<host, open>>, NEW m, m # "TOKEN",
         ToCore \in Seq(FromHost), ToCore # <<>>, m = Head(ToCore), ToCore' = Tail(ToCore),
         ToHost = <<>>, ToHost' = <<>>, todo'["host"] = todo["host"], ipc'["host"] = ipc["host"],
         core'.read_size = core.read_size \/ core'.pc \in Serving,
         core'.pc \in Serving <=> core.pc \in Serving,
         CoreWaits, core.pc \in Requested => core'.pc \in Requested,
         core.pc \in {"config", "score", "rebooted"} => core'.pc \in {"score", "player"},
         core'.pc = "player" => m \notin {"CONFIG", "OPTION"}
  PROVE  Ended' /\ Rests' /\ Given'
<1>1. Ended /\ Calm
  BY DEF InTime
<1>2. /\ All(ToCore, {"CONFIG", "OPTION"}) => m \in {"CONFIG", "OPTION"} /\ All(ToCore', {"CONFIG", "OPTION"})
      /\ EndsIn(ToCore, {"TOKEN"}) => EndsIn(ToCore', {"TOKEN"})
  BY TailKeeps
<1>3. Ended'
  BY <1>1 DEF Ended, Alive
<1>4. Rests'
  BY <1>1, <1>2 DEF Calm, Rests, AtRest
<1>5. Given'
  BY <1>1, <1>2 DEF Calm, Given, ServedAll
<1> QED BY <1>3, <1>4, <1>5

(* The config and the files of a song come in the order they are read in.   *)
LEMMA CoreLoadsInTime == ASSUME IInv, InTime, NEW m \in FromHost, CoreLoads(m) PROVE InTime'
<1>1. PICK e \in Expected :
        /\ core.pc = e[1] /\ m = e[2] /\ CoreArrives(m) /\ CoreTakes(m) /\ UNCHANGED <<host, late, todo>>
        /\ core' = [core EXCEPT !.pc = e[3], !.reboot = core.reboot \/ m = "CONFIG"]
  BY DEF CoreLoads, CoreGoes
<1>2. <<core.pc, m, e[3]>> \in Expected /\ m # "TOKEN"
  BY <1>1 DEF Expected
<1>3. /\ core' \in CoreType /\ core'.pc = e[3] /\ core'.read_size = core.read_size
  <2>1. (core.reboot \/ m = "CONFIG") \in BOOLEAN /\ core \in CoreType
    BY DEF IInv, TypeOK, CoreType
  <2>2. e[3] \in {"score", "player", "player_data", "module", "module_data", "start", "request_data"}
    BY <1>1 DEF Expected
  <2> QED BY <1>1, <2>1, <2>2 DEF CoreType
<1>4. /\ Alive /\ Alive' /\ CoreWaits /\ (core.pc \in Requested <=> core'.pc \in Requested)
      /\ core'.pc \in Serving <=> core.pc \in Serving
      /\ core.pc \in {"config", "score", "rebooted"} => core'.pc \in {"score", "player"}
      /\ core'.pc = "player" => m \notin {"CONFIG", "OPTION"}
      /\ core'.pc \notin {"commands", "run", "rebooted", "config", "request"}
  BY <1>2, <1>3 DEF Alive, CoreWaits, Requested, Serving, Expected
<1>5. Take("core", "R")
  BY <1>1, <1>2 DEF CoreTakes, AfterReceiving
<1>6. /\ ToCore # <<>> /\ m = Head(ToCore) /\ ToCore' = Tail(ToCore) /\ ToHost = <<>> /\ ToHost' = <<>>
      /\ todo'["host"] = todo["host"] /\ ipc'["host"] = ipc["host"] /\ ToCore \in Seq(FromHost)
      /\ open' = open
  BY <1>1, <1>3, <1>4, <1>5, CoreReceived, FirstToCore DEF CoreArrives, Take
<1>7. Ended' /\ Rests' /\ Given'
  BY <1>1, <1>2, <1>3, <1>4, <1>6, CoreReadsOn
<1>8. Answered' /\ Commanded'
  <2>1. core'.pc \in Requested => EndsIn(ToCore, Completions) /\ m = "FILE"
    BY <1>2, <1>3, <1>4, <1>6 DEF InTime, Calm, Answered, Requested, Expected
  <2>2. Head(ToCore) \notin Completions /\ EndsIn(ToCore, Completions) => EndsIn(Tail(ToCore), Completions)
    BY <1>6, TailKeeps
  <2> QED BY <1>4, <1>6, <2>1, <2>2, Empty DEF Answered, Commanded, Completions
<1>9. Loads'
  <2>1. Calm
    BY <1>4 DEF InTime
  <2>2. core.pc = "config" => core'.pc = "score" /\ SongNext(ToCore')
    BY <1>2, <1>3, <1>6, <2>1 DEF Calm, Loads, Expected
  <2>3. core.pc \in {"score", "rebooted"} => core'.pc = "player" /\ ToCore' \in PlayerParts
    <3> SUFFICES ASSUME core.pc \in {"score", "rebooted"} PROVE core'.pc = "player" /\ ToCore' \in PlayerParts
      OBVIOUS
    <3>1. core'.pc = "player" /\ m = "SCORE"
      BY <1>2, <1>3 DEF Expected
    <3>2. ToCore \in SongParts
      BY <1>6, <2>1, <3>1 DEF Calm, Loads, SongNext, Begins
    <3> QED BY <1>6, <3>1, <3>2, Parts
  <2>4. core.pc = "player" => core'.pc = "player_data" /\ ToCore' \in PlayerData
    BY <1>2, <1>3, <1>6, <2>1, Parts DEF Calm, Loads, Expected
  <2>5. core.pc = "player_data" => core'.pc = "module" /\ ToCore' \in ModuleParts
    BY <1>2, <1>3, <1>6, <2>1, Parts DEF Calm, Loads, Expected
  <2>6. core.pc = "module" => \/ core'.pc = "module_data" /\ ToCore' = <<"FILE_DATA", "TOKEN">>
                              \/ core'.pc = "start" /\ ToCore' = <<"TOKEN">>
    BY <1>2, <1>3, <1>6, <2>1, Parts DEF Calm, Loads, Expected
  <2>7. core.pc = "module_data" => core'.pc = "start" /\ ToCore' = <<"TOKEN">>
    BY <1>2, <1>3, <1>6, <2>1, Parts DEF Calm, Loads, Expected
  <2>8. core.pc = "request" => core'.pc = "request_data" /\ ToCore' = <<"FILE_DATA">>
    <3> SUFFICES ASSUME core.pc = "request" PROVE core'.pc = "request_data" /\ ToCore' = <<"FILE_DATA">>
      OBVIOUS
    <3>1. core'.pc = "request_data" /\ m = "FILE"
      BY <1>2, <1>3 DEF Expected
    <3>2. ToCore = <<"FILE", "FILE_DATA">>
      BY <1>6, <2>1, <3>1, Parts DEF Calm, Loads
    <3> QED BY <1>6, <3>1, <3>2, Parts
  <2>9. core.pc \in {"config", "score", "rebooted", "player", "player_data", "module", "module_data", "request"}
    BY <1>2 DEF Expected
  <2> QED BY <2>2, <2>3, <2>4, <2>5, <2>6, <2>7, <2>8, <2>9 DEF Loads
<1> QED BY <1>7, <1>8, <1>9 DEF InTime, Calm

(* The core has all of a song, and answers.                                *)
LEMMA CoreStartsInTime == ASSUME IInv, InTime, CoreStarts PROVE InTime'
<1>1. PICK ack \in {"CAN_PLAY", "CANT_PLAY"} :
        /\ core.pc = "start" /\ CoreArrives("TOKEN") /\ CoreTakes("TOKEN") /\ UNCHANGED <<host, late>>
        /\ todo' = [todo EXCEPT !["core"] = <<ack, "TOKEN">>]
        /\ core' = IF ack = "CAN_PLAY"
                   THEN [core EXCEPT !.pc = "commands", !.reboot = FALSE, !.output = FALSE, !.slow = 0]
                   ELSE [core EXCEPT !.pc = "score"]
  BY DEF CoreStarts, CoreSending, CoreGoes
<1> DEFINE new == <<ack, "TOKEN">>
<1>2. /\ new \in Seq(FromCore) /\ new # <<>> /\ OnlyLast(new, Turns) /\ EndsIn(new, Turns)
  <2>1. ack \in FromCore \ Turns
    BY DEF FromCore, Turns
  <2> QED BY <2>1, Turned
<1>3. CoreTakesOne("TOKEN", "S", new)
  BY <1>1 DEF CoreTakesOne, CoreArrives, CoreTakes, AfterReceiving
<1> HIDE DEF new
<1>4. /\ core' \in CoreType /\ core'.pc \in {"commands", "score"} /\ core'.read_size = core.read_size
      /\ core'.pc = "commands" => core'.reboot = FALSE
      /\ Alive /\ Alive' /\ core'.pc \notin Requested
  <2>1. CASE ack = "CAN_PLAY"
    <3>1. core' = [core EXCEPT !.pc = "commands", !.reboot = FALSE, !.output = FALSE, !.slow = 0]
      BY <1>1, <2>1
    <3>2. core \in CoreType /\ 0 \in 0..2
      BY DEF IInv, TypeOK
    <3>3. core' \in CoreType /\ core'.pc = "commands" /\ core'.read_size = core.read_size /\ core'.reboot = FALSE
      BY <3>1, <3>2 DEF CoreType
    <3> QED BY <1>1, <2>1, <3>3 DEF Alive, Requested
  <2>2. CASE ack = "CANT_PLAY"
    BY <1>1, <2>2 DEF IInv, TypeOK, CoreType, Alive, Requested
  <2> QED BY <2>1, <2>2
<1>5. ToHost' = new /\ ToCore' = <<>> /\ open' = open
  BY <1>1, <1>2, <1>3, <1>4, CoreTookOne DEF CoreTakesOne, Take
<1>6. core.read_size = 0 /\ ~AtRest
  BY <1>1, <1>4 DEF InTime, Ended, Calm, Rests, Serving
<1>7. Ended' /\ Rests' /\ Given'
  BY <1>1, <1>2, <1>4, <1>5, <1>6 DEF InTime, Ended, Rests, AtRest, Given, Alive
<1>8. Answered' /\ Commanded' /\ Loads'
  BY <1>2, <1>4, <1>5, <1>6, Short, Empty DEF Answered, Commanded, Loads, Requested, SongNext
<1> QED BY <1>4, <1>7, <1>8 DEF InTime, Calm

(* The commands of a turn: nothing is left of the last request when the    *)
(* next one is read, and a reboot comes without one.                       *)
LEMMA CoreCommandInTime == ASSUME IInv, InTime, NEW m \in FromHost, CoreCommand(m) PROVE InTime'
<1>1. /\ core.pc = "commands" /\ CoreArrives(m) /\ CoreTakes(m) /\ UNCHANGED <<host, late, todo>>
      /\ core' = CASE m = "READ" -> [core EXCEPT !.read_size = 1]
                   [] m = "REBOOT" -> [core EXCEPT !.reboot = TRUE]
                   [] m = "TOKEN" -> [core EXCEPT !.pc = "run", !.posts = 0]
                   [] OTHER -> core
      /\ core \in CoreType /\ todo["core"] = <<>>
  BY DEF CoreCommand, Command, CoreGoes, IInv, TypeOK, CoreArrives, Arrives
<1>2. /\ core' \in CoreType
      /\ core'.pc = (IF m = "TOKEN" THEN "run" ELSE "commands")
      /\ core'.read_size = (IF m = "READ" THEN 1 ELSE core.read_size)
      /\ core'.reboot = (IF m = "REBOOT" THEN TRUE ELSE core.reboot)
  <2>1. CASE m = "READ"
    BY <1>1, <2>1 DEF CoreType
  <2>2. CASE m = "REBOOT"
    BY <1>1, <2>2 DEF CoreType
  <2>3. CASE m = "TOKEN"
    <3>1. 0 \in 0..MaxPosts
      BY PostsAssumption
    <3> QED BY <1>1, <2>3, <3>1 DEF CoreType
  <2>4. CASE m \notin {"READ", "REBOOT", "TOKEN"}
    BY <1>1, <2>4
  <2> QED BY <2>1, <2>2, <2>3, <2>4
<1>3. /\ Alive /\ Alive' /\ core.pc \in Serving /\ core'.pc \in Serving /\ CoreWaits
      /\ core.pc \notin Requested /\ core'.pc \notin Requested
  BY <1>1, <1>2 DEF Alive, Requested, Serving, CoreWaits
<1> DEFINE state == AfterReceiving(m)
<1>4. state \in {"R", "S"} /\ (state = "S" <=> m = "TOKEN") /\ Take("core", state)
  BY <1>1 DEF CoreTakes, AfterReceiving
<1> HIDE DEF state
<1>5. /\ ToCore \in Seq(FromHost) /\ ToCore # <<>> /\ m = Head(ToCore) /\ ToCore' = Tail(ToCore)
      /\ ToHost = <<>> /\ ToHost' = <<>>
      /\ todo'["core"] = <<>> /\ todo'["host"] = todo["host"]
      /\ ipc'["host"] = ipc["host"] /\ open' = open
      /\ \A M : Lacks(ToCore, M) => m \notin M /\ Lacks(ToCore', M)
  BY <1>1, <1>2, <1>3, <1>4, CoreReceived, FirstToCore DEF CoreArrives, Take
<1>6. Ended /\ Calm /\ Ended'
  BY <1>3, <1>5 DEF InTime, Ended, Alive
<1>7. Rests' /\ Given'
  <2>1. ~AtRest'
    BY <1>1, <1>6 DEF Calm, Rests, AtRest
  <2>2. CASE m = "TOKEN"
    BY <1>2, <2>1, <2>2 DEF Rests, Given, CoreWaits
  <2>3. CASE m # "TOKEN"
    BY <1>1, <1>2, <1>3, <1>5, <1>6, <2>1, <2>3, CoreReadsOn DEF Rests
  <2> QED BY <2>2, <2>3
<1>8. Answered' /\ Loads'
  BY <1>2, <1>3, <1>5, Empty DEF Answered, Loads
<1>9. Commanded'
  <2>1. /\ Before(ToCore', {"READ", "REBOOT"}, "TOKEN")
        /\ m \in {"READ", "REBOOT"} => Begins(ToCore', "TOKEN")
    BY <1>1, <1>5, <1>6, BeforeTail DEF Calm, Commanded
  <2>2. Begins(ToCore, "TOKEN") <=> m = "TOKEN"
    BY <1>5 DEF Begins
  <2>3. m # "TOKEN" => core.read_size = 0 /\ ~core.reboot
    BY <1>1, <1>6, <2>2, Empty DEF Calm, Commanded
  <2>4. (core.reboot \/ m = "REBOOT" \/ ~Lacks(ToCore', {"REBOOT"})) => host'.pc = "flush2"
    BY <1>1, <1>5, <1>6 DEF Calm, Commanded
  <2>5. CASE m = "TOKEN"
    BY <1>1, <1>2, <1>6, <2>4, <2>5 DEF Calm, Commanded
  <2>6. CASE m # "TOKEN"
    BY <1>1, <1>2, <2>1, <2>3, <2>4, <2>6 DEF Commanded
  <2> QED BY <2>5, <2>6
<1> QED BY <1>6, <1>7, <1>8, <1>9 DEF InTime, Calm

(* The whole of the file has come, and the emulation goes on.              *)
LEMMA FileReceivedInTime == ASSUME IInv, InTime, NEW m \in FromHost, FileReceived(m) PROVE InTime'
<1>1. /\ core.pc \in Requested /\ m \in Completions /\ CoreArrives(m) /\ Take("core", "S")
      /\ UNCHANGED <<host, late, todo>> /\ core' = [core EXCEPT !.pc = "run"]
  BY DEF FileReceived, CoreGoes, Requested, Completions
<1>2. /\ core' \in CoreType /\ core'.pc = "run" /\ core'.reboot = core.reboot /\ ~core.reboot
      /\ Alive /\ Alive' /\ ~CoreWaits' /\ core'.pc \notin Requested
  BY <1>1 DEF IInv, TypeOK, CoreType, Alive, Requested, CoreWaits, CoreSide
<1>3. ToHost' = <<>> /\ open' = open
  BY <1>1, <1>2, CoreReceived DEF Take
<1>4. Ended /\ Calm /\ ~AtRest'
  BY <1>1, <1>2 DEF InTime, Calm, Rests, AtRest, Requested
<1>5. Ended' /\ Rests' /\ Given'
  BY <1>2, <1>3, <1>4 DEF Ended, Rests, Given, Serving, Alive
<1>6. Answered' /\ Commanded' /\ Loads'
  BY <1>2, <1>3, Empty DEF Answered, Commanded, Loads
<1> QED BY <1>2, <1>5, <1>6 DEF InTime, Calm

-----------------------------------------------------------------------------
(* The core that emulates starts to send; with the turn it gives an answer  *)
(* to the request, or to the reboot.                                       *)
LEMMA CoreSpeaksInTime ==
  ASSUME IInv, InTime, UNCHANGED <<open, queue, ipc, host, late>>, core.pc = "run", todo["core"] = <<>>,
         core' \in CoreType, core'.pc \in {"run", "commands", "request", "rebooted"},
         core'.read_size = core.read_size, core'.reboot = core.reboot,
         NEW new \in Seq(FromCore), new # <<>>, todo' = [todo EXCEPT !["core"] = new],
         OnlyLast(new, Turns), CoreWaits' => EndsIn(new, Turns),
         core'.pc \in {"run", "request"} => Lacks(new, {"TOKEN"}),
         core'.pc = "commands" => ~Lacks(new, {"DATA"}),
         core'.pc = "rebooted" <=> core.reboot
  PROVE  InTime'
<1>1. Alive /\ Alive' /\ Ended /\ Calm
  BY DEF Alive, InTime
<1>2. /\ ToCore' = <<>> /\ todo'["core"] = new
      /\ ToHost' # <<>> /\ \A M : Lacks(ToHost', M) <=> Lacks(ToHost, M) /\ Lacks(new, M)
  BY <1>1, CoreSpeaks
<1>3. ~AtRest' /\ Lacks(ToHost, {"TOKEN"})
  BY <1>1 DEF Calm, Rests, AtRest, Answered
<1>4. core.reboot => core.read_size = 0 /\ host.pc = "flush2"
  BY <1>1 DEF Calm, Commanded
<1>5. Ended' /\ Rests' /\ Given'
  BY <1>1, <1>2, <1>3, <1>4 DEF Ended, Alive, Rests, Given, Serving
<1>6. Answered'
  BY <1>2, <1>3 DEF Answered, Requested
<1>7. Commanded' /\ Loads'
  BY <1>2, <1>4, Short, Empty DEF Commanded, Loads, SongNext
<1> QED BY <1>5, <1>6, <1>7 DEF InTime, Calm

LEMMA PostsInTime ==
  ASSUME IInv, InTime, NEW m \in {"NAME", "MSG", "SUBSONG_INFO", "SONG_END", "REQUEST"}, Posts(m)
  PROVE  InTime'
<1> DEFINE new == <<m>>
<1>1. /\ core.pc = "run" /\ todo["core"] = <<>> /\ ~core.reboot /\ core.posts < MaxPosts
      /\ todo' = [todo EXCEPT !["core"] = new] /\ UNCHANGED <<open, queue, ipc, host, late>>
      /\ core' = [core EXCEPT !.posts = core.posts + 1, !.pc = IF m = "REQUEST" THEN "request" ELSE core.pc,
                              !.output = core.output \/ m = "SONG_END"]
      /\ core \in CoreType
  BY DEF Posts, Emulates, CoreSending, CoreGoes, IInv, TypeOK
<1>2. /\ core' \in CoreType /\ core'.pc = (IF m = "REQUEST" THEN "request" ELSE "run")
      /\ core'.reboot = core.reboot /\ core'.read_size = core.read_size
  <2>1. (core.output \/ m = "SONG_END") \in BOOLEAN
    OBVIOUS
  <2>2. core.posts + 1 \in 0..MaxPosts
    BY <1>1, PostsAssumption DEF CoreType
  <2>3. (IF m = "REQUEST" THEN "request" ELSE core.pc) \in {"request", "run"}
    BY <1>1
  <2> QED BY <1>1, <2>1, <2>2, <2>3 DEF CoreType
<1>3. /\ new \in Seq(FromCore) /\ new # <<>> /\ OnlyLast(new, Turns)
      /\ Lacks(new, {"TOKEN"}) /\ (m = "REQUEST" => EndsIn(new, Turns))
  <2>1. m \in FromCore /\ m # "TOKEN"
    BY DEF FromCore
  <2> QED BY <2>1, One DEF Turns
<1> HIDE DEF new
<1>4. core'.pc \in {"run", "request"} /\ (CoreWaits' => EndsIn(new, Turns))
  BY <1>2, <1>3 DEF CoreWaits
<1> QED BY <1>1, <1>2, <1>3, <1>4, CoreSpeaksInTime

LEMMA LogsInTime == ASSUME IInv, InTime, LogsSlowStart \/ LogsStart PROVE InTime'
<1> DEFINE new == <<"LOGS">>
<1>1. PICK slow \in 1..2 :
        /\ core.pc = "run" /\ todo["core"] = <<>> /\ ~core.reboot
        /\ todo' = [todo EXCEPT !["core"] = new] /\ UNCHANGED <<open, queue, ipc, host, late>>
        /\ core' = [core EXCEPT !.slow = slow]
  BY DEF LogsSlowStart, LogsStart, Emulates, CoreSending, CoreGoes
<1>2. /\ core' \in CoreType /\ core'.pc = "run" /\ ~CoreWaits'
      /\ core'.reboot = core.reboot /\ core'.read_size = core.read_size
  <2>1. slow \in 0..2
    OBVIOUS
  <2> QED BY <1>1, <2>1 DEF IInv, TypeOK, CoreType, CoreWaits
<1>3. new \in Seq(FromCore) /\ new # <<>> /\ OnlyLast(new, Turns) /\ Lacks(new, {"TOKEN"})
  <2>1. "LOGS" \in FromCore
    BY DEF FromCore
  <2> QED BY <2>1, One
<1> HIDE DEF new
<1> QED BY <1>1, <1>2, <1>3, CoreSpeaksInTime

LEMMA BlockFullInTime == ASSUME IInv, InTime, BlockFull PROVE InTime'
<1> DEFINE new == <<"DATA", "TOKEN">>
<1>1. /\ core.pc = "run" /\ todo["core"] = <<>> /\ ~core.reboot
      /\ todo' = [todo EXCEPT !["core"] = new] /\ UNCHANGED <<open, queue, ipc, host, late>>
      /\ core' = [core EXCEPT !.pc = "commands"]
  BY DEF BlockFull, Emulates, CoreSending, CoreGoes
<1>2. /\ core' \in CoreType /\ core'.pc = "commands"
      /\ core'.reboot = core.reboot /\ core'.read_size = core.read_size
  BY <1>1 DEF IInv, TypeOK, CoreType
<1>3. /\ new \in Seq(FromCore) /\ new # <<>> /\ OnlyLast(new, Turns) /\ EndsIn(new, Turns)
      /\ ~Lacks(new, {"DATA"})
  <2>1. "DATA" \in FromCore \ Turns
    BY DEF FromCore, Turns
  <2> QED BY <2>1, Turned
<1> HIDE DEF new
<1> QED BY <1>1, <1>2, <1>3, CoreSpeaksInTime

LEMMA RebootAckInTime == ASSUME IInv, InTime, RebootAck PROVE InTime'
<1> DEFINE new == <<"TOKEN">>
<1>1. /\ core.pc = "run" /\ todo["core"] = <<>> /\ core.reboot
      /\ todo' = [todo EXCEPT !["core"] = new] /\ UNCHANGED <<open, queue, ipc, host, late>>
      /\ core' = [core EXCEPT !.pc = "rebooted"]
  BY DEF RebootAck, CoreSending, CoreGoes
<1>2. /\ core' \in CoreType /\ core'.pc = "rebooted"
      /\ core'.reboot = core.reboot /\ core'.read_size = core.read_size
  BY <1>1 DEF IInv, TypeOK, CoreType
<1>3. new \in Seq(FromCore) /\ new # <<>> /\ OnlyLast(new, Turns) /\ EndsIn(new, Turns)
  <2>1. "TOKEN" \in FromCore /\ "TOKEN" \in Turns
    BY DEF FromCore, Turns
  <2> QED BY <2>1, One
<1> HIDE DEF new
<1> QED BY <1>1, <1>2, <1>3, CoreSpeaksInTime

(* The core's next message goes out; a block that is out has been asked    *)
(* for no more.                                                            *)
LEMMA CoreSendsInTime == ASSUME IInv, InTime, CoreSends PROVE InTime'
<1> DEFINE t == todo["core"]
           m == Head(t)
<1>1. /\ SendsOne("core") /\ UNCHANGED <<host, late>> /\ core \in CoreType
      /\ core' = [core EXCEPT !.read_size = IF m = "DATA" THEN 0 ELSE core.read_size]
  BY DEF CoreSends, CoreGoes, IInv, TypeOK
<1>2. /\ ToCore' = ToCore /\ ToHost' = ToHost /\ todo'["host"] = todo["host"] /\ todo'["core"] = Tail(t)
      /\ t # <<>> /\ open' = open /\ ipc'["host"] = ipc["host"] /\ t \in Seq(FromCore)
  BY <1>1, CoreSent, Types DEF IInv, TypeOK
<1>3. /\ core'.pc = core.pc /\ core'.reboot = core.reboot
      /\ core'.read_size = IF m = "DATA" THEN 0 ELSE core.read_size
  BY <1>1 DEF CoreType
<1>4. m # "DATA" /\ Lacks(Tail(t), {"DATA"}) => Lacks(t, {"DATA"})
  <2> SUFFICES ASSUME m # "DATA", Lacks(Tail(t), {"DATA"}) PROVE Lacks(t, {"DATA"})
    OBVIOUS
  <2> HIDE DEF t
  <2>1. \A i \in 1..Len(t) : i = 1 \/ (i - 1 \in 1..Len(Tail(t)) /\ Tail(t)[i - 1] = t[i])
    BY <1>2
  <2>2. Head(t) = t[1]
    BY <1>2
  <2> QED BY <2>1, <2>2 DEF Lacks
<1> HIDE DEF m
<1>5. CASE Alive
  <2>1. Ended /\ Calm /\ Alive'
    BY <1>3, <1>5 DEF InTime, Alive
  <2>2. Ended' /\ Rests' /\ Given'
    BY <1>1, <1>2, <1>3, <2>1 DEF Ended, Calm, Rests, AtRest, Given, CoreWaits, ServedAll, Alive
  <2>3. Answered' /\ Loads'
    BY <1>2, <1>3, <2>1 DEF Calm, Answered, Loads
  <2>4. Commanded'
    BY <1>1, <1>2, <1>3, <1>4, <2>1 DEF Calm, Commanded, InSong
  <2> QED BY <2>1, <2>2, <2>3, <2>4 DEF InTime, Calm
<1>6. CASE ~Alive
  BY <1>2, <1>3, <1>6 DEF InTime, Ended, Alive
<1> QED BY <1>5, <1>6

LEMMA StartsOutputInTime == ASSUME IInv, InTime, StartsOutput PROVE InTime'
<1>1. /\ core.pc = "run" /\ core' = [core EXCEPT !.output = TRUE]
      /\ UNCHANGED <<open, queue, ipc, todo, host, late>>
  BY DEF StartsOutput, CoreGoes, ipcvars, Emulates
<1>2. /\ core'.pc = "run" /\ core'.reboot = core.reboot
      /\ core'.read_size = core.read_size /\ ToCore' = ToCore /\ ToHost' = ToHost /\ Alive /\ Alive'
  BY <1>1 DEF IInv, TypeOK, CoreType, ToCore, ToHost, Alive
<1>3. Ended /\ Calm
  BY <1>2 DEF InTime
<1>4. Ended' /\ Rests' /\ Given'
  BY <1>1, <1>2, <1>3 DEF Ended, Calm, Rests, AtRest, Given, CoreWaits, Alive
<1>5. Answered' /\ Commanded' /\ Loads'
  BY <1>1, <1>2, <1>3 DEF Calm, Answered, Commanded, Loads, Requested
<1> QED BY <1>4, <1>5 DEF InTime, Calm

-----------------------------------------------------------------------------
(* Before the first state is created there is no thread.                   *)
LEMMA InitTInv == Init => TInv
<1> SUFFICES ASSUME Init PROVE TInv
  OBVIOUS
<1>1. core.pc = "none" /\ core.read_size = 0 /\ ~open["core"]
  BY DEF Init, IpcInit, NewCore, Sides
<1>2. InTime
  BY <1>1 DEF InTime, Ended, Alive
<1> QED BY <1>2, InitInv DEF TInv

(* Calls that begin.                                                       *)
LEMMA CallerInTime == ASSUME IInv, InTime, Caller PROVE InTime'
<1>1. ASSUME NEW module \in {<<"FILE", "FILE_DATA">>, <<"NOFILE">>}, NEW subsong \in BOOLEAN,
             uade_play(module, subsong)
      PROVE  InTime'
  BY <1>1, uade_playInTime
<1> QED BY <1>1, uade_new_stateInTime, CallsInTime, FilterInTime DEF Caller

(* Calls that go on.                                                       *)
LEMMA HostStepInTime == ASSUME IInv, IInv', InTime, HostStep PROVE InTime'
<1>1. ASSUME NEW m \in FromCore, SongAck(m) PROVE InTime'
  BY <1>1, SongAckInTime
<1>2. ASSUME NEW m \in FromCore, SongAckToken(m) PROVE InTime'
  BY <1>2, SongAckTokenInTime
<1>3. ASSUME NEW m \in FromCore, Flush(m) PROVE InTime'
  BY <1>3, FlushInTime
<1>4. ASSUME EventSongEnd \/ EventData \/ EventSkipped \/ (\E m \in OtherEvents : EventOther(m)) PROVE InTime'
  BY <1>4, EventsInTime
<1>5. ASSUME SongInitialized PROVE InTime'
  BY <1>5, SongInitializedInTime
<1>6. ASSUME EventReady PROVE InTime'
  BY <1>6, EventReadyInTime
<1>7. ASSUME EventRequestFile PROVE InTime'
  BY <1>7, EventRequestFileInTime
<1>8. ASSUME FileServed PROVE InTime'
  BY <1>8, FileServedInTime
<1>9. ASSUME Reboots PROVE InTime'
  BY <1>9, RebootsInTime
<1>10. ASSUME Stopped PROVE InTime'
  BY <1>10, StoppedInTime
<1>11. ASSUME ClosesChannel \/ Joined PROVE InTime'
  BY <1>11, ClosesInTime
<1>12. ASSUME HostSends PROVE InTime'
  BY <1>12, HostSendsInTime
<1>13. ASSUME HostSendFails(CannotSend("host")) \/ HostReceiveFails(CannotReceive("host")) PROVE InTime'
  BY <1>13, HostFailsInTime
<1> QED BY <1>1, <1>2, <1>3, <1>4, <1>5, <1>6, <1>7, <1>8, <1>9, <1>10, <1>11, <1>12, <1>13 DEF HostStep

(* The core's thread and the program it emulates.                          *)
LEMMA CoreStepInTime == ASSUME IInv, InTime, CoreStep \/ AmigaPosts \/ StartsOutput PROVE InTime'
<1>1. ASSUME NEW m \in FromHost, CoreLoads(m) PROVE InTime'
  BY <1>1, CoreLoadsInTime
<1>2. ASSUME NEW m \in FromHost, CoreCommand(m) PROVE InTime'
  BY <1>2, CoreCommandInTime
<1>3. ASSUME NEW m \in FromHost, FileReceived(m) PROVE InTime'
  BY <1>3, FileReceivedInTime
<1>4. ASSUME \/ ConfigUnreadable \/ CoreReceiveFails(CannotReceive("core"))
             \/ (\E m \in FromHost : CoreRejects(m))
      PROVE  InTime'
  BY <1>4, CoreEndsInTime
<1>5. ASSUME CoreStarts PROVE InTime'
  BY <1>5, CoreStartsInTime
<1>6. ASSUME LogsSlowStart \/ LogsStart PROVE InTime'
  BY <1>6, LogsInTime
<1>7. ASSUME BlockFull PROVE InTime'
  BY <1>7, BlockFullInTime
<1>8. ASSUME RebootAck PROVE InTime'
  BY <1>8, RebootAckInTime
<1>9. ASSUME CoreSends PROVE InTime'
  BY <1>9, CoreSendsInTime
<1>10. ASSUME CoreSendFails(CannotSend("core")) PROVE InTime'
  BY <1>10, CoreSendsAlways
<1>11. ASSUME AmigaPosts PROVE InTime'
  BY <1>11, PostsInTime DEF AmigaPosts
<1>12. ASSUME StartsOutput PROVE InTime'
  BY <1>12, StartsOutputInTime
<1> QED BY <1>1, <1>2, <1>3, <1>4, <1>5, <1>6, <1>7, <1>8, <1>9, <1>10, <1>11, <1>12 DEF CoreStep

(* Every step is a timeout, or leaves it at none.                          *)
LEMMA LateStays == ASSUME [Next]_vars, ~late' PROVE ~late
<1>1. ASSUME Caller PROVE late' = late
  BY <1>1 DEF Caller, uade_new_state, uade_read, uade_seek, uade_set_filter_state, uade_stop,
              uade_cleanup_state, uade_play
<1>2. ASSUME HostStep PROVE late' = late
  BY <1>2 DEF HostStep, SongAck, SongAckToken, Flush, EventOther, SongInitialized, EventReady, EventSongEnd,
              EventData, EventSkipped, EventRequestFile, FileServed, Reboots, Stopped, ClosesChannel, Joined,
              HostSends, HostGoes
<1>3. ASSUME CoreStep PROVE late' = late
  BY <1>3 DEF CoreStep, CoreLoads, CoreCommand, CoreRejects, FileReceived, ConfigUnreadable, CoreStarts,
              LogsSlowStart, LogsStart, BlockFull, RebootAck, CoreSends, CoreGoes
<1>4. ASSUME AmigaPosts \/ StartsOutput PROVE late' = late
  BY <1>4 DEF AmigaPosts, Posts, StartsOutput, CoreGoes
<1>5. ASSUME HostTimesOut \/ CoreTimesOut PROVE late'
  BY <1>5 DEF HostTimesOut, CoreTimesOut
<1>6. ASSUME UNCHANGED vars PROVE late' = late
  BY <1>6 DEF vars
<1> QED BY <1>1, <1>2, <1>3, <1>4, <1>5, <1>6 DEF Next

(* The invariant is inductive.                                             *)
LEMMA NextTInv == TInv /\ [Next]_vars => TInv'
<1> SUFFICES ASSUME TInv, [Next]_vars PROVE TInv'
  OBVIOUS
<1>1. IInv /\ IInv'
  BY NextInv DEF TInv
<1> SUFFICES ASSUME ~late' PROVE InTime'
  BY <1>1 DEF TInv
<1>2. InTime
  BY LateStays DEF TInv
<1>3. ASSUME UNCHANGED vars PROVE InTime'
  <2>1. ToCore' = ToCore /\ ToHost' = ToHost /\ core' = core /\ host' = host /\ todo' = todo /\ ipc' = ipc /\ open' = open
    BY <1>3 DEF vars, ToCore, ToHost
  <2>2. Ended' /\ (Alive' => Rests' /\ Given')
    BY <1>2, <2>1 DEF InTime, Ended, Alive, Calm, Rests, AtRest, Given, CoreWaits, ServedAll
  <2>3. Alive' => Answered' /\ Commanded' /\ Loads'
    BY <1>2, <2>1 DEF InTime, Alive, Calm, Answered, Commanded, Loads, InSong
  <2> QED BY <2>2, <2>3 DEF InTime, Calm
<1>4. ASSUME HostTimesOut \/ CoreTimesOut PROVE FALSE
  BY <1>4 DEF HostTimesOut, CoreTimesOut
<1> QED BY <1>1, <1>2, <1>3, <1>4, CallerInTime, HostStepInTime, CoreStepInTime DEF Next

(* As long as no wait has reached its timeout, the one that waits is sent  *)
(* what it waits for, for any room of the rings.                           *)
THEOREM TurnsInvariance == Spec => []TInv
BY InitTInv, NextTInv, PTL DEF Spec

(* No call ends by the timeout only: the host in uade_receive_message()    *)
(* and the core in its own never wait for each other, whether a song       *)
(* starts, plays, asks for a file, or is stopped.                          *)
THEOREM NeverBothWait == Spec => []NoMutualWait
<1>1. TInv => NoMutualWait
  <2> SUFFICES ASSUME TInv, ~late, HostWaits, StaysEmpty("host"), CoreWaits, StaysEmpty("core")
               PROVE  FALSE
    BY DEF NoMutualWait
  <2>1. /\ todo["host"] = <<>> /\ todo["core"] = <<>> /\ queue["host"] = <<>> /\ queue["core"] = <<>>
        /\ IInv /\ Calm
    BY DEF StaysEmpty, TInv, InTime, Alive, CoreWaits
  <2>2. ToHost = <<>> /\ ToCore = <<>>
    <3>1. <<>> \o <<>> = <<>>
      OBVIOUS
    <3> QED BY <2>1, <3>1 DEF ToHost, ToCore
  <2>3. ipc["host"] = "R"
    BY <2>1 DEF HostWaits, IInv, HostSide
  <2> QED BY <2>1, <2>2, <2>3, Empty DEF Calm, Given, Answered
<1> QED BY <1>1, TurnsInvariance, PTL

(* uade_cleanup_state() without a timeout: the core's thread has closed its *)
(* end of the channel, and the next thread starts without a request of     *)
(* this one in its static variables.                                       *)
THEOREM CleanedUp == Spec => []CleanAtEnd
<1>1. TInv => CleanAtEnd
  BY DEF TInv, InTime, Ended, Alive, Serving, IInv, Starts, CleanAtEnd
<1> QED BY <1>1, TurnsInvariance, PTL

(* uadecore reads each message where it expects it, and none ends it with  *)
(* an error, as long as no filter is set while nothing plays: with that    *)
(* call the core may read an option where it expects the score.            *)
THEOREM EveryMessageUnderstood == ASSUME ~FilterBetweenSongs PROVE Spec => []MessagesUnderstood
<1>1. TInv /\ HostUnderstands => MessagesUnderstood
  <2> SUFFICES ASSUME TInv, HostUnderstands, ~late PROVE CoreUnderstands
    BY DEF MessagesUnderstood
  <2> SUFFICES ASSUME CoreWaits, NEW m \in FromHost, CoreArrives(m), Unexpected(m) PROVE FALSE
    BY DEF CoreUnderstands
  <2>1. IInv /\ Calm
    BY DEF TInv, InTime, Alive, CoreWaits
  <2> QED BY <2>1, OnlyFilterUnexpected
<1> QED BY <1>1, TurnsInvariance, AnswersUnderstood, PTL

=============================================================================
