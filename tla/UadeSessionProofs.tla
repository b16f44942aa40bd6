------------------------- MODULE UadeSessionProofs -------------------------
(***************************************************************************)
(* Proofs about UadeSession, for any room of the rings and any number of   *)
(* messages the Amiga program posts, with and without timeouts: one side   *)
(* sends at a time, nobody receives in S state or sends in R state, a      *)
(* stopped song leaves nothing behind, and the host never takes a message  *)
(* of the core for something else.                                         *)
(*                                                                         *)
(* The invariant speaks about what is on the way to each side.  A lemma    *)
(* per action, named after it, shows that the action keeps it.             *)
(***************************************************************************)
EXTENDS UadeSession, SequenceTheorems, FiniteSetTheorems, TLAPS

(***************************************************************************)
(* What is on the way.  A message a side has still to send and one that    *)
(* lies in the ring are the same to the other side.                        *)
(***************************************************************************)
ToCore == queue["core"] \o todo["host"]
ToHost == queue["host"] \o todo["core"]

(* Which messages are on the way, and in what order.                       *)
All(s, M) == \A i \in 1..Len(s) : s[i] \in M
Lacks(s, M) == \A i \in 1..Len(s) : s[i] \notin M
OnlyLast(s, M) == \A i \in 1..Len(s) : s[i] \in M => i = Len(s)
EndsIn(s, M) == s # <<>> /\ s[Len(s)] \in M
After(s, m, M) == \A i \in 2..Len(s) : s[i] = m => s[i - 1] \in M
Begins(s, m) == s # <<>> /\ Head(s) = m

(* Kinds of messages: those that give the turn, the answers to a song,     *)
(* what the core reads as commands, and the parts of a file.               *)
Turns == {"TOKEN", "REQUEST"}
Answers == {"CAN_PLAY", "CANT_PLAY"}
Commands == {"OPTION", "SUBSONG", "READ", "REBOOT", "TOKEN"}
FileParts == {"FILE", "FILE_DATA", "NOFILE"}
Completions == {"FILE_DATA", "NOFILE"}
Loading == {"config", "score", "player", "player_data", "module", "module_data", "start"}
Requested == {"request", "request_data"}

(* The core's thread runs; a file has been served; a song is being played  *)
(* or stopped; the next song may be started.                               *)
Alive == core.pc \notin {"none", "gone"}
ServedAll == host.pc = "serve" /\ todo["host"] = <<>>
InSong == \/ host.pc \in {"options", "event", "serve", "flush1", "flush2"}
          \/ host.pc = "idle" /\ host.song # "INVALID"
Ready == host.pc = "idle" /\ host.song = "INVALID" /\ ~host.broken

(* What the host has still to send and the protocol state it is in, by     *)
(* where its call is.                                                      *)
HostSide ==
  /\ host.pc \in {"none", "acktoken", "canttoken", "close", "join"} => todo["host"] = <<>>
  /\ host.pc = "idle" => All(todo["host"], {"CONFIG", "OPTION"})
  /\ host.pc = "options" => All(todo["host"], {"OPTION"})
  /\ host.pc \in {"ack", "event", "flush1", "flush2"} =>
       todo["host"] = <<>> \/ EndsIn(todo["host"], {"TOKEN"})
  /\ host.pc = "serve" => /\ All(todo["host"], FileParts)
                          /\ todo["host"] = <<>> \/ EndsIn(todo["host"], Completions)
  /\ host.pc = "serve" => host.back # "flush2"
  /\ todo["host"] # <<>> => ipc["host"] # "R"
  /\ host.pc \in {"serve", "options"} => ipc["host"] = "S"
  /\ host.pc \in {"ack", "acktoken", "canttoken", "event"} /\ todo["host"] = <<>> => ipc["host"] = "R"
  /\ host.pc = "idle" /\ host.song \notin {"INVALID", "ERROR"} => ipc["host"] = "R"
  /\ host.pc \in {"event", "serve", "flush1", "flush2"} => host.song # "INVALID"
  /\ host.pc \in {"ack", "acktoken", "canttoken", "options"} => host.song = "INVALID"
  /\ host.pc \notin {"none", "join"} => open["host"]

(* The same for the core's thread.                                         *)
CoreSide ==
  /\ core.pc \in {"none", "gone", "request_data"} \cup (Loading \ {"score"}) => todo["core"] = <<>>
  /\ todo["core"] # <<>> => ipc["core"] = "S"
  /\ core.pc = "run" => /\ ipc["core"] = "S"
                        /\ All(todo["core"], {"NAME", "MSG", "LOGS", "SUBSONG_INFO", "SONG_END"})
  /\ core.pc = "commands" => All(todo["core"], {"CAN_PLAY", "DATA", "TOKEN"})
  /\ core.pc = "score" => All(todo["core"], {"CANT_PLAY", "TOKEN"})
  /\ core.pc = "rebooted" => All(todo["core"], {"TOKEN"})
  /\ core.pc = "request" => All(todo["core"], {"REQUEST"})
  /\ CoreWaits /\ todo["core"] = <<>> => ipc["core"] # "S"
  /\ core.pc = "run" /\ ~core.reboot => core.read_size = 1
  /\ core.pc \in Requested => ~core.reboot /\ core.read_size = 1

(* The turn: messages are on the way in one direction only, the message    *)
(* that gives the turn is the last one, and who has got it is not about    *)
(* to receive.                                                             *)
Wire ==
  /\ ToCore = <<>> \/ ToHost = <<>>
  /\ OnlyLast(ToHost, Turns)
  /\ OnlyLast(ToCore, {"TOKEN"})
  /\ CoreWaits /\ ToHost # <<>> => EndsIn(ToHost, Turns)
  /\ Alive /\ ipc["core"] = "S" => ToCore = <<>> /\ (ipc["host"] = "R" \/ ServedAll)
  /\ ToHost # <<>> => ipc["host"] = "R" \/ ServedAll
  /\ todo["host"] = <<>> /\ EndsIn(ToCore, {"TOKEN"}) => ipc["host"] = "R"
  /\ Alive /\ todo["core"] = <<>> /\ EndsIn(ToHost, Turns) => ipc["core"] # "S"
  /\ core.pc \in Requested => OnlyLast(ToCore, Completions)
  /\ core.pc \in Requested /\ todo["host"] = <<>> /\ EndsIn(ToCore, Completions) =>
       ipc["host"] = "R" \/ ServedAll

(* How a song starts: while the host waits for the answer, the core still  *)
(* loads, or its answer is the next thing the host reads.                  *)
Starts ==
  /\ host.pc = "none" => ~Alive
  /\ host.pc # "none" => core.pc # "none"
  /\ host.pc = "ack" =>
       \/ ToHost = <<>> /\ core.pc \in Loading \cup {"rebooted", "gone"}
       \/ /\ ToHost # <<>> /\ All(Tail(ToHost), {"TOKEN"})
          /\ \/ Head(ToHost) = "CAN_PLAY" /\ core.pc \in {"commands", "gone"}
             \/ Head(ToHost) = "CANT_PLAY" /\ core.pc \in {"score", "gone"}
  /\ host.pc = "acktoken" => core.pc \in {"commands", "gone"}
  /\ host.pc = "canttoken" => core.pc \in {"score", "gone"}
  /\ host.pc \in {"acktoken", "canttoken"} => All(ToHost, {"TOKEN"}) /\ (Alive => ToHost # <<>>)
  /\ Ready => /\ ipc["host"] # "R" /\ ToHost = <<>>
              /\ core.pc \in {"config", "score", "rebooted", "gone"}
              /\ Alive => All(ToCore, {"CONFIG", "OPTION"})

(* While a song plays no answer of another one is on the way, the core     *)
(* reads nothing but commands and files, and a token it reads follows a    *)
(* request or a reboot.                                                    *)
Plays ==
  /\ InSong => /\ core.pc \in {"commands", "run", "request", "request_data", "rebooted", "gone"}
               /\ Lacks(ToHost, Answers)
               /\ Alive => All(ToCore, Commands \cup FileParts)
  /\ host.pc = "serve" /\ todo["host"] # <<>> => core.pc \in Requested \cup {"gone"}
  /\ core.pc \notin {"request", "gone"} => Lacks(ToHost, {"REQUEST"})
  /\ core.pc = "commands" => /\ All(ToCore, Commands)
                             /\ After(ToCore, "TOKEN", {"READ", "REBOOT"})
                             /\ Begins(ToCore, "TOKEN") => core.reboot \/ core.read_size = 1

(* After the reboot is sent the host reads one token, the                  *)
(* acknowledgement.                                                        *)
Stops ==
  host.pc = "flush2" =>
    /\ All(ToHost, {"TOKEN"})
    /\ ToHost # <<>> => core.pc \in {"rebooted", "gone"}
    /\ ipc["host"] # "R" /\ todo["host"] = <<>> => core.pc \in {"rebooted", "gone"} /\ ToCore = <<>>
    /\ core.pc = "run" => core.reboot
    /\ core.pc = "commands" => /\ After(ToCore, "TOKEN", {"REBOOT"})
                               /\ Begins(ToCore, "TOKEN") => core.reboot
    /\ core.pc \in Requested => Lacks(ToCore, Completions)

(* The lists of messages, as functions.                                    *)
Shape == queue \in [Sides -> Seq(FromHost \cup FromCore)] /\ todo \in [Sides -> Seq(FromHost \cup FromCore)]

(* The inductive invariant.                                                *)
IInv == TypeOK /\ Shape /\ HostSide /\ CoreSide /\ Wire /\ Starts /\ Plays /\ Stops

(* Nothing on the way.                                                     *)
LEMMA Empty ==
  /\ \A M : All(<<>>, M) /\ Lacks(<<>>, M) /\ OnlyLast(<<>>, M) /\ ~EndsIn(<<>>, M)
  /\ \A m, M : After(<<>>, m, M)
BY DEF All, Lacks, OnlyLast, EndsIn, After

(* What is said of the messages on the way when the first one is taken.    *)
LEMMA TailKeeps ==
  ASSUME NEW S, NEW s \in Seq(S), s # <<>>
  PROVE  /\ Tail(s) \in Seq(S) /\ Head(s) \in S
         /\ \A M : All(s, M) => All(Tail(s), M) /\ Head(s) \in M
         /\ \A M : Lacks(s, M) => Lacks(Tail(s), M) /\ Head(s) \notin M
         /\ \A M : OnlyLast(s, M) => OnlyLast(Tail(s), M)
         /\ \A M : OnlyLast(s, M) /\ Head(s) \in M => Tail(s) = <<>>
         /\ \A M : EndsIn(Tail(s), M) => EndsIn(s, M)
         /\ \A M : EndsIn(s, M) /\ Tail(s) # <<>> => EndsIn(Tail(s), M)
         /\ \A M : EndsIn(s, M) /\ Tail(s) = <<>> => Head(s) \in M
         /\ \A M : Head(s) \in M /\ Tail(s) = <<>> => EndsIn(s, M)
         /\ \A m, M : After(s, m, M) => After(Tail(s), m, M)
         /\ \A m, M : After(s, m, M) /\ Tail(s) # <<>> /\ Head(Tail(s)) = m => Head(s) \in M
<1> DEFINE t == Tail(s)
<1>1. /\ t \in Seq(S) /\ Len(s) \in Nat /\ Len(s) >= 1 /\ Len(t) = Len(s) - 1 /\ Head(s) = s[1] /\ s[1] \in S
      /\ \A i \in 1..Len(t) : t[i] = s[i + 1]
      /\ t = <<>> <=> Len(t) = 0
      /\ t # <<>> => Head(t) = t[1]
  <2>1. Len(s) \in Nat /\ Len(s) >= 1 /\ Head(s) = s[1] /\ s[1] \in S
    OBVIOUS
  <2>2. t \in Seq(S) /\ Len(t) = Len(s) - 1
    OBVIOUS
  <2>3. \A i \in 1..Len(t) : t[i] = s[i + 1]
    OBVIOUS
  <2>4. t = <<>> <=> Len(t) = 0
    BY <2>2, EmptySeq
  <2>5. t # <<>> => Head(t) = t[1]
    BY <2>2
  <2> HIDE DEF t
  <2> QED BY <2>1, <2>2, <2>3, <2>4, <2>5
<1> HIDE DEF t
<1>2. \A M : All(s, M) => All(t, M) /\ Head(s) \in M
  BY <1>1 DEF All
<1>3. \A M : Lacks(s, M) => Lacks(t, M) /\ Head(s) \notin M
  BY <1>1 DEF Lacks
<1>4. \A M : OnlyLast(s, M) => OnlyLast(t, M)
  BY <1>1 DEF OnlyLast
<1>5. \A M : OnlyLast(s, M) /\ Head(s) \in M => t = <<>>
  BY <1>1 DEF OnlyLast
<1>6. \A M : EndsIn(t, M) => EndsIn(s, M)
  BY <1>1 DEF EndsIn
<1>7. \A M : EndsIn(s, M) /\ t # <<>> => EndsIn(t, M)
  BY <1>1 DEF EndsIn
<1>11. t = <<>> => Len(s) = 1
  BY <1>1
<1>8. \A M : EndsIn(s, M) /\ t = <<>> => Head(s) \in M
  BY <1>1, <1>11 DEF EndsIn
<1>12. \A M : Head(s) \in M /\ t = <<>> => EndsIn(s, M)
  BY <1>1, <1>11 DEF EndsIn
<1>9. ASSUME NEW m, NEW M, After(s, m, M) PROVE After(t, m, M)
  <2> SUFFICES ASSUME NEW i \in 2..Len(t), t[i] = m PROVE t[i - 1] \in M
    BY DEF After
  <2>1. i \in 1..Len(t) /\ i - 1 \in 1..Len(t) /\ i + 1 \in 2..Len(s) /\ (i - 1) + 1 = i /\ (i + 1) - 1 = i
    BY <1>1
  <2>2. t[i] = s[i + 1] /\ t[i - 1] = s[i]
    BY <1>1, <2>1
  <2> QED BY <1>9, <2>1, <2>2 DEF After
<1>10. ASSUME NEW m, NEW M, After(s, m, M), t # <<>>, Head(t) = m PROVE Head(s) \in M
  <2>1. 1 \in 1..Len(t) /\ 2 \in 2..Len(s) /\ 1 + 1 = 2 /\ 2 - 1 = 1
    BY <1>1, <1>10
  <2>2. s[2] = m
    BY <1>1, <1>10, <2>1
  <2> QED BY <1>1, <1>10, <2>1, <2>2 DEF After
<1> QED BY <1>1, <1>2, <1>3, <1>4, <1>5, <1>6, <1>7, <1>8, <1>9, <1>10, <1>12 DEF t

(* What is said of messages followed by others.                            *)
LEMMA CatKeeps ==
  ASSUME NEW S, NEW s \in Seq(S), NEW t \in Seq(S)
  PROVE  /\ s \o t \in Seq(S)
         /\ s \o t = <<>> <=> s = <<>> /\ t = <<>>
         /\ \A M : All(s \o t, M) <=> All(s, M) /\ All(t, M)
         /\ \A M : Lacks(s \o t, M) <=> Lacks(s, M) /\ Lacks(t, M)
         /\ \A M : OnlyLast(s \o t, M) /\ t # <<>> => Lacks(s, M) /\ OnlyLast(t, M)
         /\ \A M : OnlyLast(s \o t, M) => OnlyLast(s, M)
         /\ \A M : Lacks(s, M) /\ OnlyLast(t, M) => OnlyLast(s \o t, M)
         /\ \A M : t # <<>> => (EndsIn(s \o t, M) <=> EndsIn(t, M))
         /\ \A m, M : After(s \o t, m, M) => After(s, m, M) /\ After(t, m, M)
         /\ \A m, M : Lacks(s, {m}) /\ After(t, m, M) /\ (t # <<>> => Head(t) # m) => After(s \o t, m, M)
         /\ s # <<>> => Head(s \o t) = Head(s) /\ Tail(s \o t) = Tail(s) \o t
<1> DEFINE u == s \o t
<1>1. /\ u \in Seq(S) /\ Len(s) \in Nat /\ Len(t) \in Nat /\ Len(u) = Len(s) + Len(t)
      /\ \A i \in 1..Len(s) : u[i] = s[i]
      /\ \A i \in Len(s) + 1..Len(s) + Len(t) : u[i] = t[i - Len(s)]
      /\ \A i \in 1..Len(t) : u[i + Len(s)] = t[i]
      /\ (t = <<>> <=> Len(t) = 0) /\ (s = <<>> <=> Len(s) = 0) /\ (u = <<>> <=> Len(u) = 0)
      /\ t # <<>> => Head(t) = t[1]
      /\ s # <<>> => Head(u) = Head(s) /\ Tail(u) = Tail(s) \o t
  OBVIOUS
<1> HIDE DEF u
<1>2. u = <<>> <=> s = <<>> /\ t = <<>>
  BY <1>1
<1>11. /\ \A i \in 1..Len(s) : i \in 1..Len(u)
       /\ \A i \in 1..Len(t) : i + Len(s) \in 1..Len(u)
       /\ \A i \in 1..Len(u) : i \in 1..Len(s) \/ (i - Len(s) \in 1..Len(t) /\ u[i] = t[i - Len(s)])
  BY <1>1
<1>3. \A M : All(u, M) <=> All(s, M) /\ All(t, M)
  BY <1>1, <1>11 DEF All
<1>4. \A M : Lacks(u, M) <=> Lacks(s, M) /\ Lacks(t, M)
  BY <1>1, <1>11 DEF Lacks
<1>5. ASSUME NEW M, OnlyLast(u, M), t # <<>> PROVE Lacks(s, M) /\ OnlyLast(t, M)
  <2>1. ASSUME NEW i \in 1..Len(s) PROVE s[i] \notin M
    <3>1. i \in 1..Len(u) /\ i # Len(u)
      BY <1>1, <1>5
    <3> QED BY <1>1, <1>5, <3>1 DEF OnlyLast
  <2>2. ASSUME NEW i \in 1..Len(t), t[i] \in M PROVE i = Len(t)
    <3>1. i + Len(s) \in 1..Len(u) /\ u[i + Len(s)] \in M
      BY <1>1, <2>2
    <3>2. i + Len(s) = Len(u)
      BY <1>5, <3>1 DEF OnlyLast
    <3> QED BY <1>1, <3>2
  <2> QED BY <2>1, <2>2 DEF OnlyLast, Lacks
<1>6. \A M : OnlyLast(u, M) => OnlyLast(s, M)
  BY <1>1, <1>11 DEF OnlyLast
<1>7. ASSUME NEW M, Lacks(s, M), OnlyLast(t, M) PROVE OnlyLast(u, M)
  <2> SUFFICES ASSUME NEW i \in 1..Len(u), u[i] \in M PROVE i = Len(u)
    BY DEF OnlyLast
  <2>1. i \notin 1..Len(s)
    BY <1>1, <1>7 DEF Lacks
  <2>2. i - Len(s) \in 1..Len(t) /\ t[i - Len(s)] \in M
    BY <1>11, <2>1
  <2>3. i - Len(s) = Len(t)
    BY <1>7, <2>2 DEF OnlyLast
  <2> QED BY <1>1, <2>3
<1>8. \A M : t # <<>> => (EndsIn(u, M) <=> EndsIn(t, M))
  BY <1>1 DEF EndsIn
<1>9. ASSUME NEW m, NEW M, After(u, m, M) PROVE After(s, m, M) /\ After(t, m, M)
  <2>1. ASSUME NEW i \in 2..Len(s), s[i] = m PROVE s[i - 1] \in M
    <3>1. i \in 1..Len(s) /\ i - 1 \in 1..Len(s) /\ i \in 2..Len(u)
      BY <1>1
    <3>2. u[i] = m /\ u[i - 1] = s[i - 1]
      BY <1>1, <2>1, <3>1
    <3> QED BY <1>9, <3>1, <3>2 DEF After
  <2>2. ASSUME NEW i \in 2..Len(t), t[i] = m PROVE t[i - 1] \in M
    <3>1. /\ i \in 1..Len(t) /\ i - 1 \in 1..Len(t) /\ i + Len(s) \in 2..Len(u)
          /\ (i + Len(s)) - 1 = (i - 1) + Len(s)
      BY <1>1
    <3>2. u[i + Len(s)] = m /\ u[(i - 1) + Len(s)] = t[i - 1]
      BY <1>1, <2>2, <3>1
    <3> QED BY <1>9, <3>1, <3>2 DEF After
  <2> QED BY <2>1, <2>2 DEF After
<1>10. ASSUME NEW m, NEW M, Lacks(s, {m}), After(t, m, M), t # <<>> => Head(t) # m PROVE After(u, m, M)
  <2> SUFFICES ASSUME NEW i \in 2..Len(u), u[i] = m PROVE u[i - 1] \in M
    BY DEF After
  <2>1. i \in 1..Len(u) /\ i \notin 1..Len(s)
    BY <1>1, <1>10 DEF Lacks
  <2>2. i - Len(s) \in 1..Len(t) /\ t[i - Len(s)] = m
    BY <1>11, <2>1
  <2>3. i - Len(s) # 1
    BY <1>1, <1>10, <2>2
  <2>4. /\ i - Len(s) \in 2..Len(t) /\ (i - Len(s)) - 1 \in 1..Len(t)
        /\ ((i - Len(s)) - 1) + Len(s) = i - 1
    BY <1>1, <2>2, <2>3
  <2>5. t[(i - Len(s)) - 1] \in M
    BY <1>10, <2>2, <2>4 DEF After
  <2>6. u[((i - Len(s)) - 1) + Len(s)] = t[(i - Len(s)) - 1]
    BY <1>1, <2>4
  <2> QED BY <2>4, <2>5, <2>6
<1> QED BY <1>1, <1>2, <1>3, <1>4, <1>5, <1>6, <1>7, <1>8, <1>9, <1>10 DEF u

(* A message of a kind that can only be the last one is the last one, or   *)
(* there is none.                                                          *)
LEMMA LastOrNone ==
  ASSUME NEW S, NEW s \in Seq(S)
  PROVE  /\ \A M : OnlyLast(s, M) /\ ~EndsIn(s, M) => Lacks(s, M)
         /\ \A M : Lacks(s, M) => ~EndsIn(s, M) /\ OnlyLast(s, M)
         /\ \A m : Lacks(s, {m}) => ~Begins(s, m)
<1>1. Len(s) \in Nat /\ (s = <<>> <=> Len(s) = 0) /\ (s # <<>> => Head(s) = s[1] /\ 1 \in 1..Len(s) /\ Len(s) \in 1..Len(s))
  BY EmptySeq
<1>2. \A M : OnlyLast(s, M) /\ ~EndsIn(s, M) => Lacks(s, M)
  BY <1>1 DEF OnlyLast, EndsIn, Lacks
<1>3. \A M : Lacks(s, M) => ~EndsIn(s, M) /\ OnlyLast(s, M)
  BY <1>1 DEF OnlyLast, EndsIn, Lacks
<1>4. \A m : Lacks(s, {m}) => ~Begins(s, m)
  BY <1>1 DEF Lacks, Begins
<1> QED BY <1>2, <1>3, <1>4

-----------------------------------------------------------------------------
(* There are two sides.                                                    *)
LEMMA OtherSide == Other("host") = "core" /\ Other("core") = "host"
BY DEF Other, Sides

(* What each side has sent, what it has still to send, and both together.  *)
LEMMA Types ==
  ASSUME IpcTypeOK
  PROVE  /\ queue["host"] \in Seq(FromCore) /\ todo["core"] \in Seq(FromCore) /\ ToHost \in Seq(FromCore)
         /\ queue["core"] \in Seq(FromHost) /\ todo["host"] \in Seq(FromHost) /\ ToCore \in Seq(FromHost)
<1>1. /\ queue["host"] \in Seq(FromCore) /\ todo["core"] \in Seq(FromCore)
      /\ queue["core"] \in Seq(FromHost) /\ todo["host"] \in Seq(FromHost)
  BY OtherSide DEF IpcTypeOK, Sides, From
<1> QED BY <1>1, CatKeeps DEF ToHost, ToCore

(* A message that moves from the end of the one list to the other keeps    *)
(* its place.                                                              *)
LEMMA SentOne ==
  ASSUME NEW S, NEW q \in Seq(S), NEW t \in Seq(S), t # <<>>
  PROVE  /\ Head(t) \in S /\ Tail(t) \in Seq(S) /\ Append(q, Head(t)) \in Seq(S)
         /\ Append(q, Head(t)) \o Tail(t) = q \o t
OBVIOUS

(* The room messages take is a number, and less without the first one.     *)
LEMMA LevelType == ASSUME NEW S, NEW q \in Seq(S) PROVE Level(q) \in Nat
<1>1. IsFiniteSet(1..Len(q)) /\ DOMAIN q = 1..Len(q) /\ Len(q) \in Nat
  BY FS_Interval
<1>2. IsFiniteSet({i \in DOMAIN q : q[i] \in Long})
  BY <1>1, FS_Subset
<1>3. Cardinality({i \in DOMAIN q : q[i] \in Long}) \in Nat
  BY <1>2, FS_CardinalityType
<1> QED BY <1>1, <1>3 DEF Level

(* Taking a message leaves no more in the ring.                            *)
LEMMA LevelTail ==
  ASSUME NEW S, NEW q \in Seq(S), q # <<>>
  PROVE  Level(Tail(q)) <= Level(q)
<1> DEFINE L(s) == {i \in DOMAIN s : s[i] \in Long}
           t == Tail(q)
           f == [i \in L(t) |-> i + 1]
<1>1. /\ Len(q) \in Nat /\ Len(t) \in Nat /\ Len(t) = Len(q) - 1
      /\ DOMAIN q = 1..Len(q) /\ DOMAIN t = 1..Len(t)
      /\ \A i \in 1..Len(t) : t[i] = q[i + 1]
  BY LenProperties, HeadTailProperties
<1>2. IsFiniteSet(L(q)) /\ IsFiniteSet(L(t))
  <2>1. IsFiniteSet(1..Len(q)) /\ IsFiniteSet(1..Len(t))
    BY <1>1, FS_Interval
  <2> QED BY <1>1, <2>1, FS_Subset
<1> HIDE DEF t
<1>3. \A i \in L(t) : i + 1 \in L(q) /\ i \in Nat
  BY <1>1
<1>4. f \in Injection(L(t), L(q))
  BY <1>3 DEF Injection, IsInjective
<1>5. Cardinality(L(t)) <= Cardinality(L(q))
  BY <1>2, <1>4, FS_Injection
<1>6. Cardinality(L(t)) \in Nat /\ Cardinality(L(q)) \in Nat
  BY <1>2, FS_CardinalityType
<1>7. Level(q) = Len(q) + Cardinality(L(q)) /\ Level(t) = Len(t) + Cardinality(L(t))
  BY DEF Level
<1> HIDE DEF L
<1>8. Level(t) <= Level(q)
  BY <1>1, <1>5, <1>6, <1>7
<1> QED BY <1>8 DEF t

(* A message that is sent stays on the way.                                 *)
LEMMA HostSent ==
  ASSUME IpcTypeOK, Shape, SendsOne("host")
  PROVE  /\ IpcTypeOK' /\ Shape' /\ ToCore' = ToCore /\ ToHost' = ToHost
         /\ todo'["core"] = todo["core"] /\ todo'["host"] = Tail(todo["host"])
         /\ todo["host"] # <<>> /\ ipc["host"] # "R" /\ open' = open
         /\ ipc'["core"] = ipc["core"]
         /\ ipc'["host"] = IF Head(todo["host"]) \in Turns THEN "R" ELSE "S"
<1> DEFINE m == Head(todo["host"])
           q == queue["core"]
<1>1. /\ todo["host"] # <<>> /\ ipc["host"] # "R" /\ open' = open /\ Fits(q, m)
      /\ queue' = [queue EXCEPT !["core"] = Append(q, m)]
      /\ todo' = [todo EXCEPT !["host"] = Tail(todo["host"])]
      /\ ipc' = [ipc EXCEPT !["host"] = IF m \in Turns THEN "R" ELSE "S"]
  BY OtherSide DEF SendsOne, GivesTurn, Turns
<1>2. /\ m \in FromHost /\ Tail(todo["host"]) \in Seq(FromHost) /\ Append(q, m) \in Seq(FromHost)
      /\ Append(q, m) \o Tail(todo["host"]) = q \o todo["host"]
  BY Types, SentOne, <1>1
<1>3. /\ queue'["core"] = Append(q, m) /\ queue'["host"] = queue["host"]
      /\ todo'["host"] = Tail(todo["host"]) /\ todo'["core"] = todo["core"]
      /\ ipc'["host"] = (IF m \in Turns THEN "R" ELSE "S") /\ ipc'["core"] = ipc["core"]
  BY <1>1 DEF Shape, IpcTypeOK, Sides
<1>4. Shape'
  <2>1. Append(q, m) \in Seq(FromHost \cup FromCore) /\ Tail(todo["host"]) \in Seq(FromHost \cup FromCore)
    BY <1>2, SeqMonotonic
  <2> QED BY <1>1, <2>1 DEF Shape, Sides
<1>5. IpcTypeOK'
  <2>1. Level(Append(q, m)) <= Room
    BY <1>1 DEF Fits
  <2> QED BY <1>1, <1>2, <1>3, <2>1, OtherSide DEF IpcTypeOK, Sides, From
<1> HIDE DEF m, q
<1> QED BY <1>1, <1>2, <1>3, <1>4, <1>5 DEF ToCore, ToHost, m, q

(* The same for the core.                                                  *)
LEMMA CoreSent ==
  ASSUME IpcTypeOK, Shape, SendsOne("core")
  PROVE  /\ IpcTypeOK' /\ Shape' /\ ToCore' = ToCore /\ ToHost' = ToHost
         /\ todo'["host"] = todo["host"] /\ todo'["core"] = Tail(todo["core"])
         /\ todo["core"] # <<>> /\ ipc["core"] # "R" /\ open' = open
         /\ ipc'["host"] = ipc["host"]
         /\ ipc'["core"] = IF Head(todo["core"]) \in Turns THEN "R" ELSE "S"
<1> DEFINE m == Head(todo["core"])
           q == queue["host"]
<1>1. /\ todo["core"] # <<>> /\ ipc["core"] # "R" /\ open' = open /\ Fits(q, m)
      /\ queue' = [queue EXCEPT !["host"] = Append(q, m)]
      /\ todo' = [todo EXCEPT !["core"] = Tail(todo["core"])]
      /\ ipc' = [ipc EXCEPT !["core"] = IF m \in Turns THEN "R" ELSE "S"]
  BY OtherSide DEF SendsOne, GivesTurn, Turns
<1>2. /\ m \in FromCore /\ Tail(todo["core"]) \in Seq(FromCore) /\ Append(q, m) \in Seq(FromCore)
      /\ Append(q, m) \o Tail(todo["core"]) = q \o todo["core"]
  BY Types, SentOne, <1>1
<1>3. /\ queue'["host"] = Append(q, m) /\ queue'["core"] = queue["core"]
      /\ todo'["core"] = Tail(todo["core"]) /\ todo'["host"] = todo["host"]
      /\ ipc'["core"] = (IF m \in Turns THEN "R" ELSE "S") /\ ipc'["host"] = ipc["host"]
  BY <1>1 DEF Shape, IpcTypeOK, Sides
<1>4. Shape'
  <2>1. Append(q, m) \in Seq(FromHost \cup FromCore) /\ Tail(todo["core"]) \in Seq(FromHost \cup FromCore)
    BY <1>2, SeqMonotonic
  <2> QED BY <1>1, <2>1 DEF Shape, Sides
<1>5. IpcTypeOK'
  <2>1. Level(Append(q, m)) <= Room
    BY <1>1 DEF Fits
  <2> QED BY <1>1, <1>2, <1>3, <2>1, OtherSide DEF IpcTypeOK, Sides, From
<1> HIDE DEF m, q
<1> QED BY <1>1, <1>2, <1>3, <1>4, <1>5 DEF ToCore, ToHost, m, q


-----------------------------------------------------------------------------
(* What one call sends in one go.                                           *)
LEMMA Prefix ==
  ASSUME NEW m \in {"SUBSONG", "OPTION"}, NEW s \in {<<>>, <<m>>}
  PROVE  s \in Seq(FromHost) /\ All(s, Commands) /\ Lacks(s, {"TOKEN"}) /\ Lacks(s, Completions)
<1>1. CASE s = <<>>
  BY <1>1 DEF All, Lacks
<1>2. CASE s = <<m>>
  BY <1>2 DEF FromHost, Commands, Completions, All, Lacks
<1> QED BY <1>1, <1>2

(* The commands of a request: the request is the last one before the       *)
(* token.                                                                  *)
LEMMA Requests ==
  ASSUME NEW queued \in {<<>>, <<"OPTION">>}, NEW r \in Request(queued)
  PROVE  /\ r \in Seq(FromHost) /\ r # <<>> /\ All(r, Commands)
         /\ OnlyLast(r, {"TOKEN"}) /\ OnlyLast(r, Completions) /\ EndsIn(r, {"TOKEN"})
         /\ After(r, "TOKEN", {"READ", "REBOOT"}) /\ Head(r) # "TOKEN"
<1> DEFINE t == <<"READ", "TOKEN">>
<1>1. PICK subsong \in {<<>>, <<"SUBSONG">>} : r = (subsong \o queued) \o t
  BY DEF Request
<1>2. /\ t \in Seq(FromHost) /\ t # <<>> /\ All(t, Commands) /\ Head(t) # "TOKEN"
      /\ OnlyLast(t, {"TOKEN"}) /\ OnlyLast(t, Completions) /\ EndsIn(t, {"TOKEN"})
      /\ After(t, "TOKEN", {"READ", "REBOOT"})
  BY DEF FromHost, Commands, Completions, All, OnlyLast, EndsIn, After
<1> DEFINE s == subsong \o queued
<1>3. s \in Seq(FromHost) /\ All(s, Commands) /\ Lacks(s, {"TOKEN"}) /\ Lacks(s, Completions)
  <2>1. /\ subsong \in Seq(FromHost) /\ All(subsong, Commands)
        /\ Lacks(subsong, {"TOKEN"}) /\ Lacks(subsong, Completions)
    BY Prefix
  <2>2. /\ queued \in Seq(FromHost) /\ All(queued, Commands)
        /\ Lacks(queued, {"TOKEN"}) /\ Lacks(queued, Completions)
    BY Prefix
  <2> QED BY <2>1, <2>2, CatKeeps
<1> HIDE DEF s, t
<1>4. /\ s \o t \in Seq(FromHost) /\ s \o t # <<>> /\ All(s \o t, Commands)
      /\ OnlyLast(s \o t, {"TOKEN"}) /\ OnlyLast(s \o t, Completions) /\ EndsIn(s \o t, {"TOKEN"})
  BY <1>2, <1>3, CatKeeps
<1>6. After(s \o t, "TOKEN", {"READ", "REBOOT"})
  BY <1>2, <1>3, CatKeeps
<1>5. Head(s \o t) # "TOKEN"
  <2>1. CASE s = <<>>
    BY <1>2, <2>1
  <2>2. CASE s # <<>>
    <3>1. Head(s) \notin {"TOKEN"}
      BY <1>3, <2>2, TailKeeps
    <3> QED BY <1>2, <1>3, <2>2, <3>1, CatKeeps
  <2> QED BY <2>1, <2>2
<1> QED BY <1>1, <1>4, <1>5, <1>6 DEF s

(* The messages of a served file: its completion is the last one.          *)
LEMMA Files ==
  ASSUME NEW file \in {<<"FILE", "FILE_DATA">>, <<"NOFILE">>}
  PROVE  /\ file \in Seq(FromHost) /\ file # <<>> /\ All(file, FileParts) /\ Lacks(file, {"TOKEN"})
         /\ OnlyLast(file, {"TOKEN"}) /\ OnlyLast(file, Completions) /\ EndsIn(file, Completions)
<1>1. CASE file = <<"FILE", "FILE_DATA">>
  BY <1>1 DEF FromHost, FileParts, Completions, All, Lacks, OnlyLast, EndsIn
<1>2. CASE file = <<"NOFILE">>
  BY <1>2 DEF FromHost, FileParts, Completions, All, Lacks, OnlyLast, EndsIn
<1> QED BY <1>1, <1>2

(* The messages of a song end with the only token.                         *)
LEMMA Songs ==
  ASSUME NEW module \in {<<"FILE", "FILE_DATA">>, <<"NOFILE">>},
         NEW song, song = <<"SCORE", "FILE", "FILE_DATA">> \o module \o <<"TOKEN">>
  PROVE  song \in Seq(FromHost) /\ song # <<>> /\ OnlyLast(song, {"TOKEN"}) /\ EndsIn(song, {"TOKEN"})
<1> DEFINE u == <<"SCORE", "FILE", "FILE_DATA">>
           t == <<"TOKEN">>
           s == u \o module
<1>1. /\ u \in Seq(FromHost) /\ Lacks(u, {"TOKEN"})
      /\ t \in Seq(FromHost) /\ t # <<>> /\ OnlyLast(t, {"TOKEN"}) /\ EndsIn(t, {"TOKEN"})
  BY DEF FromHost, Lacks, OnlyLast, EndsIn
<1>2. module \in Seq(FromHost) /\ Lacks(module, {"TOKEN"})
  BY Files
<1> HIDE DEF u, t
<1>3. s \in Seq(FromHost) /\ Lacks(s, {"TOKEN"})
  BY <1>1, <1>2, CatKeeps
<1>4. song = s \o t
  BY DEF u, t
<1> HIDE DEF s
<1>5. /\ s \o t \in Seq(FromHost) /\ s \o t # <<>>
      /\ OnlyLast(s \o t, {"TOKEN"}) /\ EndsIn(s \o t, {"TOKEN"})
  BY <1>1, <1>3, CatKeeps
<1> QED BY <1>4, <1>5

(* The reboot and the token.                                               *)
LEMMA Reboot ==
  LET r == <<"REBOOT", "TOKEN">> IN
  /\ r \in Seq(FromHost) /\ r # <<>> /\ All(r, Commands)
  /\ OnlyLast(r, {"TOKEN"}) /\ Lacks(r, Completions) /\ EndsIn(r, {"TOKEN"})
  /\ After(r, "TOKEN", {"REBOOT"}) /\ After(r, "TOKEN", {"READ", "REBOOT"}) /\ Head(r) # "TOKEN"
BY DEF FromHost, Commands, Completions, All, Lacks, OnlyLast, EndsIn, After

(* A single message.                                                       *)
LEMMA One ==
  ASSUME NEW S, NEW m \in S
  PROVE  /\ <<m>> \in Seq(S) /\ <<m>> # <<>> /\ Head(<<m>>) = m /\ Tail(<<m>>) = <<>>
         /\ \A M : All(<<m>>, M) <=> m \in M
         /\ \A M : Lacks(<<m>>, M) <=> m \notin M
         /\ \A M : OnlyLast(<<m>>, M)
         /\ \A M : EndsIn(<<m>>, M) <=> m \in M
         /\ \A n, M : After(<<m>>, n, M)
<1> DEFINE t == <<m>>
<1>1. t \in Seq(S) /\ t # <<>> /\ Head(t) = m /\ Tail(t) = <<>> /\ Len(t) = 1 /\ t[1] = m
  OBVIOUS
<1>2. 1..1 = {1}
  OBVIOUS
<1>3. \A i : i \notin 2..1
  OBVIOUS
<1> HIDE DEF t
<1>6. \A n, M : After(t, n, M)
  BY <1>1, <1>3 DEF After
<1>7. \A M : All(t, M) <=> m \in M
  BY <1>1, <1>2 DEF All
<1>8. \A M : Lacks(t, M) <=> m \notin M
  BY <1>1, <1>2 DEF Lacks
<1>9. \A M : OnlyLast(t, M)
  BY <1>1, <1>2 DEF OnlyLast
<1>10. \A M : EndsIn(t, M) <=> m \in M
  BY <1>1 DEF EndsIn
<1> QED BY <1>1, <1>6, <1>7, <1>8, <1>9, <1>10 DEF t

(* An answer of the core followed by the turn.                              *)
LEMMA Turned ==
  ASSUME NEW m \in FromCore \ Turns
  PROVE  /\ <<m, "TOKEN">> \in Seq(FromCore) /\ <<m, "TOKEN">> # <<>>
         /\ Head(<<m, "TOKEN">>) = m /\ Tail(<<m, "TOKEN">>) = <<"TOKEN">>
         /\ OnlyLast(<<m, "TOKEN">>, Turns) /\ EndsIn(<<m, "TOKEN">>, Turns)
         /\ \A M : All(<<m, "TOKEN">>, M) <=> m \in M /\ "TOKEN" \in M
         /\ \A M : Lacks(<<m, "TOKEN">>, M) <=> m \notin M /\ "TOKEN" \notin M
<1> DEFINE t == <<m, "TOKEN">>
<1>1. /\ t \in Seq(FromCore) /\ t # <<>> /\ Head(t) = m /\ Tail(t) = <<"TOKEN">>
      /\ Len(t) = 2 /\ t[1] = m /\ t[2] = "TOKEN"
  BY DEF FromCore
<1>2. 1..2 = {1, 2}
  OBVIOUS
<1>3. m \notin Turns /\ "TOKEN" \in Turns
  BY DEF Turns
<1> HIDE DEF t
<1>4. OnlyLast(t, Turns) /\ EndsIn(t, Turns)
  BY <1>1, <1>2, <1>3 DEF OnlyLast, EndsIn
<1>5. \A M : All(t, M) <=> m \in M /\ "TOKEN" \in M
  BY <1>1, <1>2 DEF All
<1>6. \A M : Lacks(t, M) <=> m \notin M /\ "TOKEN" \notin M
  BY <1>1, <1>2 DEF Lacks
<1> QED BY <1>1, <1>4, <1>5, <1>6 DEF t

(* A side receives a message and, as its answer, has new messages to send.  *)
HostTakes(m, state, new) ==
  Arrives("host", m) /\ Take("host", state) /\ todo' = [todo EXCEPT !["host"] = new]
CoreTakesOne(m, state, new) ==
  Arrives("core", m) /\ Take("core", state) /\ todo' = [todo EXCEPT !["core"] = new]

(* A side that has nothing to send, and sends nothing.                     *)
LEMMA NothingNew ==
  ASSUME Shape, NEW p \in Sides, todo[p] = <<>>, todo' = todo
  PROVE  todo' = [todo EXCEPT ![p] = <<>>]
BY DEF Shape

(* The first message of the ring is the first one on the way.              *)
LEMMA Taken ==
  ASSUME NEW S, NEW q \in Seq(S), NEW t \in Seq(S), q # <<>>
  PROVE  /\ Head(q \o t) = Head(q) /\ Head(q) \in S /\ q \o t # <<>> /\ Tail(q) \in Seq(S)
         /\ Tail(q) \o t = Tail(q \o t)
         /\ Tail(q \o t) = <<>> => t = <<>>
<1>1. Head(q \o t) = Head(q) /\ Tail(q) \o t = Tail(q \o t) /\ q \o t # <<>>
  BY CatKeeps
<1>2. Tail(q) \in Seq(S) /\ Head(q) \in S
  BY TailKeeps
<1>3. Tail(q) \o t = <<>> => t = <<>>
  BY <1>2, CatKeeps
<1> QED BY <1>1, <1>2, <1>3

(* The host takes a message: what is on the way to it is one message       *)
(* less, and its answer is on the way to the core.                         *)
LEMMA HostTook ==
  ASSUME IpcTypeOK, Shape, NEW m, NEW state \in {"R", "S"}, NEW new \in Seq(FromHost),
         HostTakes(m, state, new)
  PROVE  /\ IpcTypeOK' /\ Shape'
         /\ ToHost # <<>> /\ m = Head(ToHost) /\ m \in FromCore /\ ToHost' = Tail(ToHost)
         /\ Tail(ToHost) = <<>> => todo["core"] = <<>>
         /\ todo["host"] = <<>> /\ ToCore' = ToCore \o new
         /\ todo'["host"] = new /\ todo'["core"] = todo["core"]
         /\ ipc'["host"] = state /\ ipc'["core"] = ipc["core"] /\ ipc["host"] # "S"
         /\ open' = open /\ open["host"]
<1>1. /\ todo["host"] = <<>> /\ ipc["host"] # "S" /\ open["host"] /\ queue["host"] # <<>>
      /\ m = Head(queue["host"]) /\ queue' = [queue EXCEPT !["host"] = Tail(queue["host"])]
      /\ ipc' = [ipc EXCEPT !["host"] = state] /\ open' = open
      /\ todo' = [todo EXCEPT !["host"] = new]
  BY DEF HostTakes, Arrives, Take
<1>2. /\ queue'["host"] = Tail(queue["host"]) /\ queue'["core"] = queue["core"]
      /\ todo'["host"] = new /\ todo'["core"] = todo["core"]
      /\ ipc'["host"] = state /\ ipc'["core"] = ipc["core"]
  BY <1>1 DEF Shape, IpcTypeOK, Sides
<1>3. /\ Tail(queue["host"]) \in Seq(FromCore) /\ m = Head(ToHost) /\ m \in FromCore /\ ToHost # <<>>
      /\ ToHost' = Tail(ToHost) /\ (Tail(ToHost) = <<>> => todo["core"] = <<>>)
  <2> DEFINE q == queue["host"]
             t == todo["core"]
  <2>1. q \in Seq(FromCore) /\ t \in Seq(FromCore) /\ q # <<>>
    BY <1>1, Types
  <2>2. /\ Head(q \o t) = Head(q) /\ Head(q) \in FromCore /\ q \o t # <<>> /\ Tail(q) \in Seq(FromCore)
        /\ Tail(q) \o t = Tail(q \o t) /\ (Tail(q \o t) = <<>> => t = <<>>)
    BY <2>1, Taken
  <2> QED BY <1>1, <1>2, <2>2 DEF ToHost
<1>4. ToCore' = ToCore \o new
  <2>1. queue["core"] \o <<>> = queue["core"]
    BY Types
  <2> QED BY <1>1, <1>2, <2>1 DEF ToCore
<1>5. Shape'
  <2>1. Tail(queue["host"]) \in Seq(FromHost \cup FromCore) /\ new \in Seq(FromHost \cup FromCore)
    BY <1>3, SeqMonotonic
  <2> QED BY <1>1, <2>1 DEF Shape, Sides
<1>6. IpcTypeOK'
  <2>1. Level(Tail(queue["host"])) <= Level(queue["host"])
    BY <1>1, Types, LevelTail
  <2>2. Level(Tail(queue["host"])) <= Room
    <3>1. Level(queue["host"]) \in Nat /\ Level(Tail(queue["host"])) \in Nat
      BY <1>3, Types, LevelType
    <3> QED BY <2>1, <3>1, RoomAssumption DEF IpcTypeOK, Sides
  <2> QED BY <1>1, <1>2, <1>3, <2>2, OtherSide DEF IpcTypeOK, Sides, From
<1> QED BY <1>1, <1>2, <1>3, <1>4, <1>5, <1>6

(* The core takes a message.                                               *)
LEMMA CoreTook ==
  ASSUME IpcTypeOK, Shape, NEW m, NEW state \in {"R", "S"}, NEW new \in Seq(FromCore),
         CoreTakesOne(m, state, new)
  PROVE  /\ IpcTypeOK' /\ Shape'
         /\ ToCore # <<>> /\ m = Head(ToCore) /\ m \in FromHost /\ ToCore' = Tail(ToCore)
         /\ Tail(ToCore) = <<>> => todo["host"] = <<>>
         /\ todo["core"] = <<>> /\ ToHost' = ToHost \o new
         /\ todo'["core"] = new /\ todo'["host"] = todo["host"]
         /\ ipc'["core"] = state /\ ipc'["host"] = ipc["host"] /\ ipc["core"] # "S"
         /\ open' = open /\ open["core"]
<1>1. /\ todo["core"] = <<>> /\ ipc["core"] # "S" /\ open["core"] /\ queue["core"] # <<>>
      /\ m = Head(queue["core"]) /\ queue' = [queue EXCEPT !["core"] = Tail(queue["core"])]
      /\ ipc' = [ipc EXCEPT !["core"] = state] /\ open' = open
      /\ todo' = [todo EXCEPT !["core"] = new]
  BY DEF CoreTakesOne, Arrives, Take
<1>2. /\ queue'["core"] = Tail(queue["core"]) /\ queue'["host"] = queue["host"]
      /\ todo'["core"] = new /\ todo'["host"] = todo["host"]
      /\ ipc'["core"] = state /\ ipc'["host"] = ipc["host"]
  BY <1>1 DEF Shape, IpcTypeOK, Sides
<1>3. /\ Tail(queue["core"]) \in Seq(FromHost) /\ m = Head(ToCore) /\ m \in FromHost /\ ToCore # <<>>
      /\ ToCore' = Tail(ToCore) /\ (Tail(ToCore) = <<>> => todo["host"] = <<>>)
  <2> DEFINE q == queue["core"]
             t == todo["host"]
  <2>1. q \in Seq(FromHost) /\ t \in Seq(FromHost) /\ q # <<>>
    BY <1>1, Types
  <2>2. /\ Head(q \o t) = Head(q) /\ Head(q) \in FromHost /\ q \o t # <<>> /\ Tail(q) \in Seq(FromHost)
        /\ Tail(q) \o t = Tail(q \o t) /\ (Tail(q \o t) = <<>> => t = <<>>)
    BY <2>1, Taken
  <2> QED BY <1>1, <1>2, <2>2 DEF ToCore
<1>4. ToHost' = ToHost \o new
  <2>1. queue["host"] \o <<>> = queue["host"]
    BY Types
  <2> QED BY <1>1, <1>2, <2>1 DEF ToHost
<1>5. Shape'
  <2>1. Tail(queue["core"]) \in Seq(FromHost \cup FromCore) /\ new \in Seq(FromHost \cup FromCore)
    BY <1>3, SeqMonotonic
  <2> QED BY <1>1, <2>1 DEF Shape, Sides
<1>6. IpcTypeOK'
  <2>1. Level(Tail(queue["core"])) <= Level(queue["core"])
    BY <1>1, Types, LevelTail
  <2>2. Level(Tail(queue["core"])) <= Room
    <3>1. Level(queue["core"]) \in Nat /\ Level(Tail(queue["core"])) \in Nat
      BY <1>3, Types, LevelType
    <3> QED BY <2>1, <3>1, RoomAssumption DEF IpcTypeOK, Sides
  <2> QED BY <1>1, <1>2, <1>3, <2>2, OtherSide DEF IpcTypeOK, Sides, From
<1> QED BY <1>1, <1>2, <1>3, <1>4, <1>5, <1>6

-----------------------------------------------------------------------------
(* Each side's part is disturbed by its own steps only.                     *)
LEMMA SameCore ==
  ASSUME CoreSide, core' = core, todo'["core"] = todo["core"], ipc'["core"] = ipc["core"]
  PROVE  CoreSide'
BY DEF CoreSide, CoreWaits

(* The host's part is disturbed by the host's steps only.                  *)
LEMMA SameHost ==
  ASSUME HostSide, host' = host, todo'["host"] = todo["host"], ipc'["host"] = ipc["host"],
         open'["host"] = open["host"]
  PROVE  HostSide'
BY DEF HostSide

(* The message that gives the turn is the last one, and the side that sent  *)
(* it does not send on.                                                     *)
LEMMA HostTookWire ==
  ASSUME IpcTypeOK, Shape, Wire, host.pc # "serve", core' = core,
         NEW m, NEW state \in {"R", "S"}, NEW new \in Seq(FromHost), HostTakes(m, state, new),
         state = "S" => m \in Turns,
         new # <<>> => m \in Turns /\ state = "S",
         OnlyLast(new, {"TOKEN"}), OnlyLast(new, Completions)
  PROVE  Wire'
<1>1. /\ ToHost # <<>> /\ m = Head(ToHost) /\ ToHost' = Tail(ToHost) /\ (Tail(ToHost) = <<>> => todo["core"] = <<>>)
      /\ todo["host"] = <<>> /\ ToCore' = ToCore \o new
      /\ todo'["host"] = new /\ todo'["core"] = todo["core"]
      /\ ipc'["host"] = state /\ ipc'["core"] = ipc["core"] /\ ipc["host"] # "S"
  BY HostTook
<1>2. /\ ToHost \in Seq(FromCore)
      /\ \A M : /\ OnlyLast(ToHost, M) => OnlyLast(Tail(ToHost), M)
                /\ OnlyLast(ToHost, M) /\ Head(ToHost) \in M => Tail(ToHost) = <<>>
                /\ EndsIn(Tail(ToHost), M) => EndsIn(ToHost, M)
                /\ EndsIn(ToHost, M) /\ Tail(ToHost) # <<>> => EndsIn(Tail(ToHost), M)
                /\ Head(ToHost) \in M /\ Tail(ToHost) = <<>> => EndsIn(ToHost, M)
  BY <1>1, Types, TailKeeps
<1>3. ToCore = <<>> /\ OnlyLast(ToHost, Turns) /\ ToCore' = new
  <2>1. ToCore = <<>> /\ OnlyLast(ToHost, Turns)
    BY <1>1 DEF Wire
  <2>2. <<>> \o new = new
    OBVIOUS
  <2> QED BY <1>1, <2>1, <2>2
<1>4. m \in Turns => Tail(ToHost) = <<>> /\ EndsIn(ToHost, Turns) /\ todo["core"] = <<>>
  BY <1>1, <1>2, <1>3
<1>5. OnlyLast(ToHost', Turns) /\ (CoreWaits' /\ ToHost' # <<>> => EndsIn(ToHost', Turns))
  <2>1. CoreWaits => EndsIn(ToHost, Turns)
    BY <1>1 DEF Wire
  <2>2. CoreWaits' = CoreWaits
    BY DEF CoreWaits
  <2> QED BY <1>1, <1>2, <1>3, <2>1, <2>2
<1>6. Alive' = Alive /\ ServedAll' = ServedAll' /\ ~ServedAll
  BY DEF Alive, ServedAll
<1>7. Alive' /\ ipc'["core"] = "S" => ToCore' = <<>> /\ ipc'["host"] = "R"
  <2>1. ASSUME Alive, ipc["core"] = "S" PROVE m \notin Turns
    BY <1>1, <1>4, <2>1 DEF Wire
  <2> QED BY <1>1, <1>3, <1>6, <2>1
<1>8. Alive' /\ todo'["core"] = <<>> /\ EndsIn(ToHost', Turns) => ipc'["core"] # "S"
  BY <1>1, <1>2, <1>6 DEF Wire
<1>9. (todo'["host"] = <<>> => ToCore' = <<>>) /\ ~EndsIn(<<>>, {"TOKEN"}) /\ ~EndsIn(<<>>, Completions)
  BY <1>1, <1>3 DEF EndsIn
<1>10. /\ ToCore' = <<>> \/ ToHost' = <<>>
       /\ ToHost' # <<>> => ipc'["host"] = "R"
  BY <1>1, <1>3, <1>4
<1> QED BY <1>3, <1>5, <1>7, <1>8, <1>9, <1>10 DEF Wire

(* Moves of the host alone.                                                 *)
LEMMA HostMovedWire ==
  ASSUME Wire, UNCHANGED <<queue, todo, ipc, core>>, host.pc # "serve"
  PROVE  Wire'
BY DEF Wire, ToHost, ToCore, CoreWaits, Alive, ServedAll


-----------------------------------------------------------------------------
(* Moves of the host alone: what both streams carry stays, and so does all  *)
(* that is the core's.                                                      *)
LEMMA HostMoved ==
  ASSUME IInv, UNCHANGED <<queue, todo, ipc, core>>, open' \in [Sides -> BOOLEAN], late' \in BOOLEAN,
         host' \in HostType, host.pc # "serve", host'.pc # "serve"
  PROVE  /\ TypeOK' /\ Shape' /\ CoreSide' /\ Wire'
         /\ ToCore' = ToCore /\ ToHost' = ToHost /\ Alive' = Alive
<1>1. TypeOK' /\ Shape'
  BY DEF IInv, TypeOK, Shape, IpcTypeOK
<1>2. CoreSide' /\ Wire'
  BY SameCore, HostMovedWire DEF IInv
<1> QED BY <1>1, <1>2 DEF ToCore, ToHost, Alive

(* uade_read() begins, or ends at once.                                    *)
LEMMA uade_readInv == ASSUME IInv, uade_read PROVE IInv'
<1>1. /\ host.pc = "idle" /\ todo["host"] = <<>> /\ host.song \notin {"INVALID", "ERROR"}
      /\ host'.song \notin {"INVALID", "ERROR"} /\ host'.pc \in {"idle", "event"}
      /\ UNCHANGED <<open, queue, ipc, todo, core, late>> /\ host' \in HostType
  BY DEF uade_read, Idle, IInv, TypeOK, HostType
<1>2. /\ TypeOK' /\ Shape' /\ CoreSide' /\ Wire'
      /\ ToCore' = ToCore /\ ToHost' = ToHost /\ Alive' = Alive
  BY <1>1, HostMoved DEF IInv, TypeOK, IpcTypeOK
<1>3. HostSide'
  BY <1>1, Empty DEF IInv, HostSide
<1>4. Starts'
  BY <1>1, <1>2 DEF IInv, Starts, Ready
<1>5. Plays' /\ Stops'
  BY <1>1, <1>2 DEF IInv, Plays, Stops, InSong
<1> QED BY <1>2, <1>3, <1>4, <1>5 DEF IInv

(* uade_seek() changes nothing but the trigger.                            *)
LEMMA uade_seekInv == ASSUME IInv, uade_seek PROVE IInv'
<1>1. /\ host.pc = "idle" /\ host.song # "INVALID"
      /\ host'.song = host.song /\ host'.pc = "idle"
      /\ UNCHANGED <<open, queue, ipc, todo, core, late>> /\ host' \in HostType
  BY DEF uade_seek, Idle, IInv, TypeOK, HostType
<1>2. /\ TypeOK' /\ Shape' /\ CoreSide' /\ Wire'
      /\ ToCore' = ToCore /\ ToHost' = ToHost /\ Alive' = Alive
  BY <1>1, HostMoved DEF IInv, TypeOK, IpcTypeOK
<1>3. HostSide'
  BY <1>1 DEF IInv, HostSide
<1>4. Starts'
  BY <1>1, <1>2 DEF IInv, Starts, Ready
<1>5. Plays' /\ Stops'
  BY <1>1, <1>2 DEF IInv, Plays, Stops, InSong
<1> QED BY <1>2, <1>3, <1>4, <1>5 DEF IInv

(* uade_stop() begins.                                                     *)
LEMMA uade_stopInv == ASSUME IInv, uade_stop PROVE IInv'
<1>1. /\ host.pc = "idle" /\ todo["host"] = <<>> /\ host.song # "INVALID"
      /\ host'.song = host.song /\ host'.pc = "flush1"
      /\ UNCHANGED <<open, queue, ipc, todo, core, late>> /\ host' \in HostType
  BY DEF uade_stop, Idle, IInv, TypeOK, HostType
<1>2. /\ TypeOK' /\ Shape' /\ CoreSide' /\ Wire'
      /\ ToCore' = ToCore /\ ToHost' = ToHost /\ Alive' = Alive
  BY <1>1, HostMoved DEF IInv, TypeOK, IpcTypeOK
<1>3. HostSide'
  BY <1>1, Empty DEF IInv, HostSide
<1>4. Starts'
  BY <1>1, <1>2 DEF IInv, Starts, Ready
<1>5. Plays' /\ Stops'
  BY <1>1, <1>2 DEF IInv, Plays, Stops, InSong
<1> QED BY <1>2, <1>3, <1>4, <1>5 DEF IInv

(* uade_cleanup_state() begins.                                            *)
LEMMA uade_cleanup_stateInv == ASSUME IInv, uade_cleanup_state PROVE IInv'
<1>1. /\ host.pc = "idle" /\ todo["host"] = <<>> /\ host'.song = host.song
      /\ host'.pc = (IF host.song = "INVALID" THEN "close" ELSE "flush1")
      /\ UNCHANGED <<open, queue, ipc, todo, core, late>> /\ host' \in HostType
  BY DEF uade_cleanup_state, Idle, IInv, TypeOK, HostType
<1>2. /\ TypeOK' /\ Shape' /\ CoreSide' /\ Wire'
      /\ ToCore' = ToCore /\ ToHost' = ToHost /\ Alive' = Alive
  BY <1>1, HostMoved DEF IInv, TypeOK, IpcTypeOK
<1>3. HostSide'
  BY <1>1, Empty DEF IInv, HostSide
<1>4. Starts'
  BY <1>1, <1>2 DEF IInv, Starts, Ready
<1>5. Plays' /\ Stops'
  BY <1>1, <1>2 DEF IInv, Plays, Stops, InSong
<1> QED BY <1>2, <1>3, <1>4, <1>5 DEF IInv

(* The stop is over when the core's acknowledging token has been received.  *)
LEMMA StoppedInv == ASSUME IInv, Stopped PROVE IInv'
<1>1. /\ host.pc = "flush2" /\ todo["host"] = <<>> /\ ipc["host"] # "R"
      /\ host'.song = "INVALID" /\ host'.pc \in {"close", "idle"}
      /\ UNCHANGED <<open, queue, ipc, todo, core, late>> /\ host' \in HostType
  BY ZenonT(60) DEF Stopped, StopReturns, ipcvars, HostGoes, IInv, TypeOK, HostType
<1>2. /\ TypeOK' /\ Shape' /\ CoreSide' /\ Wire'
      /\ ToCore' = ToCore /\ ToHost' = ToHost /\ Alive' = Alive
  BY <1>1, HostMoved DEF IInv, TypeOK, IpcTypeOK
<1>3. HostSide'
  BY <1>1, Empty DEF IInv, HostSide
<1>4. Starts'
  <2>1. ToHost = <<>>
    BY <1>1 DEF IInv, Wire, ServedAll
  <2>2. core.pc \in {"rebooted", "gone"} /\ ToCore = <<>>
    BY <1>1 DEF IInv, Stops
  <2> QED BY <1>1, <1>2, <2>1, <2>2, Empty DEF IInv, Starts, Ready
<1>5. Plays' /\ Stops'
  BY <1>1, <1>2 DEF IInv, Plays, Stops, InSong
<1> QED BY <1>2, <1>3, <1>4, <1>5 DEF IInv

(* The host closes the channel: what is on the way stays.                  *)
LEMMA ClosesChannelInv == ASSUME IInv, ClosesChannel PROVE IInv'
<1>1. /\ host.pc = "close" /\ host'.song = host.song /\ host'.pc = "join"
      /\ UNCHANGED <<queue, ipc, todo, core, late>> /\ host' \in HostType /\ open' \in [Sides -> BOOLEAN]
  BY DEF ClosesChannel, HostGoes, IInv, TypeOK, IpcTypeOK, HostType, Sides
<1>2. /\ TypeOK' /\ Shape' /\ CoreSide' /\ Wire'
      /\ ToCore' = ToCore /\ ToHost' = ToHost /\ Alive' = Alive
  BY <1>1, HostMoved DEF IInv, TypeOK
<1>3. HostSide'
  BY <1>1 DEF IInv, HostSide
<1>4. Starts'
  BY <1>1, <1>2 DEF IInv, Starts, Ready
<1>5. Plays' /\ Stops'
  BY <1>1, <1>2 DEF IInv, Plays, Stops, InSong
<1> QED BY <1>2, <1>3, <1>4, <1>5 DEF IInv

(* The thread has ended, and with it the state.                            *)
LEMMA JoinedInv == ASSUME IInv, Joined PROVE IInv'
<1>1. /\ host.pc = "join" /\ core.pc = "gone" /\ host'.song = "INVALID" /\ host'.pc = "none"
      /\ UNCHANGED <<open, queue, ipc, todo, core, late>> /\ host' \in HostType
  BY DEF Joined, NoHost, ipcvars, HostGoes, IInv, TypeOK, HostType
<1>2. /\ TypeOK' /\ Shape' /\ CoreSide' /\ Wire'
      /\ ToCore' = ToCore /\ ToHost' = ToHost /\ Alive' = Alive
  BY <1>1, HostMoved DEF IInv, TypeOK, IpcTypeOK
<1>3. HostSide'
  BY <1>1 DEF IInv, HostSide
<1>4. Starts'
  BY <1>1, <1>2 DEF IInv, Starts, Ready, Alive
<1>5. Plays' /\ Stops'
  BY <1>1, <1>2 DEF IInv, Plays, Stops, InSong
<1> QED BY <1>2, <1>3, <1>4, <1>5 DEF IInv

(* What the calls come to.                                                  *)
LEMMA Outcomes ==
  ASSUME host \in HostType
  PROVE  /\ \A ok \in BOOLEAN : /\ PlayReturns(ok) \in HostType /\ PlayReturns(ok).pc = "idle"
                              /\ PlayReturns(ok).song = host.song /\ PlayReturns(ok).broken = ~ok
                              /\ PlayReturns(ok).back = host.back
         /\ \A fatal \in BOOLEAN : /\ PlayStops(fatal) \in HostType /\ PlayStops(fatal).pc = "flush1"
                                 /\ PlayStops(fatal).song = host.song /\ PlayStops(fatal).back = host.back
         /\ EventFails \in HostType /\ EventFails.pc \in {"idle", "flush1"} /\ EventFails.song = "ERROR"
         /\ EventFails.back = host.back
         /\ \A ok \in BOOLEAN :
              /\ StopReturns(ok) \in HostType /\ StopReturns(ok).pc \in {"idle", "close"}
              /\ StopReturns(ok).song = (IF ok THEN "INVALID" ELSE "ERROR")
              /\ StopReturns(ok).back = host.back
<1>1. \A ok \in BOOLEAN : /\ PlayReturns(ok) \in HostType /\ PlayReturns(ok).pc = "idle"
                         /\ PlayReturns(ok).song = host.song /\ PlayReturns(ok).broken = ~ok
                         /\ PlayReturns(ok).back = host.back
  BY DEF PlayReturns, HostType
<1>2. ASSUME NEW fatal \in BOOLEAN
      PROVE  /\ PlayStops(fatal) \in HostType /\ PlayStops(fatal).pc = "flush1"
             /\ PlayStops(fatal).song = host.song /\ PlayStops(fatal).back = host.back
  <2>1. (host.broken \/ fatal) \in BOOLEAN
    OBVIOUS
  <2> QED BY <2>1 DEF PlayStops, HostType
<1>3. /\ EventFails \in HostType /\ EventFails.pc \in {"idle", "flush1"} /\ EventFails.song = "ERROR"
      /\ EventFails.back = host.back
  <2>1. CASE host.api = "play"
    <3>1. EventFails = [PlayStops(TRUE) EXCEPT !.song = "ERROR"]
      BY <2>1 DEF EventFails
    <3>2. PlayStops(TRUE) \in HostType /\ PlayStops(TRUE).pc = "flush1" /\ PlayStops(TRUE).back = host.back
      BY <1>2
    <3> QED BY ZenonT(60), <3>1, <3>2 DEF HostType
  <2>2. CASE host.api # "play"
    BY <2>2 DEF EventFails, HostType
  <2> QED BY <2>1, <2>2
<1>4. ASSUME NEW ok \in BOOLEAN
      PROVE  /\ StopReturns(ok) \in HostType /\ StopReturns(ok).pc \in {"idle", "close"}
             /\ StopReturns(ok).song = (IF ok THEN "INVALID" ELSE "ERROR")
             /\ StopReturns(ok).back = host.back
  <2>1. (host.broken \/ (host.api = "play" /\ ~ok)) \in BOOLEAN
    OBVIOUS
  <2>2. (IF ok THEN FALSE ELSE host.trigger) \in BOOLEAN
    BY DEF HostType
  <2> QED BY ZenonT(60), <2>1, <2>2 DEF StopReturns, HostType
<1> QED BY <1>1, <1>2, <1>3, <1>4

(* What a call that fails leaves behind.                                   *)
LEMMA Failures ==
  ASSUME host \in HostType
  PROVE  /\ Fails("idle") \in HostType /\ Fails("idle").pc = "close" /\ Fails("idle").song = host.song
         /\ \A pc \in {"ack", "acktoken", "canttoken", "options"} : Fails(pc) = PlayReturns(FALSE)
         /\ Fails("event") = EventFails
         /\ \A pc \in {"flush1", "flush2"} : Fails(pc) = StopReturns(FALSE)
BY DEF Fails, HostType

(* A receive that fails, at once or by the timeout.                         *)
LEMMA HostReceiveFailsInv ==
  ASSUME IInv, NEW why, why => todo["host"] = <<>>, HostReceiveFails(why), late' \in BOOLEAN
  PROVE  IInv'
<1>1. /\ host.pc \in {"ack", "acktoken", "canttoken", "event", "flush1", "flush2"} /\ todo["host"] = <<>>
      /\ host' = Fails(host.pc) /\ UNCHANGED <<open, queue, ipc, todo, core>>
  BY DEF HostReceiveFails, HostWaits
<1>2. /\ host.pc \in {"ack", "acktoken", "canttoken"} =>
           host'.pc = "idle" /\ host'.song = host.song /\ host'.broken
      /\ host.pc = "event" => host'.pc \in {"idle", "flush1"} /\ host'.song = "ERROR"
      /\ host.pc \in {"flush1", "flush2"} => host'.pc \in {"idle", "close"} /\ host'.song = "ERROR"
      /\ host' \in HostType
  <2>1. host \in HostType
    BY DEF IInv, TypeOK
  <2> QED BY ZenonT(60), <1>1, <2>1, Failures, Outcomes
<1>3. /\ TypeOK' /\ Shape' /\ CoreSide' /\ Wire'
      /\ ToCore' = ToCore /\ ToHost' = ToHost /\ Alive' = Alive
  BY <1>1, <1>2, HostMoved DEF IInv, TypeOK, IpcTypeOK
<1>4. HostSide'
  BY <1>1, <1>2, Empty DEF IInv, HostSide
<1>5. Starts'
  BY <1>1, <1>2, <1>3 DEF IInv, HostSide, Starts, Ready
<1>6. Plays' /\ Stops'
  BY <1>1, <1>2, <1>3 DEF IInv, HostSide, Plays, Stops, InSong
<1> QED BY <1>3, <1>4, <1>5, <1>6 DEF IInv


-----------------------------------------------------------------------------
(* The host receives, and answers when it has been given the turn.          *)
LEMMA HostTookOne ==
  ASSUME IInv, host.pc # "serve", UNCHANGED <<core, late>>,
         host' \in HostType, host'.pc = "serve" => host'.back # "none",
         NEW m, NEW state \in {"R", "S"}, NEW new \in Seq(FromHost), HostTakes(m, state, new),
         state = "S" => m \in Turns,
         new # <<>> => m \in Turns /\ state = "S",
         OnlyLast(new, {"TOKEN"}), OnlyLast(new, Completions)
  PROVE  /\ TypeOK' /\ Shape' /\ CoreSide' /\ Wire' /\ Alive' = Alive
         /\ m \in FromCore /\ ToHost # <<>> /\ m = Head(ToHost) /\ ToHost' = Tail(ToHost)
         /\ m \in Turns => ToHost' = <<>>
         /\ ToCore = <<>> /\ ToCore' = new
         /\ todo["host"] = <<>> /\ todo'["host"] = new
         /\ ipc'["host"] = state /\ ipc["host"] # "S" /\ open' = open
         /\ \A M : All(ToHost, M) => m \in M /\ All(ToHost', M)
         /\ \A M : Lacks(ToHost, M) => m \notin M /\ Lacks(ToHost', M)
<1>1. /\ IpcTypeOK' /\ Shape'
      /\ ToHost # <<>> /\ m = Head(ToHost) /\ m \in FromCore /\ ToHost' = Tail(ToHost)
      /\ todo["host"] = <<>> /\ ToCore' = ToCore \o new
      /\ todo'["host"] = new /\ todo'["core"] = todo["core"]
      /\ ipc'["host"] = state /\ ipc'["core"] = ipc["core"] /\ ipc["host"] # "S"
      /\ open' = open
  BY HostTook DEF IInv, TypeOK
<1>2. Wire'
  BY HostTookWire DEF IInv, TypeOK
<1>3. CoreSide' /\ TypeOK' /\ Alive' = Alive
  BY <1>1, SameCore DEF IInv, TypeOK, Alive
<1>4. /\ ToHost \in Seq(FromCore)
      /\ OnlyLast(ToHost, Turns) /\ ToCore = <<>>
  BY <1>1, Types DEF IInv, TypeOK, Wire
<1>5. ToCore' = new
  <2>1. <<>> \o new = new
    OBVIOUS
  <2> QED BY <1>1, <1>4, <2>1
<1>6. m \in Turns => ToHost' = <<>>
  BY <1>1, <1>4, TailKeeps
<1>7. /\ \A M : All(ToHost, M) => m \in M /\ All(ToHost', M)
      /\ \A M : Lacks(ToHost, M) => m \notin M /\ Lacks(ToHost', M)
  BY <1>1, <1>4, TailKeeps
<1> QED BY <1>1, <1>2, <1>3, <1>4, <1>5, <1>6, <1>7

(* Receiving alone, with the state the message leads to.                    *)
LEMMA HostReceived ==
  ASSUME IInv, host.pc # "serve", UNCHANGED <<core, late>>,
         host' \in HostType, host'.pc # "serve", NEW m, Receives(m), UNCHANGED todo
  PROVE  /\ TypeOK' /\ Shape' /\ CoreSide' /\ Wire' /\ Alive' = Alive
         /\ m \in FromCore /\ ToHost # <<>> /\ m = Head(ToHost) /\ ToHost' = Tail(ToHost)
         /\ m \in Turns => ToHost' = <<>>
         /\ ToCore = <<>> /\ ToCore' = <<>>
         /\ todo["host"] = <<>> /\ todo'["host"] = <<>>
         /\ ipc'["host"] = AfterReceiving(m) /\ ipc["host"] # "S" /\ open' = open
         /\ \A M : All(ToHost, M) => m \in M /\ All(ToHost', M)
         /\ \A M : Lacks(ToHost, M) => m \notin M /\ Lacks(ToHost', M)
<1> DEFINE state == AfterReceiving(m)
<1>1. state \in {"R", "S"} /\ (state = "S" => m \in Turns)
  BY DEF AfterReceiving, Turns
<1>2. HostTakes(m, state, <<>>)
  <2>1. todo["host"] = <<>>
    BY DEF Receives, Arrives
  <2>2. todo' = [todo EXCEPT !["host"] = <<>>]
    BY <2>1, NothingNew DEF IInv, Sides
  <2> QED BY <2>2 DEF HostTakes, Receives
<1>3. OnlyLast(<<>>, {"TOKEN"}) /\ OnlyLast(<<>>, Completions) /\ <<>> \in Seq(FromHost)
  BY Empty
<1> HIDE DEF state
<1>4. /\ TypeOK' /\ Shape' /\ CoreSide' /\ Wire' /\ Alive' = Alive
      /\ m \in FromCore /\ ToHost # <<>> /\ m = Head(ToHost) /\ ToHost' = Tail(ToHost)
      /\ m \in Turns => ToHost' = <<>>
      /\ ToCore = <<>> /\ ToCore' = <<>>
      /\ todo["host"] = <<>> /\ todo'["host"] = <<>>
      /\ ipc'["host"] = state /\ ipc["host"] # "S" /\ open' = open
      /\ \A M : All(ToHost, M) => m \in M /\ All(ToHost', M)
      /\ \A M : Lacks(ToHost, M) => m \notin M /\ Lacks(ToHost', M)
  BY <1>1, <1>2, <1>3, HostTookOne
<1> QED BY <1>4 DEF state


(* The song is accepted or refused, and nothing else can arrive.           *)
LEMMA SongAckInv == ASSUME IInv, NEW m \in FromCore, SongAck(m) PROVE IInv'
<1>1. /\ host.pc = "ack" /\ Receives(m) /\ UNCHANGED <<todo, core, late>>
      /\ host' = CASE m = "CAN_PLAY" -> [host EXCEPT !.pc = "acktoken"]
                   [] m = "CANT_PLAY" -> [host EXCEPT !.pc = "canttoken"]
                   [] OTHER -> PlayReturns(FALSE)
      /\ host \in HostType
  BY DEF SongAck, HostGoes, IInv, TypeOK
<1>2. /\ m = "CAN_PLAY" => host'.pc = "acktoken"
      /\ m = "CANT_PLAY" => host'.pc = "canttoken"
      /\ m \notin {"CAN_PLAY", "CANT_PLAY"} => host'.pc = "idle" /\ host'.broken
      /\ host' \in HostType /\ host'.song = host.song
  <2>1. CASE m \in {"CAN_PLAY", "CANT_PLAY"}
    BY <1>1, <2>1 DEF HostType
  <2>2. CASE m \notin {"CAN_PLAY", "CANT_PLAY"}
    <3>1. host' = PlayReturns(FALSE)
      BY <1>1, <2>2
    <3> QED BY <1>1, <2>2, <3>1, Outcomes
  <2> QED BY <2>1, <2>2
<1>3. /\ TypeOK' /\ Shape' /\ CoreSide' /\ Wire' /\ Alive' = Alive
      /\ ToHost # <<>> /\ m = Head(ToHost) /\ ToHost' = Tail(ToHost)
      /\ ToCore' = <<>> /\ todo'["host"] = <<>> /\ ipc'["host"] = AfterReceiving(m) /\ open' = open
  BY <1>1, <1>2, HostReceived
<1>4. HostSide'
  BY <1>1, <1>2, <1>3, Empty DEF IInv, HostSide, AfterReceiving
<1>5. ASSUME m \in {"CAN_PLAY", "CANT_PLAY"}, Alive PROVE ToHost' # <<>>
  <2>1. CoreWaits
    BY <1>1, <1>3, <1>5 DEF IInv, Starts, CoreWaits, Alive
  <2>2. ToHost \in Seq(FromCore) /\ EndsIn(ToHost, Turns)
    BY <1>3, <2>1, Types DEF IInv, TypeOK, Wire
  <2>3. m \notin Turns
    BY <1>5 DEF Turns
  <2> QED BY <1>3, <2>2, <2>3, TailKeeps
<1>6. Starts'
  <2>1. core.pc # "none" /\ core' = core
    BY <1>1 DEF IInv, Starts
  <2>2. /\ m = "CAN_PLAY" => core.pc \in {"commands", "gone"}
        /\ m = "CANT_PLAY" => core.pc \in {"score", "gone"}
        /\ All(ToHost', {"TOKEN"})
    BY <1>1, <1>3 DEF IInv, Starts
  <2> QED BY <1>1, <1>2, <1>3, <1>5, <2>1, <2>2, Outcomes DEF IInv, HostSide, Starts, Ready
<1>7. Plays' /\ Stops'
  <2>1. host.song = "INVALID" /\ ~InSong'
    BY <1>1, <1>2 DEF IInv, HostSide, InSong
  <2>2. core.pc \notin {"request", "gone"} => Lacks(ToHost, {"REQUEST"})
    BY DEF IInv, Plays
  <2>3. Lacks(ToHost, {"REQUEST"}) => Lacks(ToHost', {"REQUEST"})
    BY <1>1, <1>2, HostReceived
  <2> QED BY <1>1, <1>2, <1>3, <2>1, <2>2, <2>3, Empty DEF Plays, Stops, Begins
<1> QED BY <1>3, <1>4, <1>6, <1>7 DEF IInv

(* The turn that follows the answer.                                       *)
LEMMA SongAckTokenInv == ASSUME IInv, NEW m \in FromCore, SongAckToken(m) PROVE IInv'
<1>1. /\ host.pc \in {"acktoken", "canttoken"} /\ Receives(m) /\ UNCHANGED <<core, late>>
      /\ host \in HostType /\ host.song = "INVALID"
  BY DEF SongAckToken, HostGoes, IInv, TypeOK, HostSide
<1>2. CASE m = "TOKEN" /\ host.pc = "acktoken"
  <2>1. /\ todo' = [todo EXCEPT !["host"] = <<"OPTION">>]
        /\ host'.pc = "options" /\ host'.song = "INVALID" /\ host' \in HostType
    BY <1>1, <1>2 DEF SongAckToken, HostGoes, Sending, HostType
  <2> DEFINE new == <<"OPTION">>
  <2>2. /\ new \in Seq(FromHost) /\ new # <<>> /\ Head(new) = "OPTION"
        /\ \A M : All(new, M) <=> "OPTION" \in M
        /\ OnlyLast(new, {"TOKEN"}) /\ OnlyLast(new, Completions)
        /\ After(new, "TOKEN", {"READ", "REBOOT"}) /\ "OPTION" \in FromHost
    <3>1. "OPTION" \in FromHost
      BY DEF FromHost
    <3> QED BY <3>1, One
  <2>3. HostTakes(m, "S", new) /\ m \in Turns
    BY <1>1, <1>2, <2>1 DEF HostTakes, Receives, AfterReceiving, Turns
  <2> HIDE DEF new
  <2>4. /\ TypeOK' /\ Shape' /\ CoreSide' /\ Wire' /\ Alive' = Alive
        /\ ToHost' = <<>> /\ ToCore' = new /\ todo'["host"] = new
        /\ ipc'["host"] = "S" /\ open' = open
    BY <1>1, <1>2, <2>1, <2>2, <2>3, HostTookOne
  <2>5. HostSide'
    BY <1>1, <2>1, <2>2, <2>4 DEF IInv, HostSide
  <2>6. core.pc \in {"commands", "gone"} /\ core' = core
    BY <1>1, <1>2 DEF IInv, Starts
  <2>7. Starts'
    BY <2>1, <2>4, <2>6 DEF Starts, Ready
  <2>8. Plays' /\ Stops'
    BY <2>1, <2>2, <2>4, <2>6, Empty DEF Plays, Stops, InSong, Begins, Commands
  <2> QED BY <2>4, <2>5, <2>7, <2>8 DEF IInv
<1>3. CASE ~(m = "TOKEN" /\ host.pc = "acktoken")
  <2>1. /\ host' = PlayReturns(m = "TOKEN") /\ UNCHANGED todo /\ (m = "TOKEN") \in BOOLEAN
    BY <1>1, <1>3 DEF SongAckToken, HostGoes
  <2>2. /\ host' \in HostType /\ host'.pc = "idle" /\ host'.song = "INVALID" /\ host'.broken = (m # "TOKEN")
    BY <1>1, <2>1, Outcomes
  <2>3. /\ TypeOK' /\ Shape' /\ CoreSide' /\ Wire' /\ Alive' = Alive
        /\ ToHost' = Tail(ToHost) /\ ToCore' = <<>> /\ todo'["host"] = <<>>
        /\ ipc'["host"] = AfterReceiving(m) /\ open' = open /\ (m \in Turns => ToHost' = <<>>)
    BY <1>1, <2>1, <2>2, HostReceived
  <2>4. HostSide'
    BY <1>1, <2>2, <2>3, Empty DEF IInv, HostSide
  <2>5. m = "TOKEN"
    <3>1. All(ToHost, {"TOKEN"})
      BY <1>1 DEF IInv, Starts
    <3>2. m \in {"TOKEN"}
      BY <1>1, <2>1, <2>2, <3>1, HostReceived
    <3> QED BY <3>2
  <2>6. ToHost' = <<>> /\ ipc'["host"] = "S" /\ host.pc = "canttoken" /\ core' = core
    BY <1>1, <1>3, <2>3, <2>5 DEF Turns, AfterReceiving
  <2>7. core.pc \in {"score", "gone"}
    BY <2>6 DEF IInv, Starts
  <2>8. Starts'
    BY <2>2, <2>3, <2>6, <2>7, Empty DEF Starts, Ready
  <2>9. Plays' /\ Stops'
    BY <2>2, <2>3, <2>6, <2>7, Empty DEF Plays, Stops, InSong
  <2> QED BY <2>3, <2>4, <2>8, <2>9 DEF IInv
<1> QED BY <1>2, <1>3

(* The events that end nothing but the wait.                                *)
LEMMA EventTaken ==
  ASSUME IInv, NEW m \in FromCore, m # "TOKEN", Event(m), UNCHANGED <<todo, core, late>>,
         host' \in HostType, host'.pc \in {"event", "idle", "flush1"}, host'.song # "INVALID"
  PROVE  IInv'
<1>1. host.pc = "event" /\ Receives(m) /\ InSong /\ InSong'
  BY DEF Event, InSong
<1>2. /\ TypeOK' /\ Shape' /\ CoreSide' /\ Wire' /\ Alive' = Alive
      /\ ToCore' = <<>> /\ todo'["host"] = <<>> /\ ipc'["host"] = "R" /\ open' = open
      /\ \A M : Lacks(ToHost, M) => Lacks(ToHost', M)
  BY <1>1, HostReceived DEF AfterReceiving
<1>3. HostSide'
  BY <1>1, <1>2, Empty DEF IInv, HostSide
<1>4. Starts'
  BY <1>1, <1>2 DEF IInv, Starts, Ready
<1>5. Plays' /\ Stops'
  BY <1>1, <1>2, Empty DEF IInv, Plays, Stops, Begins
<1> QED BY <1>2, <1>3, <1>4, <1>5 DEF IInv

(* The events a call of uade_read() or uade_play() handles or drops.       *)
LEMMA EventOutcomes ==
  ASSUME IInv, EventSongEnd \/ EventData \/ EventSkipped \/ (\E m \in OtherEvents : EventOther(m))
  PROVE  \E m \in FromCore \ Turns :
           /\ Event(m) /\ UNCHANGED <<todo, core, late>>
           /\ host' \in HostType /\ host'.pc \in {"event", "idle", "flush1"} /\ host'.song # "INVALID"
<1>1. host \in HostType
  BY DEF IInv, TypeOK
<1>2. ASSUME NEW m, Event(m) PROVE host.pc = "event" /\ host.song # "INVALID"
  BY <1>2 DEF Event, IInv, HostSide
<1>3. CASE EventSongEnd
  <2>1. /\ Event("SONG_END") /\ UNCHANGED <<todo, core, late>> /\ "SONG_END" \in FromCore \ Turns
        /\ host' = [host EXCEPT !.song = "SONG_END_PENDING"]
    BY <1>3 DEF EventSongEnd, HostGoes, FromCore, Turns
  <2>2. host' \in HostType /\ host'.pc = "event" /\ host'.song # "INVALID"
    BY <1>1, <1>2, <2>1 DEF HostType
  <2> QED BY <2>1, <2>2
<1>4. CASE EventData
  <2>1. /\ Event("DATA") /\ UNCHANGED <<todo, core, late>> /\ "DATA" \in FromCore \ Turns
        /\ host' = IF host.api = "read" THEN [host EXCEPT !.pc = "idle"] ELSE PlayStops(FALSE)
    BY <1>4 DEF EventData, HostGoes, FromCore, Turns
  <2>2. host' \in HostType /\ host'.pc \in {"idle", "flush1"} /\ host'.song # "INVALID"
    <3>1. [host EXCEPT !.pc = "idle"] \in HostType /\ [host EXCEPT !.pc = "idle"].pc = "idle"
          /\ [host EXCEPT !.pc = "idle"].song = host.song
      BY <1>1 DEF HostType
    <3> QED BY <1>1, <1>2, <2>1, <3>1, Outcomes
  <2> QED BY <2>1, <2>2
<1>5. CASE EventSkipped
  <2>1. PICK next \in BOOLEAN :
          /\ Event("DATA") /\ UNCHANGED <<todo, core, late>> /\ "DATA" \in FromCore \ Turns
          /\ host' = [host EXCEPT !.trigger = host.trigger \/ (next /\ host.api = "read")]
    BY <1>5 DEF EventSkipped, HostGoes, FromCore, Turns
  <2>2. host' \in HostType /\ host'.pc = "event" /\ host'.song # "INVALID"
    <3>1. (host.trigger \/ (next /\ host.api = "read")) \in BOOLEAN
      OBVIOUS
    <3> QED BY <1>1, <1>2, <2>1, <3>1 DEF HostType
  <2> QED BY <2>1, <2>2
<1>6. ASSUME NEW m \in OtherEvents, EventOther(m)
      PROVE  \E n \in FromCore \ Turns :
               /\ Event(n) /\ UNCHANGED <<todo, core, late>>
               /\ host' \in HostType /\ host'.pc \in {"event", "idle", "flush1"} /\ host'.song # "INVALID"
  <2>1. /\ Event(m) /\ UNCHANGED <<todo, core, late>> /\ m \in FromCore \ Turns
        /\ host' \in {EventFails, host, PlayReturns(TRUE), PlayStops(TRUE), [host EXCEPT !.pc = "idle"]}
    BY <1>6 DEF EventOther, HostGoes, FromCore, Turns, OtherEvents
  <2>2. host' \in HostType /\ host'.pc \in {"event", "idle", "flush1"} /\ host'.song # "INVALID"
    <3>1. CASE host' = [host EXCEPT !.pc = "idle"]
      BY <1>1, <1>2, <2>1, <3>1 DEF HostType
    <3>2. CASE host' \in {EventFails, host, PlayReturns(TRUE), PlayStops(TRUE)}
      <4>1. host.pc = "event" /\ host.song # "INVALID"
        BY <1>2, <2>1
      <4>2. EventFails \in HostType /\ EventFails.pc \in {"idle", "flush1"} /\ EventFails.song = "ERROR"
        BY <1>1, Outcomes
      <4>3. /\ PlayReturns(TRUE) \in HostType /\ PlayReturns(TRUE).pc = "idle" /\ PlayReturns(TRUE).song = host.song
            /\ PlayStops(TRUE) \in HostType /\ PlayStops(TRUE).pc = "flush1" /\ PlayStops(TRUE).song = host.song
        BY <1>1, Outcomes
      <4> QED BY <1>1, <3>2, <4>1, <4>2, <4>3
    <3> QED BY <2>1, <3>1, <3>2
  <2> QED BY <2>1, <2>2
<1> QED BY <1>3, <1>4, <1>5, <1>6

LEMMA EventsInv ==
  ASSUME IInv, EventSongEnd \/ EventData \/ EventSkipped \/ (\E m \in OtherEvents : EventOther(m))
  PROVE  IInv'
<1>1. PICK m \in FromCore \ Turns :
        /\ Event(m) /\ UNCHANGED <<todo, core, late>>
        /\ host' \in HostType /\ host'.pc \in {"event", "idle", "flush1"} /\ host'.song # "INVALID"
  BY EventOutcomes
<1> QED BY <1>1, EventTaken DEF Turns

(* The core gave the turn: the next request goes out.                       *)
LEMMA EventReadyInv == ASSUME IInv, EventReady PROVE IInv'
<1> DEFINE queued == IF host.queued THEN <<"OPTION">> ELSE <<>>
<1>1. PICK new \in Request(queued) :
        /\ host.pc = "event" /\ Receives("TOKEN") /\ UNCHANGED <<core, late>>
        /\ todo' = [todo EXCEPT !["host"] = new]
        /\ host' = [IF host.api = "play" THEN PlayStops(TRUE) ELSE host
                      EXCEPT !.trigger = FALSE, !.queued = FALSE]
  BY DEF EventReady, Event, HostGoes, Sending
<1>2. queued \in {<<>>, <<"OPTION">>}
  OBVIOUS
<1> HIDE DEF queued
<1>3. /\ new \in Seq(FromHost) /\ new # <<>> /\ All(new, Commands)
      /\ OnlyLast(new, {"TOKEN"}) /\ OnlyLast(new, Completions) /\ EndsIn(new, {"TOKEN"})
      /\ After(new, "TOKEN", {"READ", "REBOOT"}) /\ Head(new) # "TOKEN"
  BY <1>1, <1>2, Requests
<1>4. host' \in HostType /\ host'.pc \in {"event", "flush1"} /\ host'.song = host.song /\ host.song # "INVALID"
  <2>1. host \in HostType /\ host.song # "INVALID"
    BY <1>1 DEF IInv, TypeOK, HostSide
  <2>2. CASE host.api = "play"
    <3>1. PlayStops(TRUE) \in HostType /\ PlayStops(TRUE).pc = "flush1" /\ PlayStops(TRUE).song = host.song
      BY <2>1, Outcomes
    <3>2. host' = [PlayStops(TRUE) EXCEPT !.trigger = FALSE, !.queued = FALSE]
      BY <1>1, <2>2
    <3> QED BY <2>1, <3>1, <3>2 DEF HostType
  <2>3. CASE host.api # "play"
    BY <1>1, <2>1, <2>3 DEF HostType
  <2> QED BY <2>2, <2>3
<1>5. HostTakes("TOKEN", "S", new) /\ "TOKEN" \in Turns
  BY <1>1 DEF HostTakes, Receives, AfterReceiving, Turns
<1>6. /\ TypeOK' /\ Shape' /\ CoreSide' /\ Wire' /\ Alive' = Alive
      /\ ToHost' = <<>> /\ ToCore' = new /\ todo'["host"] = new /\ ipc'["host"] = "S" /\ open' = open
  BY <1>1, <1>3, <1>4, <1>5, HostTookOne
<1>7. HostSide'
  BY <1>1, <1>3, <1>4, <1>6 DEF IInv, HostSide
<1>8. Starts'
  BY <1>1, <1>4, <1>6 DEF IInv, Starts, Ready
<1>9. Plays' /\ Stops'
  <2>1. InSong /\ core.pc \in {"commands", "run", "request", "request_data", "rebooted", "gone"}
    BY <1>1 DEF IInv, Plays, InSong
  <2>2. All(new, Commands \cup FileParts)
    BY <1>3 DEF All
  <2> QED BY <1>1, <1>3, <1>4, <1>6, <2>1, <2>2, Empty DEF Plays, Stops, Begins
<1> QED BY <1>6, <1>7, <1>8, <1>9 DEF IInv

(* The core waits for the file it asked for, and gets it or the news that   *)
(* there is none.                                                           *)
LEMMA EventRequestFileInv == ASSUME IInv, EventRequestFile PROVE IInv'
<1>1. PICK new \in {<<"FILE", "FILE_DATA">>, <<"NOFILE">>} :
        /\ host.pc \in {"event", "flush1", "flush2"} /\ UNCHANGED <<core, late>>
        /\ HostTakes("REQUEST", "S", new)
        /\ host' = [host EXCEPT !.pc = "serve", !.back = host.pc]
  BY DEF EventRequestFile, HostGoes, Sending, HostTakes
<1>2. /\ new \in Seq(FromHost) /\ new # <<>> /\ All(new, FileParts)
      /\ OnlyLast(new, {"TOKEN"}) /\ OnlyLast(new, Completions) /\ EndsIn(new, Completions)
  BY Files
<1>3. /\ host' \in HostType /\ host'.pc = "serve" /\ host'.back = host.pc
      /\ host'.song = host.song /\ host.song # "INVALID" /\ "REQUEST" \in Turns
  BY <1>1 DEF IInv, TypeOK, HostSide, HostType, Turns
<1>4. /\ TypeOK' /\ Shape' /\ CoreSide' /\ Wire' /\ Alive' = Alive
      /\ ToHost' = <<>> /\ ToCore' = new /\ todo'["host"] = new /\ ipc'["host"] = "S" /\ open' = open
      /\ \A M : Lacks(ToHost, M) => "REQUEST" \notin M
      /\ \A M : All(ToHost, M) => "REQUEST" \in M
  BY <1>1, <1>2, <1>3, HostTookOne
<1>8. host.pc # "flush2"
  BY <1>4 DEF IInv, Stops
<1>5. HostSide'
  BY <1>1, <1>2, <1>3, <1>4, <1>8 DEF IInv, HostSide
<1>6. Starts'
  BY <1>1, <1>3, <1>4 DEF IInv, Starts, Ready
<1>7. Plays' /\ Stops'
  <2>1. core.pc \in {"request", "gone"}
    BY <1>4 DEF IInv, Plays
  <2>2. All(new, Commands \cup FileParts)
    BY <1>2 DEF All
  <2> QED BY <1>1, <1>3, <1>4, <2>1, <2>2, Empty DEF Plays, Stops, Requested
<1> QED BY <1>4, <1>5, <1>6, <1>7 DEF IInv

(* What comes while a song is stopped is dropped.                           *)
LEMMA FlushInv == ASSUME IInv, NEW m \in FromCore, Flush(m) PROVE IInv'
<1>1. /\ host.pc \in {"flush1", "flush2"} /\ Receives(m) /\ UNCHANGED <<todo, host, core, late>>
      /\ host \in HostType
  BY DEF Flush, HostGoes, IInv, TypeOK
<1>2. /\ TypeOK' /\ Shape' /\ CoreSide' /\ Wire' /\ Alive' = Alive /\ ToHost # <<>>
      /\ ToCore' = <<>> /\ todo'["host"] = <<>> /\ ipc'["host"] = AfterReceiving(m) /\ open' = open
      /\ \A M : Lacks(ToHost, M) => Lacks(ToHost', M)
      /\ \A M : All(ToHost, M) => All(ToHost', M) /\ m \in M
      /\ m \in Turns => ToHost' = <<>>
  BY <1>1, HostReceived
<1>3. HostSide'
  BY <1>1, <1>2, Empty DEF IInv, HostSide
<1>4. Starts'
  BY <1>1, <1>2 DEF IInv, Starts, Ready
<1>5. Plays'
  BY <1>1, <1>2, Empty DEF IInv, Plays, InSong, Begins
<1>6. Stops'
  BY <1>1, <1>2, Empty DEF IInv, Stops, Begins
<1> QED BY <1>2, <1>3, <1>4, <1>5, <1>6 DEF IInv


-----------------------------------------------------------------------------
(* The host has the turn and starts to send: the core, if it runs, waits.   *)
LEMMA HostStarts ==
  ASSUME IInv, UNCHANGED <<open, queue, ipc, core, late>>, host.pc # "serve", host'.pc # "serve",
         host' \in HostType, todo["host"] = <<>>, ipc["host"] # "R",
         NEW new \in Seq(FromHost), new # <<>>, todo' = [todo EXCEPT !["host"] = new],
         OnlyLast(new, {"TOKEN"}), core.pc \in Requested => OnlyLast(new, Completions)
  PROVE  /\ TypeOK' /\ Shape' /\ CoreSide' /\ Wire' /\ Alive' = Alive
         /\ ToHost = <<>> /\ ToHost' = <<>> /\ ToCore \in Seq(FromHost) /\ ToCore' = ToCore \o new
         /\ todo'["host"] = new /\ ToCore' # <<>>
         /\ Lacks(ToCore, {"TOKEN"}) /\ (core.pc \in Requested => Lacks(ToCore, Completions))
         /\ Alive => ipc["core"] # "S"
         /\ Head(new) # "TOKEN" => ~Begins(ToCore', "TOKEN")
         /\ \A M : After(new, "TOKEN", M) /\ Head(new) # "TOKEN" => After(ToCore', "TOKEN", M)
<1>1. todo'["host"] = new /\ todo'["core"] = todo["core"] /\ Alive' = Alive
  BY DEF IInv, Shape, Sides, Alive
<1>2. /\ ToHost = <<>> /\ ToHost' = <<>> /\ ToCore \in Seq(FromHost)
  BY <1>1, Types DEF IInv, TypeOK, Wire, ServedAll, ToHost
<1>3. ToCore' = ToCore \o new
  <2>1. queue["core"] \in Seq(FromHost)
    BY Types DEF IInv, TypeOK
  <2>2. queue["core"] \o <<>> = queue["core"]
    BY <2>1
  <2> QED BY <1>1, <2>2 DEF ToCore
<1>4. Lacks(ToCore, {"TOKEN"}) /\ OnlyLast(ToCore', {"TOKEN"})
  <2>1. OnlyLast(ToCore, {"TOKEN"}) /\ ~EndsIn(ToCore, {"TOKEN"})
    BY DEF IInv, Wire
  <2>2. Lacks(ToCore, {"TOKEN"})
    BY <1>2, <2>1, LastOrNone
  <2> QED BY <1>2, <1>3, <2>2, CatKeeps
<1>5. core.pc \in Requested => Lacks(ToCore, Completions) /\ OnlyLast(ToCore', Completions)
  <2> SUFFICES ASSUME core.pc \in Requested PROVE Lacks(ToCore, Completions) /\ OnlyLast(ToCore', Completions)
    OBVIOUS
  <2>1. OnlyLast(ToCore, Completions) /\ ~EndsIn(ToCore, Completions)
    BY DEF IInv, Wire, ServedAll
  <2>2. Lacks(ToCore, Completions)
    BY <1>2, <2>1, LastOrNone
  <2> QED BY <1>2, <1>3, <2>2, CatKeeps
<1>6. Alive => ipc["core"] # "S"
  BY DEF IInv, Wire, ServedAll
<1>7. ToCore' # <<>>
  BY <1>2, <1>3, CatKeeps
<1>8. Shape'
  <2>1. new \in Seq(FromHost \cup FromCore)
    BY SeqMonotonic
  <2> QED BY <2>1 DEF IInv, Shape, Sides
<1>9. TypeOK'
  BY <1>1, OtherSide DEF IInv, TypeOK, IpcTypeOK, From, Sides
<1>10. CoreSide'
  BY <1>1, SameCore DEF IInv
<1>11. Wire'
  <2>1. ~EndsIn(<<>>, Turns) /\ OnlyLast(<<>>, Turns)
    BY Empty
  <2> QED BY <1>1, <1>2, <1>4, <1>5, <1>6, <2>1 DEF Wire
<1>12. Head(new) # "TOKEN" => ~Begins(ToCore', "TOKEN")
  <2>1. CASE ToCore = <<>>
    <3>1. <<>> \o new = new
      OBVIOUS
    <3> QED BY <1>3, <2>1, <3>1 DEF Begins
  <2>2. CASE ToCore # <<>>
    <3>1. Head(ToCore \o new) = Head(ToCore) /\ Head(ToCore) \notin {"TOKEN"}
      BY <1>2, <1>4, <2>2, CatKeeps, TailKeeps
    <3> QED BY <1>3, <3>1 DEF Begins
  <2> QED BY <2>1, <2>2
<1>13. \A M : After(new, "TOKEN", M) /\ Head(new) # "TOKEN" => After(ToCore', "TOKEN", M)
  BY <1>2, <1>3, <1>4, CatKeeps
<1> QED BY <1>1, <1>2, <1>3, <1>4, <1>5, <1>6, <1>7, <1>8, <1>9, <1>10, <1>11, <1>12, <1>13

(* uade_play() starts to send a song to a core that waits for one.         *)
LEMMA uade_playInv ==
  ASSUME IInv, NEW module \in {<<"FILE", "FILE_DATA">>, <<"NOFILE">>}, NEW subsong \in BOOLEAN,
         uade_play(module, subsong)
  PROVE  IInv'
<1>1. PICK new : new = <<"SCORE", "FILE", "FILE_DATA">> \o module \o <<"TOKEN">>
  OBVIOUS
<1>2. /\ new \in Seq(FromHost) /\ new # <<>> /\ OnlyLast(new, {"TOKEN"}) /\ EndsIn(new, {"TOKEN"})
  BY <1>1, Songs
<1>3. /\ host.pc = "idle" /\ host.song = "INVALID" /\ ~host.broken /\ todo["host"] = <<>>
      /\ todo' = [todo EXCEPT !["host"] = new] /\ UNCHANGED <<open, queue, ipc, core, late>>
      /\ host' = [host EXCEPT !.pc = "ack", !.api = "play", !.trigger = subsong]
  BY <1>1 DEF uade_play, Idle
<1>4. host' \in HostType /\ host'.pc = "ack" /\ host'.song = "INVALID"
  BY <1>3 DEF IInv, TypeOK, HostType
<1>5. ipc["host"] # "R" /\ core.pc \in {"config", "score", "rebooted", "gone"}
  BY <1>3 DEF IInv, Starts, Ready
<1>6. /\ TypeOK' /\ Shape' /\ CoreSide' /\ Wire' /\ ToHost' = <<>> /\ todo'["host"] = new
  BY <1>2, <1>3, <1>4, <1>5, HostStarts DEF Requested
<1>7. HostSide'
  BY <1>2, <1>3, <1>4, <1>5, <1>6 DEF IInv, HostSide
<1>8. Starts'
  BY <1>3, <1>4, <1>5, <1>6 DEF Starts, Ready, Loading
<1>9. Plays' /\ Stops'
  BY <1>3, <1>4, <1>5, <1>6, Empty DEF Plays, Stops, InSong
<1> QED BY <1>6, <1>7, <1>8, <1>9 DEF IInv

(* A filter command is sent at once, or waits for the next request.        *)
LEMMA uade_set_filter_stateInv == ASSUME IInv, uade_set_filter_state PROVE IInv'
<1>1. host.pc = "idle" /\ todo["host"] = <<>> /\ UNCHANGED <<open, queue, ipc, core, late>> /\ host \in HostType
  BY DEF uade_set_filter_state, Idle, IInv, TypeOK
<1>2. CASE ipc["host"] = "S"
  <2> DEFINE new == <<"OPTION">>
  <2>1. /\ new \in Seq(FromHost) /\ new # <<>> /\ Head(new) = "OPTION"
        /\ \A M : All(new, M) <=> "OPTION" \in M
        /\ OnlyLast(new, {"TOKEN"}) /\ OnlyLast(new, Completions)
        /\ \A M : After(new, "TOKEN", M)
    <3>1. "OPTION" \in FromHost
      BY DEF FromHost
    <3> QED BY <3>1, One
  <2>2. todo' = [todo EXCEPT !["host"] = new] /\ host' = host
    BY <1>2 DEF uade_set_filter_state
  <2> HIDE DEF new
  <2>3. /\ TypeOK' /\ Shape' /\ CoreSide' /\ Wire' /\ Alive' = Alive
        /\ ToHost = <<>> /\ ToHost' = <<>> /\ ToCore \in Seq(FromHost) /\ ToCore' = ToCore \o new
        /\ todo'["host"] = new
        /\ ~Begins(ToCore', "TOKEN") /\ After(ToCore', "TOKEN", {"READ", "REBOOT"})
    BY <1>1, <1>2, <2>1, <2>2, HostStarts
  <2>4. \A M : All(ToCore', M) <=> All(ToCore, M) /\ "OPTION" \in M
    BY <2>1, <2>3, CatKeeps
  <2>5. HostSide'
    BY <1>1, <1>2, <2>1, <2>2, <2>3 DEF IInv, HostSide
  <2>6. Starts'
    BY <1>1, <2>2, <2>3, <2>4 DEF IInv, Starts, Ready
  <2>7. Plays' /\ Stops'
    BY <1>1, <2>2, <2>3, <2>4, Empty DEF IInv, Plays, Stops, InSong, Commands
  <2> QED BY <2>3, <2>5, <2>6, <2>7 DEF IInv
<1>3. CASE ipc["host"] # "S"
  <2>1. /\ host' = [host EXCEPT !.queued = TRUE] /\ UNCHANGED todo
    BY <1>3 DEF uade_set_filter_state
  <2>2. host' \in HostType /\ host'.pc = "idle" /\ host'.song = host.song /\ host'.broken = host.broken
    BY <1>1, <2>1 DEF HostType
  <2>3. /\ TypeOK' /\ Shape' /\ CoreSide' /\ Wire'
        /\ ToCore' = ToCore /\ ToHost' = ToHost /\ Alive' = Alive
    BY <1>1, <2>1, <2>2, HostMoved DEF IInv, TypeOK, IpcTypeOK
  <2>4. HostSide'
    BY <1>1, <2>1, <2>2 DEF IInv, HostSide
  <2>5. Starts'
    BY <1>1, <2>1, <2>2, <2>3 DEF IInv, Starts, Ready
  <2>6. Plays' /\ Stops'
    BY <1>1, <2>1, <2>2, <2>3 DEF IInv, Plays, Stops, InSong
  <2> QED BY <2>3, <2>4, <2>5, <2>6 DEF IInv
<1> QED BY <1>2, <1>3

(* The options are sent and the first request follows.                     *)
LEMMA SongInitializedInv == ASSUME IInv, SongInitialized PROVE IInv'
<1>1. PICK new \in Request(<<>>) :
        /\ host.pc = "options" /\ todo["host"] = <<>> /\ UNCHANGED <<open, queue, ipc, core, late>>
        /\ todo' = [todo EXCEPT !["host"] = new]
        /\ host' = [host EXCEPT !.pc = "event", !.song = "RECEIVE_MSGS", !.trigger = FALSE]
  BY DEF SongInitialized, Sending, HostGoes
<1>2. /\ new \in Seq(FromHost) /\ new # <<>> /\ All(new, Commands)
      /\ OnlyLast(new, {"TOKEN"}) /\ OnlyLast(new, Completions) /\ EndsIn(new, {"TOKEN"})
      /\ After(new, "TOKEN", {"READ", "REBOOT"}) /\ Head(new) # "TOKEN"
  BY <1>1, Requests
<1>3. host' \in HostType /\ host'.pc = "event" /\ host'.song = "RECEIVE_MSGS" /\ ipc["host"] = "S"
  BY <1>1 DEF IInv, TypeOK, HostType, HostSide
<1>4. /\ TypeOK' /\ Shape' /\ CoreSide' /\ Wire' /\ Alive' = Alive
      /\ ToHost = <<>> /\ ToHost' = <<>> /\ ToCore \in Seq(FromHost) /\ ToCore' = ToCore \o new
      /\ todo'["host"] = new
      /\ ~Begins(ToCore', "TOKEN") /\ After(ToCore', "TOKEN", {"READ", "REBOOT"})
  BY <1>1, <1>2, <1>3, HostStarts
<1>5. HostSide'
  BY <1>1, <1>2, <1>3, <1>4 DEF IInv, HostSide
<1>6. Starts'
  BY <1>1, <1>3, <1>4 DEF IInv, Starts, Ready
<1>7. Plays' /\ Stops'
  <2>1. /\ core.pc \in {"commands", "run", "request", "request_data", "rebooted", "gone"}
        /\ Alive => All(ToCore, Commands \cup FileParts)
        /\ core.pc = "commands" => All(ToCore, Commands)
    BY <1>1 DEF IInv, Plays, InSong
  <2>2. All(new, Commands \cup FileParts)
    BY <1>2 DEF All
  <2>3. \A M : All(ToCore', M) <=> All(ToCore, M) /\ All(new, M)
    BY <1>2, <1>4, CatKeeps
  <2> QED BY <1>1, <1>2, <1>3, <1>4, <2>1, <2>2, <2>3, Empty DEF Plays, Stops
<1> QED BY <1>4, <1>5, <1>6, <1>7 DEF IInv

(* The host has got the turn, and sends the reboot.                        *)
LEMMA RebootsInv == ASSUME IInv, Reboots PROVE IInv'
<1> DEFINE new == <<"REBOOT", "TOKEN">>
<1>1. /\ host.pc = "flush1" /\ todo["host"] = <<>> /\ UNCHANGED <<open, queue, ipc, core, late>>
      /\ ipc["host"] # "R" /\ todo' = [todo EXCEPT !["host"] = new]
      /\ host' = [host EXCEPT !.pc = "flush2"]
  BY DEF Reboots, Sending, HostGoes
<1>2. /\ new \in Seq(FromHost) /\ new # <<>> /\ All(new, Commands)
      /\ OnlyLast(new, {"TOKEN"}) /\ Lacks(new, Completions) /\ EndsIn(new, {"TOKEN"})
      /\ After(new, "TOKEN", {"REBOOT"}) /\ After(new, "TOKEN", {"READ", "REBOOT"}) /\ Head(new) # "TOKEN"
  BY Reboot
<1> HIDE DEF new
<1>3. host' \in HostType /\ host'.pc = "flush2" /\ host'.song = host.song /\ OnlyLast(new, Completions)
  BY <1>1, <1>2, LastOrNone DEF IInv, TypeOK, HostType
<1>4. /\ TypeOK' /\ Shape' /\ CoreSide' /\ Wire' /\ Alive' = Alive
      /\ ToHost = <<>> /\ ToHost' = <<>> /\ ToCore \in Seq(FromHost) /\ ToCore' = ToCore \o new
      /\ todo'["host"] = new /\ (Alive => ipc["core"] # "S")
      /\ (core.pc \in Requested => Lacks(ToCore, Completions))
      /\ ~Begins(ToCore', "TOKEN")
      /\ After(ToCore', "TOKEN", {"READ", "REBOOT"}) /\ After(ToCore', "TOKEN", {"REBOOT"})
  BY <1>1, <1>2, <1>3, HostStarts
<1>5. HostSide'
  BY <1>1, <1>2, <1>3, <1>4 DEF IInv, HostSide
<1>6. Starts'
  BY <1>1, <1>3, <1>4 DEF IInv, Starts, Ready
<1>7. Plays'
  <2>1. /\ core.pc \in {"commands", "run", "request", "request_data", "rebooted", "gone"}
        /\ Alive => All(ToCore, Commands \cup FileParts)
        /\ core.pc = "commands" => All(ToCore, Commands)
    BY <1>1 DEF IInv, Plays, InSong
  <2>2. All(new, Commands \cup FileParts)
    BY <1>2 DEF All
  <2>3. \A M : All(ToCore', M) <=> All(ToCore, M) /\ All(new, M)
    BY <1>2, <1>4, CatKeeps
  <2> QED BY <1>1, <1>2, <1>3, <1>4, <2>1, <2>2, <2>3, Empty DEF Plays
<1>8. Stops'
  <2>1. core.pc # "run"
    BY <1>4 DEF IInv, CoreSide, Alive
  <2>2. core.pc \in Requested => Lacks(ToCore', Completions)
    BY <1>2, <1>4, CatKeeps
  <2> QED BY <1>1, <1>2, <1>3, <1>4, <2>1, <2>2, Empty DEF Stops
<1> QED BY <1>4, <1>5, <1>6, <1>7, <1>8 DEF IInv


-----------------------------------------------------------------------------
(* The next message of a batch goes out.                                    *)
LEMMA HostSendsInv == ASSUME IInv, HostSends PROVE IInv'
<1> DEFINE t == todo["host"]
           m == Head(todo["host"])
<1>1. SendsOne("host") /\ UNCHANGED <<host, core, late>>
  BY DEF HostSends
<1>2. /\ IpcTypeOK' /\ Shape' /\ ToCore' = ToCore /\ ToHost' = ToHost
      /\ todo'["core"] = todo["core"] /\ todo'["host"] = Tail(t)
      /\ t # <<>> /\ ipc["host"] # "R" /\ open' = open /\ ipc'["core"] = ipc["core"]
      /\ ipc'["host"] = IF m \in Turns THEN "R" ELSE "S"
  BY <1>1, HostSent DEF IInv, TypeOK
<1>3. TypeOK' /\ CoreSide' /\ Alive' = Alive
  BY <1>1, <1>2, SameCore DEF IInv, TypeOK, Alive
<1>4. /\ t \in Seq(FromHost) /\ queue["core"] \in Seq(FromHost) /\ ToCore = queue["core"] \o t
      /\ Tail(t) \in Seq(FromHost) /\ m \in FromHost
  BY <1>2, Types, TailKeeps DEF IInv, TypeOK, ToCore
<1> HIDE DEF t, m
<1>5. ToCore # <<>> /\ ToHost = <<>> /\ (m \in Turns <=> m = "TOKEN")
  BY <1>2, <1>4, CatKeeps DEF IInv, Wire, FromHost, Turns
<1>6. /\ \A M : All(t, M) => All(Tail(t), M) /\ m \in M
      /\ \A M : EndsIn(t, M) /\ Tail(t) # <<>> => EndsIn(Tail(t), M)
      /\ \A M : EndsIn(t, M) /\ Tail(t) = <<>> => m \in M
      /\ \A M : OnlyLast(t, M) /\ m \in M => Tail(t) = <<>>
      /\ \A M : EndsIn(ToCore, M) => EndsIn(t, M)
  <2>1. m = Head(t)
    BY DEF m, t
  <2> QED BY SMTT(30), <1>2, <1>4, <2>1, TailKeeps, CatKeeps
<1>7. m = "TOKEN" => Tail(t) = <<>>
  <2>1. OnlyLast(t, {"TOKEN"})
    BY <1>2, <1>4, CatKeeps DEF IInv, Wire
  <2> QED BY <1>6, <2>1
<1>8. HostSide'
  BY <1>1, <1>2, <1>5, <1>6, <1>7 DEF IInv, HostSide, FileParts, t
<1>9. Wire'
  <2>1. ASSUME Tail(t) = <<>>, EndsIn(ToCore, {"TOKEN"}) PROVE ipc'["host"] = "R"
    BY <1>2, <1>5, <1>6, <2>1
  <2>2. ASSUME Tail(t) = <<>>, EndsIn(ToCore, Completions) PROVE ServedAll'
    <3>1. m \in Completions
      BY <1>6, <2>2
    <3>2. host.pc = "serve"
      BY <1>2, <1>6, <2>2, <3>1 DEF IInv, TypeOK, HostType, HostSide, Completions, t
    <3> QED BY <1>1, <1>2, <2>2, <3>2 DEF ServedAll
  <2>3. ~(Alive /\ ipc["core"] = "S")
    BY <1>5 DEF IInv, Wire
  <2> QED BY <1>1, <1>2, <1>3, <1>5, <2>1, <2>2, <2>3, Empty DEF IInv, Wire, CoreWaits
<1>10. Starts'
  BY <1>1, <1>2, <1>3, <1>5, <1>6 DEF IInv, Starts, Ready, HostSide, t
<1>11. Plays'
  BY <1>1, <1>2, <1>3 DEF IInv, Plays, InSong, t
<1>12. Stops'
  BY <1>1, <1>2, <1>5, <1>6 DEF IInv, Stops, HostSide, t
<1> QED BY <1>2, <1>3, <1>8, <1>9, <1>10, <1>11, <1>12 DEF IInv

(* The host is done with the file and takes up what it did before.          *)
LEMMA FileServedInv == ASSUME IInv, FileServed PROVE IInv'
<1>1. /\ host.pc = "serve" /\ todo["host"] = <<>> /\ UNCHANGED <<open, queue, todo, core, late>>
      /\ ipc' = [ipc EXCEPT !["host"] = "R"]
      /\ host' = [host EXCEPT !.pc = host.back, !.back = "none"]
  BY DEF FileServed, HostGoes
<1>2. /\ host' \in HostType /\ host'.pc \in {"event", "flush1"} /\ host'.song = host.song
      /\ ipc'["host"] = "R" /\ ipc'["core"] = ipc["core"] /\ Shape'
      /\ ToCore' = ToCore /\ ToHost' = ToHost /\ Alive' = Alive /\ CoreWaits' = CoreWaits
  BY <1>1 DEF IInv, TypeOK, HostType, HostSide, IpcTypeOK, Sides, Shape, ToCore, ToHost, Alive, CoreWaits
<1>3. TypeOK'
  BY <1>1, <1>2 DEF IInv, TypeOK, IpcTypeOK, Sides
<1>4. CoreSide'
  BY <1>1, <1>2, SameCore DEF IInv
<1>5. HostSide'
  BY <1>1, <1>2, Empty DEF IInv, HostSide
<1>6. Wire'
  BY <1>1, <1>2 DEF IInv, Wire
<1>7. Starts'
  BY <1>1, <1>2 DEF IInv, Starts, Ready
<1>8. Plays' /\ Stops'
  BY <1>1, <1>2 DEF IInv, Plays, Stops, InSong
<1> QED BY <1>2, <1>3, <1>4, <1>5, <1>6, <1>7, <1>8 DEF IInv

(* A message that cannot be sent is left out, with or without those after   *)
(* it: what is on the way shrinks.                                          *)
LEMMA HostGaveUp ==
  ASSUME IInv, UNCHANGED <<open, queue, core>>, late' \in BOOLEAN, todo["host"] # <<>>,
         ipc' = [ipc EXCEPT !["host"] = AfterFailedSend("host")],
         host' \in HostType, host'.pc = "serve" => host'.back # "none",
         NEW rest \in {<<>>, Tail(todo["host"])}, todo' = [todo EXCEPT !["host"] = rest],
         rest # <<>> => host'.pc = host.pc
  PROVE  /\ TypeOK' /\ Shape' /\ CoreSide' /\ Alive' = Alive
         /\ rest \in Seq(FromHost) /\ todo'["host"] = rest /\ ToHost = <<>> /\ ToHost' = <<>>
         /\ todo["host"] \in Seq(FromHost)
         /\ queue["core"] \in Seq(FromHost) /\ Lacks(queue["core"], {"TOKEN"})
         /\ ToCore = queue["core"] \o todo["host"] /\ ToCore' = queue["core"] \o rest
         /\ ipc["host"] # "R"
         /\ ipc'["host"] = (IF Head(todo["host"]) = "TOKEN" THEN "R" ELSE "S")
         /\ \A M : All(ToCore, M) => All(ToCore', M)
         /\ rest = <<>> \/ Head(todo["host"]) # "TOKEN" => Wire'
<1>1. /\ ToCore \in Seq(FromHost) /\ queue["core"] \in Seq(FromHost) /\ todo["host"] \in Seq(FromHost)
      /\ ToCore = queue["core"] \o todo["host"]
  BY Types DEF IInv, TypeOK, ToCore
<1>2. rest \in Seq(FromHost)
  <2>1. Tail(todo["host"]) \in Seq(FromHost) /\ <<>> \in Seq(FromHost)
    BY <1>1, TailKeeps
  <2> QED BY <2>1
<1>3. /\ todo'["host"] = rest /\ todo'["core"] = todo["core"] /\ Alive' = Alive /\ CoreWaits' = CoreWaits
      /\ ipc'["host"] = AfterFailedSend("host") /\ ipc'["core"] = ipc["core"]
      /\ ToCore' = queue["core"] \o rest /\ ToHost' = ToHost
  BY DEF IInv, Shape, TypeOK, IpcTypeOK, Sides, Alive, CoreWaits, ToCore, ToHost
<1>4. ipc["host"] # "R" /\ ToCore # <<>> /\ ToHost = <<>>
  BY <1>1, CatKeeps DEF IInv, HostSide, Wire
<1>5. ipc'["host"] = (IF Head(todo["host"]) = "TOKEN" THEN "R" ELSE "S")
  BY <1>3, <1>4 DEF AfterFailedSend
<1>6. Shape'
  <2>1. rest \in Seq(FromHost \cup FromCore)
    BY <1>2, SeqMonotonic
  <2> QED BY <2>1 DEF IInv, Shape, Sides
<1>7. TypeOK'
  BY <1>2, <1>3, <1>5, OtherSide DEF IInv, TypeOK, IpcTypeOK, From, Sides
<1>8. CoreSide'
  BY <1>3, SameCore DEF IInv
<1>9. /\ OnlyLast(ToCore, {"TOKEN"}) /\ Lacks(queue["core"], {"TOKEN"}) /\ OnlyLast(todo["host"], {"TOKEN"})
      /\ core.pc \in Requested => /\ OnlyLast(ToCore, Completions) /\ Lacks(queue["core"], Completions)
                                  /\ OnlyLast(todo["host"], Completions)
  BY <1>1, CatKeeps DEF IInv, Wire
<1>10. \A M : OnlyLast(todo["host"], M) => OnlyLast(rest, M)
  <2> SUFFICES ASSUME NEW M, OnlyLast(todo["host"], M)
               PROVE  OnlyLast(rest, M)
    OBVIOUS
  <2>1. OnlyLast(<<>>, M)
    BY Empty
  <2>2. OnlyLast(Tail(todo["host"]), M)
    BY <1>1, TailKeeps
  <2> QED BY <2>1, <2>2
<1>11. /\ OnlyLast(ToCore', {"TOKEN"})
       /\ core.pc \in Requested => OnlyLast(ToCore', Completions)
  BY <1>1, <1>2, <1>3, <1>9, <1>10, CatKeeps
<1>12. \A M : All(ToCore, M) => All(ToCore', M)
  <2>1. \A M : All(todo["host"], M) => All(rest, M)
    BY <1>1, TailKeeps, Empty
  <2>2. \A M : All(ToCore, M) <=> All(queue["core"], M) /\ All(todo["host"], M)
    BY <1>1, CatKeeps
  <2>3. \A M : All(ToCore', M) <=> All(queue["core"], M) /\ All(rest, M)
    BY <1>1, <1>2, <1>3, CatKeeps
  <2> QED BY <2>1, <2>2, <2>3
<1>13. rest = <<>> => ~EndsIn(ToCore', {"TOKEN"}) /\ (core.pc \in Requested => ~EndsIn(ToCore', Completions))
  <2>1. rest = <<>> => ToCore' = queue["core"]
    BY <1>1, <1>3
  <2> QED BY <1>1, <1>9, <2>1, LastOrNone
<1>14. Wire'
  <2>1. ~(Alive /\ ipc["core"] = "S")
    BY <1>4 DEF IInv, Wire
  <2> QED BY <1>3, <1>4, <1>11, <1>13, <2>1, Empty DEF Wire
<1> QED BY <1>1, <1>2, <1>3, <1>4, <1>5, <1>6, <1>7, <1>8, <1>9, <1>12, <1>14

(* Each way a send of the host can fail.                                   *)
LEMMA HostSendFailsInv ==
  ASSUME IInv, NEW why, why => todo["host"] # <<>>, HostSendFails(why), late' \in BOOLEAN
  PROVE  IInv'
<1> DEFINE t == todo["host"]
<1>1. /\ UNCHANGED <<open, queue, core>> /\ t # <<>> /\ host \in HostType
      /\ ipc' = [ipc EXCEPT !["host"] = AfterFailedSend("host")]
  BY DEF HostSendFails, IInv, TypeOK
<1>2. CASE OnlyWarned(Head(t)) /\ todo' = [todo EXCEPT !["host"] = Tail(t)] /\ host' = host
  <2>1. Head(t) \in {"SUBSONG", "OPTION"}
    BY <1>2 DEF OnlyWarned
  <2>2. host.pc = "serve" => host.back # "none"
    BY DEF IInv, TypeOK
  <2> DEFINE rest == Tail(t)
  <2>3. rest \in {<<>>, Tail(todo["host"])} /\ todo' = [todo EXCEPT !["host"] = rest]
    BY <1>2
  <2> HIDE DEF rest
  <2>4. /\ TypeOK' /\ Shape' /\ CoreSide' /\ Alive' = Alive
        /\ rest \in Seq(FromHost) /\ todo'["host"] = rest /\ ToHost = <<>> /\ ToHost' = <<>>
        /\ todo["host"] \in Seq(FromHost)
        /\ queue["core"] \in Seq(FromHost) /\ Lacks(queue["core"], {"TOKEN"})
        /\ ToCore = queue["core"] \o todo["host"] /\ ToCore' = queue["core"] \o rest
        /\ ipc["host"] # "R"
        /\ ipc'["host"] = (IF Head(todo["host"]) = "TOKEN" THEN "R" ELSE "S")
        /\ \A M : All(ToCore, M) => All(ToCore', M)
        /\ rest = <<>> \/ Head(todo["host"]) # "TOKEN" => Wire'
    BY <1>1, <1>2, <2>2, <2>3, HostGaveUp
  <2>5. /\ \A M : All(t, M) => All(rest, M) /\ Head(t) \in M
        /\ \A M : EndsIn(t, M) /\ rest # <<>> => EndsIn(rest, M)
        /\ \A M : EndsIn(t, M) /\ rest = <<>> => Head(t) \in M
        /\ \A m, M : After(t, m, M) => After(rest, m, M)
        /\ \A m, M : After(t, m, M) /\ rest # <<>> /\ Head(rest) = m => Head(t) \in M
    BY <1>1, <2>4, TailKeeps DEF rest
  <2>11. /\ rest = <<>> => ~EndsIn(t, {"TOKEN"}) /\ ~EndsIn(t, Completions)
         /\ ~All(t, FileParts)
    <3>1. Head(t) \notin {"TOKEN"} /\ Head(t) \notin Completions /\ Head(t) \notin FileParts
      BY <2>1 DEF Completions, FileParts
    <3> HIDE DEF t
    <3> QED BY <2>5, <3>1
  <2>12. /\ \A M : All(t, M) => All(rest, M)
         /\ EndsIn(t, {"TOKEN"}) => EndsIn(rest, {"TOKEN"})
    BY <2>5, <2>11
  <2>6. HostSide'
    <3>1. /\ host.pc \notin {"none", "acktoken", "canttoken", "close", "join", "serve"}
          /\ host.pc = "idle" => All(t, {"CONFIG", "OPTION"})
          /\ host.pc = "options" => All(t, {"OPTION"})
          /\ host.pc \in {"ack", "event", "flush1", "flush2"} => EndsIn(t, {"TOKEN"})
      BY <1>1, <2>11 DEF IInv, HostSide
    <3>2. /\ host.pc = "idle" => All(rest, {"CONFIG", "OPTION"})
          /\ host.pc = "options" => All(rest, {"OPTION"})
          /\ host.pc \in {"ack", "event", "flush1", "flush2"} => EndsIn(rest, {"TOKEN"}) /\ rest # <<>>
      BY <3>1, <2>11, <2>12
    <3>3. ipc'["host"] = "S"
      BY <2>1, <2>4
    <3>4. /\ host.pc = "idle" /\ host.song \notin {"INVALID", "ERROR"} => ipc["host"] = "R"
          /\ host.pc \in {"event", "serve", "flush1", "flush2"} => host.song # "INVALID"
          /\ host.pc \in {"ack", "acktoken", "canttoken", "options"} => host.song = "INVALID"
          /\ host.pc \notin {"none", "join"} => open["host"]
      BY DEF IInv, HostSide
    <3> QED BY <1>1, <1>2, <2>4, <3>1, <3>2, <3>3, <3>4 DEF HostSide
  <2>7. Starts'
    BY <1>1, <1>2, <2>1, <2>4 DEF IInv, Starts, Ready, HostSide
  <2>8. ASSUME NEW M \in {{"READ", "REBOOT"}, {"REBOOT"}}, After(ToCore, "TOKEN", M)
        PROVE  After(ToCore', "TOKEN", M) /\ ~Begins(ToCore', "TOKEN")
    <3>1. After(t, "TOKEN", M)
      BY <2>4, <2>8, CatKeeps
    <3>2. After(rest, "TOKEN", M) /\ (rest # <<>> => Head(rest) # "TOKEN")
      BY <2>1, <2>5, <2>8, <3>1
    <3>3. After(queue["core"] \o rest, "TOKEN", M)
      BY <2>4, <3>2, CatKeeps
    <3>4. ~Begins(queue["core"] \o rest, "TOKEN")
      <4>1. CASE queue["core"] = <<>>
        <5>1. <<>> \o rest = rest
          BY <2>4
        <5> QED BY <3>2, <4>1, <5>1 DEF Begins
      <4>2. CASE queue["core"] # <<>>
        <5>1. Head(queue["core"] \o rest) = Head(queue["core"]) /\ Head(queue["core"]) \notin {"TOKEN"}
          BY <2>4, <4>2, CatKeeps, TailKeeps
        <5> QED BY <5>1 DEF Begins
      <4> QED BY <4>1, <4>2
    <3> QED BY <2>4, <3>3, <3>4
  <2>9. Plays'
    BY <1>1, <1>2, <2>4, <2>8, Empty DEF IInv, Plays, InSong
  <2>10. Stops'
    <3>1. core.pc \in Requested /\ Lacks(ToCore, Completions) => Lacks(ToCore', Completions)
      <4>1. Lacks(t, Completions) => Lacks(rest, Completions)
        BY <1>1, <2>4, TailKeeps DEF rest
      <4> QED BY <2>4, <4>1, CatKeeps
    <3>2. host.pc = "flush2" => rest # <<>>
      BY <1>1, <2>1, <2>5 DEF IInv, HostSide
    <3> QED BY <1>1, <1>2, <2>4, <2>8, <3>1, <3>2, Empty DEF IInv, Stops
  <2> QED BY <2>1, <2>4, <2>6, <2>7, <2>9, <2>10 DEF IInv
<1>3. CASE /\ Head(t) # "SUBSONG" /\ <<host.pc, Head(t)>> # <<"idle", "OPTION">>
           /\ todo' = [todo EXCEPT !["host"] = <<>>]
           /\ host' = CASE host.pc = "serve" -> [Fails(host.back) EXCEPT !.back = "none"]
                        [] host.pc = "flush1" -> [host EXCEPT !.song = "ERROR"]
                        [] OTHER -> Fails(host.pc)
  <2>1. /\ host.pc \in {"idle", "ack", "options", "event", "flush1", "flush2", "serve"}
        /\ host.pc = "serve" => host.back \in {"event", "flush1"}
    BY <1>1 DEF IInv, TypeOK, HostType, HostSide
  <2>2. /\ host' \in HostType
        /\ host.pc = "idle" => host'.pc = "close"
        /\ host.pc \in {"ack", "options"} => host'.pc = "idle" /\ host'.song = host.song /\ host'.broken
        /\ host.pc \in {"event", "flush1", "flush2", "serve"} =>
             host'.pc \in {"idle", "close", "flush1"} /\ host'.song = "ERROR"
    <3>1. CASE host.pc = "serve"
      <4>1. PICK h : h = Fails(host.back)
        OBVIOUS
      <4>2. h \in HostType /\ h.pc \in {"idle", "close", "flush1"} /\ h.song = "ERROR"
        BY ZenonT(60), <1>1, <2>1, <3>1, <4>1, Failures, Outcomes
      <4>3. host' = [h EXCEPT !.back = "none"]
        BY <1>3, <3>1, <4>1
      <4> QED BY <3>1, <4>2, <4>3 DEF HostType
    <3>2. CASE host.pc = "flush1"
      BY <1>1, <1>3, <3>2 DEF HostType
    <3>3. CASE host.pc \notin {"serve", "flush1"}
      <4>1. host' = Fails(host.pc)
        BY <1>3, <3>3
      <4>2. CASE host.pc = "idle"
        BY <1>1, <4>1, <4>2, Failures
      <4>3. CASE host.pc \in {"ack", "options"}
        BY ZenonT(60), <1>1, <4>1, <4>3, Failures, Outcomes
      <4>4. CASE host.pc \in {"event", "flush2"}
        BY ZenonT(60), <1>1, <4>1, <4>4, Failures, Outcomes
      <4> QED BY <2>1, <3>3, <4>2, <4>3, <4>4
    <3> QED BY <3>1, <3>2, <3>3
  <2>3. host'.pc \in {"idle", "close", "flush1"}
    BY <2>1, <2>2
  <2>4. /\ TypeOK' /\ Shape' /\ CoreSide' /\ Wire' /\ Alive' = Alive
        /\ todo'["host"] = <<>> /\ ToHost' = <<>>
        /\ queue["core"] \in Seq(FromHost) /\ Lacks(queue["core"], {"TOKEN"})
        /\ ToCore = queue["core"] \o t /\ t \in Seq(FromHost) /\ ToCore' = queue["core"] \o <<>>
        /\ \A M : All(ToCore, M) => All(ToCore', M)
    BY <1>1, <1>3, <2>2, <2>3, HostGaveUp
  <2>5. ToCore' = queue["core"]
    BY <2>4
  <2>6. HostSide'
    BY <1>1, <2>1, <2>2, <2>4, Empty DEF IInv, HostSide
  <2>7. Starts'
    BY <1>1, <2>1, <2>2, <2>4 DEF IInv, Starts, Ready, HostSide
  <2>8. \A M : After(ToCore, "TOKEN", M) => After(ToCore', "TOKEN", M)
    BY <2>4, <2>5, CatKeeps
  <2>9. ~Begins(ToCore', "TOKEN")
    BY <2>4, <2>5, LastOrNone
  <2>10. Plays' /\ Stops'
    BY <1>1, <2>1, <2>2, <2>4, <2>8, <2>9, Empty DEF IInv, HostSide, Plays, Stops, InSong
  <2> QED BY <2>4, <2>6, <2>7, <2>10 DEF IInv
<1> QED BY <1>2, <1>3 DEF HostSendFails, Sending

(* A new state starts from nothing but the core's statics.                  *)
LEMMA uade_new_stateInv == ASSUME IInv, uade_new_state PROVE IInv'
<1>1. /\ host.pc = "none" /\ host' = [NoHost EXCEPT !.pc = "idle"] /\ core' = [core EXCEPT !.pc = "config"]
      /\ late' = late /\ open' = [p \in Sides |-> TRUE] /\ queue' = [p \in Sides |-> <<>>]
      /\ ipc' = [p \in Sides |-> "INITIAL"] /\ todo' = [p \in Sides |-> IF p = "host" THEN <<"CONFIG">> ELSE <<>>]
  BY DEF uade_new_state, Connect
<1>2. /\ host' \in HostType /\ host'.pc = "idle" /\ host'.song = "INVALID" /\ ~host'.broken
      /\ core' \in CoreType /\ core'.pc = "config" /\ Alive'
  BY <1>1 DEF IInv, TypeOK, HostType, CoreType, NoHost, Alive
<1>3. /\ queue'["host"] = <<>> /\ queue'["core"] = <<>> /\ todo'["core"] = <<>> /\ todo'["host"] = <<"CONFIG">>
      /\ ipc'["host"] = "INITIAL" /\ ipc'["core"] = "INITIAL" /\ open'["host"] = TRUE
  BY <1>1 DEF Sides
<1> DEFINE new == <<"CONFIG">>
<1>4. /\ new \in Seq(FromHost) /\ new # <<>> /\ (\A M : All(new, M) <=> "CONFIG" \in M)
      /\ (\A M : OnlyLast(new, M)) /\ (\A M : EndsIn(new, M) <=> "CONFIG" \in M)
  <2>1. "CONFIG" \in FromHost
    BY DEF FromHost
  <2> QED BY <2>1, One
<1>5. ToCore' = new /\ ToHost' = <<>> /\ todo'["host"] = new
  <2>1. <<>> \o <<>> = <<>> /\ <<>> \o new = new
    OBVIOUS
  <2> QED BY <1>3, <2>1 DEF ToCore, ToHost
<1>6. Shape'
  <2>1. new \in Seq(FromHost \cup FromCore) /\ <<>> \in Seq(FromHost \cup FromCore)
    BY <1>4, SeqMonotonic
  <2> QED BY <1>1, <2>1 DEF Shape
<1>7. TypeOK'
  <2>1. Level(<<>>) = 0
    BY FS_EmptySet DEF Level
  <2>2. IpcTypeOK'
    BY <1>1, <1>3, <1>4, <1>5, <2>1, RoomAssumption, OtherSide DEF IpcTypeOK, From, Sides
  <2> QED BY <1>1, <1>2, <2>2 DEF IInv, TypeOK
<1> HIDE DEF new
<1>8. HostSide'
  BY <1>2, <1>3, <1>4, <1>5 DEF HostSide
<1>9. CoreSide'
  BY <1>2, <1>3 DEF CoreSide, Requested
<1>10. Wire'
  BY <1>2, <1>3, <1>4, <1>5, Empty DEF Wire, Requested
<1>11. Starts'
  BY <1>2, <1>3, <1>4, <1>5 DEF Starts, Ready
<1>12. Plays' /\ Stops'
  BY <1>2, <1>3, <1>4, <1>5, Empty DEF Plays, Stops, InSong
<1> QED BY <1>6, <1>7, <1>8, <1>9, <1>10, <1>11, <1>12 DEF IInv


-----------------------------------------------------------------------------
(* The core receives.  It goes on in S state only with the turn, or when it *)
(* has the whole of the file it asked for.                                  *)
LEMMA CoreTookWire ==
  ASSUME IpcTypeOK, Shape, Wire, host' = host, Alive, Alive', core'.pc \in Requested => core.pc \in Requested,
         NEW m, NEW state \in {"R", "S"}, NEW new \in Seq(FromCore), CoreTakesOne(m, state, new),
         state = "S" => m = "TOKEN" \/ (core.pc \in Requested /\ m \in Completions),
         new # <<>> => m = "TOKEN" /\ EndsIn(new, Turns),
         OnlyLast(new, Turns)
  PROVE  /\ Wire' /\ ToHost = <<>> /\ ToHost' = new
         /\ m = "TOKEN" \/ (core.pc \in Requested /\ m \in Completions) =>
              /\ ToCore' = <<>> /\ todo["host"] = <<>>
              /\ ipc["host"] = "R" \/ ServedAll
<1>1. /\ ToCore # <<>> /\ m = Head(ToCore) /\ ToCore' = Tail(ToCore) /\ (Tail(ToCore) = <<>> => todo["host"] = <<>>)
      /\ todo["core"] = <<>> /\ ToHost' = ToHost \o new
      /\ todo'["core"] = new /\ todo'["host"] = todo["host"]
      /\ ipc'["core"] = state /\ ipc'["host"] = ipc["host"]
  BY CoreTook
<1>2. /\ ToCore \in Seq(FromHost)
      /\ \A M : /\ OnlyLast(ToCore, M) => OnlyLast(Tail(ToCore), M)
                /\ OnlyLast(ToCore, M) /\ Head(ToCore) \in M => Tail(ToCore) = <<>>
                /\ EndsIn(Tail(ToCore), M) => EndsIn(ToCore, M)
                /\ Head(ToCore) \in M /\ Tail(ToCore) = <<>> => EndsIn(ToCore, M)
  BY <1>1, Types, TailKeeps
<1>3. ToHost = <<>> /\ OnlyLast(ToCore, {"TOKEN"}) /\ ToHost' = new
  <2>1. ToHost = <<>> /\ OnlyLast(ToCore, {"TOKEN"})
    BY <1>1 DEF Wire
  <2>2. <<>> \o new = new
    OBVIOUS
  <2> QED BY <1>1, <2>1, <2>2
<1>4. m = "TOKEN" => ToCore' = <<>> /\ todo["host"] = <<>> /\ ipc["host"] = "R"
  <2> SUFFICES ASSUME m = "TOKEN" PROVE ToCore' = <<>> /\ todo["host"] = <<>> /\ ipc["host"] = "R"
    OBVIOUS
  <2>1. Tail(ToCore) = <<>> /\ EndsIn(ToCore, {"TOKEN"})
    BY <1>1, <1>2, <1>3
  <2> QED BY <1>1, <2>1 DEF Wire
<1>5. core.pc \in Requested /\ m \in Completions =>
        ToCore' = <<>> /\ todo["host"] = <<>> /\ (ipc["host"] = "R" \/ ServedAll)
  <2> SUFFICES ASSUME core.pc \in Requested, m \in Completions
               PROVE  ToCore' = <<>> /\ todo["host"] = <<>> /\ (ipc["host"] = "R" \/ ServedAll)
    OBVIOUS
  <2>1. OnlyLast(ToCore, Completions)
    BY DEF Wire
  <2>2. Tail(ToCore) = <<>> /\ EndsIn(ToCore, Completions)
    BY <1>1, <1>2, <2>1
  <2> QED BY <1>1, <2>2 DEF Wire
<1>6. ServedAll' = ServedAll
  BY <1>1 DEF ServedAll
<1>7. Wire'
  <2>1. ToCore' = <<>> \/ ToHost' = <<>>
    BY <1>3, <1>4
  <2>2. OnlyLast(ToHost', Turns) /\ OnlyLast(ToCore', {"TOKEN"})
    BY <1>1, <1>2, <1>3
  <2>3. CoreWaits' /\ ToHost' # <<>> => EndsIn(ToHost', Turns)
    BY <1>3
  <2>4. Alive' /\ ipc'["core"] = "S" => ToCore' = <<>> /\ (ipc'["host"] = "R" \/ ServedAll')
    BY <1>1, <1>4, <1>5, <1>6
  <2>5. ToHost' # <<>> => ipc'["host"] = "R" \/ ServedAll'
    BY <1>1, <1>3, <1>4, <1>6
  <2>6. todo'["host"] = <<>> /\ EndsIn(ToCore', {"TOKEN"}) => ipc'["host"] = "R"
    BY <1>1, <1>2 DEF Wire
  <2>7. Alive' /\ todo'["core"] = <<>> /\ EndsIn(ToHost', Turns) => ipc'["core"] # "S"
    BY <1>1, <1>3, Empty
  <2>8. core'.pc \in Requested => OnlyLast(ToCore', Completions)
    BY <1>1, <1>2 DEF Wire
  <2>9. core'.pc \in Requested /\ todo'["host"] = <<>> /\ EndsIn(ToCore', Completions) =>
          ipc'["host"] = "R" \/ ServedAll'
    BY <1>1, <1>2, <1>6 DEF Wire
  <2> QED BY <2>1, <2>2, <2>3, <2>4, <2>5, <2>6, <2>7, <2>8, <2>9 DEF Wire
<1> QED BY <1>3, <1>4, <1>5, <1>7

(* The core takes a message: the parts that do not depend on which one.    *)
LEMMA CoreTookOne ==
  ASSUME IInv, UNCHANGED <<host, late>>, Alive, Alive', core' \in CoreType,
         core'.pc \in Requested => core.pc \in Requested,
         NEW m, NEW state \in {"R", "S"}, NEW new \in Seq(FromCore), CoreTakesOne(m, state, new),
         state = "S" => m = "TOKEN" \/ (core.pc \in Requested /\ m \in Completions),
         new # <<>> => m = "TOKEN" /\ EndsIn(new, Turns),
         OnlyLast(new, Turns)
  PROVE  /\ TypeOK' /\ Shape' /\ HostSide' /\ Wire'
         /\ m \in FromHost /\ ToCore # <<>> /\ m = Head(ToCore) /\ ToCore' = Tail(ToCore)
         /\ ToHost = <<>> /\ ToHost' = new
         /\ todo["core"] = <<>> /\ todo'["core"] = new /\ todo'["host"] = todo["host"]
         /\ ipc'["core"] = state /\ ipc'["host"] = ipc["host"]
         /\ \A M : All(ToCore, M) => m \in M /\ All(ToCore', M)
         /\ \A M : Lacks(ToCore, M) => m \notin M /\ Lacks(ToCore', M)
         /\ \A n, M : After(ToCore, n, M) => After(ToCore', n, M) /\ (Begins(ToCore', n) => m \in M)
         /\ m = "TOKEN" \/ (core.pc \in Requested /\ m \in Completions) =>
              /\ ToCore' = <<>> /\ todo["host"] = <<>>
              /\ ipc["host"] = "R" \/ ServedAll
<1>1. /\ IpcTypeOK' /\ Shape'
      /\ ToCore # <<>> /\ m = Head(ToCore) /\ m \in FromHost /\ ToCore' = Tail(ToCore)
      /\ todo["core"] = <<>>
      /\ todo'["core"] = new /\ todo'["host"] = todo["host"]
      /\ ipc'["core"] = state /\ ipc'["host"] = ipc["host"] /\ open' = open
  BY CoreTook DEF IInv, TypeOK
<1>2. /\ Wire' /\ ToHost = <<>> /\ ToHost' = new
      /\ m = "TOKEN" \/ (core.pc \in Requested /\ m \in Completions) =>
           /\ ToCore' = <<>> /\ todo["host"] = <<>>
           /\ ipc["host"] = "R" \/ ServedAll
  BY CoreTookWire DEF IInv, TypeOK
<1>3. HostSide' /\ TypeOK'
  BY <1>1, SameHost DEF IInv, TypeOK
<1>4. ToCore \in Seq(FromHost)
  BY Types DEF IInv, TypeOK
<1>5. /\ \A M : All(ToCore, M) => m \in M /\ All(ToCore', M)
      /\ \A M : Lacks(ToCore, M) => m \notin M /\ Lacks(ToCore', M)
  BY <1>1, <1>4, TailKeeps
<1>6. \A n, M : After(ToCore, n, M) => After(ToCore', n, M) /\ (Begins(ToCore', n) => m \in M)
  BY <1>1, <1>4, TailKeeps DEF Begins
<1> QED BY <1>1, <1>2, <1>3, <1>5, <1>6

(* The core takes a message and answers nothing.                           *)
LEMMA CoreReceived ==
  ASSUME IInv, UNCHANGED <<host, late>>, Alive, Alive', core' \in CoreType,
         core'.pc \in Requested => core.pc \in Requested,
         NEW m, NEW state \in {"R", "S"}, CoreArrives(m), Take("core", state), UNCHANGED todo,
         state = "S" => m = "TOKEN" \/ (core.pc \in Requested /\ m \in Completions)
  PROVE  /\ TypeOK' /\ Shape' /\ HostSide' /\ Wire'
         /\ m \in FromHost /\ ToCore # <<>> /\ m = Head(ToCore) /\ ToCore' = Tail(ToCore)
         /\ ToHost = <<>> /\ ToHost' = <<>>
         /\ todo'["core"] = <<>> /\ todo'["host"] = todo["host"]
         /\ ipc'["core"] = state /\ ipc'["host"] = ipc["host"]
         /\ \A M : All(ToCore, M) => m \in M /\ All(ToCore', M)
         /\ \A M : Lacks(ToCore, M) => m \notin M /\ Lacks(ToCore', M)
         /\ \A n, M : After(ToCore, n, M) => After(ToCore', n, M) /\ (Begins(ToCore', n) => m \in M)
         /\ m = "TOKEN" \/ (core.pc \in Requested /\ m \in Completions) =>
              /\ ToCore' = <<>> /\ todo["host"] = <<>>
              /\ ipc["host"] = "R" \/ ServedAll
<1>1. CoreTakesOne(m, state, <<>>)
  <2>1. todo["core"] = <<>>
    BY DEF CoreArrives, Arrives
  <2>2. todo' = [todo EXCEPT !["core"] = <<>>]
    BY <2>1, NothingNew DEF IInv, Sides
  <2> QED BY <2>2 DEF CoreTakesOne, CoreArrives
<1>2. OnlyLast(<<>>, Turns) /\ <<>> \in Seq(FromCore)
  BY Empty
<1> QED BY <1>1, <1>2, CoreTookOne

(* The config and the files of a song, one after another.                  *)
LEMMA CoreLoadsInv == ASSUME IInv, NEW m \in FromHost, CoreLoads(m) PROVE IInv'
<1>1. PICK e \in Expected :
        /\ core.pc = e[1] /\ m = e[2] /\ CoreArrives(m) /\ CoreTakes(m) /\ UNCHANGED <<host, late, todo>>
        /\ core' = [core EXCEPT !.pc = e[3], !.reboot = core.reboot \/ m = "CONFIG"]
  BY DEF CoreLoads, CoreGoes
<1>2. /\ core.pc \in Loading \cup {"rebooted", "request"} /\ m \in {"CONFIG", "SCORE", "FILE", "FILE_DATA", "NOFILE"}
      /\ e[3] \in (Loading \ {"config"}) \cup {"request_data"}
      /\ core.pc = "config" => e[3] = "score" /\ m = "CONFIG"
      /\ core.pc \in {"score", "rebooted"} => m = "SCORE"
      /\ core.pc = "request" <=> e[3] = "request_data"
      /\ core.pc = "request" => m = "FILE"
  BY <1>1 DEF Expected, Loading
<1>3. /\ core' \in CoreType /\ core'.pc = e[3] /\ core'.read_size = core.read_size
      /\ m # "CONFIG" => core'.reboot = core.reboot
  <2>1. (core.reboot \/ m = "CONFIG") \in BOOLEAN /\ core.reboot \in BOOLEAN /\ core \in CoreType
    BY DEF IInv, TypeOK, CoreType
  <2>2. e[3] \in {"score", "player", "player_data", "module", "module_data", "start", "request_data"}
    BY <1>2 DEF Loading
  <2>3. /\ core' \in CoreType /\ core'.pc = e[3] /\ core'.read_size = core.read_size
        /\ core'.reboot = (core.reboot \/ m = "CONFIG")
    BY <1>1, <2>1, <2>2 DEF CoreType
  <2> QED BY <2>1, <2>3
<1>4. Alive /\ Alive' /\ (core'.pc \in Requested => core.pc \in Requested)
  BY <1>2, <1>3 DEF Alive, Requested, Loading
<1>5. Take("core", "R")
  BY <1>1, <1>2 DEF CoreTakes, AfterReceiving
<1>6. /\ TypeOK' /\ Shape' /\ HostSide' /\ Wire' /\ ToCore # <<>>
      /\ ToHost = <<>> /\ ToHost' = <<>>
      /\ todo'["core"] = <<>> /\ todo'["host"] = todo["host"]
      /\ ipc'["core"] = "R" /\ ipc'["host"] = ipc["host"]
      /\ \A M : All(ToCore, M) => m \in M /\ All(ToCore', M)
      /\ \A M : Lacks(ToCore, M) => m \notin M /\ Lacks(ToCore', M)
  BY <1>1, <1>3, <1>4, <1>5, CoreReceived
<1>7. CoreSide'
  BY <1>2, <1>3, <1>6, Empty DEF IInv, CoreSide, Requested, Loading
<1>8. Starts'
  <2>1. host.pc # "none" /\ host.pc \notin {"acktoken", "canttoken"}
    BY <1>4, <1>6 DEF IInv, Starts
  <2>2. host.pc = "ack" => core'.pc \in Loading
    BY <1>2, <1>3, <1>6 DEF IInv, Starts, Loading
  <2>3. Ready => core'.pc = "score"
    <3>1. Ready => core.pc \in {"config", "score", "rebooted"} /\ m \in {"CONFIG", "OPTION"}
      BY <1>4, <1>6 DEF IInv, Starts, Alive
    <3> QED BY <1>2, <1>3, <3>1
  <2>4. Ready' = Ready
    BY <1>1 DEF Ready
  <2> QED BY <1>1, <1>2, <1>3, <1>4, <1>6, <2>1, <2>2, <2>3, <2>4 DEF IInv, Starts, Loading
<1>9. InSong \/ (host.pc = "serve" /\ todo["host"] # <<>>) => core'.pc = "request_data"
  <2>1. CASE core.pc = "request"
    BY <1>2, <1>3, <2>1
  <2>2. CASE core.pc # "request"
    BY <1>2, <1>4, <1>6, <2>2 DEF IInv, Plays, Loading, Commands, FileParts, InSong, Requested
  <2> QED BY <2>1, <2>2
<1>10. Plays'
  BY <1>1, <1>2, <1>3, <1>4, <1>6, <1>9, Empty DEF IInv, Plays, InSong, Requested, Loading
<1>11. Stops'
  BY <1>1, <1>2, <1>3, <1>6, <1>9, Empty DEF IInv, Stops, InSong, Requested, Loading
<1> QED BY <1>6, <1>7, <1>8, <1>10, <1>11 DEF IInv

(* The answer to a song's start is the first thing on the way to the       *)
(* host.                                                                   *)
LEMMA CoreStartsInv == ASSUME IInv, CoreStarts PROVE IInv'
<1>1. PICK ack \in {"CAN_PLAY", "CANT_PLAY"} :
        /\ core.pc = "start" /\ CoreArrives("TOKEN") /\ CoreTakes("TOKEN") /\ UNCHANGED <<host, late>>
        /\ todo' = [todo EXCEPT !["core"] = <<ack, "TOKEN">>]
        /\ core' = IF ack = "CAN_PLAY"
                   THEN [core EXCEPT !.pc = "commands", !.reboot = FALSE, !.output = FALSE, !.slow = 0]
                   ELSE [core EXCEPT !.pc = "score"]
  BY DEF CoreStarts, CoreSending, CoreGoes
<1> DEFINE new == <<ack, "TOKEN">>
<1>2. /\ new \in Seq(FromCore) /\ new # <<>> /\ Head(new) = ack /\ Tail(new) = <<"TOKEN">>
      /\ OnlyLast(new, Turns) /\ EndsIn(new, Turns)
      /\ \A M : All(new, M) <=> ack \in M /\ "TOKEN" \in M
      /\ \A M : Lacks(new, M) <=> ack \notin M /\ "TOKEN" \notin M
  <2>1. ack \in FromCore \ Turns
    BY DEF FromCore, Turns
  <2> QED BY <2>1, Turned
<1>3. CoreTakesOne("TOKEN", "S", new)
  BY <1>1 DEF CoreTakesOne, CoreArrives, CoreTakes, AfterReceiving
<1> HIDE DEF new
<1>4. /\ core' \in CoreType /\ core'.pc = (IF ack = "CAN_PLAY" THEN "commands" ELSE "score")
      /\ Alive /\ Alive' /\ core'.pc \notin Requested
  <2>1. CASE ack = "CAN_PLAY"
    <3>1. core' = [core EXCEPT !.pc = "commands", !.reboot = FALSE, !.output = FALSE, !.slow = 0]
      BY <1>1, <2>1
    <3>2. core \in CoreType /\ 0 \in 0..2
      BY DEF IInv, TypeOK
    <3>3. core' \in CoreType /\ core'.pc = "commands"
      BY <3>1, <3>2 DEF CoreType
    <3> QED BY <1>1, <2>1, <3>3 DEF Alive, Requested
  <2>2. CASE ack = "CANT_PLAY"
    BY <1>1, <2>2 DEF IInv, TypeOK, CoreType, Alive, Requested
  <2> QED BY <2>1, <2>2
<1>5. /\ TypeOK' /\ Shape' /\ HostSide' /\ Wire'
      /\ ToHost = <<>> /\ ToHost' = new /\ ToCore' = <<>>
      /\ todo'["core"] = new /\ todo'["host"] = todo["host"]
      /\ ipc'["core"] = "S" /\ ipc'["host"] = ipc["host"]
  BY <1>1, <1>2, <1>3, <1>4, CoreTookOne
<1>6. CoreSide'
  BY <1>1, <1>2, <1>4, <1>5 DEF CoreSide, Requested, Loading
<1>7. host.pc \notin {"none", "acktoken", "canttoken", "serve"} /\ ~Ready /\ ~InSong
  BY <1>1, <1>4, <1>5 DEF IInv, Starts, Plays, InSong
<1>8. Starts'
  <2>1. All(Tail(new), {"TOKEN"})
    <3>1. "TOKEN" \in FromCore
      BY DEF FromCore
    <3>2. All(<<"TOKEN">>, {"TOKEN"})
      BY <3>1, One
    <3> QED BY <1>2, <3>2
  <2> QED BY <1>1, <1>2, <1>4, <1>5, <1>7, <2>1 DEF Starts, Ready
<1>9. Plays' /\ Stops'
  BY <1>1, <1>2, <1>4, <1>5, <1>7, Empty DEF Plays, Stops, InSong, Begins
<1> QED BY <1>5, <1>6, <1>8, <1>9 DEF IInv

(* The commands of a turn; with the token the core emulates.               *)
LEMMA CoreCommandInv == ASSUME IInv, NEW m \in FromHost, CoreCommand(m) PROVE IInv'
<1>1. /\ core.pc = "commands" /\ CoreArrives(m) /\ CoreTakes(m) /\ UNCHANGED <<host, late, todo>>
      /\ core' = CASE m = "READ" -> [core EXCEPT !.read_size = 1]
                   [] m = "REBOOT" -> [core EXCEPT !.reboot = TRUE]
                   [] m = "TOKEN" -> [core EXCEPT !.pc = "run", !.posts = 0]
                   [] OTHER -> core
      /\ core \in CoreType
  BY DEF CoreCommand, Command, CoreGoes, IInv, TypeOK
<1>2. /\ core' \in CoreType
      /\ core'.pc = (IF m = "TOKEN" THEN "run" ELSE "commands")
      /\ core'.read_size = (IF m = "READ" THEN 1 ELSE core.read_size)
      /\ core'.reboot = (IF m = "REBOOT" THEN TRUE ELSE core.reboot)
  <2>1. CASE m = "READ"
    BY <1>1, <2>1 DEF CoreType
  <2>2. CASE m = "REBOOT"
    BY <1>1, <2>2 DEF CoreType
  <2>3. CASE m = "TOKEN"
    <3>1. 0 \in 0..MaxPosts
      BY PostsAssumption
    <3> QED BY <1>1, <2>3, <3>1 DEF CoreType
  <2>4. CASE m \notin {"READ", "REBOOT", "TOKEN"}
    BY <1>1, <2>4
  <2> QED BY <2>1, <2>2, <2>3, <2>4
<1>3. Alive /\ Alive' /\ core'.pc \notin Requested
  BY <1>1, <1>2 DEF Alive, Requested
<1> DEFINE state == AfterReceiving(m)
<1>4. state \in {"R", "S"} /\ (state = "S" <=> m = "TOKEN") /\ Take("core", state)
  BY <1>1 DEF CoreTakes, AfterReceiving
<1> HIDE DEF state
<1>5. /\ TypeOK' /\ Shape' /\ HostSide' /\ Wire' /\ ToCore # <<>> /\ m = Head(ToCore)
      /\ ToHost = <<>> /\ ToHost' = <<>>
      /\ todo'["core"] = <<>> /\ todo'["host"] = todo["host"]
      /\ ipc'["core"] = state /\ ipc'["host"] = ipc["host"]
      /\ \A M : All(ToCore, M) => All(ToCore', M)
      /\ \A n, M : After(ToCore, n, M) => After(ToCore', n, M) /\ (Begins(ToCore', n) => m \in M)
  BY <1>1, <1>2, <1>3, <1>4, CoreReceived
<1>6. m = "TOKEN" => core.reboot \/ core.read_size = 1
  BY <1>1, <1>5 DEF IInv, Plays, Begins
<1>7. CoreSide'
  BY <1>1, <1>2, <1>3, <1>4, <1>5, <1>6, Empty DEF CoreSide, CoreWaits, Loading
<1>8. host.pc \notin {"none", "ack", "acktoken", "canttoken"} /\ ~Ready
  BY <1>1, <1>3, <1>5 DEF IInv, Starts, Loading
<1>9. Starts'
  BY <1>1, <1>2, <1>8 DEF Starts, Ready
<1>10. Plays'
  <2>1. After(ToCore', "TOKEN", {"READ", "REBOOT"}) /\ All(ToCore', Commands)
        /\ (Begins(ToCore', "TOKEN") => m \in {"READ", "REBOOT"})
    BY <1>1, <1>5 DEF IInv, Plays
  <2>2. InSong => All(ToCore', Commands \cup FileParts)
    BY <1>3, <1>5 DEF IInv, Plays
  <2> QED BY <1>1, <1>2, <1>3, <1>5, <2>1, <2>2, Empty DEF IInv, Plays, InSong, Requested
<1>11. Stops'
  <2> SUFFICES ASSUME host.pc = "flush2" PROVE Stops'
    BY <1>1 DEF Stops
  <2>1. /\ After(ToCore', "TOKEN", {"REBOOT"}) /\ (Begins(ToCore', "TOKEN") => m \in {"REBOOT"})
        /\ m = "TOKEN" => core.reboot
    BY <1>1, <1>5 DEF IInv, Stops, Begins
  <2> QED BY <1>1, <1>2, <1>3, <1>5, <2>1, Empty DEF IInv, Stops
<1> QED BY <1>5, <1>7, <1>9, <1>10, <1>11 DEF IInv

(* The whole of the file has come: the host has sent all of it.             *)
LEMMA FileReceivedInv == ASSUME IInv, NEW m \in FromHost, FileReceived(m) PROVE IInv'
<1>1. /\ core.pc \in Requested /\ m \in Completions /\ CoreArrives(m) /\ Take("core", "S")
      /\ UNCHANGED <<host, late, todo>> /\ core' = [core EXCEPT !.pc = "run"]
  BY DEF FileReceived, CoreGoes, Requested, Completions
<1>2. /\ core' \in CoreType /\ core'.pc = "run" /\ core'.read_size = core.read_size /\ core'.reboot = core.reboot
      /\ Alive /\ Alive' /\ core'.pc \notin Requested
  BY <1>1 DEF IInv, TypeOK, CoreType, Alive, Requested
<1>3. /\ TypeOK' /\ Shape' /\ HostSide' /\ Wire' /\ ToCore # <<>>
      /\ ToHost = <<>> /\ ToHost' = <<>> /\ ToCore' = <<>>
      /\ todo'["core"] = <<>> /\ todo'["host"] = todo["host"] /\ todo["host"] = <<>>
      /\ ipc'["core"] = "S" /\ ipc'["host"] = ipc["host"]
      /\ \A M : Lacks(ToCore, M) => m \notin M
  BY <1>1, <1>2, CoreReceived
<1>4. CoreSide'
  BY <1>1, <1>2, <1>3, Empty DEF IInv, CoreSide, CoreWaits
<1>5. host.pc \notin {"none", "ack", "acktoken", "canttoken"} /\ ~Ready
  BY <1>1, <1>2, <1>3 DEF IInv, Starts, Loading, Requested
<1>6. Starts'
  BY <1>1, <1>2, <1>5 DEF Starts, Ready
<1>7. Plays'
  BY <1>1, <1>2, <1>3, Empty DEF IInv, Plays, InSong
<1>8. Stops'
  <2>1. host.pc # "flush2"
    BY <1>1, <1>3 DEF IInv, Stops
  <2> QED BY <1>1, <2>1 DEF Stops
<1> QED BY <1>3, <1>4, <1>6, <1>7, <1>8 DEF IInv


-----------------------------------------------------------------------------
(* The core's thread ends: what it had still to send is lost, and perhaps   *)
(* the message it could not use.                                            *)
LEMMA CoreExited ==
  ASSUME IInv, host' = host, late' \in BOOLEAN, Alive,
         core' = [core EXCEPT !.pc = "gone"], todo' = [todo EXCEPT !["core"] = <<>>],
         NEW closes \in BOOLEAN, open' = [open EXCEPT !["core"] = ~closes /\ open["core"]],
         NEW state \in {"INITIAL", "R", "S"}, ipc' = [ipc EXCEPT !["core"] = state],
         \/ queue' = queue
         \/ /\ queue["core"] # <<>> /\ queue' = [queue EXCEPT !["core"] = Tail(queue["core"])]
  PROVE  IInv'
<1>1. /\ core' \in CoreType /\ core'.pc = "gone" /\ ~Alive' /\ ~CoreWaits'
      /\ todo'["core"] = <<>> /\ todo'["host"] = todo["host"] /\ queue'["host"] = queue["host"]
      /\ ipc'["host"] = ipc["host"] /\ open'["host"] = open["host"]
  BY DEF IInv, TypeOK, IpcTypeOK, Shape, Sides, CoreType, Alive, CoreWaits
<1>2. /\ queue["host"] \in Seq(FromCore) /\ todo["core"] \in Seq(FromCore) /\ ToHost = queue["host"] \o todo["core"]
      /\ queue["core"] \in Seq(FromHost) /\ todo["host"] \in Seq(FromHost)
      /\ ToCore \in Seq(FromHost) /\ ToCore = queue["core"] \o todo["host"]
  BY Types DEF IInv, TypeOK, ToHost, ToCore
<1>3. ToHost' = queue["host"]
  <2>1. queue["host"] \o <<>> = queue["host"]
    BY <1>2
  <2> QED BY <1>1, <2>1 DEF ToHost
<1>4. ToCore' = ToCore \/ (ToCore # <<>> /\ ToCore' = Tail(ToCore))
  <2>1. CASE queue' = queue
    BY <1>1, <2>1 DEF ToCore
  <2>2. CASE queue["core"] # <<>> /\ queue' = [queue EXCEPT !["core"] = Tail(queue["core"])]
    <3>1. queue'["core"] = Tail(queue["core"])
      BY <2>2 DEF IInv, Shape, Sides
    <3>2. Tail(queue["core"]) \o todo["host"] = Tail(ToCore) /\ ToCore # <<>>
      BY ZenonT(60), <1>2, <2>2, Taken
    <3> QED BY <1>1, <3>1, <3>2 DEF ToCore
  <2> QED BY <2>1, <2>2
<1>5. /\ Shape'
      /\ queue'["core"] \in Seq(FromHost) /\ Level(queue'["core"]) <= Room
  <2>1. CASE queue' = queue
    BY <2>1 DEF IInv, TypeOK, IpcTypeOK, Shape, Sides, From, Other
  <2>2. CASE queue["core"] # <<>> /\ queue' = [queue EXCEPT !["core"] = Tail(queue["core"])]
    <3> DEFINE q == queue["core"]
    <3>1. queue'["core"] = Tail(q) /\ q # <<>>
      BY <2>2 DEF IInv, Shape, Sides
    <3>2. Tail(q) \in Seq(FromHost) /\ Tail(q) \in Seq(FromHost \cup FromCore)
      BY <1>2, <3>1, TailKeeps, SeqMonotonic
    <3>3. Level(Tail(q)) <= Level(q) /\ Level(Tail(q)) \in Nat /\ Level(q) \in Nat /\ Level(q) <= Room
      BY <1>2, <3>1, <3>2, LevelTail, LevelType DEF IInv, TypeOK, IpcTypeOK, Sides
    <3>4. Level(Tail(q)) <= Room
      BY <3>3, RoomAssumption
    <3>5. Shape'
      BY <2>2, <3>2 DEF IInv, Shape, Sides
    <3> QED BY <3>1, <3>2, <3>4, <3>5
  <2> QED BY <2>1, <2>2
<1>6. TypeOK'
  <2>1. /\ open' \in [Sides -> BOOLEAN] /\ ipc' \in [Sides -> {"INITIAL", "R", "S"}]
    BY DEF IInv, TypeOK, IpcTypeOK, Sides
  <2>2. queue["host"] \in Seq(FromCore) /\ Level(queue["host"]) <= Room /\ <<>> \in Seq(FromCore)
    BY <1>2 DEF IInv, TypeOK, IpcTypeOK, Sides
  <2>3. IpcTypeOK'
    BY <1>1, <1>2, <1>5, <2>1, <2>2, OtherSide DEF IpcTypeOK, From, Sides
  <2> QED BY <1>1, <2>3 DEF IInv, TypeOK
<1>7. HostSide' /\ CoreSide'
  BY <1>1, SameHost DEF IInv, CoreSide, Requested, Loading
<1>8. /\ \A M : All(ToHost, M) => All(ToHost', M)
      /\ \A M : Lacks(ToHost, M) => Lacks(ToHost', M)
      /\ OnlyLast(ToHost', Turns) /\ (ToHost' # <<>> => ToHost # <<>>)
  BY <1>2, <1>3, CatKeeps DEF IInv, Wire
<1>9. /\ OnlyLast(ToCore', {"TOKEN"}) /\ (EndsIn(ToCore', {"TOKEN"}) => EndsIn(ToCore, {"TOKEN"}))
      /\ ToCore = <<>> => ToCore' = <<>>
  <2>1. OnlyLast(ToCore, {"TOKEN"})
    BY DEF IInv, Wire
  <2>2. CASE ToCore' = ToCore
    BY <2>1, <2>2
  <2>3. CASE ToCore # <<>> /\ ToCore' = Tail(ToCore)
    BY <1>2, <2>1, <2>3, TailKeeps
  <2> QED BY <1>4, <2>2, <2>3
<1>10. Wire'
  BY <1>1, <1>8, <1>9 DEF IInv, Wire, ServedAll, Requested
<1>11. Starts'
  <2>1. ASSUME host.pc = "ack", ToHost' # <<>>
        PROVE  All(Tail(ToHost'), {"TOKEN"}) /\ Head(ToHost') \in Answers
    <3>1. ToHost # <<>> /\ All(Tail(ToHost), {"TOKEN"}) /\ Head(ToHost) \in Answers
      BY <1>8, <2>1 DEF IInv, Starts, Answers
    <3>2. Head(ToHost) = Head(queue["host"]) /\ Tail(queue["host"]) \o todo["core"] = Tail(ToHost)
          /\ Tail(queue["host"]) \in Seq(FromCore)
      <4> DEFINE q == queue["host"]
                 t == todo["core"]
      <4>1. q \in Seq(FromCore) /\ t \in Seq(FromCore) /\ q # <<>> /\ ToHost = q \o t
        BY <1>2, <1>3, <2>1
      <4> HIDE DEF q, t
      <4>2. Head(ToHost) = Head(q) /\ Tail(q) \o t = Tail(ToHost) /\ Tail(q) \in Seq(FromCore)
        BY <4>1, Taken, TailKeeps
      <4> QED BY <4>2 DEF q, t
    <3>3. All(Tail(queue["host"]), {"TOKEN"})
      <4>1. All(Tail(queue["host"]) \o todo["core"], {"TOKEN"})
        BY <3>1, <3>2
      <4> QED BY <1>2, <3>2, <4>1, CatKeeps
    <3> QED BY <1>3, <3>1, <3>2, <3>3
  <2> QED BY <1>1, <1>8, <2>1 DEF IInv, Starts, Ready, Answers, Loading
<1>12. Plays'
  BY <1>1, <1>8 DEF IInv, Plays, InSong
<1>13. Stops'
  BY <1>1, <1>8, <1>9 DEF IInv, Stops, Requested
<1> QED BY <1>5, <1>6, <1>7, <1>10, <1>11, <1>12, <1>13 DEF IInv

(* A message the core cannot use ends it.                                  *)
LEMMA CoreEndsInv ==
  ASSUME IInv, ConfigUnreadable \/ (\E m \in FromHost : CoreRejects(m))
  PROVE  IInv'
<1>1. /\ host' = host /\ late' \in BOOLEAN /\ Alive /\ ipc' = ipc
      /\ Exits(TRUE) /\ queue["core"] # <<>> /\ queue' = [queue EXCEPT !["core"] = Tail(queue["core"])]
  BY DEF ConfigUnreadable, CoreRejects, CoreArrives, Arrives, IInv, TypeOK, Alive
<1>2. ipc' = [ipc EXCEPT !["core"] = ipc["core"]] /\ ipc["core"] \in {"INITIAL", "R", "S"}
  BY <1>1 DEF IInv, TypeOK, IpcTypeOK, Sides
<1> QED BY <1>1, <1>2, CoreExited DEF Exits

(* So does a read that fails.                                              *)
LEMMA CoreReceiveFailsInv ==
  ASSUME IInv, NEW why, CoreReceiveFails(why), late' \in BOOLEAN
  PROVE  IInv'
<1>1. host' = host /\ Alive /\ ipc' = ipc /\ Exits(TRUE) /\ queue' = queue
  BY DEF CoreReceiveFails, Alive
<1>2. ipc' = [ipc EXCEPT !["core"] = ipc["core"]] /\ ipc["core"] \in {"INITIAL", "R", "S"}
  BY <1>1 DEF IInv, TypeOK, IpcTypeOK, Sides
<1> QED BY <1>1, <1>2, CoreExited DEF Exits

(* A send of the core that fails: what it has still to send is dropped.    *)
LEMMA CoreSendFailsInv ==
  ASSUME IInv, NEW why, why => todo["core"] # <<>>, CoreSendFails(why), late' \in BOOLEAN
  PROVE  IInv'
<1> DEFINE t == todo["core"]
           m == Head(t)
           q == queue["host"]
<1>1. /\ t # <<>> /\ queue' = queue /\ host' = host
      /\ ipc' = [ipc EXCEPT !["core"] = AfterFailedSend("core")]
  BY DEF CoreSendFails
<1>2. /\ AfterFailedSend("core") = (IF m = "TOKEN" THEN "R" ELSE "S") /\ ipc["core"] = "S"
      /\ core.pc \in {"run", "commands", "score", "rebooted", "request"} /\ Alive
  BY <1>1 DEF AfterFailedSend, IInv, CoreSide, TypeOK, CoreType, Alive, Loading
<1>3. /\ t \in Seq(FromCore) /\ q \in Seq(FromCore) /\ ToHost = q \o t
  BY Types DEF IInv, TypeOK, ToHost
<1>4. CASE Forgotten(m)
  <2>1. /\ UNCHANGED <<core, open>> /\ todo' = [todo EXCEPT !["core"] = <<>>]
    BY <1>4 DEF CoreSendFails, CoreSending
  <2>2. core.pc = "run"
    <3>1. \A M : All(t, M) => m \in M
      BY <1>1, <1>3, TailKeeps
    <3> QED BY <1>2, <1>4, <3>1 DEF IInv, CoreSide, Forgotten
  <2>3. /\ todo'["core"] = <<>> /\ todo'["host"] = todo["host"] /\ ipc'["core"] = "S" /\ ipc'["host"] = ipc["host"]
        /\ ipc' = ipc /\ ToCore' = ToCore /\ ToHost' = q /\ Alive' = Alive /\ ~CoreWaits'
    <3>1. q \o <<>> = q
      BY <1>3
    <3>2. todo'["core"] = <<>> /\ todo'["host"] = todo["host"]
      BY <2>1 DEF IInv, Shape, Sides
    <3>3. m # "TOKEN"
      BY <1>4 DEF Forgotten
    <3> QED BY <1>1, <1>2, <2>1, <2>2, <3>1, <3>2, <3>3
         DEF IInv, TypeOK, IpcTypeOK, Sides, ToCore, ToHost, Alive, CoreWaits
  <2>4. /\ Lacks(q, Turns) /\ OnlyLast(q, Turns) /\ ~EndsIn(q, Turns)
        /\ \A M : All(ToHost, M) => All(q, M)
        /\ \A M : Lacks(ToHost, M) => Lacks(q, M)
        /\ ToHost # <<>>
    <3>1. OnlyLast(ToHost, Turns)
      BY DEF IInv, Wire
    <3>2. Lacks(q, Turns)
      BY <1>1, <1>3, <3>1, CatKeeps
    <3> QED BY <1>1, <1>3, <3>2, CatKeeps, LastOrNone
  <2> HIDE DEF q, t, m
  <2>5. TypeOK' /\ Shape'
    <3>1. <<>> \in Seq(FromCore) /\ <<>> \in Seq(FromHost \cup FromCore)
      OBVIOUS
    <3>2. Shape'
      BY <1>1, <2>1, <3>1 DEF IInv, Shape, Sides
    <3>3. IpcTypeOK'
      BY <1>1, <2>1, <2>3, <3>1, OtherSide DEF IInv, TypeOK, IpcTypeOK, From, Sides
    <3> QED BY <1>1, <2>1, <3>2, <3>3 DEF IInv, TypeOK
  <2>6. HostSide'
    BY <1>1, <2>1, <2>3, SameHost DEF IInv
  <2>7. CoreSide'
    BY <2>1, <2>2, <2>3, Empty DEF IInv, CoreSide, Requested, Loading
  <2>8. Wire'
    BY <1>1, <2>1, <2>2, <2>3, <2>4 DEF IInv, Wire, ServedAll, Requested
  <2>9. Starts'
    BY <1>1, <1>2, <2>1, <2>2, <2>3, <2>4 DEF IInv, Starts, Ready, Loading
  <2>10. Plays'
    BY <1>1, <2>1, <2>2, <2>3, <2>4 DEF IInv, Plays, InSong
  <2>11. Stops'
    BY <1>1, <2>1, <2>2, <2>3, <2>4 DEF IInv, Stops, Requested
  <2> QED BY <2>5, <2>6, <2>7, <2>8, <2>9, <2>10, <2>11 DEF IInv
<1>5. CASE ~Forgotten(m)
  <2>1. Exits(ClosesIpc(m))
    BY <1>5 DEF CoreSendFails
  <2>2. ClosesIpc(m) \in BOOLEAN /\ AfterFailedSend("core") \in {"INITIAL", "R", "S"}
    BY DEF ClosesIpc, AfterFailedSend
  <2> QED BY <1>1, <1>2, <2>1, <2>2, CoreExited DEF Exits
<1> QED BY <1>4, <1>5

-----------------------------------------------------------------------------
(* The core emulates in S state and starts to send: nothing is on the way   *)
(* to it, and the host waits.                                               *)
LEMMA CoreSpeaks ==
  ASSUME IInv, UNCHANGED <<open, queue, ipc, host, late>>, core.pc = "run", todo["core"] = <<>>,
         core' \in CoreType, Alive', NEW new \in Seq(FromCore), new # <<>>,
         todo' = [todo EXCEPT !["core"] = new],
         OnlyLast(new, Turns), CoreWaits' => EndsIn(new, Turns)
  PROVE  /\ TypeOK' /\ Shape' /\ HostSide' /\ Wire' /\ ipc["core"] = "S" /\ ToCore = <<>> /\ ToCore' = <<>>
         /\ todo'["host"] = todo["host"] /\ todo'["core"] = new /\ Alive
         /\ ToHost \in Seq(FromCore) /\ ToHost' = ToHost \o new /\ ToHost' # <<>>
         /\ host.pc \notin {"none", "ack", "acktoken", "canttoken"} /\ ~Ready /\ ~Ready'
         /\ \A M : All(ToHost', M) <=> All(ToHost, M) /\ All(new, M)
         /\ \A M : Lacks(ToHost', M) <=> Lacks(ToHost, M) /\ Lacks(new, M)
         /\ ~(host.pc = "serve" /\ todo["host"] # <<>>)
<1>1. /\ Alive /\ ipc["core"] = "S" /\ ToCore = <<>> /\ (ipc["host"] = "R" \/ ServedAll)
  BY DEF IInv, CoreSide, Wire, Alive
<1>2. todo'["host"] = todo["host"] /\ todo'["core"] = new /\ ToCore' = ToCore /\ ServedAll' = ServedAll
  BY DEF IInv, Shape, Sides, ToCore, ServedAll
<1>3. /\ ToHost \in Seq(FromCore) /\ ToHost' = ToHost \o new
  <2>1. ToHost \in Seq(FromCore) /\ queue["host"] \in Seq(FromCore)
    BY Types DEF IInv, TypeOK
  <2>2. queue["host"] \o <<>> = queue["host"]
    BY <2>1
  <2> QED BY <1>2, <2>1, <2>2 DEF ToHost
<1>4. Lacks(ToHost, Turns)
  BY <1>1, <1>3, LastOrNone DEF IInv, Wire
<1>5. /\ OnlyLast(ToHost', Turns) /\ (CoreWaits' => EndsIn(ToHost', Turns)) /\ ToHost' # <<>>
      /\ \A M : All(ToHost', M) <=> All(ToHost, M) /\ All(new, M)
      /\ \A M : Lacks(ToHost', M) <=> Lacks(ToHost, M) /\ Lacks(new, M)
  BY <1>3, <1>4, CatKeeps
<1>6. Shape'
  <2>1. new \in Seq(FromHost \cup FromCore)
    BY SeqMonotonic
  <2> QED BY <2>1 DEF IInv, Shape, Sides
<1>7. TypeOK'
  BY <1>2, OtherSide DEF IInv, TypeOK, IpcTypeOK, From, Sides
<1>8. HostSide'
  BY <1>2, SameHost DEF IInv
<1>9. Wire'
  BY <1>1, <1>2, <1>5, Empty DEF Wire
<1>10. /\ host.pc \notin {"none", "ack", "acktoken", "canttoken"} /\ ~Ready /\ ~Ready'
       /\ ~(host.pc = "serve" /\ todo["host"] # <<>>)
  BY <1>1 DEF IInv, Starts, Plays, Ready, Loading, Requested
<1> QED BY <1>1, <1>2, <1>3, <1>5, <1>6, <1>7, <1>8, <1>9, <1>10

(* The Amiga program posts a message, or asks for a file.                  *)
LEMMA PostsInv ==
  ASSUME IInv, NEW m \in {"NAME", "MSG", "SUBSONG_INFO", "SONG_END", "REQUEST"}, Posts(m)
  PROVE  IInv'
<1> DEFINE new == <<m>>
<1>1. /\ core.pc = "run" /\ todo["core"] = <<>> /\ ~core.reboot /\ core.posts < MaxPosts
      /\ todo' = [todo EXCEPT !["core"] = new] /\ UNCHANGED <<open, queue, ipc, host, late>>
      /\ core' = [core EXCEPT !.posts = core.posts + 1, !.pc = IF m = "REQUEST" THEN "request" ELSE core.pc,
                              !.output = core.output \/ m = "SONG_END"]
      /\ core \in CoreType
  BY DEF Posts, Emulates, CoreSending, CoreGoes, IInv, TypeOK
<1>2. /\ core' \in CoreType /\ core'.pc = (IF m = "REQUEST" THEN "request" ELSE "run")
      /\ core'.reboot = core.reboot /\ core'.read_size = core.read_size
  <2>1. (core.output \/ m = "SONG_END") \in BOOLEAN
    OBVIOUS
  <2>2. core.posts + 1 \in 0..MaxPosts
    BY <1>1, PostsAssumption DEF CoreType
  <2>3. (IF m = "REQUEST" THEN "request" ELSE core.pc) \in {"request", "run"}
    BY <1>1
  <2> QED BY <1>1, <2>1, <2>2, <2>3 DEF CoreType
<1>3. /\ new \in Seq(FromCore) /\ new # <<>> /\ OnlyLast(new, Turns)
      /\ \A M : All(new, M) <=> m \in M
      /\ \A M : Lacks(new, M) <=> m \notin M
      /\ \A M : EndsIn(new, M) <=> m \in M
  <2>1. m \in FromCore
    BY DEF FromCore
  <2> QED BY <2>1, One
<1> HIDE DEF new
<1>4. Alive' /\ (CoreWaits' => EndsIn(new, Turns))
  BY <1>2, <1>3 DEF Alive, CoreWaits, Turns
<1>5. /\ TypeOK' /\ Shape' /\ HostSide' /\ Wire' /\ ipc["core"] = "S" /\ ToCore' = <<>>
      /\ todo'["host"] = todo["host"] /\ todo'["core"] = new
      /\ host.pc \notin {"none", "ack", "acktoken", "canttoken"} /\ ~Ready'
      /\ \A M : Lacks(ToHost', M) <=> Lacks(ToHost, M) /\ Lacks(new, M)
      /\ ~(host.pc = "serve" /\ todo["host"] # <<>>)
  BY <1>1, <1>2, <1>3, <1>4, CoreSpeaks
<1>6. CoreSide'
  BY <1>1, <1>2, <1>3, <1>5 DEF IInv, CoreSide, Requested, Loading
<1>7. Starts'
  BY <1>1, <1>2, <1>5 DEF Starts
<1>8. Plays'
  <2>1. InSong => Lacks(ToHost, Answers)
    BY DEF IInv, Plays
  <2>2. Lacks(ToHost, {"REQUEST"})
    BY <1>1 DEF IInv, Plays
  <2> QED BY <1>1, <1>2, <1>3, <1>5, <2>1, <2>2, Empty DEF Plays, InSong, Answers
<1>9. Stops'
  BY <1>1 DEF IInv, Stops
<1> QED BY <1>5, <1>6, <1>7, <1>8, <1>9 DEF IInv

(* The logs about the start of the output.                                 *)
LEMMA LogsInv == ASSUME IInv, LogsSlowStart \/ LogsStart PROVE IInv'
<1> DEFINE new == <<"LOGS">>
<1>1. PICK slow \in 1..2 :
        /\ core.pc = "run" /\ todo["core"] = <<>> /\ ~core.reboot
        /\ todo' = [todo EXCEPT !["core"] = new] /\ UNCHANGED <<open, queue, ipc, host, late>>
        /\ core' = [core EXCEPT !.slow = slow]
  BY DEF LogsSlowStart, LogsStart, Emulates, CoreSending, CoreGoes
<1>2. /\ core' \in CoreType /\ core'.pc = "run"
      /\ core'.reboot = core.reboot /\ core'.read_size = core.read_size
  <2>1. slow \in 0..2
    OBVIOUS
  <2> QED BY <1>1, <2>1 DEF IInv, TypeOK, CoreType
<1>3. /\ new \in Seq(FromCore) /\ new # <<>> /\ OnlyLast(new, Turns)
      /\ \A M : All(new, M) <=> "LOGS" \in M
      /\ \A M : Lacks(new, M) <=> "LOGS" \notin M
  <2>1. "LOGS" \in FromCore
    BY DEF FromCore
  <2> QED BY <2>1, One
<1> HIDE DEF new
<1>4. Alive' /\ ~CoreWaits'
  BY <1>2 DEF Alive, CoreWaits
<1>5. /\ TypeOK' /\ Shape' /\ HostSide' /\ Wire' /\ ipc["core"] = "S" /\ ToCore' = <<>>
      /\ todo'["host"] = todo["host"] /\ todo'["core"] = new
      /\ host.pc \notin {"none", "ack", "acktoken", "canttoken"} /\ ~Ready'
      /\ \A M : Lacks(ToHost', M) <=> Lacks(ToHost, M) /\ Lacks(new, M)
      /\ ~(host.pc = "serve" /\ todo["host"] # <<>>)
  BY <1>1, <1>2, <1>3, <1>4, CoreSpeaks
<1>6. CoreSide'
  BY <1>1, <1>2, <1>3, <1>5 DEF IInv, CoreSide, CoreWaits, Requested, Loading
<1>7. Starts'
  BY <1>1, <1>2, <1>5 DEF Starts
<1>8. Plays'
  <2>1. InSong => Lacks(ToHost, Answers)
    BY DEF IInv, Plays
  <2>2. Lacks(ToHost, {"REQUEST"})
    BY <1>1 DEF IInv, Plays
  <2> QED BY <1>1, <1>2, <1>3, <1>5, <2>1, <2>2, Empty DEF Plays, InSong, Answers
<1>9. Stops'
  BY <1>1 DEF IInv, Stops
<1> QED BY <1>5, <1>6, <1>7, <1>8, <1>9 DEF IInv

(* A block of audio and the turn.                                          *)
LEMMA BlockFullInv == ASSUME IInv, BlockFull PROVE IInv'
<1> DEFINE new == <<"DATA", "TOKEN">>
<1>1. /\ core.pc = "run" /\ todo["core"] = <<>> /\ ~core.reboot
      /\ todo' = [todo EXCEPT !["core"] = new] /\ UNCHANGED <<open, queue, ipc, host, late>>
      /\ core' = [core EXCEPT !.pc = "commands"]
  BY DEF BlockFull, Emulates, CoreSending, CoreGoes
<1>2. /\ core' \in CoreType /\ core'.pc = "commands"
      /\ core'.reboot = core.reboot /\ core'.read_size = core.read_size
  BY <1>1 DEF IInv, TypeOK, CoreType
<1>3. /\ new \in Seq(FromCore) /\ new # <<>> /\ OnlyLast(new, Turns) /\ EndsIn(new, Turns)
      /\ \A M : All(new, M) <=> "DATA" \in M /\ "TOKEN" \in M
      /\ \A M : Lacks(new, M) <=> "DATA" \notin M /\ "TOKEN" \notin M
  <2>1. "DATA" \in FromCore \ Turns
    BY DEF FromCore, Turns
  <2> QED BY <2>1, Turned
<1> HIDE DEF new
<1>4. Alive'
  BY <1>2 DEF Alive
<1>5. /\ TypeOK' /\ Shape' /\ HostSide' /\ Wire' /\ ipc["core"] = "S" /\ ToCore' = <<>>
      /\ todo'["host"] = todo["host"] /\ todo'["core"] = new
      /\ host.pc \notin {"none", "ack", "acktoken", "canttoken"} /\ ~Ready'
      /\ \A M : Lacks(ToHost', M) <=> Lacks(ToHost, M) /\ Lacks(new, M)
      /\ ~(host.pc = "serve" /\ todo["host"] # <<>>)
  BY <1>1, <1>2, <1>3, <1>4, CoreSpeaks
<1>6. CoreSide'
  BY <1>1, <1>2, <1>3, <1>5 DEF IInv, CoreSide, CoreWaits, Requested, Loading
<1>7. Starts'
  BY <1>1, <1>2, <1>5 DEF Starts
<1>8. Plays'
  <2>1. InSong => Lacks(ToHost, Answers)
    BY DEF IInv, Plays
  <2>2. Lacks(ToHost, {"REQUEST"})
    BY <1>1 DEF IInv, Plays
  <2> QED BY <1>1, <1>2, <1>3, <1>5, <2>1, <2>2, Empty DEF Plays, InSong, Answers, Begins
<1>9. Stops'
  BY <1>1 DEF IInv, Stops
<1> QED BY <1>5, <1>6, <1>7, <1>8, <1>9 DEF IInv

(* The acknowledgement of a reboot: all a host that stops still waits      *)
(* for.                                                                    *)
LEMMA RebootAckInv == ASSUME IInv, RebootAck PROVE IInv'
<1> DEFINE new == <<"TOKEN">>
<1>1. /\ core.pc = "run" /\ todo["core"] = <<>>
      /\ todo' = [todo EXCEPT !["core"] = new] /\ UNCHANGED <<open, queue, ipc, host, late>>
      /\ core' = [core EXCEPT !.pc = "rebooted"]
  BY DEF RebootAck, CoreSending, CoreGoes
<1>2. core' \in CoreType /\ core'.pc = "rebooted"
  BY <1>1 DEF IInv, TypeOK, CoreType
<1>3. /\ new \in Seq(FromCore) /\ new # <<>> /\ OnlyLast(new, Turns)
      /\ \A M : All(new, M) <=> "TOKEN" \in M
      /\ \A M : Lacks(new, M) <=> "TOKEN" \notin M
      /\ \A M : EndsIn(new, M) <=> "TOKEN" \in M
  <2>1. "TOKEN" \in FromCore
    BY DEF FromCore
  <2> QED BY <2>1, One
<1> HIDE DEF new
<1>4. Alive' /\ EndsIn(new, Turns)
  BY <1>2, <1>3 DEF Alive, Turns
<1>5. /\ TypeOK' /\ Shape' /\ HostSide' /\ Wire' /\ ipc["core"] = "S" /\ ToCore' = <<>>
      /\ todo'["host"] = todo["host"] /\ todo'["core"] = new
      /\ host.pc \notin {"none", "ack", "acktoken", "canttoken"} /\ ~Ready'
      /\ \A M : All(ToHost', M) <=> All(ToHost, M) /\ All(new, M)
      /\ \A M : Lacks(ToHost', M) <=> Lacks(ToHost, M) /\ Lacks(new, M)
      /\ ~(host.pc = "serve" /\ todo["host"] # <<>>)
  BY <1>1, <1>2, <1>3, <1>4, CoreSpeaks
<1>6. CoreSide'
  BY <1>1, <1>2, <1>3, <1>5 DEF IInv, CoreSide, CoreWaits, Requested, Loading
<1>7. Starts'
  BY <1>1, <1>2, <1>5 DEF Starts
<1>8. Plays'
  <2>1. InSong => Lacks(ToHost, Answers)
    BY DEF IInv, Plays
  <2>2. Lacks(ToHost, {"REQUEST"})
    BY <1>1 DEF IInv, Plays
  <2> QED BY <1>1, <1>2, <1>3, <1>5, <2>1, <2>2, Empty DEF Plays, InSong, Answers
<1>9. Stops'
  BY <1>1, <1>2, <1>3, <1>5 DEF IInv, Stops, Requested
<1> QED BY <1>5, <1>6, <1>7, <1>8, <1>9 DEF IInv

(* The core's next message goes out.                                        *)
LEMMA CoreSendsInv == ASSUME IInv, CoreSends PROVE IInv'
<1> DEFINE t == todo["core"]
           m == Head(t)
<1>1. /\ SendsOne("core") /\ UNCHANGED <<host, late>> /\ core \in CoreType
      /\ core' = [core EXCEPT !.read_size = IF m = "DATA" THEN 0 ELSE core.read_size]
  BY DEF CoreSends, CoreGoes, IInv, TypeOK
<1>2. /\ IpcTypeOK' /\ Shape' /\ ToCore' = ToCore /\ ToHost' = ToHost
      /\ todo'["host"] = todo["host"] /\ todo'["core"] = Tail(t)
      /\ t # <<>> /\ ipc["core"] # "R" /\ open' = open /\ ipc'["host"] = ipc["host"]
      /\ ipc'["core"] = IF m \in Turns THEN "R" ELSE "S"
  BY <1>1, CoreSent DEF IInv, TypeOK
<1>3. /\ core' \in CoreType /\ core'.pc = core.pc /\ core'.reboot = core.reboot
      /\ m # "DATA" => core' = core
  <2>1. CASE m = "DATA"
    BY <1>1, <2>1 DEF CoreType
  <2>2. CASE m # "DATA"
    BY <1>1, <2>2 DEF CoreType
  <2> QED BY <2>1, <2>2
<1>4. TypeOK' /\ HostSide' /\ Alive' = Alive /\ CoreWaits' = CoreWaits
  BY <1>1, <1>2, <1>3, SameHost DEF IInv, TypeOK, Alive, CoreWaits
<1>5. /\ t \in Seq(FromCore) /\ queue["host"] \in Seq(FromCore) /\ ToHost = queue["host"] \o t
  BY <1>2, Types DEF IInv, TypeOK, ToHost
<1>6. /\ \A M : All(t, M) => All(Tail(t), M) /\ m \in M
      /\ \A M : EndsIn(t, M) /\ Tail(t) = <<>> => m \in M
      /\ \A M : OnlyLast(t, M) /\ m \in M => Tail(t) = <<>>
      /\ \A M : EndsIn(ToHost, M) => EndsIn(t, M)
      /\ OnlyLast(t, Turns) /\ ToHost # <<>>
  <2>1. OnlyLast(ToHost, Turns) /\ m = Head(t)
    BY DEF IInv, Wire
  <2> HIDE DEF t, m
  <2>2. OnlyLast(t, Turns) /\ ToHost # <<>>
    BY <1>2, <1>5, <2>1, CatKeeps
  <2>3. \A M : EndsIn(ToHost, M) => EndsIn(t, M)
    BY <1>2, <1>5, CatKeeps
  <2>4. /\ \A M : All(t, M) => All(Tail(t), M) /\ m \in M
        /\ \A M : EndsIn(t, M) /\ Tail(t) = <<>> => m \in M
        /\ \A M : OnlyLast(t, M) /\ m \in M => Tail(t) = <<>>
    BY <1>2, <1>5, <2>1, TailKeeps
  <2> QED BY <2>2, <2>3, <2>4
<1> HIDE DEF t, m
<1>7. ToCore = <<>>
  BY <1>6 DEF IInv, Wire
<1>8. /\ Tail(t) # <<>> => m \notin Turns
      /\ Tail(t) = <<>> /\ EndsIn(ToHost, Turns) => m \in Turns
  BY <1>6
<1>9. ipc["core"] = "S" /\ core.pc \in {"run", "commands", "score", "rebooted", "request"}
  BY <1>2 DEF IInv, TypeOK, CoreSide, CoreType, Loading, t
<1>10. CoreSide'
  <2>1. CoreWaits => EndsIn(ToHost, Turns)
    BY <1>6 DEF IInv, Wire
  <2>2. core.pc = "run" => m \notin Turns /\ m # "DATA"
    BY <1>6 DEF IInv, CoreSide, Turns, t
  <2>3. core.pc = "request" => m # "DATA"
    BY <1>6 DEF IInv, CoreSide, t
  <2> QED BY <1>2, <1>3, <1>4, <1>6, <1>8, <1>9, <2>1, <2>2, <2>3 DEF IInv, CoreSide, Requested, Loading, t
<1>11. Wire'
  BY <1>1, <1>2, <1>3, <1>4, <1>7, <1>8, <1>9, Empty DEF IInv, Wire, ServedAll
<1>12. Starts'
  BY <1>1, <1>2, <1>3, <1>4 DEF IInv, Starts, Ready
<1>13. Plays'
  BY <1>1, <1>2, <1>3, <1>4, <1>7 DEF IInv, Plays, InSong, Begins
<1>14. Stops'
  BY <1>1, <1>2, <1>3, <1>4 DEF IInv, Stops
<1> QED BY <1>2, <1>4, <1>10, <1>11, <1>12, <1>13, <1>14 DEF IInv

(* The output starts: nothing is sent.                                     *)
LEMMA StartsOutputInv == ASSUME IInv, StartsOutput PROVE IInv'
<1>1. /\ core' = [core EXCEPT !.output = TRUE] /\ UNCHANGED <<open, queue, ipc, todo, host, late>>
  BY DEF StartsOutput, CoreGoes, ipcvars
<1>2. /\ core' \in CoreType /\ core'.pc = core.pc /\ core'.reboot = core.reboot
      /\ core'.read_size = core.read_size /\ ToCore' = ToCore /\ ToHost' = ToHost
      /\ Alive' = Alive /\ CoreWaits' = CoreWaits
  BY <1>1 DEF IInv, TypeOK, CoreType, ToCore, ToHost, Alive, CoreWaits
<1>3. TypeOK' /\ Shape' /\ HostSide'
  BY <1>1, <1>2, SameHost DEF IInv, TypeOK, IpcTypeOK, Shape
<1>4. CoreSide' /\ Wire'
  BY <1>1, <1>2 DEF IInv, CoreSide, Wire, ServedAll
<1>5. Starts' /\ Plays' /\ Stops'
  BY <1>1, <1>2 DEF IInv, Starts, Plays, Stops, Ready, InSong
<1> QED BY <1>3, <1>4, <1>5 DEF IInv


-----------------------------------------------------------------------------
(* Before the first state is created nothing is on the way.                *)
LEMMA InitInv == Init => IInv
<1> SUFFICES ASSUME Init PROVE IInv
  OBVIOUS
<1>1. /\ queue["host"] = <<>> /\ queue["core"] = <<>> /\ todo["host"] = <<>> /\ todo["core"] = <<>>
      /\ host.pc = "none" /\ core.pc = "none" /\ host.song = "INVALID"
      /\ ipc["host"] = "INITIAL" /\ ipc["core"] = "INITIAL"
  BY DEF Init, IpcInit, NoHost, NewCore, Sides
<1>2. ToCore = <<>> /\ ToHost = <<>>
  <2>1. <<>> \o <<>> = <<>>
    OBVIOUS
  <2> QED BY <1>1, <2>1 DEF ToCore, ToHost
<1>3. TypeOK
  <2>1. Level(<<>>) = 0 /\ <<>> \in Seq(FromHost) /\ <<>> \in Seq(FromCore)
    BY FS_EmptySet DEF Level
  <2>2. IpcTypeOK
    BY <1>1, <2>1, OtherSide, RoomAssumption DEF Init, IpcInit, IpcTypeOK, From, Sides
  <2>3. 0 \in 0..2 /\ 0 \in 0..MaxPosts
    BY PostsAssumption
  <2> QED BY <2>2, <2>3 DEF Init, TypeOK, NoHost, NewCore, HostType, CoreType
<1>4. Shape
  BY DEF Init, IpcInit, Shape, Sides
<1>5. HostSide /\ CoreSide
  BY <1>1 DEF HostSide, CoreSide, CoreWaits, Requested
<1>6. Wire /\ Starts
  BY <1>1, <1>2, Empty DEF Wire, Starts, Ready, Alive, CoreWaits, Requested
<1>7. Plays /\ Stops
  BY <1>1, <1>2, Empty DEF Plays, Stops, InSong
<1> QED BY <1>3, <1>4, <1>5, <1>6, <1>7 DEF IInv

(* Every call of the host begins in a state of the invariant.              *)
LEMMA CallerInv == ASSUME IInv, Caller PROVE IInv'
<1>1. ASSUME uade_new_state PROVE IInv'
  BY <1>1, uade_new_stateInv
<1>2. ASSUME uade_read PROVE IInv'
  BY <1>2, uade_readInv
<1>3. ASSUME uade_seek PROVE IInv'
  BY <1>3, uade_seekInv
<1>4. ASSUME uade_set_filter_state PROVE IInv'
  BY <1>4, uade_set_filter_stateInv
<1>5. ASSUME uade_stop PROVE IInv'
  BY <1>5, uade_stopInv
<1>6. ASSUME uade_cleanup_state PROVE IInv'
  BY <1>6, uade_cleanup_stateInv
<1>7. ASSUME NEW module \in {<<"FILE", "FILE_DATA">>, <<"NOFILE">>}, NEW subsong \in BOOLEAN,
             uade_play(module, subsong)
      PROVE  IInv'
  BY <1>7, uade_playInv
<1> QED BY <1>1, <1>2, <1>3, <1>4, <1>5, <1>6, <1>7 DEF Caller

(* Every step of a call, as it succeeds or fails.                          *)
LEMMA HostStepInv == ASSUME IInv, HostStep PROVE IInv'
<1>1. ASSUME NEW m \in FromCore, SongAck(m) PROVE IInv'
  BY <1>1, SongAckInv
<1>2. ASSUME NEW m \in FromCore, SongAckToken(m) PROVE IInv'
  BY <1>2, SongAckTokenInv
<1>3. ASSUME NEW m \in FromCore, Flush(m) PROVE IInv'
  BY <1>3, FlushInv
<1>4. ASSUME EventSongEnd \/ EventData \/ EventSkipped \/ (\E m \in OtherEvents : EventOther(m)) PROVE IInv'
  BY <1>4, EventsInv
<1>5. ASSUME SongInitialized PROVE IInv'
  BY <1>5, SongInitializedInv
<1>6. ASSUME EventReady PROVE IInv'
  BY <1>6, EventReadyInv
<1>7. ASSUME EventRequestFile PROVE IInv'
  BY <1>7, EventRequestFileInv
<1>8. ASSUME FileServed PROVE IInv'
  BY <1>8, FileServedInv
<1>9. ASSUME Reboots PROVE IInv'
  BY <1>9, RebootsInv
<1>10. ASSUME Stopped PROVE IInv'
  BY <1>10, StoppedInv
<1>11. ASSUME ClosesChannel PROVE IInv'
  BY <1>11, ClosesChannelInv
<1>12. ASSUME Joined PROVE IInv'
  BY <1>12, JoinedInv
<1>13. ASSUME HostSends PROVE IInv'
  BY <1>13, HostSendsInv
<1>14. ASSUME HostSendFails(CannotSend("host")), UNCHANGED late PROVE IInv'
  <2>1. late' \in BOOLEAN /\ (CannotSend("host") => todo["host"] # <<>>)
    BY <1>14 DEF IInv, TypeOK, CannotSend
  <2> QED BY <1>14, <2>1, HostSendFailsInv
<1>15. ASSUME HostReceiveFails(CannotReceive("host")), UNCHANGED late PROVE IInv'
  <2>1. late' \in BOOLEAN /\ (CannotReceive("host") => todo["host"] = <<>>)
    BY <1>15 DEF IInv, TypeOK, CannotReceive
  <2> QED BY <1>15, <2>1, HostReceiveFailsInv
<1> QED BY <1>1, <1>2, <1>3, <1>4, <1>5, <1>6, <1>7, <1>8, <1>9, <1>10, <1>11, <1>12, <1>13, <1>14, <1>15
        DEF HostStep

(* Every step of the core's thread and of the program it emulates.         *)
LEMMA CoreStepInv == ASSUME IInv, CoreStep \/ AmigaPosts \/ StartsOutput PROVE IInv'
<1>1. ASSUME NEW m \in FromHost, CoreLoads(m) PROVE IInv'
  BY <1>1, CoreLoadsInv
<1>2. ASSUME NEW m \in FromHost, CoreCommand(m) PROVE IInv'
  BY <1>2, CoreCommandInv
<1>3. ASSUME ConfigUnreadable \/ (\E m \in FromHost : CoreRejects(m)) PROVE IInv'
  BY <1>3, CoreEndsInv
<1>4. ASSUME NEW m \in FromHost, FileReceived(m) PROVE IInv'
  BY <1>4, FileReceivedInv
<1>5. ASSUME CoreStarts PROVE IInv'
  BY <1>5, CoreStartsInv
<1>6. ASSUME LogsSlowStart \/ LogsStart PROVE IInv'
  BY <1>6, LogsInv
<1>7. ASSUME BlockFull PROVE IInv'
  BY <1>7, BlockFullInv
<1>8. ASSUME RebootAck PROVE IInv'
  BY <1>8, RebootAckInv
<1>9. ASSUME CoreSends PROVE IInv'
  BY <1>9, CoreSendsInv
<1>10. ASSUME CoreSendFails(CannotSend("core")), UNCHANGED late PROVE IInv'
  <2>1. late' \in BOOLEAN /\ (CannotSend("core") => todo["core"] # <<>>)
    BY <1>10 DEF IInv, TypeOK, CannotSend
  <2> QED BY <1>10, <2>1, CoreSendFailsInv
<1>11. ASSUME CoreReceiveFails(CannotReceive("core")), UNCHANGED late PROVE IInv'
  <2>1. late' \in BOOLEAN
    BY <1>11 DEF IInv, TypeOK
  <2> QED BY <1>11, <2>1, CoreReceiveFailsInv
<1>12. ASSUME AmigaPosts PROVE IInv'
  BY <1>12, PostsInv DEF AmigaPosts
<1>13. ASSUME StartsOutput PROVE IInv'
  BY <1>13, StartsOutputInv
<1> QED BY <1>1, <1>2, <1>3, <1>4, <1>5, <1>6, <1>7, <1>8, <1>9, <1>10, <1>11, <1>12, <1>13 DEF CoreStep

(* A timeout is a failure that comes late.                                  *)
LEMMA TimesOutInv == ASSUME IInv, HostTimesOut \/ CoreTimesOut PROVE IInv'
<1>1. late' \in BOOLEAN /\ (StaysFull("host") => todo["host"] # <<>>)
      /\ (StaysFull("core") => todo["core"] # <<>>) /\ (StaysEmpty("host") => todo["host"] = <<>>)
  BY DEF HostTimesOut, CoreTimesOut, StaysFull, StaysEmpty
<1>2. ASSUME HostSendFails(StaysFull("host")) PROVE IInv'
  BY <1>1, <1>2, HostSendFailsInv
<1>3. ASSUME HostReceiveFails(StaysEmpty("host")) PROVE IInv'
  BY <1>1, <1>3, HostReceiveFailsInv
<1>4. ASSUME CoreSendFails(StaysFull("core")) PROVE IInv'
  BY <1>1, <1>4, CoreSendFailsInv
<1>5. ASSUME CoreReceiveFails(StaysEmpty("core")) PROVE IInv'
  BY <1>1, <1>5, CoreReceiveFailsInv
<1> QED BY <1>2, <1>3, <1>4, <1>5 DEF HostTimesOut, CoreTimesOut

(* The invariant is inductive.                                             *)
LEMMA NextInv == IInv /\ [Next]_vars => IInv'
<1> SUFFICES ASSUME IInv, [Next]_vars PROVE IInv'
  OBVIOUS
<1>1. ASSUME UNCHANGED vars PROVE IInv'
  <2>1. /\ TypeOK' /\ Shape' /\ HostSide' /\ CoreSide'
        /\ ToCore' = ToCore /\ ToHost' = ToHost /\ core' = core /\ host' = host /\ todo' = todo /\ ipc' = ipc
    BY <1>1 DEF vars, IInv, TypeOK, IpcTypeOK, Shape, HostSide, CoreSide, CoreWaits, ToCore, ToHost
  <2>2. Wire' /\ Starts' /\ Plays' /\ Stops'
    BY <2>1 DEF IInv, Wire, Starts, Plays, Stops, CoreWaits, Alive, ServedAll, Ready, InSong
  <2> QED BY <2>1, <2>2 DEF IInv
<1> QED BY <1>1, CallerInv, HostStepInv, CoreStepInv, TimesOutInv DEF Next

(* In every state the two threads can reach, for any room of the ring and  *)
(* any number of messages posted, IInv holds: what is on the way fits      *)
(* what the side that reads it waits for.                                  *)
THEOREM Invariance == Spec => []IInv
BY InitInv, NextInv, PTL DEF Spec

(* Every variable has its type; no ring is filled beyond its room,         *)
(* whichever messages SendsOne() lets in, and a file is served only on     *)
(* behalf of a call (TypeOK).                                              *)
THEOREM TypeCorrect == Spec => []TypeOK
<1>1. IInv => TypeOK
  BY DEF IInv
<1> QED BY <1>1, Invariance, PTL

(* uadechannel.c: "The protocol is a strict token ping-pong, so only one   *)
(* side is ever sending". It holds through failed sends, timeouts and      *)
(* ends of the core too.                                                   *)
THEOREM OneSideAtATime == Spec => []OneSideSends
<1>1. IInv => OneSideSends
  <2> SUFFICES ASSUME IInv PROVE OneSideSends
    OBVIOUS
  <2>1. /\ queue["host"] \in Seq(FromCore) /\ todo["core"] \in Seq(FromCore)
        /\ queue["core"] \in Seq(FromHost) /\ todo["host"] \in Seq(FromHost)
    BY Types DEF IInv, TypeOK
  <2>2. ToCore = <<>> => queue["core"] = <<>> /\ todo["host"] = <<>>
    BY <2>1, CatKeeps DEF ToCore
  <2>3. ToHost = <<>> => queue["host"] = <<>> /\ todo["core"] = <<>>
    BY <2>1, CatKeeps DEF ToHost
  <2> QED BY <2>2, <2>3, OtherSide DEF IInv, Wire, OneSideSends, Sides
<1> QED BY <1>1, Invariance, PTL

(* The protocol states uade_receive_message(), uade_send_message() and     *)
(* the callers check: no call makes the "protocol error" happen, and the   *)
(* core emulates only with a request to fill.                              *)
THEOREM StatesAreRespected == Spec => []StatesRespected
<1>1. IInv => StatesRespected
  BY DEF IInv, TypeOK, CoreType, HostSide, CoreSide, StatesRespected, HostWaits, CoreWaits, Idle, Emulates, Sides, Loading, Requested
<1> QED BY <1>1, Invariance, PTL

(* After uade_stop() the next uade_play() starts from a clean channel:     *)
(* nothing of the last song is received as the next one's.                 *)
THEOREM NextSongStarts == Spec => []ReadyForNext
<1>1. IInv => ReadyForNext
  <2> SUFFICES ASSUME IInv PROVE ReadyForNext
    OBVIOUS
  <2>1. queue["host"] \in Seq(FromCore) /\ todo["core"] \in Seq(FromCore)
    BY Types DEF IInv, TypeOK
  <2>2. ToHost = <<>> => queue["host"] = <<>>
    BY <2>1, CatKeeps DEF ToHost
  <2> QED BY <2>2 DEF IInv, Starts, ReadyForNext, Ready, Idle
<1> QED BY <1>1, Invariance, PTL

(* uade_song_initialization() and uade_get_event() never take one kind of  *)
(* message for another, timeouts or not: the host's half of                *)
(* MessagesUnderstood.                                                     *)
THEOREM AnswersUnderstood == Spec => []HostUnderstands
<1>1. IInv => HostUnderstands
  <2> SUFFICES ASSUME IInv, NEW m \in FromCore, Arrives("host", m)
               PROVE  CASE host.pc = "ack" -> m \in {"CAN_PLAY", "CANT_PLAY"}
                        [] host.pc \in {"acktoken", "canttoken"} -> m = "TOKEN"
                        [] host.pc = "event" -> m \notin {"CAN_PLAY", "CANT_PLAY"}
                        [] OTHER -> TRUE
    BY DEF HostUnderstands
  <2> DEFINE q == queue["host"]
             t == todo["core"]
  <2>1. q \in Seq(FromCore) /\ t \in Seq(FromCore) /\ q # <<>> /\ m = Head(q) /\ ToHost = q \o t
    BY Types DEF Arrives, IInv, TypeOK, ToHost
  <2> HIDE DEF q, t
  <2>2. m = Head(ToHost) /\ ToHost # <<>> /\ ToHost \in Seq(FromCore)
    BY <2>1, CatKeeps
  <2>3. host.pc = "ack" => m \in {"CAN_PLAY", "CANT_PLAY"}
    BY <2>2 DEF IInv, Starts
  <2>4. host.pc \in {"acktoken", "canttoken"} => m = "TOKEN"
    <3>1. All(ToHost, {"TOKEN"}) => m \in {"TOKEN"}
      BY <2>2, TailKeeps
    <3> QED BY <3>1 DEF IInv, Starts
  <2>5. host.pc = "event" => m \notin {"CAN_PLAY", "CANT_PLAY"}
    <3>1. Lacks(ToHost, Answers) => m \notin Answers
      BY <2>2, TailKeeps
    <3> QED BY <3>1 DEF IInv, Plays, InSong, Answers
  <2> QED BY <2>3, <2>4, <2>5
<1> QED BY <1>1, Invariance, PTL
=============================================================================
