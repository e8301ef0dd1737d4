---------------------------- MODULE UploadProofs -----------------------------
(***************************************************************************)
(* Safety of Upload for any number of modules, songs, connections, uploads *)
(* and disturbances.  The registry's invariant, of RegistryProofs, holds   *)
(* here as well: what Upload adds to the registry's actions are answers,   *)
(* which are lines from the module like any other.                         *)
(***************************************************************************)
EXTENDS Upload, RegistryProofs

Acks    == {"none", "begin", "end"}
Message == {m \in [type : Line, song : Songs, step : 0 .. MAX_SEQUENCE_LENGTH] :
              m.type = "S" => m.step # 0}
Content == Seq(Step \cup {<<NoSong, 1>>})

DriverState   == [song : Songs \cup {NoSong}, next : Nat, current : BOOLEAN, ack : Acks,
                  error : BOOLEAN]
ReceiverState == [uploading : BOOLEAN, id : Songs \cup {NoSong}, length : Nat,
                  steps : Seq(Step)]

ControllerOK ==
  /\ driver \in [Address -> DriverState]
  /\ lastAck \in [Address -> Acks]
  /\ lastError \in [Address -> BOOLEAN]
  /\ shown \in [Address -> Songs \cup {NoSong}]

DeviceOK ==
  /\ down \in [Address -> Seq(Message)]
  /\ mode \in [Address -> {"idle", "recording", "off"}]
  /\ receiver \in [Address -> ReceiverState]
  /\ stored \in [Address -> Content]

HistoryOK ==
  /\ taken \in [Address -> BOOLEAN]
  /\ calm \in [Address -> BOOLEAN]
  /\ failures \in [Address -> Nat]

\* Lines are on their way only to a module that is there, and what the receiver counts
\* up to is the length of the song whose upload has begun.
BoundsOK(a) ==
  /\ modules[a].ws <= accepted[a]
  /\ Busy(a) => driver[a].next \in 1 .. LineCount(driver[a].song) + 1
  /\ Len(receiver[a].steps) <= MAX_SEQUENCE_LENGTH
  /\ down[a] # << >> => peer[a] # 0
  /\ receiver[a].uploading => /\ receiver[a].id \in Songs
                              /\ receiver[a].length = Length(receiver[a].id)

TInv ==
  /\ IInv
  /\ ControllerOK /\ DeviceOK /\ HistoryOK
  /\ \A a \in Address : BoundsOK(a)

\* All that an upload to a module depends on.
At(a) == <<modules[a], accepted[a], socket[a], peer[a], up[a], driver[a], lastAck[a],
           lastError[a], down[a], mode[a], receiver[a], stored[a], taken[a], calm[a],
           failures[a]>>

-----------------------------------------------------------------------------
(* Operators *)

LEMMA SongFacts ==
  ASSUME NEW song \in Songs
  PROVE  /\ song # NoSong
         /\ Length(song) \in Nat /\ 1 <= Length(song) /\ Length(song) <= MAX_SEQUENCE_LENGTH
         /\ LineCount(song) = Length(song) + 2
BY UploadAssumption DEF LineCount

\* The lines of a song: a U line, as many S lines as it has steps, an E line.
LEMMA LineFacts ==
  ASSUME NEW song \in Songs, NEW n \in 1 .. LineCount(song)
  PROVE  /\ LineOf(song, n) \in Message
         /\ LineOf(song, n).song = song
         /\ LineOf(song, n).type = "U" <=> n = 1
         /\ LineOf(song, n).type = "E" <=> n = LineCount(song)
         /\ LineOf(song, n).type = "S" => LineOf(song, n).step = n - 1
<1>1. /\ Length(song) \in Nat /\ 1 <= Length(song) /\ Length(song) <= MAX_SEQUENCE_LENGTH
      /\ LineCount(song) = Length(song) + 2 /\ MAX_SEQUENCE_LENGTH \in Nat
  BY SongFacts, UploadAssumption
<1>2. {"U", "S", "E"} = Line
  BY DEF Line
<1>3. CASE n = 1
  <2>1. LineOf(song, n) = [type |-> "U", song |-> song, step |-> 0]
    BY <1>1, <1>3 DEF LineOf
  <2>2. QED
    BY <1>1, <1>2, <1>3, <2>1 DEF Message
<1>4. CASE n > 1 /\ n <= Length(song) + 1
  <2>1. LineOf(song, n) = [type |-> "S", song |-> song, step |-> n - 1]
    BY <1>1, <1>4 DEF LineOf
  <2>2. QED
    BY <1>1, <1>2, <1>4, <2>1 DEF Message
<1>5. CASE n = Length(song) + 2
  <2>1. LineOf(song, n) = [type |-> "E", song |-> song, step |-> 0]
    BY <1>1, <1>5 DEF LineOf
  <2>2. QED
    BY <1>1, <1>2, <1>5, <2>1 DEF Message
<1>6. QED
  BY <1>1, <1>3, <1>4, <1>5

\* Queues of either direction: what follows when their head is taken or all is dropped,
\* and when a line is added.
LEMMA TailFacts ==
  ASSUME NEW S, NEW s \in Seq(S), s # << >>
  PROVE  /\ Len(s) \in Nat \ {0} /\ Head(s) = s[1] /\ Head(s) \in S
         /\ Tail(s) \in Seq(S) /\ Len(Tail(s)) = Len(s) - 1
         /\ \A i \in 1 .. Len(s) - 1 : Tail(s)[i] = s[i + 1] /\ i + 1 \in 1 .. Len(s)
OBVIOUS

LEMMA TailRest ==
  ASSUME NEW S, NEW s \in Seq(S), s # << >>
  PROVE  \A i \in 1 .. Len(Tail(s)) : \E j \in 1 .. Len(s) :
           Tail(s)[i] = s[j] /\ (j = Len(s) => i = Len(Tail(s)))
<1> SUFFICES ASSUME NEW i \in 1 .. Len(Tail(s))
             PROVE  i + 1 \in 1 .. Len(s) /\ Tail(s)[i] = s[i + 1]
                      /\ (i + 1 = Len(s) => i = Len(Tail(s)))
  OBVIOUS
<1>1. QED
  BY TailFacts

LEMMA RestFacts ==
  ASSUME NEW S, NEW s \in Seq(S), NEW t,
         t = s \/ t = << >> \/ (s # << >> /\ t = Tail(s))
  PROVE  /\ t \in Seq(S) /\ Len(t) \in Nat /\ Len(s) \in Nat
         /\ s = << >> => t = << >>
         /\ \A i \in 1 .. Len(t) : \E j \in 1 .. Len(s) :
              t[i] = s[j] /\ (j = Len(s) => i = Len(t))
<1>1. CASE t = s
  BY <1>1
<1>2. CASE t = << >>
  BY <1>2
<1>3. CASE s # << >> /\ t = Tail(s)
  BY <1>3, TailFacts, TailRest
<1>4. QED
  BY <1>1, <1>2, <1>3

LEMMA AppendFacts ==
  ASSUME NEW S, NEW s \in Seq(S), NEW e \in S
  PROVE  /\ Append(s, e) \in Seq(S) /\ Len(s) \in Nat /\ Len(Append(s, e)) = Len(s) + 1
         /\ Append(s, e)[Len(s) + 1] = e
         /\ \A i \in 1 .. Len(s) : Append(s, e)[i] = s[i]
OBVIOUS

LEMMA MessagesFewer ==
  ASSUME NEW s \in Seq(Message), NEW t,
         t = s \/ t = << >> \/ (s # << >> /\ t = Tail(s))
  PROVE  /\ t \in Seq(Message) /\ Len(t) \in Nat /\ Len(s) \in Nat
         /\ s = << >> => t = << >>
         /\ \A i \in 1 .. Len(t) : \E j \in 1 .. Len(s) :
              t[i] = s[j] /\ (j = Len(s) => i = Len(t))
BY RestFacts

LEMMA LinesFewer ==
  ASSUME NEW s \in Seq(FromModule), NEW t,
         t = s \/ t = << >> \/ (s # << >> /\ t = Tail(s))
  PROVE  /\ t \in Seq(FromModule) /\ Len(t) \in Nat /\ Len(s) \in Nat
         /\ s = << >> => t = << >>
         /\ \A i \in 1 .. Len(t) : \E j \in 1 .. Len(s) :
              t[i] = s[j] /\ (j = Len(s) => i = Len(t))
BY RestFacts

LEMMA LineRead ==
  ASSUME NEW s \in Seq(Message), s # << >>
  PROVE  /\ Len(s) \in Nat \ {0} /\ Head(s) = s[1] /\ Head(s) \in Message
         /\ Tail(s) \in Seq(Message) /\ Len(Tail(s)) = Len(s) - 1
         /\ \A i \in 1 .. Len(s) - 1 : Tail(s)[i] = s[i + 1] /\ i + 1 \in 1 .. Len(s)
         /\ Len(s) = 1 => Tail(s) = << >>
OBVIOUS

LEMMA LineSaid ==
  ASSUME NEW s \in Seq(FromModule), NEW line \in FromModule
  PROVE  /\ Append(s, line) \in Seq(FromModule)
         /\ Len(s) \in Nat /\ Len(Append(s, line)) = Len(s) + 1
         /\ Append(s, line)[Len(s) + 1] = line
         /\ \A i \in 1 .. Len(s) : Append(s, line)[i] = s[i]
OBVIOUS

-----------------------------------------------------------------------------
(* Types *)

\* A step that leaves every address but one as it was.
LEMMA OthersKept ==
  ASSUME TInv, NEW a \in Address, IInv', ControllerOK', DeviceOK', HistoryOK', BoundsOK(a)',
         \A b \in Address \ {a} : UNCHANGED At(b)
  PROVE  TInv'
BY DEF TInv, BoundsOK, At, Busy

LEMMA RequestTypes ==
  ASSUME TInv, NEW a \in Address, NEW song \in Songs, RequestUpload(a, song)
  PROVE  TInv' /\ \A b \in Address \ {a} : UNCHANGED At(b)
<1>1. /\ driver' = [driver EXCEPT ![a] = [Idle EXCEPT !.song = song]]
      /\ lastAck' = [lastAck EXCEPT ![a] = "none"]
      /\ lastError' = [lastError EXCEPT ![a] = FALSE]
      /\ taken' = [taken EXCEPT ![a] = FALSE]
      /\ calm' = [calm EXCEPT ![a] = Reachable(a) /\ modules[a].ws = peer[a] /\ mode[a] = "idle"]
      /\ UNCHANGED <<registryVars, shown, down, mode, receiver, stored, failures>>
  BY DEF RequestUpload, ClearedAck, registryVars, registry, network, device
<1>2. IInv'
  BY <1>1, NextOK DEF TInv
<1>3. [Idle EXCEPT !.song = song] \in DriverState
  BY DEF Idle, DriverState, Acks
<1>4. ControllerOK' /\ DeviceOK' /\ HistoryOK'
  BY <1>1, <1>3 DEF TInv, ControllerOK, DeviceOK, HistoryOK, Acks
<1>5. BoundsOK(a)'
  BY <1>1, SongFacts DEF TInv, ControllerOK, BoundsOK, Busy, Idle, registryVars, registry, network
<1>6. \A b \in Address \ {a} : UNCHANGED At(b)
  BY <1>1 DEF TInv, ControllerOK, DeviceOK, HistoryOK, At, registryVars, registry, network
<1>7. QED
  BY <1>2, <1>4, <1>5, <1>6, OthersKept

LEMMA SendTypes ==
  ASSUME TInv, NEW a \in Address, SendLine(a)
  PROVE  TInv' /\ \A b \in Address \ {a} : UNCHANGED At(b)
<1> DEFINE line == LineOf(driver[a].song, driver[a].next)
<1>1. /\ Busy(a) /\ driver[a].next <= LineCount(driver[a].song)
      /\ Reachable(a)
      /\ driver' = [driver EXCEPT ![a].next = @ + 1]
      /\ down' = IF modules[a].ws = peer[a] THEN [down EXCEPT ![a] = Append(@, line)] ELSE down
      /\ UNCHANGED <<registryVars, lastAck, lastError, shown, mode, receiver, stored, taken,
                     calm, failures>>
  BY DEF SendLine, Sending, registryVars, registry, network, device, history, counters
<1>2. IInv'
  BY <1>1, NextOK DEF TInv
<1>3. /\ driver[a] \in DriverState /\ driver[a].song \in Songs
      /\ driver[a].next \in 1 .. LineCount(driver[a].song)
  BY <1>1 DEF TInv, ControllerOK, DriverState, BoundsOK, Busy
<1>4. line \in Message
  BY <1>3, LineFacts
<1> HIDE DEF line
<1>5. down' \in [Address -> Seq(Message)]
  BY <1>1, <1>4 DEF TInv, DeviceOK
<1>6. driver' \in [Address -> DriverState]
  <2>1. driver[a].next + 1 \in Nat
    BY <1>3 DEF DriverState
  <2>2. [driver[a] EXCEPT !.next = @ + 1] \in DriverState
    BY <1>3, <2>1 DEF DriverState
  <2>3. QED
    BY <1>1, <2>2 DEF TInv, ControllerOK
<1>7. ControllerOK' /\ DeviceOK' /\ HistoryOK'
  BY <1>1, <1>5, <1>6 DEF TInv, ControllerOK, DeviceOK, HistoryOK
<1>8. BoundsOK(a)'
  <2>1. driver'[a] = [driver[a] EXCEPT !.next = @ + 1]
    BY <1>1 DEF TInv, ControllerOK
  <2>2. driver'[a].song = driver[a].song /\ driver'[a].next \in 1 .. LineCount(driver[a].song) + 1
    BY <1>3, <2>1, SongFacts DEF DriverState
  <2>3. modules[a].ws = peer[a] => peer[a] # 0
    BY <1>1 DEF Reachable, Open
  <2>4. modules[a].ws # peer[a] => down' = down
    BY <1>1
  <2>5. QED
    BY <1>1, <2>2, <2>3, <2>4 DEF TInv, BoundsOK, Busy, registryVars, registry, network
<1>9. \A b \in Address \ {a} : UNCHANGED At(b)
  BY <1>1 DEF TInv, ControllerOK, DeviceOK, HistoryOK, At, registryVars, registry, network
<1>10. QED
  BY <1>2, <1>7, <1>8, <1>9, OthersKept

\* The driver ends with or without success.
LEMMA EndTypes ==
  ASSUME TInv, NEW a \in Address,
         driver' = [driver EXCEPT ![a] = Idle],
         shown' \in [Address -> Songs \cup {NoSong}], failures' \in [Address -> Nat],
         \A b \in Address \ {a} : failures'[b] = failures[b],
         UNCHANGED <<registryVars, lastAck, lastError, down, mode, receiver, stored, taken, calm>>
  PROVE  TInv' /\ \A b \in Address \ {a} : UNCHANGED At(b)
<1>1. IInv'
  BY NextOK DEF TInv
<1>2. Idle \in DriverState
  BY DEF Idle, DriverState, Acks
<1>3. ControllerOK' /\ DeviceOK' /\ HistoryOK'
  BY <1>2 DEF TInv, ControllerOK, DeviceOK, HistoryOK
<1>4. BoundsOK(a)'
  BY DEF TInv, ControllerOK, BoundsOK, Busy, Idle, registryVars, registry, network
<1>5. \A b \in Address \ {a} : UNCHANGED At(b)
  BY DEF TInv, ControllerOK, At, registryVars, registry, network
<1>6. QED
  BY <1>1, <1>3, <1>4, <1>5, OthersKept

LEMMA DriverEndTypes ==
  ASSUME TInv, NEW a \in Address,
         FinishUpload(a) \/ AbortUpload(a) \/ FailUpload(a) \/ TimeOut(a)
  PROVE  TInv' /\ \A b \in Address \ {a} : UNCHANGED At(b)
<1>1. /\ driver' = [driver EXCEPT ![a] = Idle]
      /\ UNCHANGED <<registryVars, lastAck, lastError, down, mode, receiver, stored, taken, calm>>
  BY DEF FinishUpload, AbortUpload, FailUpload, TimeOut, Failed, registryVars, registry, network,
     device, counters
<1>2. shown' \in [Address -> Songs \cup {NoSong}]
  BY DEF FinishUpload, AbortUpload, FailUpload, TimeOut, Failed, TInv, ControllerOK, DriverState
<1>3. failures' \in [Address -> Nat] /\ \A b \in Address \ {a} : failures'[b] = failures[b]
  <2>1. \/ failures' = [failures EXCEPT ![a] = 0]
        \/ failures' = [failures EXCEPT ![a] = IF calm[a] THEN @ + 1 ELSE 0]
    BY DEF FinishUpload, AbortUpload, FailUpload, TimeOut, Failed
  <2>2. QED
    BY <2>1 DEF TInv, HistoryOK
<1>4. QED
  BY <1>1, <1>2, <1>3, EndTypes

\* What reading the next line does: whether it is the U line of an upload, a step, or the
\* end, and whether the module accepts it.
Ignores(a)  == UNCHANGED <<up, receiver, stored, taken>>
Says(a, kind) == up' = [up EXCEPT ![a][peer[a]] = Append(@, kind)]

Begins(a, m) ==
  /\ m.type = "U" /\ ~receiver[a].uploading /\ mode[a] = "idle"
  /\ receiver' = [receiver EXCEPT ![a] = [uploading |-> TRUE, id |-> m.song,
                                          length |-> Length(m.song), steps |-> << >>]]
  /\ Says(a, "ACK begin")
  /\ UNCHANGED <<stored, taken>>

Collects(a, m) ==
  /\ m.type = "S" /\ receiver[a].uploading /\ Room(receiver[a])
  /\ receiver' = [receiver EXCEPT ![a].steps = Append(@, <<m.song, m.step>>)]
  /\ UNCHANGED <<up, stored, taken>>

Completes(a, m) ==
  /\ m.type = "E" /\ receiver[a].uploading
  /\ receiver' = [receiver EXCEPT ![a].uploading = FALSE]
  /\ m.song = receiver[a].id /\ CountMatches(receiver[a])
  /\ stored' = [stored EXCEPT ![a] = receiver[a].steps]
  /\ taken' = [taken EXCEPT ![a] = TRUE]
  /\ Says(a, "ACK end")

Rejects(a, m) ==
  /\ m.type = "E" /\ receiver[a].uploading
  /\ receiver' = [receiver EXCEPT ![a].uploading = FALSE]
  /\ ~(m.song = receiver[a].id /\ CountMatches(receiver[a]))
  /\ Says(a, "ERR")
  /\ UNCHANGED <<stored, taken>>

\* When a line is ignored.
Deaf(a, m) ==
  \/ mode[a] = "off"
  \/ m.type = "U" /\ (receiver[a].uploading \/ mode[a] = "recording")
  \/ m.type = "S" /\ ~(receiver[a].uploading /\ Room(receiver[a]))
  \/ m.type = "E" /\ ~receiver[a].uploading

LEMMA ReceiveCases ==
  ASSUME TInv, NEW a \in Address, Receive(a)
  PROVE  /\ down[a] # << >> /\ Head(down[a]) \in Message
         /\ peer[a] \in Connection
         /\ down' = [down EXCEPT ![a] = Tail(@)]
         /\ UNCHANGED <<registry, network, robbed, greetings, driver, lastAck, lastError, shown,
                        mode, calm, failures>>
         /\ \/ Deaf(a, Head(down[a])) /\ Ignores(a)
            \/ /\ mode[a] # "off"
               /\ \/ Begins(a, Head(down[a])) \/ Collects(a, Head(down[a]))
                  \/ Completes(a, Head(down[a])) \/ Rejects(a, Head(down[a]))
<1> DEFINE m == Head(down[a])
<1>1. /\ down[a] # << >>
      /\ down' = [down EXCEPT ![a] = Tail(@)]
      /\ UNCHANGED <<registry, network, robbed, greetings, driver, lastAck, lastError, shown,
                     mode, calm, failures>>
  BY DEF Receive, controller, counters
<1>2. m \in Message
  BY <1>1 DEF TInv, DeviceOK
<1>3. peer[a] \in Connection
  BY <1>1, RegistryAssumption DEF TInv, BoundsOK, IInv, TypesOK, NetworkOK, Connection
<1>4. /\ mode[a] \in {"idle", "recording", "off"}
      /\ receiver \in [Address -> ReceiverState]
  BY DEF TInv, DeviceOK
<1>5. \/ mode[a] = "off" /\ Ignores(a)
      \/ /\ mode[a] # "off" /\ m.type = "U"
         /\ IF receiver[a].uploading \/ mode[a] = "recording" THEN Ignores(a) ELSE Begins(a, m)
      \/ /\ mode[a] # "off" /\ m.type = "S"
         /\ IF receiver[a].uploading /\ Room(receiver[a]) THEN Collects(a, m) ELSE Ignores(a)
      \/ /\ mode[a] # "off" /\ m.type = "E"
         /\ IF receiver[a].uploading THEN Completes(a, m) \/ Rejects(a, m) ELSE Ignores(a)
  BY <1>4 DEF Receive, Ignores, Begins, Collects, Completes, Rejects, Says, Freed
<1> HIDE DEF m
<1>6. \/ Deaf(a, m) /\ Ignores(a)
      \/ mode[a] # "off" /\ (Begins(a, m) \/ Collects(a, m) \/ Completes(a, m) \/ Rejects(a, m))
  BY <1>5 DEF Deaf
<1>7. QED
  BY <1>1, <1>2, <1>3, <1>6 DEF m

LEMMA ReceiveTypes ==
  ASSUME TInv, NEW a \in Address, Receive(a)
  PROVE  TInv' /\ \A b \in Address \ {a} : UNCHANGED At(b)
<1> DEFINE m == Head(down[a])
<1>1. /\ down[a] # << >> /\ m \in Message
      /\ peer[a] \in Connection
      /\ down' = [down EXCEPT ![a] = Tail(@)]
      /\ UNCHANGED <<registry, network, robbed, greetings, driver, lastAck, lastError, shown,
                     mode, calm, failures>>
      /\ \/ Deaf(a, m) /\ Ignores(a)
         \/ /\ mode[a] # "off"
            /\ Begins(a, m) \/ Collects(a, m) \/ Completes(a, m) \/ Rejects(a, m)
  BY ReceiveCases
<1> HIDE DEF m
<1>2. /\ down' \in [Address -> Seq(Message)]
      /\ \A b \in Address \ {a} : down'[b] = down[b]
      /\ peer[a] # 0
  BY <1>1, RegistryAssumption DEF TInv, DeviceOK, Connection
<1>3. \/ up' = up
      \/ \E kind \in {"ACK begin", "ACK end", "ERR"} : Says(a, kind)
  BY <1>1 DEF Ignores, Begins, Collects, Completes, Rejects
<1>4. IInv' /\ \A b \in Address \ {a} : up'[b] = up[b]
  <2>1. CASE up' = up
    BY <1>1, <2>1, NextOK DEF TInv, registryVars
  <2>2. ASSUME NEW kind \in {"ACK begin", "ACK end", "ERR"}, Says(a, kind)
        PROVE  IInv' /\ \A b \in Address \ {a} : up'[b] = up[b]
    <3>1. kind \in FromModule /\ kind # "BYE"
      BY DEF FromModule
    <3>2. greetings' \in [Address -> 0 .. MaxGreetings] /\ peer[a] # 0
      <4>1. greetings' = greetings
        BY <1>1
      <4>2. QED
        BY <1>2, <4>1 DEF TInv, IInv, TypesOK, LinesOK
    <3>3. up' = [up EXCEPT ![a][peer[a]] = Append(@, kind)]
      BY <2>2 DEF Says
    <3>4. IInv'
      BY <1>1, <3>1, <3>2, <3>3, Speaking DEF TInv
    <3>5. \A b \in Address \ {a} : up'[b] = up[b]
      BY <3>3 DEF TInv, IInv, TypesOK, LinesOK
    <3>6. QED
      BY <3>4, <3>5
  <2>3. QED
    BY <1>3, <2>1, <2>2
<1>5. /\ receiver' \in [Address -> ReceiverState]
      /\ \A b \in Address \ {a} : receiver'[b] = receiver[b]
      /\ Len(receiver'[a].steps) <= MAX_SEQUENCE_LENGTH
      /\ receiver'[a].uploading => /\ receiver'[a].id \in Songs
                                   /\ receiver'[a].length = Length(receiver'[a].id)
  <2>1. /\ receiver \in [Address -> ReceiverState] /\ receiver[a] \in ReceiverState
        /\ Len(receiver[a].steps) <= MAX_SEQUENCE_LENGTH
        /\ receiver[a].uploading => /\ receiver[a].id \in Songs
                                    /\ receiver[a].length = Length(receiver[a].id)
    BY DEF TInv, DeviceOK, BoundsOK
  <2>2. m.song \in Songs /\ m.step \in 0 .. MAX_SEQUENCE_LENGTH
    BY <1>1 DEF Message
  <2>3. CASE UNCHANGED receiver
    BY <2>1, <2>3
  <2>4. CASE Begins(a, m)
    <3>1. [uploading |-> TRUE, id |-> m.song, length |-> Length(m.song), steps |-> << >>]
            \in ReceiverState
      BY <2>2, SongFacts DEF ReceiverState
    <3> DEFINE fresh == [uploading |-> TRUE, id |-> m.song, length |-> Length(m.song),
                         steps |-> << >>]
    <3>2. receiver' = [receiver EXCEPT ![a] = fresh]
      BY <2>4 DEF Begins
    <3>3. /\ fresh \in ReceiverState /\ fresh.id = m.song /\ fresh.length = Length(m.song)
          /\ Len(fresh.steps) = 0
      BY <3>1
    <3> HIDE DEF fresh
    <3>4. receiver'[a] = fresh
      BY <2>1, <3>2
    <3>5. QED
      BY <2>1, <2>2, <3>2, <3>3, <3>4, UploadAssumption
  <2>5. CASE Collects(a, m)
    <3>1. <<m.song, m.step>> \in Step
      BY <1>1, <2>2, <2>5, UploadAssumption DEF Collects, Message, Step
    <3>2. /\ receiver[a].steps \in Seq(Step)
          /\ Append(receiver[a].steps, <<m.song, m.step>>) \in Seq(Step)
          /\ Len(Append(receiver[a].steps, <<m.song, m.step>>)) <= MAX_SEQUENCE_LENGTH
      BY <2>1, <2>5, <3>1, UploadAssumption DEF ReceiverState, Collects, Room
    <3> DEFINE steps == Append(receiver[a].steps, <<m.song, m.step>>)
    <3>3. receiver' = [receiver EXCEPT ![a].steps = steps]
      BY <2>5 DEF Collects
    <3> HIDE DEF steps
    <3>4. receiver'[a] = [receiver[a] EXCEPT !.steps = steps] /\ steps \in Seq(Step)
          /\ Len(steps) <= MAX_SEQUENCE_LENGTH
      BY <2>1, <3>2, <3>3 DEF steps
    <3>5. QED
      BY <2>1, <3>3, <3>4 DEF ReceiverState
  <2>6. CASE Completes(a, m) \/ Rejects(a, m)
    <3>1. receiver' = [receiver EXCEPT ![a].uploading = FALSE]
      BY <2>6 DEF Completes, Rejects
    <3>2. receiver'[a] = [receiver[a] EXCEPT !.uploading = FALSE]
      BY <2>1, <3>1
    <3>3. QED
      BY <2>1, <3>1, <3>2 DEF ReceiverState
  <2>7. QED
    BY <1>1, <2>3, <2>4, <2>5, <2>6 DEF Ignores
<1>6. /\ stored' \in [Address -> Content] /\ taken' \in [Address -> BOOLEAN]
      /\ \A b \in Address \ {a} : stored'[b] = stored[b] /\ taken'[b] = taken[b]
  <2>1. receiver[a].steps \in Content
    BY DEF TInv, DeviceOK, ReceiverState, Content
  <2>2. \/ UNCHANGED <<stored, taken>>
        \/ /\ stored' = [stored EXCEPT ![a] = receiver[a].steps]
           /\ taken' = [taken EXCEPT ![a] = TRUE]
    BY <1>1 DEF Ignores, Begins, Collects, Completes, Rejects
  <2>3. QED
    BY <2>1, <2>2 DEF TInv, DeviceOK, HistoryOK
<1>7. ControllerOK' /\ DeviceOK' /\ HistoryOK'
  BY <1>1, <1>2, <1>5, <1>6 DEF TInv, ControllerOK, DeviceOK, HistoryOK
<1>8. BoundsOK(a)'
  BY <1>1, <1>2, <1>5 DEF TInv, BoundsOK, Busy, registry, network
<1>9. \A b \in Address \ {a} : UNCHANGED At(b)
  BY <1>1, <1>2, <1>4, <1>5, <1>6 DEF At, registry, network
<1>10. QED
  BY <1>4, <1>7, <1>8, <1>9, OthersKept

\* Users at the module.
LEMMA KeepingContent ==
  ASSUME TInv, NEW a \in Address, KeepRecording(a) \/ UNCHANGED stored
  PROVE  stored' \in [Address -> Content] /\ \A b \in Address \ {a} : stored'[b] = stored[b]
<1>1. Recorded \in Content
  BY DEF Recorded, Content
<1>2. QED
  BY <1>1 DEF KeepRecording, TInv, DeviceOK

LEMMA UserTypes ==
  ASSUME TInv, NEW a \in Address, StartRecording(a) \/ StopRecording(a) \/ PressPower(a)
  PROVE  TInv' /\ \A b \in Address \ {a} : UNCHANGED At(b)
<1>1. /\ calm' = [calm EXCEPT ![a] = FALSE]
      /\ UNCHANGED <<registryVars, driver, lastAck, lastError, shown, down, receiver, taken, failures>>
  BY DEF StartRecording, StopRecording, PressPower, Change, registryVars, controller, counters
<1>2. \E new \in {"idle", "recording", "off"} : mode' = [mode EXCEPT ![a] = new]
  BY DEF StartRecording, StopRecording, PressPower
<1>3. stored' \in [Address -> Content] /\ \A b \in Address \ {a} : stored'[b] = stored[b]
  BY KeepingContent DEF StartRecording, StopRecording, PressPower
<1>4. IInv'
  BY <1>1, NextOK DEF TInv
<1>5. ControllerOK' /\ DeviceOK' /\ HistoryOK'
  BY <1>1, <1>2, <1>3 DEF TInv, ControllerOK, DeviceOK, HistoryOK
<1>6. BoundsOK(a)'
  BY <1>1 DEF TInv, BoundsOK, Busy, registryVars, registry, network
<1>7. \A b \in Address \ {a} : UNCHANGED At(b)
  BY <1>1, <1>2, <1>3 DEF TInv, DeviceOK, HistoryOK, At, registryVars, registry, network
<1>8. QED
  BY <1>4, <1>5, <1>6, <1>7, OthersKept

-----------------------------------------------------------------------------
(* Types: connections *)

\* The registry's actions that Upload takes over leave the other addresses alone, number
\* connections upwards, and know none that has not been accepted.
LEMMA ConnectionFacts ==
  ASSUME TInv, NEW a \in Address,
         \/ Connect(a) \/ Vanish(a) \/ Disconnect(a)
         \/ \E k \in Connection : Closed(a, k) \/ HearHello(a, k)
  PROVE  /\ IInv' /\ modules'[a].ws <= accepted'[a]
         /\ \A b \in Address \ {a} :
              UNCHANGED <<modules[b], accepted[b], socket[b], peer[b], up[b]>>
<1>1. /\ modules \in [Address -> Entry] /\ accepted \in [Address -> 0 .. MaxConnections]
      /\ socket \in [Address -> [Connection -> {"none", "open", "closing", "closed"}]]
      /\ peer \in [Address -> 0 .. MaxConnections]
      /\ up \in [Address -> [Connection -> Seq(FromModule)]]
      /\ modules[a].ws <= accepted[a] /\ modules[a].ws \in Nat /\ accepted[a] \in Nat
  BY RegistryAssumption DEF TInv, IInv, TypesOK, EntriesOK, Entry, NetworkOK, LinesOK, BoundsOK
<1>2. CASE Connect(a)
  <2>1. IInv'
    BY <1>2, Connecting DEF TInv
  <2>2. modules'[a].ws = accepted'[a]
    BY <1>1, <1>2 DEF Connect, Register, SocketFor
  <2>3. QED
    BY <1>1, <1>2, <2>1, <2>2 DEF Connect, Register
<1>3. CASE Vanish(a)
  BY <1>1, <1>3, Vanishing DEF TInv, Vanish, registry
<1>4. CASE Disconnect(a)
  BY <1>1, <1>4, Disconnecting DEF TInv, Disconnect, registry
<1>5. CASE \E k \in Connection : Closed(a, k)
  <2>1. PICK k \in Connection : Closed(a, k)
    BY <1>5
  <2>2. IInv'
    BY <2>1, Closing DEF TInv
  <2>3. modules'[a] = Unregistered(modules[a]) /\ accepted' = accepted
    BY <1>1, <2>1 DEF Closed
  <2>4. modules'[a].ws = 0
    BY <1>1, <2>3 DEF Unregistered, NoEntry, Entry
  <2>5. QED
    BY <1>1, <2>1, <2>2, <2>3, <2>4 DEF Closed
<1>6. CASE \E k \in Connection : HearHello(a, k)
  <2>1. PICK k \in Connection : HearHello(a, k)
    BY <1>6
  <2>2. IInv'
    BY <2>1, HearingHello DEF TInv
  <2>3. /\ UNCHANGED <<accepted, socket, peer>>
        /\ \A b \in Address \ {a} : up'[b] = up[b]
    BY <1>1, <2>1 DEF HearHello, Arrives, network
  <2>4. OpenPort(a) <= accepted[a]
    BY <1>1 DEF OpenPort
  <2>5. /\ modules'[a].ws \in {modules[a].ws, OpenPort(a)}
        /\ \A b \in Address \ {a} : modules'[b] = modules[b]
    <3>1. CASE Known(a)
      <4>1. modules' = [modules EXCEPT ![a] = Touched([modules[a] EXCEPT !.connected = TRUE])]
        BY <2>1, <3>1 DEF HearHello
      <4>2. Touched([modules[a] EXCEPT !.connected = TRUE]).ws = modules[a].ws
        BY <1>1 DEF Touched, Entry
      <4>3. QED
        BY <1>1, <4>1, <4>2
    <3>2. CASE ~Known(a)
      BY <1>1, <2>1, <3>2 DEF HearHello, Register, SocketFor
    <3>3. QED
      BY <3>1, <3>2
  <2>6. QED
    BY <1>1, <2>2, <2>3, <2>4, <2>5
<1>7. QED
  BY <1>2, <1>3, <1>4, <1>5, <1>6

LEMMA ReconnectTypes ==
  ASSUME TInv, NEW a \in Address, Reconnect(a)
  PROVE  TInv' /\ \A b \in Address \ {a} : UNCHANGED At(b)
<1>1. /\ IInv' /\ modules'[a].ws <= accepted'[a]
      /\ \A b \in Address \ {a} :
           UNCHANGED <<modules[b], accepted[b], socket[b], peer[b], up[b]>>
  BY ConnectionFacts DEF Reconnect
<1>2. /\ driver' = Renewed(a)
      /\ calm' = [calm EXCEPT ![a] = FALSE]
      /\ UNCHANGED <<lastAck, lastError, shown, down, mode, receiver, stored, taken, failures>>
  BY DEF Reconnect, device
<1>3. /\ driver' \in [Address -> DriverState]
      /\ driver'[a].song = driver[a].song /\ driver'[a].next = driver[a].next
      /\ \A b \in Address \ {a} : driver'[b] = driver[b]
  <2>1. CASE Busy(a) /\ driver[a].current
    <3> DEFINE d == [driver[a] EXCEPT !.current = FALSE, !.ack = lastAck[a], !.error = lastError[a]]
    <3>1. driver' = [driver EXCEPT ![a] = d]
      BY <1>2, <2>1 DEF Renewed, TInv, ControllerOK
    <3>2. d \in DriverState /\ d.song = driver[a].song /\ d.next = driver[a].next
      BY DEF TInv, ControllerOK, DriverState
    <3> HIDE DEF d
    <3>3. QED
      BY <3>1, <3>2 DEF TInv, ControllerOK
  <2>2. CASE ~(Busy(a) /\ driver[a].current)
    BY <1>2, <2>2 DEF Renewed, TInv, ControllerOK
  <2>3. QED
    BY <2>1, <2>2
<1>4. ControllerOK' /\ DeviceOK' /\ HistoryOK'
  BY <1>2, <1>3 DEF TInv, ControllerOK, DeviceOK, HistoryOK
<1>5. BoundsOK(a)'
  <2>1. down[a] = << >>
    BY DEF TInv, BoundsOK, Reconnect, Connect
  <2>2. QED
    BY <1>1, <1>2, <1>3, <2>1 DEF TInv, BoundsOK, Busy
<1>6. \A b \in Address \ {a} : UNCHANGED At(b)
  BY <1>1, <1>2, <1>3 DEF TInv, HistoryOK, At
<1>7. QED
  BY <1>1, <1>4, <1>5, <1>6, OthersKept

LEMMA LossTypes ==
  ASSUME TInv, NEW a \in Address, LoseConnection(a) \/ CloseConnection(a)
  PROVE  TInv' /\ \A b \in Address \ {a} : UNCHANGED At(b)
<1>1. /\ IInv' /\ modules'[a].ws <= accepted'[a]
      /\ \A b \in Address \ {a} :
           UNCHANGED <<modules[b], accepted[b], socket[b], peer[b], up[b]>>
  BY ConnectionFacts DEF LoseConnection, CloseConnection
<1>2. /\ calm' = [calm EXCEPT ![a] = FALSE]
      /\ UNCHANGED <<driver, lastAck, lastError, shown, mode, receiver, stored, taken, failures>>
  BY DEF LoseConnection, CloseConnection, device, controller
<1>3. /\ down' = [down EXCEPT ![a] = << >>] \/ (down' = down /\ peer'[a] # 0)
      /\ << >> \in Seq(Message)
  BY DEF LoseConnection, CloseConnection
<1>4. ControllerOK' /\ DeviceOK' /\ HistoryOK'
  BY <1>2, <1>3 DEF TInv, ControllerOK, DeviceOK, HistoryOK
<1>5. BoundsOK(a)'
  BY <1>1, <1>2, <1>3 DEF TInv, DeviceOK, BoundsOK, Busy
<1>6. \A b \in Address \ {a} : UNCHANGED At(b)
  BY <1>1, <1>2, <1>3 DEF TInv, DeviceOK, HistoryOK, At
<1>7. QED
  BY <1>1, <1>4, <1>5, <1>6, OthersKept

LEMMA RebootTypes ==
  ASSUME TInv, NEW a \in Address, Reboot(a)
  PROVE  TInv' /\ \A b \in Address \ {a} : UNCHANGED At(b)
<1>1. /\ IInv' /\ modules'[a].ws <= accepted'[a]
      /\ \A b \in Address \ {a} :
           UNCHANGED <<modules[b], accepted[b], socket[b], peer[b], up[b]>>
  <2>1. CASE Vanish(a)
    BY <2>1, ConnectionFacts
  <2>2. CASE UNCHANGED <<registry, network, up, greetings, robbed>>
    <3>1. IInv'
      BY <2>2, NextOK DEF TInv, registryVars
    <3>2. QED
      BY <2>2, <3>1 DEF TInv, BoundsOK, registry, network
  <2>3. QED
    BY <2>1, <2>2 DEF Reboot
<1>2. /\ down' = [down EXCEPT ![a] = << >>]
      /\ mode' = [mode EXCEPT ![a] = "idle"]
      /\ receiver' = [receiver EXCEPT ![a].uploading = FALSE, ![a].steps = << >>]
      /\ stored' = [stored EXCEPT ![a] = Default]
      /\ calm' = [calm EXCEPT ![a] = FALSE]
      /\ UNCHANGED <<driver, lastAck, lastError, shown, taken, failures>>
  BY DEF Reboot, Change, controller
<1>3. /\ receiver' \in [Address -> ReceiverState]
      /\ ~receiver'[a].uploading /\ Len(receiver'[a].steps) = 0
      /\ \A b \in Address \ {a} : receiver'[b] = receiver[b]
  <2> DEFINE r == [receiver[a] EXCEPT !.uploading = FALSE, !.steps = << >>]
  <2>1. receiver' = [receiver EXCEPT ![a] = r]
    BY <1>2 DEF TInv, DeviceOK
  <2>2. r \in ReceiverState /\ ~r.uploading /\ Len(r.steps) = 0
    <3>1. receiver[a] \in ReceiverState
      BY DEF TInv, DeviceOK
    <3>2. << >> \in Seq(Step) /\ Len(<< >>) = 0
      OBVIOUS
    <3>3. QED
      BY <3>1, <3>2 DEF ReceiverState
  <2> HIDE DEF r
  <2>3. QED
    BY <2>1, <2>2 DEF TInv, DeviceOK
<1>4. Default \in Content /\ << >> \in Seq(Message)
  BY DEF Default, Content
<1>5. ControllerOK' /\ DeviceOK' /\ HistoryOK'
  BY <1>2, <1>3, <1>4 DEF TInv, ControllerOK, DeviceOK, HistoryOK
<1>6. BoundsOK(a)'
  BY <1>1, <1>2, <1>3, UploadAssumption DEF TInv, DeviceOK, BoundsOK, Busy
<1>7. \A b \in Address \ {a} : UNCHANGED At(b)
  BY <1>1, <1>2, <1>3 DEF TInv, DeviceOK, HistoryOK, At
<1>8. QED
  BY <1>1, <1>5, <1>6, <1>7, OthersKept

\* The controller hears an answer of the module.
HearsAnswer(a, k, kind) ==
  /\ Arrives(a, k, kind)
  /\ lastAck' = [lastAck EXCEPT ![a] = CASE kind = "ACK begin" -> "begin"
                                         [] kind = "ACK end" -> "end"
                                         [] OTHER -> @]
  /\ lastError' = [lastError EXCEPT ![a] = @ \/ kind = "ERR"]
  /\ UNCHANGED <<registry, network, greetings, robbed>>

LEMMA HearCases ==
  ASSUME NEW a \in Address, Hear(a)
  PROVE  /\ UNCHANGED <<driver, shown, down, mode, receiver, stored, taken, calm, failures>>
         /\ \E k \in Connection :
              /\ Timely => \A former \in 1 .. k - 1 : up[a][former] = << >>
              /\ \/ HearHello(a, k) /\ UNCHANGED <<lastAck, lastError>>
                 \/ \E kind \in {"ACK begin", "ACK end", "ERR"} : HearsAnswer(a, k, kind)
BY DEF Hear, HearsAnswer, device, history

LEMMA AnswerTypes ==
  ASSUME TInv, NEW a \in Address, NEW k \in Connection, NEW kind \in {"ACK begin", "ACK end", "ERR"},
         HearsAnswer(a, k, kind)
  PROVE  /\ IInv'
         /\ lastAck' \in [Address -> Acks] /\ lastError' \in [Address -> BOOLEAN]
         /\ lastAck'[a] = IF kind = "ACK begin" THEN "begin"
                            ELSE IF kind = "ACK end" THEN "end" ELSE lastAck[a]
         /\ lastError'[a] = (lastError[a] \/ kind = "ERR")
         /\ \A b \in Address \ {a} :
              /\ lastAck'[b] = lastAck[b] /\ lastError'[b] = lastError[b]
              /\ UNCHANGED <<modules[b], accepted[b], socket[b], peer[b], up[b]>>
<1>1. /\ Arrives(a, k, kind) /\ UNCHANGED <<network, greetings, robbed>>
      /\ UNCHANGED <<modules, moduleCounter, accepted, socket, peer>>
  BY DEF HearsAnswer, registry, network
<1>2. /\ NetworkOK' /\ LinesOK' /\ NumberedOK(a)'
      /\ a \in Wifi => \A j \in Connection : \A i \in DOMAIN up'[a][j] : up'[a][j][i] # "BYE"
      /\ a \in Usb => \A j \in Connection : up'[a][j] # << >> => socket[a][j] = "open"
      /\ \A b \in Address \ {a} : up'[b] = up[b]
  BY <1>1, Arriving DEF TInv
<1>3. EntriesOK' /\ LabelsUnique'
  BY <1>1 DEF TInv, IInv, TypesOK, EntriesOK, Entry, LabelsUnique, Known
<1>4. a \in Wifi => WifiOK(a)'
  BY <1>1, <1>2 DEF TInv, IInv, AddressOK, WifiOK, Open, Listed, network
<1>5. a \in Usb => UsbOK(a)'
  BY <1>1, <1>2 DEF TInv, IInv, AddressOK, UsbOK, Open, Listed, Reachable, Known
<1>6. IInv'
  <2>1. robbed' = robbed
    BY <1>1
  <2>2. QED
    BY <1>1, <1>2, <1>3, <1>4, <1>5, <2>1, OneAddress DEF TInv, TypesOK, AddressOK
<1>7. /\ lastAck' = [lastAck EXCEPT ![a] = IF kind = "ACK begin" THEN "begin"
                            ELSE IF kind = "ACK end" THEN "end" ELSE lastAck[a]]
      /\ lastError' = [lastError EXCEPT ![a] = @ \/ kind = "ERR"]
  BY DEF HearsAnswer
<1>8. /\ lastAck' \in [Address -> Acks] /\ lastError' \in [Address -> BOOLEAN]
      /\ lastAck'[a] = IF kind = "ACK begin" THEN "begin"
                         ELSE IF kind = "ACK end" THEN "end" ELSE lastAck[a]
      /\ lastError'[a] = (lastError[a] \/ kind = "ERR")
      /\ \A b \in Address \ {a} : lastAck'[b] = lastAck[b] /\ lastError'[b] = lastError[b]
  <2>1. (lastError[a] \/ kind = "ERR") \in BOOLEAN
    OBVIOUS
  <2>2. lastAck \in [Address -> Acks] /\ lastError \in [Address -> BOOLEAN]
    BY DEF TInv, ControllerOK
  <2>3. lastAck' \in [Address -> Acks]
    BY <1>7, <2>2 DEF Acks
  <2>4. QED
    BY <1>7, <2>1, <2>2, <2>3
<1>9. QED
  BY <1>1, <1>2, <1>6, <1>8

LEMMA HearTypes ==
  ASSUME TInv, NEW a \in Address, Hear(a)
  PROVE  TInv' /\ \A b \in Address \ {a} : UNCHANGED At(b)
<1>1. UNCHANGED <<driver, shown, down, mode, receiver, stored, taken, calm, failures>>
  BY HearCases
<1>2. PICK k \in Connection :
        \/ HearHello(a, k) /\ UNCHANGED <<lastAck, lastError>>
        \/ \E kind \in {"ACK begin", "ACK end", "ERR"} : HearsAnswer(a, k, kind)
  BY HearCases
<1>3. /\ IInv' /\ modules'[a].ws <= accepted'[a] /\ (peer'[a] = peer[a])
      /\ lastAck' \in [Address -> Acks] /\ lastError' \in [Address -> BOOLEAN]
      /\ \A b \in Address \ {a} :
           UNCHANGED <<modules[b], accepted[b], socket[b], peer[b], up[b], lastAck[b], lastError[b]>>
  <2>1. CASE HearHello(a, k) /\ UNCHANGED <<lastAck, lastError>>
    <3>1. peer' = peer
      BY <2>1 DEF HearHello, network
    <3>2. QED
      BY <2>1, <3>1, ConnectionFacts DEF TInv, ControllerOK
  <2>2. ASSUME NEW kind \in {"ACK begin", "ACK end", "ERR"}, HearsAnswer(a, k, kind)
        PROVE  /\ IInv' /\ modules'[a].ws <= accepted'[a] /\ (peer'[a] = peer[a])
               /\ lastAck' \in [Address -> Acks] /\ lastError' \in [Address -> BOOLEAN]
               /\ \A b \in Address \ {a} :
                    UNCHANGED <<modules[b], accepted[b], socket[b], peer[b], up[b], lastAck[b],
                                lastError[b]>>
    <3>1. UNCHANGED <<modules, accepted, peer>>
      BY <2>2 DEF HearsAnswer, registry, network
    <3>2. modules[a].ws <= accepted[a]
      BY DEF TInv, BoundsOK
    <3>3. QED
      BY <2>2, <3>1, <3>2, AnswerTypes
  <2>3. QED
    BY <1>2, <2>1, <2>2
<1>4. ControllerOK' /\ DeviceOK' /\ HistoryOK'
  BY <1>1, <1>3 DEF TInv, ControllerOK, DeviceOK, HistoryOK
<1>5. BoundsOK(a)'
  BY <1>1, <1>3 DEF TInv, BoundsOK, Busy
<1>6. \A b \in Address \ {a} : UNCHANGED At(b)
  BY <1>1, <1>3 DEF At
<1>7. QED
  BY <1>3, <1>4, <1>5, <1>6, OthersKept

-----------------------------------------------------------------------------
LEMMA InitialTypes == Init => TInv
<1> SUFFICES ASSUME Init PROVE TInv
  OBVIOUS
<1>1. IInv
  BY Initially DEF Init
<1>2. ControllerOK /\ HistoryOK
  BY DEF Init, Idle, ControllerOK, HistoryOK, DriverState, Acks
<1>3. DeviceOK
  <2>1. << >> \in Seq(Message) /\ << >> \in Content
    BY DEF Content
  <2>2. [uploading |-> FALSE, id |-> NoSong, length |-> 0, steps |-> << >>] \in ReceiverState
    BY DEF ReceiverState
  <2>3. QED
    BY <2>1, <2>2 DEF Init, DeviceOK, Default
<1>4. \A a \in Address : BoundsOK(a)
  BY UploadAssumption DEF Init, RegistryInit, BoundsOK, Busy, Idle, NoEntry
<1>5. QED
  BY <1>1, <1>2, <1>3, <1>4 DEF TInv

\* Any step keeps the types, and is a step of one address or of none.
LEMMA StepTypes ==
  ASSUME TInv, NEW a \in Address,
         \/ \E song \in Songs : RequestUpload(a, song)
         \/ Drive(a) \/ Receive(a) \/ Hear(a)
         \/ StartRecording(a) \/ StopRecording(a) \/ PressPower(a) \/ Reboot(a)
         \/ Reconnect(a) \/ LoseConnection(a) \/ CloseConnection(a)
  PROVE  TInv' /\ \A b \in Address \ {a} : UNCHANGED At(b)
BY RequestTypes, SendTypes, DriverEndTypes, ReceiveTypes, HearTypes, UserTypes, RebootTypes,
   ReconnectTypes, LossTypes DEF Drive

LEMMA IdleStep ==
  ASSUME TInv, UNCHANGED vars
  PROVE  TInv' /\ \A a \in Address : UNCHANGED At(a)
<1>1. IInv'
  BY NextOK DEF TInv, vars, registryVars, counters
<1>2. ControllerOK' /\ DeviceOK' /\ HistoryOK'
  BY DEF vars, controller, device, history, TInv, ControllerOK, DeviceOK, HistoryOK
<1>3. \A a \in Address : UNCHANGED At(a)
  BY DEF vars, registry, network, controller, device, history, At
<1>4. QED
  BY <1>1, <1>2, <1>3 DEF TInv, BoundsOK, At, Busy

\* Every variable keeps its type, for any number of modules, songs and disturbances.
LEMMA TypesKept == Spec => []TInv
<1>1. TInv /\ [Next]_vars => TInv'
  BY StepTypes, IdleStep DEF Next
<1>2. QED
  BY <1>1, InitialTypes, PTL DEF Spec

\* Every variable holds what its declaration says, the registry's included; connections
\* in use have been accepted; the receiver keeps within its array.
THEOREM UploadTypesCorrect == Spec => []TypeOK
<1>1. TInv => TypeOK
  <2> SUFFICES ASSUME TInv PROVE TypeOK
    OBVIOUS
  <2> DEFINE Raw == [type : Line, song : Songs, step : 0 .. MAX_SEQUENCE_LENGTH]
  <2>1. RegistryTypeOK
    BY DEF TInv, IInv, TypesOK, EntriesOK, Entry, NetworkOK, LinesOK, RegistryTypeOK
  <2>2. down \in [Address -> Seq(Raw)]
    <3>1. Message \subseteq Raw
      BY DEF Message
    <3>2. \A s \in Seq(Message) : s \in Seq(Raw)
      BY <3>1, SeqMonotonic
    <3>3. QED
      BY <3>2 DEF TInv, DeviceOK
  <2>3. \A a \in Address : modules[a].ws <= accepted[a] /\ peer[a] <= accepted[a]
    <3>1. \A a \in Address : accepted[a] \in Nat
      BY RegistryAssumption DEF TInv, IInv, TypesOK, NetworkOK
    <3>2. QED
      BY <3>1 DEF TInv, BoundsOK, IInv, AddressOK, NumberedOK
  <2>4. \A a \in Address : driver[a].song \in Songs => driver[a].next <= LineCount(driver[a].song) + 1
    BY SongFacts DEF TInv, BoundsOK, Busy
  <2>5. \A a \in Address : /\ receiver[a].steps \in Seq(Step)
                           /\ Len(receiver[a].steps) <= MAX_SEQUENCE_LENGTH
                           /\ stored[a] \in Seq(Step \cup {<<NoSong, 1>>})
    BY DEF TInv, DeviceOK, ReceiverState, Content, BoundsOK
  <2>6. shown \in [Address -> Songs \cup {NoSong}]
    BY DEF TInv, ControllerOK
  <2>7. QED
    BY <2>1, <2>2, <2>3, <2>4, <2>5, <2>6 DEF TypeOK
<1>2. QED
  BY <1>1, TypesKept, PTL

-----------------------------------------------------------------------------
(* Queues.  What is asked of them is whether the end of an upload, or the    *)
(* answer to it, is among their lines, and whether it is the last of them.   *)

Final == {"ACK end", "ERR"}

HasEnd(d)        == \E i \in 1 .. Len(d) : d[i].type = "E"
EndLast(d, song) == \A i \in 1 .. Len(d) : d[i].type = "E" => i = Len(d) /\ d[i].song = song

Among(u, line) == \E i \in 1 .. Len(u) : u[i] = line
HasFinal(u)    == \E i \in 1 .. Len(u) : u[i] \in Final
FinalLast(u)   == \A i \in 1 .. Len(u) : u[i] \in Final => i = Len(u)

LEMMA EndRead ==
  ASSUME NEW d \in Seq(Message), d # << >>, NEW song
  PROVE  /\ HasEnd(d) <=> Head(d).type = "E" \/ HasEnd(Tail(d))
         /\ EndLast(d, song) => EndLast(Tail(d), song)
         /\ EndLast(d, song) /\ Head(d).type = "E" => Tail(d) = << >> /\ Head(d).song = song
<1> DEFINE t == Tail(d)
<1>1. /\ Len(d) \in Nat \ {0} /\ Head(d) = d[1] /\ Len(t) = Len(d) - 1
      /\ \A i \in 1 .. Len(d) - 1 : t[i] = d[i + 1] /\ i + 1 \in 1 .. Len(d)
      /\ Len(d) = 1 => t = << >>
  BY LineRead
<1> HIDE DEF t
<1>2. HasEnd(t) => HasEnd(d)
  BY <1>1 DEF HasEnd
<1>3. Head(d).type = "E" => HasEnd(d)
  BY <1>1 DEF HasEnd
<1>4. HasEnd(d) => Head(d).type = "E" \/ HasEnd(t)
  <2>1. SUFFICES ASSUME NEW i \in 1 .. Len(d), d[i].type = "E", i # 1 PROVE HasEnd(t)
    BY <1>1 DEF HasEnd
  <2>2. i - 1 \in 1 .. Len(t) /\ t[i - 1] = d[i]
    BY <1>1, <2>1
  <2>3. QED
    BY <2>1, <2>2 DEF HasEnd
<1>5. EndLast(d, song) => EndLast(t, song)
  BY <1>1 DEF EndLast
<1>6. EndLast(d, song) /\ Head(d).type = "E" => t = << >> /\ Head(d).song = song
  BY <1>1 DEF EndLast
<1>7. QED
  BY <1>2, <1>3, <1>4, <1>5, <1>6 DEF t

LEMMA EndSent ==
  ASSUME NEW d \in Seq(Message), NEW m \in Message
  PROVE  /\ HasEnd(Append(d, m)) <=> HasEnd(d) \/ m.type = "E"
         /\ ~HasEnd(d) => EndLast(Append(d, m), m.song)
<1> DEFINE t == Append(d, m)
<1>1. /\ Len(d) \in Nat /\ Len(t) = Len(d) + 1 /\ t[Len(d) + 1] = m
      /\ \A i \in 1 .. Len(d) : t[i] = d[i]
  OBVIOUS
<1> HIDE DEF t
<1>2. QED
  BY <1>1 DEF HasEnd, EndLast, t

LEMMA EndNone ==
  /\ ~HasEnd(<< >>)
  /\ \A d, song : ~HasEnd(d) => EndLast(d, song)
BY DEF HasEnd, EndLast

LEMMA AnswerRead ==
  ASSUME NEW u \in Seq(FromModule), u # << >>, NEW line
  PROVE  /\ HasFinal(u) <=> Head(u) \in Final \/ HasFinal(Tail(u))
         /\ Among(u, line) <=> Head(u) = line \/ Among(Tail(u), line)
         /\ FinalLast(u) => FinalLast(Tail(u))
         /\ FinalLast(u) /\ Head(u) \in Final => Tail(u) = << >>
<1> DEFINE t == Tail(u)
<1>1. /\ Len(u) \in Nat \ {0} /\ Head(u) = u[1] /\ Len(t) = Len(u) - 1
      /\ \A i \in 1 .. Len(u) - 1 : t[i] = u[i + 1] /\ i + 1 \in 1 .. Len(u)
      /\ t \in Seq(FromModule)
  OBVIOUS
<1>2. Len(u) = 1 => t = << >>
  <2>1. t \in Seq(FromModule)
    BY <1>1
  <2>2. t # << >> => Len(t) \in Nat \ {0}
    BY <2>1, EmptySeq
  <2>3. Len(u) = 1 => Len(t) = 0
    BY <1>1
  <2>4. QED
    BY <2>2, <2>3
<1> HIDE DEF t
<1>3. \A i \in 1 .. Len(u) : i = 1 \/ (i - 1 \in 1 .. Len(t) /\ t[i - 1] = u[i])
  BY <1>1
<1>4. HasFinal(u) <=> Head(u) \in Final \/ HasFinal(t)
  <2>1. HasFinal(u) => Head(u) \in Final \/ HasFinal(t)
    BY <1>1, <1>3 DEF HasFinal
  <2>2. Head(u) \in Final => HasFinal(u)
    BY <1>1 DEF HasFinal
  <2>3. HasFinal(t) => HasFinal(u)
    BY <1>1 DEF HasFinal
  <2>4. QED
    BY <2>1, <2>2, <2>3
<1>5. Among(u, line) <=> Head(u) = line \/ Among(t, line)
  BY <1>1, <1>3 DEF Among
<1>6. ASSUME FinalLast(u) PROVE FinalLast(t)
  <2>1. SUFFICES ASSUME NEW i \in 1 .. Len(t), t[i] \in Final PROVE i = Len(t)
    BY DEF FinalLast
  <2>2. i + 1 \in 1 .. Len(u) /\ u[i + 1] \in Final
    BY <1>1, <2>1
  <2>3. i + 1 = Len(u)
    BY <1>6, <2>2 DEF FinalLast
  <2>4. QED
    BY <1>1, <2>3
<1>7. ASSUME FinalLast(u), Head(u) \in Final PROVE t = << >>
  <2>1. 1 \in 1 .. Len(u) /\ u[1] \in Final
    BY <1>1, <1>7
  <2>2. 1 = Len(u)
    BY <1>7, <2>1 DEF FinalLast
  <2>3. QED
    BY <1>2, <2>2
<1>8. QED
  BY <1>4, <1>5, <1>6, <1>7 DEF t

LEMMA AnswerSaid ==
  ASSUME NEW u \in Seq(FromModule), NEW said \in FromModule, NEW line
  PROVE  /\ HasFinal(Append(u, said)) <=> HasFinal(u) \/ said \in Final
         /\ Among(Append(u, said), line) <=> Among(u, line) \/ said = line
         /\ ~HasFinal(u) => FinalLast(Append(u, said))
<1> DEFINE t == Append(u, said)
<1>1. /\ Len(u) \in Nat /\ Len(t) = Len(u) + 1 /\ t[Len(u) + 1] = said
      /\ \A i \in 1 .. Len(u) : t[i] = u[i]
  OBVIOUS
<1> HIDE DEF t
<1>2. QED
  BY <1>1 DEF HasFinal, Among, FinalLast, t

LEMMA AnswerNone ==
  /\ ~HasFinal(<< >>) /\ ~HasFinal(<< "HELLO" >>)
  /\ \A u : ~HasFinal(u) => FinalLast(u) /\ ~Among(u, "ACK end") /\ ~Among(u, "ERR")
<1>1. "ACK end" \in Final /\ "ERR" \in Final
  BY DEF Final
<1>2. "HELLO" \notin Final
  BY DEF Final
<1>3. ~HasFinal(<< >>) /\ ~HasFinal(<< "HELLO" >>)
  BY <1>2 DEF HasFinal
<1>4. \A u : ~HasFinal(u) => FinalLast(u) /\ ~Among(u, "ACK end") /\ ~Among(u, "ERR")
  BY <1>1 DEF HasFinal, FinalLast, Among
<1>5. QED
  BY <1>3, <1>4

LEMMA FirstFinal ==
  ASSUME NEW u \in Seq(FromModule), NEW said \in FromModule, ~HasFinal(u)
  PROVE  /\ FinalLast(Append(u, said))
         /\ HasFinal(Append(u, said)) <=> said \in Final
         /\ Among(Append(u, said), "ACK end") => said = "ACK end"
<1>1. \A line : Among(Append(u, said), line) => Among(u, line) \/ said = line
  BY AnswerSaid
<1>2. ~Among(u, "ACK end")
  BY AnswerNone
<1>3. /\ FinalLast(Append(u, said))
      /\ HasFinal(Append(u, said)) <=> said \in Final
  BY AnswerSaid
<1>4. QED
  BY <1>1, <1>2, <1>3

-----------------------------------------------------------------------------
(* Answers.  If the module answers in time, no answer to an upload outlives  *)
(* it: an E line or the answer to it is under way only while the driver      *)
(* waits for it, and only one.                                               *)

Pending(a) == HasEnd(down[a]) \/ \E k \in Connection : HasFinal(up[a][k])

Unanswered(a) ==
  /\ lastAck[a] # "end" /\ ~lastError[a]
  /\ driver[a].ack # "end" /\ ~driver[a].error

AnswerOK(a) ==
  /\ EndLast(down[a], driver[a].song)
  /\ \A k \in Connection : /\ FinalLast(up[a][k])
                           /\ HasFinal(up[a][k]) => down[a] = << >>
                           /\ Among(up[a][k], "ACK end") => taken[a]
  /\ \A j, k \in Connection : HasFinal(up[a][j]) /\ HasFinal(up[a][k]) => j = k
  /\ Pending(a) => Awaiting(a) /\ Unanswered(a)
  /\ Sending(a) => Unanswered(a)
  /\ Busy(a) /\ (lastAck[a] = "end" \/ driver[a].ack = "end") => taken[a]

LEMMA Here ==
  ASSUME TInv, NEW a \in Address
  PROVE  /\ driver[a] \in DriverState
         /\ down[a] \in Seq(Message)
         /\ receiver[a] \in ReceiverState
         /\ \A k \in Connection : up[a][k] \in Seq(FromModule)
         /\ \A k \in Connection : k > accepted[a] => up[a][k] = << >>
         /\ peer[a] # 0 => peer[a] \in Connection /\ peer[a] = accepted[a]
         /\ Busy(a) => driver[a].song \in Songs /\ driver[a].next \in 1 .. LineCount(driver[a].song) + 1
<1>1. driver[a] \in DriverState /\ down[a] \in Seq(Message) /\ receiver[a] \in ReceiverState
  BY DEF TInv, ControllerOK, DeviceOK
<1>2. /\ \A k \in Connection : up[a][k] \in Seq(FromModule)
      /\ peer[a] \in 0 .. MaxConnections
  BY DEF TInv, IInv, TypesOK, NetworkOK, LinesOK
<1>3. /\ \A k \in Connection : k > accepted[a] => up[a][k] = << >>
      /\ peer[a] # 0 => peer[a] = accepted[a]
  BY DEF TInv, IInv, AddressOK, NumberedOK
<1>4. Busy(a) => driver[a].song \in Songs /\ driver[a].next \in 1 .. LineCount(driver[a].song) + 1
  BY <1>1 DEF Busy, DriverState, TInv, BoundsOK
<1>5. QED
  BY <1>1, <1>2, <1>3, <1>4, RegistryAssumption DEF Connection

\* While the driver sends it does not wait.
LEMMA EitherOr ==
  ASSUME TInv, NEW a \in Address
  PROVE  ~(Sending(a) /\ Awaiting(a))
<1>1. Busy(a) => LineCount(driver[a].song) \in Nat /\ driver[a].next \in Nat
  BY Here, SongFacts DEF DriverState
<1>2. QED
  BY <1>1 DEF Sending, Awaiting

\* Lines that are read, lost, or replaced by a greeting leave no more pending.
Fewer(d, d2) == d2 = d \/ d2 = << >> \/ (d # << >> /\ d2 = Tail(d))

LEMMA EndFewer ==
  ASSUME NEW d \in Seq(Message), NEW d2, Fewer(d, d2), NEW song
  PROVE  /\ HasEnd(d2) => HasEnd(d)
         /\ EndLast(d, song) => EndLast(d2, song)
         /\ d = << >> => d2 = << >>
<1>1. CASE d2 = d
  BY <1>1
<1>2. CASE d2 = << >>
  BY <1>2, EndNone
<1>3. CASE d # << >> /\ d2 = Tail(d)
  BY <1>3, EndRead
<1>4. QED
  BY <1>1, <1>2, <1>3 DEF Fewer

LEMMA FinalFewer ==
  ASSUME NEW u \in Seq(FromModule), NEW u2, Fewer(u, u2) \/ u2 = << "HELLO" >>
  PROVE  /\ HasFinal(u2) => HasFinal(u)
         /\ Among(u2, "ACK end") => Among(u, "ACK end")
         /\ FinalLast(u) => FinalLast(u2)
<1>1. CASE u2 = u
  BY <1>1
<1>2. CASE u2 = << >> \/ u2 = << "HELLO" >>
  BY <1>2, AnswerNone
<1>3. CASE u # << >> /\ u2 = Tail(u)
  BY <1>3, AnswerRead
<1>4. QED
  BY <1>1, <1>2, <1>3 DEF Fewer

LEMMA AnswersFewer ==
  ASSUME TInv, NEW a \in Address, AnswerOK(a),
         driver'[a] = driver[a], lastAck'[a] = lastAck[a], lastError'[a] = lastError[a],
         taken'[a] = taken[a],
         Fewer(down[a], down'[a]),
         \A k \in Connection : Fewer(up[a][k], up'[a][k]) \/ up'[a][k] = << "HELLO" >>
  PROVE  AnswerOK(a)'
<1>1. /\ \A k \in Connection : up[a][k] \in Seq(FromModule)
      /\ down[a] \in Seq(Message)
  BY Here
<1>2. /\ HasEnd(down'[a]) => HasEnd(down[a])
      /\ EndLast(down'[a], driver[a].song)
      /\ down[a] = << >> => down'[a] = << >>
  BY <1>1, EndFewer DEF AnswerOK
<1>3. ASSUME NEW k \in Connection
      PROVE  /\ HasFinal(up'[a][k]) => HasFinal(up[a][k])
             /\ Among(up'[a][k], "ACK end") => Among(up[a][k], "ACK end")
             /\ FinalLast(up'[a][k])
  BY <1>1, FinalFewer DEF AnswerOK
<1>4. Pending(a)' => Pending(a)
  BY <1>2, <1>3 DEF Pending
<1>5. Unanswered(a)' = Unanswered(a) /\ Awaiting(a)' = Awaiting(a) /\ Sending(a)' = Sending(a)
      /\ Busy(a)' = Busy(a)
  BY DEF Unanswered, Awaiting, Sending, Busy
<1>6. QED
  BY <1>2, <1>3, <1>4, <1>5 DEF AnswerOK

\* Nothing is pending when the driver starts or ends.
LEMMA AnswersNone ==
  ASSUME NEW a \in Address, AnswerOK(a), ~Pending(a), down'[a] = down[a], up'[a] = up[a],
         Sending(a)' => Unanswered(a)',
         Busy(a)' => lastAck'[a] # "end" /\ driver'[a].ack # "end"
  PROVE  AnswerOK(a)'
<1>1. ~HasEnd(down'[a]) /\ \A k \in Connection : ~HasFinal(up'[a][k])
  BY DEF Pending
<1>2. EndLast(down'[a], driver'[a].song)
  BY <1>1, EndNone
<1>3. \A k \in Connection : FinalLast(up'[a][k]) /\ ~Among(up'[a][k], "ACK end")
  BY <1>1, AnswerNone
<1>4. QED
  BY <1>1, <1>2, <1>3 DEF AnswerOK, Pending

LEMMA EndAnswers ==
  ASSUME Timely, TInv, NEW a \in Address, AnswerOK(a),
         FinishUpload(a) \/ AbortUpload(a) \/ FailUpload(a) \/ TimeOut(a)
  PROVE  AnswerOK(a)' /\ ~Pending(a)
<1>1. driver'[a] = Idle /\ down'[a] = down[a] /\ up'[a] = up[a]
  BY DEF FinishUpload, AbortUpload, FailUpload, TimeOut, Failed, TInv, ControllerOK
<1>2. ~Pending(a)
  <2>1. CASE FinishUpload(a)
    BY <2>1 DEF FinishUpload, AckAccepted, AckSeen, AnswerOK, Unanswered
  <2>2. CASE AbortUpload(a)
    BY <2>2, EitherOr DEF AbortUpload, AnswerOK
  <2>3. CASE FailUpload(a)
    BY <2>3 DEF FailUpload, ErrorSeen, AnswerOK, Unanswered
  <2>4. CASE TimeOut(a)
    BY <2>4, EndNone, AnswerNone DEF TimeOut, Expired, Pending
  <2>5. QED
    BY <2>1, <2>2, <2>3, <2>4
<1>3. ~Busy(a)'
  BY <1>1 DEF Busy, Idle
<1>4. QED
  BY <1>1, <1>2, <1>3, AnswersNone DEF Sending

LEMMA RequestAnswers ==
  ASSUME TInv, NEW a \in Address, NEW song \in Songs, RequestUpload(a, song), AnswerOK(a)
  PROVE  AnswerOK(a)' /\ ~Pending(a)
<1>1. /\ driver'[a] = [Idle EXCEPT !.song = song]
      /\ lastAck'[a] = "none" /\ ~lastError'[a] /\ down'[a] = down[a] /\ up'[a] = up[a]
  BY DEF RequestUpload, ClearedAck, device, TInv, ControllerOK
<1>2. ~Pending(a)
  BY DEF RequestUpload, AnswerOK, Awaiting
<1>3. driver'[a].ack # "end" /\ ~driver'[a].error
  BY <1>1 DEF Idle
<1>4. QED
  BY <1>1, <1>2, <1>3, AnswersNone DEF Unanswered

\* A line is sent while none of the upload's answers is due.
LEMMA SendFacts ==
  ASSUME TInv, NEW a \in Address, SendLine(a)
  PROVE  /\ driver[a].song \in Songs /\ driver[a].next \in 1 .. LineCount(driver[a].song)
         /\ Sending(a) /\ Busy(a)
         /\ driver'[a].song = driver[a].song /\ driver'[a].next = driver[a].next + 1
         /\ driver'[a].current = driver[a].current
         /\ driver'[a].ack = driver[a].ack /\ driver'[a].error = driver[a].error
         /\ up'[a] = up[a] /\ lastAck'[a] = lastAck[a] /\ lastError'[a] = lastError[a]
         /\ taken'[a] = taken[a] /\ calm'[a] = calm[a] /\ failures'[a] = failures[a]
         /\ modules' = modules /\ socket' = socket /\ peer' = peer
         /\ mode'[a] = mode[a] /\ receiver'[a] = receiver[a] /\ stored'[a] = stored[a]
         /\ down'[a] = IF modules[a].ws = peer[a]
                         THEN Append(down[a], LineOf(driver[a].song, driver[a].next))
                         ELSE down[a]
<1>1. driver[a].song \in Songs /\ driver[a].next \in 1 .. LineCount(driver[a].song) /\ Busy(a)
  BY Here DEF SendLine, Sending
<1>2. /\ driver' = [driver EXCEPT ![a].next = @ + 1] /\ driver \in [Address -> DriverState]
  BY DEF SendLine, TInv, ControllerOK
<1>3. /\ driver'[a].song = driver[a].song /\ driver'[a].next = driver[a].next + 1
      /\ driver'[a].current = driver[a].current
      /\ driver'[a].ack = driver[a].ack /\ driver'[a].error = driver[a].error
  BY <1>2 DEF DriverState
<1>4. down'[a] = IF modules[a].ws = peer[a]
                   THEN Append(down[a], LineOf(driver[a].song, driver[a].next))
                   ELSE down[a]
  BY DEF SendLine, TInv, DeviceOK
<1>5. QED
  BY <1>1, <1>3, <1>4 DEF SendLine, history, device, registry, network

LEMMA SendAnswers ==
  ASSUME TInv, NEW a \in Address, SendLine(a), AnswerOK(a)
  PROVE  AnswerOK(a)'
<1> DEFINE song == driver[a].song
           line == LineOf(song, driver[a].next)
<1>1. ~Pending(a) /\ Unanswered(a) /\ Unanswered(a)' /\ Busy(a)' /\ song \in Songs
  BY SendFacts, EitherOr DEF AnswerOK, Unanswered, Busy
<1>2. line \in Message /\ line.song = song /\ (line.type = "E" => Awaiting(a)')
  <2>1. /\ line \in Message /\ line.song = song
        /\ line.type = "E" => driver[a].next = LineCount(song)
    BY SendFacts, LineFacts
  <2>2. driver[a].next = LineCount(song) => Awaiting(a)'
    BY <1>1, SendFacts, SongFacts DEF Awaiting
  <2>3. QED
    BY <2>1, <2>2
<1>3. \A k \in Connection : /\ up'[a][k] = up[a][k] /\ ~HasFinal(up[a][k])
                            /\ FinalLast(up[a][k]) /\ ~Among(up[a][k], "ACK end")
  BY <1>1, SendFacts, AnswerNone DEF Pending
<1>4. EndLast(down'[a], song) /\ (HasEnd(down'[a]) => Awaiting(a)')
  <2>1. ~HasEnd(down[a]) /\ down[a] \in Seq(Message)
    BY <1>1, Here DEF Pending
  <2>2. CASE down'[a] = down[a]
    BY <2>1, <2>2, EndNone
  <2>3. CASE down'[a] = Append(down[a], line)
    <3> HIDE DEF line
    <3>1. EndLast(Append(down[a], line), line.song)
      BY <1>2, <2>1, EndSent
    <3>2. HasEnd(Append(down[a], line)) => line.type = "E"
      BY <1>2, <2>1, EndSent
    <3>3. QED
      BY <1>2, <2>3, <3>1, <3>2
  <2>4. QED
    BY <2>2, <2>3, SendFacts
<1>5. driver'[a].song = song
  BY SendFacts
<1>6. QED
  BY <1>1, <1>3, <1>4, <1>5 DEF AnswerOK, Pending, Unanswered

\* What a module that receives a line does to the queues.
LEMMA Reads ==
  ASSUME TInv, NEW a \in Address, Receive(a)
  PROVE  /\ down[a] # << >> /\ down[a] \in Seq(Message) /\ down'[a] = Tail(down[a])
         /\ peer[a] \in Connection
         /\ driver'[a] = driver[a] /\ lastAck'[a] = lastAck[a] /\ lastError'[a] = lastError[a]
         /\ calm'[a] = calm[a] /\ failures'[a] = failures[a] /\ mode'[a] = mode[a]
         /\ modules' = modules /\ socket' = socket /\ peer' = peer
         /\ \/ Deaf(a, Head(down[a])) /\ Ignores(a)
            \/ Begins(a, Head(down[a])) \/ Collects(a, Head(down[a]))
            \/ Completes(a, Head(down[a])) \/ Rejects(a, Head(down[a]))
<1>1. down[a] \in Seq(Message) /\ down \in [Address -> Seq(Message)]
  BY DEF TInv, DeviceOK
<1>2. QED
  BY <1>1, ReceiveCases DEF registry, network

LEMMA Spoken ==
  ASSUME TInv, NEW a \in Address, NEW kind, Says(a, kind), peer[a] \in Connection
  PROVE  /\ up'[a][peer[a]] = Append(up[a][peer[a]], kind)
         /\ \A k \in Connection : k # peer[a] => up'[a][k] = up[a][k]
<1>1. up \in [Address -> [Connection -> Seq(FromModule)]]
  BY DEF TInv, IInv, TypesOK, LinesOK
<1>2. up' = [up EXCEPT ![a][peer[a]] = Append(up[a][peer[a]], kind)]
  BY DEF Says
<1>3. QED
  BY <1>1, <1>2

\* An E line is answered, and nothing else is answered with ACK end or ERR.
LEMMA AnswerAnswers ==
  ASSUME TInv, NEW a \in Address, AnswerOK(a), peer[a] \in Connection,
         down[a] # << >>, down'[a] = Tail(down[a]),
         driver'[a] = driver[a], lastAck'[a] = lastAck[a], lastError'[a] = lastError[a],
         NEW kind \in FromModule, Says(a, kind),
         kind \in Final <=> Head(down[a]).type = "E",
         kind = "ACK end" => taken'[a], kind \notin Final => taken'[a] = taken[a]
  PROVE  AnswerOK(a)'
<1> DEFINE p == peer[a]
<1>1. /\ p \in Connection /\ up[a][p] \in Seq(FromModule) /\ up'[a][p] = Append(up[a][p], kind)
      /\ \A k \in Connection : k # p => up'[a][k] = up[a][k]
      /\ down[a] \in Seq(Message)
  BY Here, Spoken
<1> HIDE DEF p
<1>2. \A k \in Connection : ~HasFinal(up[a][k]) /\ FinalLast(up[a][k]) /\ ~Among(up[a][k], "ACK end")
  BY AnswerNone DEF AnswerOK
<1>3. /\ FinalLast(up'[a][p])
      /\ HasFinal(up'[a][p]) <=> kind \in Final
      /\ Among(up'[a][p], "ACK end") => kind = "ACK end"
  <2>1. up[a][p] \in Seq(FromModule) /\ up'[a][p] = Append(up[a][p], kind)
    BY <1>1
  <2>2. ~HasFinal(up[a][p])
    BY <1>1, <1>2
  <2>3. QED
    BY <2>1, <2>2, FirstFinal
<1>4. ASSUME NEW k \in Connection
      PROVE  /\ FinalLast(up'[a][k])
             /\ HasFinal(up'[a][k]) => k = p /\ kind \in Final
             /\ Among(up'[a][k], "ACK end") => taken'[a]
  BY <1>1, <1>2, <1>3
<1>5. /\ EndLast(down'[a], driver[a].song)
      /\ HasEnd(down'[a]) => HasEnd(down[a])
      /\ kind \in Final => down'[a] = << >> /\ HasEnd(down[a])
  BY <1>1, EndRead DEF AnswerOK
<1>6. Unanswered(a)' = Unanswered(a) /\ Awaiting(a)' = Awaiting(a) /\ Sending(a)' = Sending(a)
      /\ Busy(a)' = Busy(a)
  BY DEF Unanswered, Awaiting, Sending, Busy
<1>7. Pending(a)' => Pending(a)
  BY <1>4, <1>5 DEF Pending
<1>8. kind \in Final => Unanswered(a)
  BY <1>5 DEF AnswerOK, Pending
<1>9. Busy(a)' /\ (lastAck'[a] = "end" \/ driver'[a].ack = "end") => taken'[a]
  BY <1>6, <1>8 DEF AnswerOK, Unanswered
<1>10. QED
  BY <1>4, <1>5, <1>6, <1>7, <1>9 DEF AnswerOK

LEMMA AnswerKinds ==
  /\ "ACK begin" \in FromModule /\ "ACK end" \in FromModule /\ "ERR" \in FromModule
  /\ "ACK begin" \notin Final /\ "ACK begin" # "ACK end"
  /\ "ACK end" \in Final
  /\ "ERR" \in Final /\ "ERR" # "ACK end" /\ "ERR" # "ACK begin"
  /\ "HELLO" \notin Final
BY DEF FromModule, Final

LEMMA ReceiveAnswers ==
  ASSUME TInv, NEW a \in Address, Receive(a), AnswerOK(a)
  PROVE  AnswerOK(a)'
<1> DEFINE m == Head(down[a])
<1>1. /\ down[a] # << >> /\ down'[a] = Tail(down[a]) /\ peer[a] \in Connection
      /\ driver'[a] = driver[a] /\ lastAck'[a] = lastAck[a] /\ lastError'[a] = lastError[a]
      /\ \/ Deaf(a, m) /\ Ignores(a)
         \/ Begins(a, m) \/ Collects(a, m) \/ Completes(a, m) \/ Rejects(a, m)
  BY Reads
<1>2. CASE UNCHANGED <<up, taken>>
  <2>1. taken'[a] = taken[a] /\ \A k \in Connection : Fewer(up[a][k], up'[a][k])
    BY <1>2 DEF Fewer
  <2>2. Fewer(down[a], down'[a])
    BY <1>1 DEF Fewer
  <2>3. QED
    BY <1>1, <2>1, <2>2, AnswersFewer
<1> HIDE DEF m
<1>3. CASE (Deaf(a, m) /\ Ignores(a)) \/ Collects(a, m)
  BY <1>2, <1>3 DEF Ignores, Collects
<1>4. CASE Begins(a, m)
  <2>1. Says(a, "ACK begin") /\ m.type # "E" /\ taken'[a] = taken[a]
    BY <1>4 DEF Begins
  <2>2. QED
    BY <1>1, <2>1, AnswerAnswers, AnswerKinds DEF m
<1>5. CASE Completes(a, m)
  <2>1. Says(a, "ACK end") /\ m.type = "E" /\ taken'[a]
    BY <1>5 DEF Completes, TInv, HistoryOK
  <2>2. QED
    BY <1>1, <2>1, AnswerAnswers, AnswerKinds DEF m
<1>6. CASE Rejects(a, m)
  <2>1. Says(a, "ERR") /\ m.type = "E" /\ taken'[a] = taken[a]
    BY <1>6 DEF Rejects
  <2>2. QED
    BY <1>1, <2>1, AnswerAnswers, AnswerKinds DEF m
<1>7. QED
  BY <1>1, <1>3, <1>4, <1>5, <1>6

\* An answer that arrives was the only one that was pending.
LEMMA Hears ==
  ASSUME TInv, NEW a \in Address, Hear(a)
  PROVE  /\ driver'[a] = driver[a] /\ down'[a] = down[a] /\ taken'[a] = taken[a]
         /\ receiver'[a] = receiver[a] /\ mode'[a] = mode[a] /\ calm'[a] = calm[a]
         /\ failures'[a] = failures[a] /\ socket' = socket /\ peer' = peer
         /\ \E k \in Connection :
              /\ Timely => \A former \in 1 .. k - 1 : up[a][former] = << >>
              /\ up[a][k] # << >> /\ up'[a][k] = Tail(up[a][k])
              /\ \A j \in Connection \ {k} : up'[a][j] = up[a][j]
              /\ \/ /\ Head(up[a][k]) = "HELLO" /\ HearHello(a, k)
                    /\ lastAck'[a] = lastAck[a] /\ lastError'[a] = lastError[a]
                 \/ /\ Head(up[a][k]) \in {"ACK begin", "ACK end", "ERR"}
                    /\ modules' = modules
                    /\ lastAck'[a] = IF Head(up[a][k]) = "ACK begin" THEN "begin"
                                       ELSE IF Head(up[a][k]) = "ACK end" THEN "end"
                                       ELSE lastAck[a]
                    /\ lastError'[a] = (lastError[a] \/ Head(up[a][k]) = "ERR")
<1>1. /\ UNCHANGED <<driver, shown, down, mode, receiver, stored, taken, calm, failures>>
  BY HearCases
<1>2. PICK k \in Connection :
        /\ Timely => \A former \in 1 .. k - 1 : up[a][former] = << >>
        /\ \/ HearHello(a, k) /\ UNCHANGED <<lastAck, lastError>>
           \/ \E kind \in {"ACK begin", "ACK end", "ERR"} : HearsAnswer(a, k, kind)
  BY HearCases
<1>3. up \in [Address -> [Connection -> Seq(FromModule)]]
  BY DEF TInv, IInv, TypesOK, LinesOK
<1>4. ASSUME NEW kind, Arrives(a, k, kind)
      PROVE  /\ up[a][k] # << >> /\ Head(up[a][k]) = kind
             /\ up'[a][k] = Tail(up[a][k])
             /\ \A j \in Connection \ {k} : up'[a][j] = up[a][j]
  <2>1. up' = [up EXCEPT ![a][k] = Tail(up[a][k])] /\ up[a][k] # << >> /\ Head(up[a][k]) = kind
    BY <1>4 DEF Arrives
  <2>2. QED
    BY <1>3, <2>1
<1>5. CASE HearHello(a, k) /\ UNCHANGED <<lastAck, lastError>>
  <2>1. Arrives(a, k, "HELLO") /\ socket' = socket /\ peer' = peer
    BY <1>5 DEF HearHello, network
  <2>2. QED
    BY <1>1, <1>2, <1>4, <1>5, <2>1
<1>6. ASSUME NEW kind \in {"ACK begin", "ACK end", "ERR"}, HearsAnswer(a, k, kind)
      PROVE  /\ Arrives(a, k, kind) /\ socket' = socket /\ peer' = peer /\ modules' = modules
             /\ lastAck'[a] = IF kind = "ACK begin" THEN "begin"
                                ELSE IF kind = "ACK end" THEN "end" ELSE lastAck[a]
             /\ lastError'[a] = (lastError[a] \/ kind = "ERR")
  BY <1>6, AnswerTypes DEF HearsAnswer, network, registry
<1>7. QED
  BY <1>1, <1>2, <1>4, <1>5, <1>6

LEMMA HearAnswers ==
  ASSUME TInv, NEW a \in Address, Hear(a), AnswerOK(a)
  PROVE  AnswerOK(a)'
<1>1. /\ driver'[a] = driver[a] /\ down'[a] = down[a] /\ taken'[a] = taken[a]
      /\ \A k \in Connection : up[a][k] \in Seq(FromModule)
  BY Hears, Here
<1>2. PICK k \in Connection :
        /\ up[a][k] # << >> /\ up'[a][k] = Tail(up[a][k])
        /\ \A j \in Connection \ {k} : up'[a][j] = up[a][j]
        /\ \/ lastAck'[a] = lastAck[a] /\ lastError'[a] = lastError[a]
           \/ /\ Head(up[a][k]) \in {"ACK begin", "ACK end", "ERR"}
              /\ lastAck'[a] = IF Head(up[a][k]) = "ACK begin" THEN "begin"
                                 ELSE IF Head(up[a][k]) = "ACK end" THEN "end"
                                 ELSE lastAck[a]
              /\ lastError'[a] = (lastError[a] \/ Head(up[a][k]) = "ERR")
  BY Hears
<1> DEFINE kind == Head(up[a][k])
<1>3. Fewer(down[a], down'[a]) /\ \A j \in Connection : Fewer(up[a][j], up'[a][j])
  BY <1>1, <1>2 DEF Fewer
<1>4. CASE lastAck'[a] = lastAck[a] /\ lastError'[a] = lastError[a]
  BY <1>1, <1>3, <1>4, AnswersFewer
<1>5. ASSUME kind \in {"ACK begin", "ACK end", "ERR"},
             lastAck'[a] = IF kind = "ACK begin" THEN "begin"
                             ELSE IF kind = "ACK end" THEN "end" ELSE lastAck[a],
             lastError'[a] = (lastError[a] \/ kind = "ERR")
      PROVE  AnswerOK(a)'
  <2>1. /\ HasFinal(up[a][k]) <=> kind \in Final \/ HasFinal(Tail(up[a][k]))
        /\ FinalLast(up[a][k])
        /\ kind \in Final => Tail(up[a][k]) = << >>
        /\ \A line : Among(up[a][k], line) <=> kind = line \/ Among(Tail(up[a][k]), line)
    BY <1>1, <1>2, AnswerRead DEF AnswerOK
  <2>2. \A j \in Connection : /\ FinalLast(up'[a][j])
                              /\ HasFinal(up'[a][j]) => HasFinal(up[a][j])
                              /\ Among(up'[a][j], "ACK end") => Among(up[a][j], "ACK end")
    BY <1>1, <1>3, FinalFewer DEF AnswerOK
  <2>3. kind = "ACK end" => taken[a]
    BY <2>1 DEF AnswerOK
  <2> HIDE DEF kind
  <2>4. Awaiting(a)' = Awaiting(a) /\ Sending(a)' = Sending(a) /\ Busy(a)' = Busy(a)
    BY <1>1 DEF Awaiting, Sending, Busy
  <2>5. Pending(a)' => Pending(a)
    BY <1>1, <2>2 DEF Pending
  <2>6. CASE kind \in Final
    <3>1. HasFinal(up[a][k]) /\ down[a] = << >>
      BY <2>1, <2>6 DEF AnswerOK
    <3>2. Awaiting(a) /\ ~Sending(a)
      BY <3>1, EitherOr DEF AnswerOK, Pending
    <3>3. ~HasFinal(up'[a][k])
      BY <1>2, <2>1, <2>6, AnswerNone DEF kind
    <3>4. \A j \in Connection : ~HasFinal(up'[a][j])
      BY <2>2, <3>1, <3>3 DEF AnswerOK
    <3>5. ~Pending(a)'
      BY <1>1, <3>1, <3>4, EndNone DEF Pending
    <3>6. lastAck'[a] = "end" => lastAck[a] = "end" \/ kind = "ACK end"
      BY <1>5
    <3>7. QED
      BY <1>1, <2>2, <2>3, <2>4, <3>2, <3>4, <3>5, <3>6 DEF AnswerOK
  <2>7. CASE kind \notin Final
    <3>1. lastAck'[a] = "begin" /\ lastError'[a] = lastError[a]
      <4>1. kind = "ACK begin"
        BY <1>5, <2>7, AnswerKinds
      <4>2. QED
        BY <1>5, <4>1 DEF TInv, ControllerOK
    <3>2. Unanswered(a) => Unanswered(a)'
      BY <1>1, <3>1 DEF Unanswered
    <3>3. QED
      BY <1>1, <2>2, <2>4, <2>5, <3>1, <3>2 DEF AnswerOK
  <2>8. QED
    BY <2>6, <2>7
<1>6. QED
  BY <1>2, <1>4, <1>5

LEMMA UserAnswers ==
  ASSUME TInv, NEW a \in Address, StartRecording(a) \/ StopRecording(a) \/ PressPower(a), AnswerOK(a)
  PROVE  AnswerOK(a)'
<1>1. /\ driver' = driver /\ lastAck' = lastAck /\ lastError' = lastError /\ taken' = taken
      /\ down' = down /\ up' = up
  BY DEF StartRecording, StopRecording, PressPower, controller
<1>2. Fewer(down[a], down'[a]) /\ \A k \in Connection : Fewer(up[a][k], up'[a][k])
  BY <1>1 DEF Fewer
<1>3. QED
  BY <1>1, <1>2, AnswersFewer

\* A connection that is lost or made loses lines, and says hello.
LEMMA LossAnswers ==
  ASSUME TInv, NEW a \in Address, LoseConnection(a) \/ CloseConnection(a) \/ Reboot(a), AnswerOK(a)
  PROVE  AnswerOK(a)'
<1>1. driver' = driver /\ lastAck' = lastAck /\ lastError' = lastError /\ taken' = taken
  BY DEF LoseConnection, CloseConnection, Reboot, controller
<1>2. Fewer(down[a], down'[a])
  BY DEF Fewer, LoseConnection, CloseConnection, Reboot, TInv, DeviceOK
<1>3. up \in [Address -> [Connection -> Seq(FromModule)]]
  BY DEF TInv, IInv, TypesOK, LinesOK
<1>4. up' = up \/ \E k \in Connection : up' = [up EXCEPT ![a][k] = << >>]
  BY DEF LoseConnection, CloseConnection, Reboot, Vanish, Disconnect, Closed
<1>5. \A k \in Connection : Fewer(up[a][k], up'[a][k])
  BY <1>3, <1>4 DEF Fewer
<1>6. QED
  BY <1>1, <1>2, <1>5, AnswersFewer

LEMMA Reconnected ==
  ASSUME TInv, NEW a \in Address, Reconnect(a)
  PROVE  /\ down'[a] = down[a] /\ lastAck'[a] = lastAck[a] /\ lastError'[a] = lastError[a]
         /\ taken'[a] = taken[a] /\ failures'[a] = failures[a] /\ calm'[a] = FALSE
         /\ receiver'[a] = receiver[a]
         /\ driver'[a].song = driver[a].song /\ driver'[a].next = driver[a].next
         /\ \/ driver'[a].ack = driver[a].ack /\ driver'[a].error = driver[a].error
            \/ driver'[a].ack = lastAck[a] /\ driver'[a].error = lastError[a]
         /\ \A k \in Connection : up'[a][k] = up[a][k] \/ up'[a][k] = << "HELLO" >>
<1>1. /\ driver' = Renewed(a) /\ driver[a] \in DriverState
      /\ driver \in [Address -> DriverState]
  BY DEF Reconnect, TInv, ControllerOK
<1>2. /\ driver'[a].song = driver[a].song /\ driver'[a].next = driver[a].next
      /\ \/ driver'[a].ack = driver[a].ack /\ driver'[a].error = driver[a].error
         \/ driver'[a].ack = lastAck[a] /\ driver'[a].error = lastError[a]
  <2>1. CASE Busy(a) /\ driver[a].current
    <3> DEFINE d == [driver[a] EXCEPT !.current = FALSE, !.ack = lastAck[a], !.error = lastError[a]]
    <3>1. driver' = [driver EXCEPT ![a] = d]
      BY <1>1, <2>1 DEF Renewed
    <3>2. d.song = driver[a].song /\ d.next = driver[a].next /\ d.ack = lastAck[a]
          /\ d.error = lastError[a]
      BY <1>1 DEF DriverState
    <3> HIDE DEF d
    <3>3. QED
      BY <1>1, <3>1, <3>2
  <2>2. CASE ~(Busy(a) /\ driver[a].current)
    BY <1>1, <2>2 DEF Renewed
  <2>3. QED
    BY <2>1, <2>2
<1>3. calm'[a] = FALSE
  BY DEF Reconnect, TInv, HistoryOK
<1>4. \A k \in Connection : up'[a][k] = up[a][k] \/ up'[a][k] = << "HELLO" >>
  <2>1. /\ up' = [up EXCEPT ![a][accepted[a] + 1] = << "HELLO" >>]
        /\ up \in [Address -> [Connection -> Seq(FromModule)]]
    BY DEF Reconnect, Connect, TInv, IInv, TypesOK, LinesOK
  <2>2. QED
    BY <2>1
<1>5. QED
  BY <1>2, <1>3, <1>4 DEF Reconnect, device

LEMMA ReconnectAnswers ==
  ASSUME TInv, NEW a \in Address, Reconnect(a), AnswerOK(a)
  PROVE  AnswerOK(a)'
<1>1. Unanswered(a) => Unanswered(a)'
  BY Reconnected DEF Unanswered
<1>2. Awaiting(a)' = Awaiting(a) /\ Sending(a)' = Sending(a) /\ Busy(a)' = Busy(a)
  BY Reconnected DEF Awaiting, Sending, Busy
<1>3. ASSUME NEW k \in Connection
      PROVE  /\ HasFinal(up'[a][k]) => HasFinal(up[a][k])
             /\ Among(up'[a][k], "ACK end") => Among(up[a][k], "ACK end")
             /\ FinalLast(up'[a][k])
  <2>1. up[a][k] \in Seq(FromModule) /\ FinalLast(up[a][k])
    BY Here DEF AnswerOK
  <2>2. Fewer(up[a][k], up'[a][k]) \/ up'[a][k] = << "HELLO" >>
    BY Reconnected DEF Fewer
  <2>3. QED
    BY <2>1, <2>2, FinalFewer
<1>4. Pending(a)' => Pending(a)
  BY <1>3, Reconnected DEF Pending
<1>5. Busy(a)' /\ (lastAck'[a] = "end" \/ driver'[a].ack = "end") => taken'[a]
  BY <1>2, Reconnected DEF AnswerOK
<1>6. QED
  BY <1>1, <1>2, <1>3, <1>4, <1>5, Reconnected DEF AnswerOK

-----------------------------------------------------------------------------
(* Retries.  Of two undisturbed uploads in a row the first may fail because  *)
(* of what an earlier one has left in the receiver, but leaves nothing there *)
(* itself; the second then gets every line to the module, in order, and its  *)
(* answer back.                                                              *)

InOrder(d, song, n) == \A i \in 1 .. Len(d) : d[i] = LineOf(song, n + i)
LastIs(u, line)     == u # << >> /\ u[Len(u)] = line

Undisturbed(a) == Busy(a) /\ calm[a]

\* What an upload needs in order to go on undisturbed.
Steady(a) == /\ Reachable(a) /\ modules[a].ws = peer[a]
             /\ mode[a] = "idle" /\ driver[a].current

\* No upload has begun at the module, and no line of one is under way.
Quiet(a) == ~receiver[a].uploading /\ down[a] = << >>

\* The lines that have been received so far: the rest of those that were sent is under way.
Got(a) == driver[a].next - 1 - Len(down[a])

\* The module has said ACK end, and all it has said before comes before it.
Acknowledged(a) ==
  \/ lastAck[a] = "end" /\ \A k \in Connection : up[a][k] = << >>
  \/ LastIs(up[a][peer[a]], "ACK end")

NoError(a) == ~lastError[a] /\ \A k \in Connection : ~Among(up[a][k], "ERR")

OnTrack(a) ==
  /\ Got(a) >= 0
  /\ InOrder(down[a], driver[a].song, Got(a))
  /\ receiver[a].uploading <=> Got(a) # 0 /\ Got(a) # LineCount(driver[a].song)
  /\ receiver[a].uploading => /\ receiver[a].id = driver[a].song
                              /\ Len(receiver[a].steps) = Got(a) - 1
  /\ Got(a) = LineCount(driver[a].song) => Acknowledged(a)
  /\ NoError(a)

RetryOK(a) ==
  /\ failures[a] <= 1
  /\ Undisturbed(a) => Steady(a)
  /\ Undisturbed(a) /\ Awaiting(a) /\ ~HasEnd(down[a]) => Quiet(a)
  /\ ~Busy(a) /\ failures[a] = 1 => Quiet(a)
  /\ Undisturbed(a) /\ failures[a] = 1 => OnTrack(a)

PInv == TInv /\ \A a \in Address : AnswerOK(a) /\ RetryOK(a)

LEMMA OrderRead ==
  ASSUME NEW d \in Seq(Message), d # << >>, NEW song, NEW n \in Int, InOrder(d, song, n)
  PROVE  /\ Len(d) \in Nat \ {0} /\ Tail(d) \in Seq(Message) /\ Len(Tail(d)) = Len(d) - 1
         /\ Head(d) = LineOf(song, n + 1)
         /\ InOrder(Tail(d), song, n + 1)
<1> DEFINE t == Tail(d)
<1>1. /\ Len(d) \in Nat \ {0} /\ Head(d) = d[1] /\ t \in Seq(Message) /\ Len(t) = Len(d) - 1
      /\ \A i \in 1 .. Len(d) - 1 : t[i] = d[i + 1] /\ i + 1 \in 1 .. Len(d)
  BY LineRead
<1> HIDE DEF t
<1>2. ASSUME NEW i \in 1 .. Len(t) PROVE t[i] = LineOf(song, (n + 1) + i)
  <2>1. t[i] = d[i + 1] /\ i + 1 \in 1 .. Len(d)
    BY <1>1
  <2>2. d[i + 1] = LineOf(song, n + (i + 1)) /\ n + (i + 1) = (n + 1) + i
    BY <2>1 DEF InOrder
  <2>3. QED
    BY <2>1, <2>2
<1>3. d[1] = LineOf(song, n + 1)
  BY <1>1 DEF InOrder
<1>4. QED
  BY <1>1, <1>2, <1>3 DEF InOrder, t

LEMMA OrderSent ==
  ASSUME NEW d \in Seq(Message), NEW song, NEW n \in Int, InOrder(d, song, n),
         LineOf(song, n + Len(d) + 1) \in Message
  PROVE  /\ Len(d) \in Nat /\ Len(Append(d, LineOf(song, n + Len(d) + 1))) = Len(d) + 1
         /\ InOrder(Append(d, LineOf(song, n + Len(d) + 1)), song, n)
<1> DEFINE m == LineOf(song, n + Len(d) + 1)
           t == Append(d, m)
<1>1. m \in Message
  OBVIOUS
<1> HIDE DEF m
<1>2. /\ Len(d) \in Nat /\ Len(t) = Len(d) + 1 /\ t[Len(d) + 1] = m
      /\ \A i \in 1 .. Len(d) : t[i] = d[i]
  BY <1>1
<1> HIDE DEF t
<1>3. ASSUME NEW i \in 1 .. Len(t) PROVE t[i] = LineOf(song, n + i)
  <2>1. CASE i = Len(d) + 1
    <3>1. n + i = n + Len(d) + 1
      BY <1>2, <2>1
    <3>2. QED
      BY <1>2, <2>1, <3>1 DEF m
  <2>2. CASE i \in 1 .. Len(d)
    BY <1>2, <2>2 DEF InOrder
  <2>3. QED
    BY <1>2, <2>1, <2>2
<1>4. QED
  BY <1>2, <1>3 DEF InOrder, t, m

LEMMA LastSaid ==
  ASSUME NEW u \in Seq(FromModule), NEW said \in FromModule
  PROVE  LastIs(Append(u, said), said)
BY DEF LastIs

LEMMA LastRead ==
  ASSUME NEW u \in Seq(FromModule), u # << >>, NEW line, LastIs(u, line)
  PROVE  IF Tail(u) = << >> THEN Head(u) = line ELSE LastIs(Tail(u), line)
<1> DEFINE t == Tail(u)
<1>1. /\ Len(u) \in Nat \ {0} /\ Head(u) = u[1] /\ Len(t) = Len(u) - 1
      /\ \A i \in 1 .. Len(u) - 1 : t[i] = u[i + 1]
      /\ t \in Seq(FromModule)
  OBVIOUS
<1> HIDE DEF t
<1>2. CASE t = << >>
  <2>1. Len(t) = 0
    BY <1>2
  <2>2. Len(u) = 1
    BY <1>1, <2>1
  <2>3. QED
    BY <1>1, <1>2, <2>2 DEF LastIs, t
<1>3. CASE t # << >>
  <2>1. Len(t) \in Nat \ {0}
    BY <1>1, <1>3, EmptySeq
  <2>2. t[Len(t)] = u[Len(u)]
    BY <1>1, <2>1
  <2>3. QED
    BY <1>3, <2>2 DEF LastIs, t
<1>4. QED
  BY <1>2, <1>3

\* A disturbance: no upload of the module is undisturbed any more.
LEMMA Disturbing ==
  ASSUME NEW a \in Address, RetryOK(a), calm'[a] = FALSE, failures'[a] = failures[a],
         driver'[a].song = driver[a].song, Quiet(a) => Quiet(a)'
  PROVE  RetryOK(a)'
BY DEF RetryOK, Undisturbed, Busy

LEMMA DisturbedRetry ==
  ASSUME TInv, NEW a \in Address, RetryOK(a),
         \/ StartRecording(a) \/ StopRecording(a) \/ PressPower(a) \/ Reboot(a)
         \/ Reconnect(a) \/ LoseConnection(a) \/ CloseConnection(a)
  PROVE  RetryOK(a)'
<1>1. calm'[a] = FALSE /\ failures'[a] = failures[a]
  BY DEF StartRecording, StopRecording, PressPower, Reboot, Reconnect, LoseConnection,
     CloseConnection, Change, TInv, HistoryOK
<1>2. driver'[a].song = driver[a].song
  BY Reconnected DEF StartRecording, StopRecording, PressPower, Reboot, LoseConnection,
     CloseConnection, controller
<1>3. /\ receiver'[a].uploading => receiver[a].uploading
      /\ down'[a] = down[a] \/ down'[a] = << >>
  <2>1. CASE Reboot(a)
    <3> DEFINE r == [receiver[a] EXCEPT !.uploading = FALSE, !.steps = << >>]
    <3>1. receiver' = [receiver EXCEPT ![a] = r] /\ down' = [down EXCEPT ![a] = << >>]
      BY <2>1 DEF Reboot, TInv, DeviceOK
    <3>2. ~r.uploading
      BY Here DEF ReceiverState
    <3> HIDE DEF r
    <3>3. QED
      BY <3>1, <3>2 DEF TInv, DeviceOK
  <2>2. CASE ~Reboot(a)
    BY <2>2 DEF StartRecording, StopRecording, PressPower, Reconnect, LoseConnection,
       CloseConnection, device, TInv, DeviceOK
  <2>3. QED
    BY <2>1, <2>2
<1>4. QED
  BY <1>1, <1>2, <1>3, Disturbing DEF Quiet

LEMMA RequestRetry ==
  ASSUME TInv, NEW a \in Address, NEW song \in Songs, RequestUpload(a, song),
         AnswerOK(a), RetryOK(a)
  PROVE  RetryOK(a)'
<1>1. /\ driver'[a] = [Idle EXCEPT !.song = song] /\ ~Busy(a)
      /\ ~lastError'[a] /\ failures'[a] = failures[a]
      /\ calm'[a] = (Reachable(a) /\ modules[a].ws = peer[a] /\ mode[a] = "idle")
      /\ UNCHANGED <<modules, socket, peer, down, up, receiver, mode>>
  BY DEF RequestUpload, device, registry, network, TInv, ControllerOK, HistoryOK
<1>2. driver'[a].song = song /\ driver'[a].next = 1 /\ driver'[a].current /\ song # NoSong
  BY <1>1, SongFacts DEF Idle
<1>3. Undisturbed(a)' => Steady(a)'
  BY <1>1, <1>2 DEF Undisturbed, Steady, Reachable, Listed, Open
<1>4. Busy(a)' /\ ~Awaiting(a)'
  <2>1. LineCount(song) \in Nat /\ ~(1 > LineCount(song))
    BY SongFacts
  <2>2. QED
    BY <1>2, <2>1 DEF Busy, Awaiting
<1>5. failures[a] = 1 => OnTrack(a)'
  <2>1. SUFFICES ASSUME Quiet(a) PROVE OnTrack(a)'
    BY <1>1 DEF RetryOK
  <2>2. Got(a)' = 0 /\ down'[a] = << >> /\ ~receiver'[a].uploading
    BY <1>1, <1>2, <2>1 DEF Got, Quiet
  <2>3. InOrder(down'[a], song, 0) /\ LineCount(song) # 0
    BY <2>2, SongFacts DEF InOrder
  <2>4. \A k \in Connection : ~Among(up'[a][k], "ERR")
    BY <1>1, RequestAnswers, AnswerNone DEF Pending
  <2>5. NoError(a)'
    BY <1>1, <2>4 DEF NoError
  <2>6. QED
    BY <1>2, <2>2, <2>3, <2>5 DEF OnTrack
<1>6. QED
  BY <1>1, <1>3, <1>4, <1>5 DEF RetryOK

LEMMA SendRetry ==
  ASSUME TInv, NEW a \in Address, SendLine(a), AnswerOK(a), RetryOK(a)
  PROVE  RetryOK(a)'
<1> DEFINE song == driver[a].song
           line == LineOf(song, driver[a].next)
<1>1. /\ song \in Songs /\ driver[a].next \in Nat /\ driver[a].next <= LineCount(song)
      /\ LineCount(song) \in Nat /\ line \in Message /\ down[a] \in Seq(Message)
      /\ line.type = "E" <=> driver[a].next = LineCount(song)
  BY SendFacts, LineFacts, SongFacts, Here
<1>2. /\ Undisturbed(a)' = Undisturbed(a) /\ Busy(a)' /\ Busy(a)
      /\ failures'[a] = failures[a]
  BY SendFacts DEF Undisturbed, Busy
<1>3. Steady(a)' = Steady(a)
  BY SendFacts DEF Steady, Reachable, Listed, Open
<1>4. CASE ~Undisturbed(a)
  BY <1>2, <1>4 DEF RetryOK
<1>5. CASE Undisturbed(a)
  <2>1. Steady(a) /\ down'[a] = Append(down[a], line)
    BY <1>5, SendFacts DEF RetryOK, Steady
  <2> HIDE DEF line
  <2>2. Awaiting(a)' => HasEnd(down'[a])
    <3>1. Awaiting(a)' => driver[a].next + 1 > LineCount(song)
      BY SendFacts DEF Awaiting
    <3>2. Awaiting(a)' => line.type = "E"
      BY <1>1, <3>1
    <3>3. QED
      BY <1>1, <2>1, <3>2, EndSent
  <2>3. OnTrack(a) => OnTrack(a)'
    <3>1. SUFFICES ASSUME OnTrack(a) PROVE OnTrack(a)'
      OBVIOUS
    <3> DEFINE n == Got(a)
    <3>2. /\ Len(down[a]) \in Nat /\ n \in Int /\ n + Len(down[a]) + 1 = driver[a].next
          /\ n >= 0
      BY <1>1, <3>1 DEF Got, OnTrack
    <3>3. InOrder(down[a], song, n)
      BY <3>1 DEF OnTrack
    <3> HIDE DEF n
    <3>4. InOrder(down'[a], song, n) /\ Len(down'[a]) = Len(down[a]) + 1
      <4>1. line = LineOf(song, n + Len(down[a]) + 1)
        BY <3>2 DEF line
      <4>2. LineOf(song, n + Len(down[a]) + 1) \in Message
        BY <1>1, <4>1
      <4>3. QED
        BY <1>1, <2>1, <3>2, <3>3, <4>1, <4>2, OrderSent
    <3>5. Got(a)' = n
      <4>1. driver'[a].next = driver[a].next + 1
        BY SendFacts
      <4>2. QED
        BY <1>1, <3>2, <3>4, <4>1 DEF Got
    <3>6. (Acknowledged(a) => Acknowledged(a)') /\ (NoError(a) => NoError(a)')
      <4>1. up'[a] = up[a] /\ lastAck'[a] = lastAck[a] /\ lastError'[a] = lastError[a]
            /\ peer'[a] = peer[a]
        BY SendFacts
      <4>2. Acknowledged(a) => Acknowledged(a)'
        BY <4>1 DEF Acknowledged
      <4>3. NoError(a) => NoError(a)'
        BY <4>1 DEF NoError
      <4>4. QED
        BY <4>2, <4>3
    <3>7. driver'[a].song = song /\ receiver'[a] = receiver[a]
      BY SendFacts
    <3>8. QED
      BY <3>1, <3>2, <3>4, <3>5, <3>6, <3>7 DEF OnTrack, n
  <2>4. QED
    BY <1>2, <1>3, <2>1, <2>2, <2>3 DEF RetryOK
<1>6. QED
  BY <1>4, <1>5

\* A module that is on takes every line of an upload that is on track.
LEMMA ReceiveOnTrack ==
  ASSUME TInv, NEW a \in Address, Receive(a), OnTrack(a), Busy(a), mode[a] = "idle"
  PROVE  OnTrack(a)'
<1> DEFINE song == driver[a].song
           m == Head(down[a])
           n == Got(a)
           r == receiver[a]
<1>1. /\ song \in Songs /\ LineCount(song) = Length(song) + 2
      /\ Length(song) \in Nat /\ 1 <= Length(song) /\ Length(song) <= MAX_SEQUENCE_LENGTH
      /\ driver[a].next \in 1 .. LineCount(song) + 1
  BY Here, SongFacts
<1>2. /\ down[a] # << >> /\ down[a] \in Seq(Message) /\ down'[a] = Tail(down[a])
      /\ driver'[a] = driver[a] /\ lastAck'[a] = lastAck[a] /\ lastError'[a] = lastError[a]
      /\ peer[a] \in Connection /\ peer'[a] = peer[a]
      /\ \/ Deaf(a, m) /\ Ignores(a)
         \/ Begins(a, m) \/ Collects(a, m) \/ Completes(a, m) \/ Rejects(a, m)
  BY Reads
<1>3. n \in Nat /\ n < LineCount(song) /\ InOrder(down[a], song, n)
  BY <1>1, <1>2, LineRead DEF Got, OnTrack
<1>4. /\ m = LineOf(song, n + 1) /\ InOrder(down'[a], song, n + 1)
      /\ Got(a)' = n + 1
  <2>1. n = driver[a].next - 1 - Len(down[a])
    BY DEF Got
  <2> HIDE DEF n
  <2>2. /\ m = LineOf(song, n + 1) /\ InOrder(down'[a], song, n + 1)
        /\ Len(down'[a]) = Len(down[a]) - 1 /\ Len(down[a]) \in Nat
    BY <1>2, <1>3, OrderRead
  <2>3. driver'[a].next = driver[a].next /\ driver[a].next \in Int
    BY <1>1, <1>2
  <2>4. n + 1 = driver[a].next - 1 - (Len(down[a]) - 1)
    BY <1>3, <2>1, <2>2, <2>3
  <2>5. QED
    BY <2>2, <2>3, <2>4 DEF Got
<1>5. /\ r \in ReceiverState
      /\ r.uploading <=> n # 0 /\ n # LineCount(song)
      /\ r.uploading => r.id = song /\ Len(r.steps) = n - 1 /\ r.length = Length(song)
      /\ NoError(a)
  BY Here DEF OnTrack, TInv, BoundsOK
<1> HIDE DEF n, m, r
<1>6. /\ m.song = song
      /\ m.type = "U" <=> n = 0
      /\ m.type = "E" <=> n = Length(song) + 1
      /\ m.type \in {"U", "S", "E"}
  <2>1. n + 1 \in 1 .. LineCount(song)
    BY <1>1, <1>3
  <2>2. /\ m \in Message /\ m.song = song
        /\ m.type = "U" <=> n + 1 = 1
        /\ m.type = "E" <=> n + 1 = LineCount(song)
    BY <1>1, <1>4, <2>1, LineFacts
  <2>3. QED
    BY <1>1, <1>3, <2>2 DEF Message, Line
<1>7. SUFFICES /\ receiver'[a].uploading <=> n # LineCount(song) - 1
               /\ receiver'[a].uploading => receiver'[a].id = song /\ Len(receiver'[a].steps) = n
               /\ n = LineCount(song) - 1 => Acknowledged(a)'
               /\ NoError(a)'
  BY <1>1, <1>2, <1>3, <1>4 DEF OnTrack
<1>8. ASSUME NEW kind \in FromModule, Says(a, kind), kind # "ERR"
      PROVE  NoError(a)' /\ LastIs(up'[a][peer'[a]], kind)
  <2>1. /\ up'[a][peer[a]] = Append(up[a][peer[a]], kind) /\ up[a][peer[a]] \in Seq(FromModule)
        /\ \A k \in Connection : k # peer[a] => up'[a][k] = up[a][k]
    BY <1>2, <1>8, Spoken, Here
  <2>2. ~Among(up[a][peer[a]], "ERR")
    BY <1>2, <1>5 DEF NoError
  <2>3. ~Among(up'[a][peer[a]], "ERR")
    <3>1. \A line : Among(up'[a][peer[a]], line) => Among(up[a][peer[a]], line) \/ kind = line
      BY <2>1, AnswerSaid
    <3>2. QED
      BY <1>8, <2>2, <3>1
  <2>4. \A k \in Connection : ~Among(up'[a][k], "ERR")
    BY <1>5, <2>1, <2>3 DEF NoError
  <2>5. LastIs(up'[a][peer'[a]], kind)
    BY <1>2, <2>1, LastSaid
  <2>6. QED
    BY <1>2, <1>5, <2>4, <2>5 DEF NoError
<1>9. CASE n = 0
  <2>1. m.type = "U" /\ ~r.uploading
    BY <1>5, <1>6, <1>9
  <2>2. Begins(a, m)
    BY <1>2, <2>1 DEF Deaf, Collects, Completes, Rejects, r
  <2>3. /\ receiver'[a].uploading /\ receiver'[a].id = song /\ Len(receiver'[a].steps) = 0
        /\ Says(a, "ACK begin")
    <3>1. receiver'[a] = [uploading |-> TRUE, id |-> m.song, length |-> Length(m.song),
                          steps |-> << >>]
      BY <2>2 DEF Begins, TInv, DeviceOK
    <3>2. /\ receiver'[a].uploading /\ receiver'[a].id = m.song
          /\ receiver'[a].steps = << >>
      BY <3>1
    <3>3. Says(a, "ACK begin")
      BY <2>2 DEF Begins
    <3>4. QED
      BY <1>6, <3>2, <3>3
  <2>4. n # LineCount(song) - 1
    BY <1>1, <1>9
  <2>5. NoError(a)'
    BY <1>8, <2>3, AnswerKinds
  <2>6. QED
    BY <1>9, <2>3, <2>4, <2>5
<1>10. CASE n # 0 /\ n # Length(song) + 1
  <2>1. m.type = "S" /\ r.uploading /\ Room(r)
    BY <1>1, <1>3, <1>5, <1>6, <1>10, UploadAssumption DEF Room
  <2>2. Collects(a, m)
    BY <1>2, <2>1 DEF Deaf, Begins, Completes, Rejects, r
  <2> DEFINE steps == Append(r.steps, <<m.song, m.step>>)
  <2>3. receiver' = [receiver EXCEPT ![a].steps = steps] /\ UNCHANGED up
    BY <2>2 DEF Collects, r
  <2>4. Len(steps) = n
    <3>1. r.steps \in Seq(Step) /\ Len(r.steps) = n - 1
      BY <1>5, <2>1 DEF ReceiverState
    <3>2. QED
      BY <1>3, <3>1
  <2> HIDE DEF steps
  <2>5. receiver'[a].uploading /\ receiver'[a].id = song /\ Len(receiver'[a].steps) = n
    <3>1. receiver'[a] = [r EXCEPT !.steps = steps]
      BY <2>3 DEF TInv, DeviceOK, r
    <3>2. QED
      BY <1>5, <2>1, <2>4, <3>1 DEF ReceiverState
  <2>6. NoError(a)'
    BY <1>2, <1>5, <2>3 DEF NoError
  <2>7. n # LineCount(song) - 1
    BY <1>1, <1>3, <1>10
  <2>8. QED
    BY <2>5, <2>6, <2>7
<1>11. CASE n = Length(song) + 1
  <2>1. m.type = "E" /\ r.uploading /\ m.song = r.id /\ CountMatches(r)
    BY <1>1, <1>3, <1>5, <1>6, <1>11 DEF CountMatches
  <2>2. Completes(a, m)
    BY <1>2, <2>1 DEF Deaf, Begins, Collects, Rejects, r
  <2>3. receiver' = [receiver EXCEPT ![a].uploading = FALSE] /\ Says(a, "ACK end")
    BY <2>2 DEF Completes
  <2>4. ~receiver'[a].uploading
    <3>1. receiver'[a] = [r EXCEPT !.uploading = FALSE]
      BY <2>3 DEF TInv, DeviceOK, r
    <3>2. QED
      BY <1>5, <3>1 DEF ReceiverState
  <2>5. n = LineCount(song) - 1
    BY <1>1, <1>11
  <2>6. NoError(a)' /\ Acknowledged(a)'
    BY <1>8, <2>3, AnswerKinds DEF Acknowledged
  <2>7. QED
    BY <2>4, <2>5, <2>6
<1>12. QED
  BY <1>9, <1>10, <1>11

LEMMA ReceiveRetry ==
  ASSUME TInv, NEW a \in Address, Receive(a), AnswerOK(a), RetryOK(a)
  PROVE  RetryOK(a)'
<1>1. /\ down[a] # << >> /\ down[a] \in Seq(Message) /\ down'[a] = Tail(down[a])
      /\ driver'[a] = driver[a] /\ calm'[a] = calm[a] /\ failures'[a] = failures[a]
      /\ mode'[a] = mode[a] /\ modules' = modules /\ socket' = socket /\ peer' = peer
  BY Reads
<1>2. /\ Undisturbed(a)' = Undisturbed(a) /\ Busy(a)' = Busy(a) /\ Awaiting(a)' = Awaiting(a)
  BY <1>1 DEF Undisturbed, Busy, Awaiting
<1>3. Steady(a) => Steady(a)'
  BY <1>1 DEF Steady, Reachable, Listed, Open
<1>4. Undisturbed(a) => Steady(a)
  BY DEF RetryOK
<1>5. Undisturbed(a) /\ Awaiting(a) /\ ~HasEnd(down'[a]) => Quiet(a)'
  <2>1. SUFFICES ASSUME Undisturbed(a), Awaiting(a), ~HasEnd(down'[a]) PROVE Quiet(a)'
    OBVIOUS
  <2>2. HasEnd(down[a])
    BY <1>1, <2>1 DEF RetryOK, Quiet
  <2>3. Head(down[a]).type = "E" /\ down'[a] = << >>
    BY <1>1, <2>1, <2>2, EndRead DEF AnswerOK
  <2>4. mode[a] = "idle"
    BY <1>4, <2>1 DEF Steady
  <2>5. ~receiver'[a].uploading
    <3>1. CASE receiver' = receiver /\ ~receiver[a].uploading
      BY <3>1
    <3>2. CASE receiver' = [receiver EXCEPT ![a].uploading = FALSE]
      <4>1. receiver'[a] = [receiver[a] EXCEPT !.uploading = FALSE]
        BY <3>2 DEF TInv, DeviceOK
      <4>2. QED
        BY <4>1, Here DEF ReceiverState
    <3>3. QED
      BY <2>3, <2>4, <3>1, <3>2, Reads DEF Deaf, Ignores, Begins, Collects, Completes, Rejects
  <2>6. QED
    BY <2>3, <2>5 DEF Quiet
<1>6. ~(~Busy(a) /\ failures[a] = 1)
  BY <1>1 DEF RetryOK, Quiet
<1>7. Undisturbed(a) /\ failures[a] = 1 => OnTrack(a)'
  BY <1>4, ReceiveOnTrack DEF RetryOK, Undisturbed, Steady
<1>8. QED
  BY <1>1, <1>2, <1>3, <1>4, <1>5, <1>6, <1>7 DEF RetryOK

\* A HELLO changes nothing for an upload that is undisturbed.
LEMMA HearSteady ==
  ASSUME TInv, NEW a \in Address, Hear(a), Steady(a)
  PROVE  Steady(a)'
<1>1. /\ driver'[a] = driver[a] /\ mode'[a] = mode[a] /\ socket' = socket /\ peer' = peer
      /\ modules' = modules \/ \E k \in Connection : HearHello(a, k)
  BY Hears
<1>2. ASSUME NEW k \in Connection, HearHello(a, k)
      PROVE  modules'[a].ws = modules[a].ws /\ modules'[a].connected
  <2>1. Known(a)
    BY DEF Steady, Reachable, Listed, Known, NoEntry
  <2>2. modules[a] \in Entry /\ modules \in [Address -> Entry]
    BY DEF TInv, IInv, TypesOK, EntriesOK
  <2>3. modules'[a] = Touched([modules[a] EXCEPT !.connected = TRUE])
    BY <1>2, <2>1, <2>2 DEF HearHello
  <2>4. QED
    BY <2>2, <2>3 DEF Touched, Entry
<1>3. modules'[a].ws = modules[a].ws /\ modules'[a].connected
  BY <1>1, <1>2 DEF Steady, Reachable, Listed
<1>4. QED
  BY <1>1, <1>3 DEF Steady, Reachable, Listed, Open

\* The controller hears what the module has said in the order in which it was said.
LEMMA HearAcknowledged ==
  ASSUME Timely, TInv, NEW a \in Address, Hear(a), Steady(a), Acknowledged(a)
  PROVE  Acknowledged(a)'
<1> DEFINE p == peer[a]
<1>1. /\ p \in Connection /\ p = accepted[a] /\ peer'[a] = p
      /\ \A k \in Connection : up[a][k] \in Seq(FromModule)
      /\ \A k \in Connection : k > p => up[a][k] = << >>
  <2>1. p # 0
    BY DEF Steady, Reachable, Open
  <2>2. QED
    BY <2>1, Here, Hears
<1>2. PICK k \in Connection :
        /\ \A former \in 1 .. k - 1 : up[a][former] = << >>
        /\ up[a][k] # << >> /\ up'[a][k] = Tail(up[a][k])
        /\ \A j \in Connection \ {k} : up'[a][j] = up[a][j]
        /\ Head(up[a][k]) = "ACK end" => lastAck'[a] = "end"
  BY Hears, AnswerKinds
<1> HIDE DEF p
<1>3. LastIs(up[a][p], "ACK end")
  BY <1>1, <1>2 DEF Acknowledged, p
<1>4. ~(k > p)
  BY <1>1, <1>2
<1>5. CASE k # p
  <2>1. up'[a][p] = up[a][p]
    BY <1>1, <1>2, <1>5
  <2>2. QED
    BY <1>1, <1>3, <2>1 DEF Acknowledged
<1>6. CASE k = p /\ Tail(up[a][p]) # << >>
  <2>1. LastIs(Tail(up[a][p]), "ACK end")
    BY <1>1, <1>2, <1>3, <1>6, LastRead
  <2>2. QED
    BY <1>1, <1>2, <1>6, <2>1 DEF Acknowledged
<1>7. CASE k = p /\ Tail(up[a][p]) = << >>
  <2>1. Head(up[a][p]) = "ACK end"
    BY <1>1, <1>2, <1>3, <1>7, LastRead
  <2>2. lastAck'[a] = "end"
    BY <1>2, <1>7, <2>1
  <2>3. \A j \in Connection : j = p \/ j \in 1 .. p - 1 \/ j > p
    BY <1>1, RegistryAssumption DEF Connection
  <2>4. \A j \in Connection : up'[a][j] = << >>
    BY <1>1, <1>2, <1>7, <2>3
  <2>5. QED
    BY <2>2, <2>4 DEF Acknowledged
<1>8. QED
  BY <1>5, <1>6, <1>7

LEMMA HearNoError ==
  ASSUME TInv, NEW a \in Address, Hear(a), NoError(a)
  PROVE  NoError(a)'
<1>1. PICK k \in Connection :
        /\ up[a][k] # << >> /\ up'[a][k] = Tail(up[a][k])
        /\ \A j \in Connection \ {k} : up'[a][j] = up[a][j]
        /\ \/ lastError'[a] = lastError[a]
           \/ lastError'[a] = (lastError[a] \/ Head(up[a][k]) = "ERR")
  BY Hears
<1>2. \A line : Among(up[a][k], line) <=> Head(up[a][k]) = line \/ Among(Tail(up[a][k]), line)
  BY <1>1, Here, AnswerRead
<1>3. Head(up[a][k]) # "ERR" /\ ~Among(up'[a][k], "ERR")
  BY <1>1, <1>2 DEF NoError
<1>4. \A j \in Connection : ~Among(up'[a][j], "ERR")
  BY <1>1, <1>3 DEF NoError
<1>5. ~lastError'[a]
  BY <1>1, <1>3 DEF NoError
<1>6. QED
  BY <1>4, <1>5 DEF NoError

LEMMA HearRetry ==
  ASSUME Timely, TInv, NEW a \in Address, Hear(a), RetryOK(a)
  PROVE  RetryOK(a)'
<1>1. /\ driver'[a] = driver[a] /\ down'[a] = down[a] /\ receiver'[a] = receiver[a]
      /\ calm'[a] = calm[a] /\ failures'[a] = failures[a]
  BY Hears
<1>2. /\ Undisturbed(a)' = Undisturbed(a) /\ Busy(a)' = Busy(a) /\ Awaiting(a)' = Awaiting(a)
      /\ Quiet(a)' = Quiet(a) /\ Got(a)' = Got(a)
  BY <1>1 DEF Undisturbed, Busy, Awaiting, Quiet, Got
<1>3. Undisturbed(a) => Steady(a)'
  BY HearSteady DEF RetryOK
<1>4. Undisturbed(a) /\ failures[a] = 1 => OnTrack(a)'
  <2>1. SUFFICES ASSUME Steady(a), OnTrack(a) PROVE OnTrack(a)'
    BY DEF RetryOK
  <2>2. Acknowledged(a) => Acknowledged(a)'
    BY <2>1, HearAcknowledged
  <2>3. NoError(a)'
    BY <2>1, HearNoError DEF OnTrack
  <2>4. QED
    BY <1>1, <1>2, <2>1, <2>2, <2>3 DEF OnTrack
<1>5. QED
  BY <1>1, <1>2, <1>3, <1>4 DEF RetryOK

\* An undisturbed upload that fails leaves the receiver free, and does not fail if it
\* was free.
LEMMA Failing ==
  ASSUME Timely, TInv, NEW a \in Address, AnswerOK(a), RetryOK(a), Undisturbed(a),
         AbortUpload(a) \/ FailUpload(a) \/ TimeOut(a)
  PROVE  Quiet(a) /\ failures[a] # 1
<1>1. Steady(a)
  BY DEF RetryOK
<1>2. ErrorSeen(a) = lastError[a] /\ (AckSeen(a) <=> lastAck[a] = "end")
  BY <1>1 DEF Steady, ErrorSeen, AckSeen
<1>3. ~AbortUpload(a)
  BY <1>1, <1>2 DEF AbortUpload, StopsEarly, Steady, AnswerOK, Unanswered
<1>4. CASE FailUpload(a)
  <2>1. lastError[a] /\ Awaiting(a)
    BY <1>2, <1>4 DEF FailUpload
  <2>2. ~Pending(a)
    BY <2>1 DEF AnswerOK, Unanswered
  <2>3. Quiet(a)
    BY <2>1, <2>2 DEF RetryOK, Pending
  <2>4. QED
    BY <2>1, <2>3 DEF RetryOK, OnTrack, NoError
<1>5. CASE TimeOut(a)
  <2>1. /\ Awaiting(a) /\ lastAck[a] # "end" /\ down[a] = << >>
        /\ \A k \in Connection : up[a][k] = << >>
    BY <1>2, <1>5 DEF TimeOut, Expired, AckAccepted
  <2>2. Quiet(a)
    BY <2>1, EndNone DEF RetryOK
  <2>3. peer[a] \in Connection
    BY <1>1, Here DEF Steady, Reachable, Open
  <2>4. ~Acknowledged(a)
    BY <2>1, <2>3 DEF Acknowledged, LastIs
  <2>5. Got(a) = LineCount(driver[a].song)
    <3>1. /\ driver[a].song \in Songs /\ driver[a].next \in 1 .. LineCount(driver[a].song) + 1
          /\ driver[a].next > LineCount(driver[a].song)
      BY <2>1, Here DEF Awaiting
    <3>2. LineCount(driver[a].song) \in Nat
      BY <3>1, SongFacts
    <3>3. Len(down[a]) = 0
      BY <2>1
    <3>4. QED
      BY <3>1, <3>2, <3>3 DEF Got
  <2>6. QED
    BY <2>2, <2>4, <2>5 DEF RetryOK, OnTrack
<1>6. QED
  BY <1>3, <1>4, <1>5

LEMMA EndRetry ==
  ASSUME Timely, TInv, NEW a \in Address, AnswerOK(a), RetryOK(a),
         FinishUpload(a) \/ AbortUpload(a) \/ FailUpload(a) \/ TimeOut(a)
  PROVE  RetryOK(a)'
<1>1. driver'[a] = Idle /\ UNCHANGED <<down, receiver>> /\ Busy(a)
  BY DEF FinishUpload, AbortUpload, FailUpload, TimeOut, Failed, Sending, Awaiting, device,
     TInv, ControllerOK
<1>2. ~Busy(a)'
  BY <1>1 DEF Busy, Idle
<1>3. SUFFICES failures'[a] <= 1 /\ (failures'[a] = 1 => Quiet(a))
  BY <1>1, <1>2 DEF RetryOK, Undisturbed, Quiet
<1>4. CASE failures'[a] = 0
  BY <1>4
<1>5. CASE failures'[a] # 0
  <2>1. /\ AbortUpload(a) \/ FailUpload(a) \/ TimeOut(a)
        /\ failures'[a] = IF calm[a] THEN failures[a] + 1 ELSE 0
    BY <1>5 DEF FinishUpload, AbortUpload, FailUpload, TimeOut, Failed, TInv, HistoryOK
  <2>2. Quiet(a) /\ failures[a] # 1 /\ failures'[a] = failures[a] + 1
    BY <1>1, <1>5, <2>1, Failing DEF Undisturbed
  <2>3. failures[a] \in Nat /\ failures[a] <= 1
    BY DEF TInv, HistoryOK, RetryOK
  <2>4. QED
    BY <2>2, <2>3
<1>6. QED
  BY <1>4, <1>5

-----------------------------------------------------------------------------
LEMMA InitialRetries == Init => PInv
<1> SUFFICES ASSUME Init PROVE PInv
  OBVIOUS
<1>1. TInv
  BY InitialTypes
<1>2. ASSUME NEW a \in Address PROVE AnswerOK(a) /\ RetryOK(a)
  <2>1. /\ driver[a] = Idle /\ down[a] = << >> /\ \A k \in Connection : up[a][k] = << >>
        /\ failures[a] = 0
    BY DEF Init, RegistryInit
  <2>2. ~Busy(a) /\ ~Pending(a)
    <3>1. ~Busy(a)
      BY <2>1 DEF Busy, Idle
    <3>2. ~Pending(a)
      BY <2>1, EndNone, AnswerNone DEF Pending
    <3>3. QED
      BY <3>1, <3>2
  <2>3. AnswerOK(a)
    BY <2>1, <2>2, EndNone, AnswerNone DEF AnswerOK, Sending
  <2>4. RetryOK(a)
    BY <2>1, <2>2 DEF RetryOK, Undisturbed
  <2>5. QED
    BY <2>3, <2>4
<1>3. QED
  BY <1>1, <1>2 DEF PInv

\* What an address does not take part in leaves it as it was.
LEMMA OthersRetry ==
  ASSUME NEW a \in Address, UNCHANGED At(a)
  PROVE  /\ AnswerOK(a) => AnswerOK(a)'
         /\ RetryOK(a) => RetryOK(a)'
<1>1. /\ modules'[a] = modules[a] /\ socket'[a] = socket[a] /\ peer'[a] = peer[a]
      /\ up'[a] = up[a] /\ driver'[a] = driver[a] /\ lastAck'[a] = lastAck[a]
      /\ lastError'[a] = lastError[a] /\ down'[a] = down[a] /\ mode'[a] = mode[a]
      /\ receiver'[a] = receiver[a] /\ taken'[a] = taken[a] /\ calm'[a] = calm[a]
      /\ failures'[a] = failures[a]
  BY DEF At
<1>2. /\ Busy(a)' = Busy(a) /\ Sending(a)' = Sending(a) /\ Awaiting(a)' = Awaiting(a)
      /\ Unanswered(a)' = Unanswered(a)
      /\ Undisturbed(a)' = Undisturbed(a) /\ Quiet(a)' = Quiet(a) /\ Got(a)' = Got(a)
  BY <1>1 DEF Busy, Sending, Awaiting, Unanswered, Undisturbed, Quiet, Got
<1>3. /\ Pending(a)' => Pending(a)
      /\ Steady(a) => Steady(a)'
  BY <1>1 DEF Pending, Steady, Reachable, Listed, Open
<1>4. /\ Acknowledged(a) => Acknowledged(a)'
      /\ NoError(a) => NoError(a)'
  BY <1>1 DEF Acknowledged, NoError
<1>5. OnTrack(a) => OnTrack(a)'
  BY <1>1, <1>2, <1>4 DEF OnTrack
<1>6. AnswerOK(a) => AnswerOK(a)'
  BY <1>1, <1>2, <1>3 DEF AnswerOK
<1>7. RetryOK(a) => RetryOK(a)'
  BY <1>1, <1>2, <1>3, <1>5 DEF RetryOK
<1>8. QED
  BY <1>6, <1>7

\* One step of one address.
AddressStep(a) ==
  \/ \E song \in Songs : RequestUpload(a, song)
  \/ Drive(a) \/ Receive(a) \/ Hear(a)
  \/ StartRecording(a) \/ StopRecording(a) \/ PressPower(a) \/ Reboot(a)
  \/ Reconnect(a) \/ LoseConnection(a) \/ CloseConnection(a)

LEMMA StepRetries ==
  ASSUME Timely, PInv, NEW a \in Address, AddressStep(a)
  PROVE  PInv'
<1>1. TInv /\ AnswerOK(a) /\ RetryOK(a)
  BY DEF PInv
<1>2. TInv' /\ \A b \in Address \ {a} : UNCHANGED At(b)
  BY <1>1, StepTypes DEF AddressStep
<1>3. AnswerOK(a)'
  BY <1>1, RequestAnswers, SendAnswers, EndAnswers, ReceiveAnswers, HearAnswers, UserAnswers,
     LossAnswers, ReconnectAnswers DEF AddressStep, Drive
<1>4. RetryOK(a)'
  BY <1>1, RequestRetry, SendRetry, EndRetry, ReceiveRetry, HearRetry, DisturbedRetry
     DEF AddressStep, Drive
<1>5. \A b \in Address \ {a} : AnswerOK(b)' /\ RetryOK(b)'
  BY <1>2, OthersRetry DEF PInv
<1>6. QED
  BY <1>2, <1>3, <1>4, <1>5 DEF PInv

LEMMA RetriesKept == ASSUME Timely PROVE Spec => []PInv
<1>1. PInv /\ [Next]_vars => PInv'
  <2>1. ASSUME PInv, UNCHANGED vars PROVE PInv'
    BY <2>1, IdleStep, OthersRetry DEF PInv
  <2>2. ASSUME PInv, Next PROVE PInv'
    <3>1. PICK a \in Address : AddressStep(a)
      BY <2>2 DEF Next, AddressStep
    <3>2. QED
      BY <2>2, <3>1, StepRetries
  <2>3. QED
    BY <2>1, <2>2
<1>2. QED
  BY <1>1, InitialRetries, PTL DEF Spec

\* If modules answer within the driver's 2.5 seconds, then of two undisturbed uploads to a
\* module in a row one succeeds, whatever has happened to it before: with any number of
\* modules, songs, connections, recordings, power presses and reboots.
THEOREM RetriesWork == ASSUME Timely PROVE Spec => []RetryWorks
<1>1. PInv => RetryWorks
  BY DEF PInv, RetryOK, RetryWorks
<1>2. QED
  BY <1>1, RetriesKept, PTL
=============================================================================
