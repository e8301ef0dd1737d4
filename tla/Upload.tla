------------------------------- MODULE Upload --------------------------------
(***************************************************************************)
(* Uploading a sequence: the controller's driver, which sends the lines of *)
(* a sequence at its own pace and then looks for the module's answer; the  *)
(* module's receiver; and the registry's connections between them, which   *)
(* may break and be made anew at any point.  The clean-up of the registry, *)
(* which is slower than an upload, is left to Registry.                    *)
(***************************************************************************)
EXTENDS Registry, FiniteSets

CONSTANTS
  Songs,                \* sequences in the library, with fixed contents
  Length(_),            \* the number of steps of a song
  MAX_SEQUENCE_LENGTH,
  NoSong,
  MaxUploads,           \* bound: uploads requested
  MaxChanges,           \* bound: reboots, recordings and power presses
  Timely                \* TRUE: answers arrive within the driver's 2.5 seconds

ASSUME UploadAssumption ==
  /\ MAX_SEQUENCE_LENGTH \in Nat
  /\ \A song \in Songs : Length(song) \in 1 .. MAX_SEQUENCE_LENGTH
  /\ NoSong \notin Songs
  /\ MaxUploads \in Nat /\ MaxChanges \in Nat /\ Timely \in BOOLEAN

VARIABLES
  driver,     \* per address: uploadLinesToModule() in progress
  lastAck,    \* per address: the part of entry.lastAck that is looked at
  lastError,  \* per address: the like of entry.lastError
  shown,      \* per address: currentSequenceId
  down,       \* per address: lines on their way to the module
  mode,       \* per address: the module is "idle", "recording" or "off"
  receiver,   \* per address: uploadingSequence and the buffer
  stored,     \* per address: currentSequence
  taken,      \* per address: the song asked for was stored since (history)
  calm,       \* per address: nothing has disturbed the upload (history)
  failures,   \* per address: calm uploads that failed in a row (history)
  uploads, changes

controller == <<driver, lastAck, lastError, shown>>
device     == <<mode, receiver, stored>>
history    == <<taken, calm, failures>>
counters   == <<greetings, uploads, changes>>

vars == <<registry, network, up, robbed, controller, down, device, history, counters>>

Step == Songs \X (1 .. MAX_SEQUENCE_LENGTH)
Line == {"U", "S", "E"}

\* generateUploadLinesFromData(): a header, the steps, an end.
LineOf(song, n) == CASE n = 1 -> [type |-> "U", song |-> song, step |-> 0]
                     [] n > 1 /\ n <= Length(song) + 1 ->
                          [type |-> "S", song |-> song, step |-> n - 1]
                     [] n = Length(song) + 2 -> [type |-> "E", song |-> song, step |-> 0]
LineCount(song) == Length(song) + 2

Whole(song) == [n \in 1 .. Length(song) |-> <<song, n>>]
Default  == << >>
Recorded == << <<NoSong, 1>> >>

Idle == [song |-> NoSong, next |-> 1, current |-> TRUE, ack |-> "none", error |-> FALSE]
Busy(a) == driver[a].song # NoSong

-----------------------------------------------------------------------------
(* The driver *)

\* The entry fetched at the start is looked at, even after the module has registered
\* anew and answers go to the new entry.
AckSeen(a) == (IF driver[a].current THEN lastAck[a] ELSE driver[a].ack) = "end"
ErrorSeen(a) == IF driver[a].current THEN lastError[a] ELSE driver[a].error

Sending(a)  == Busy(a) /\ driver[a].next <= LineCount(driver[a].song)
Awaiting(a) == Busy(a) /\ driver[a].next > LineCount(driver[a].song)

\* POST /api/modules/:ip/upload for a module that is listed.
ClearedAck(a) == [lastAck EXCEPT ![a] = "none"]

RequestUpload(a, song) ==
  /\ ~Busy(a)
  /\ uploads < MaxUploads
  /\ uploads' = uploads + 1
  /\ Listed(a)
  /\ driver' = [driver EXCEPT ![a] = [Idle EXCEPT !.song = song]]
  /\ lastAck' = ClearedAck(a)
  /\ lastError' = [lastError EXCEPT ![a] = FALSE]
  /\ taken' = [taken EXCEPT ![a] = FALSE]
  /\ calm' = [calm EXCEPT ![a] = Reachable(a) /\ modules[a].ws = peer[a] /\ mode[a] = "idle"]
  /\ UNCHANGED <<registry, network, up, robbed, shown, down, device, failures, greetings, changes>>

Failed(a) ==
  /\ driver' = [driver EXCEPT ![a] = Idle]
  /\ failures' = [failures EXCEPT ![a] = IF calm[a] THEN @ + 1 ELSE 0]
  /\ UNCHANGED <<registry, network, up, robbed, lastAck, lastError, shown, device, taken,
                 calm, counters>>

\* The pause after a line ends with a look at lastError.
StopsEarly(a) == driver[a].next > 1 /\ ErrorSeen(a)

\* A line goes to whatever connection the module has now; on a connection that the
\* module has left it is lost.
SendLine(a) ==
  /\ Sending(a) /\ ~StopsEarly(a)
  /\ Reachable(a)
  /\ driver' = [driver EXCEPT ![a].next = @ + 1]
  /\ down' = IF modules[a].ws = peer[a]
               THEN [down EXCEPT ![a] = Append(@, LineOf(driver[a].song, driver[a].next))]
               ELSE down
  /\ UNCHANGED <<registry, network, up, robbed, lastAck, lastError, shown, device, history,
                 counters>>

AbortUpload(a) ==
  /\ Sending(a)
  /\ StopsEarly(a) \/ ~Reachable(a)
  /\ Failed(a)
  /\ UNCHANGED down

\* The loop after the last line looks for an error first.
AckAccepted_AnyAck(a) == lastAck[a] # "none"
AckAccepted(a) == AckSeen(a)

FinishUpload(a) ==
  /\ Awaiting(a) /\ ~ErrorSeen(a) /\ AckAccepted(a)
  /\ driver' = [driver EXCEPT ![a] = Idle]
  /\ shown' = [shown EXCEPT ![a] = driver[a].song]
  /\ failures' = [failures EXCEPT ![a] = 0]
  /\ UNCHANGED <<registry, network, up, robbed, lastAck, lastError, down, device, taken,
                 calm, counters>>

FailUpload(a) ==
  /\ Awaiting(a) /\ ErrorSeen(a)
  /\ Failed(a)
  /\ UNCHANGED down

\* 'ERR upload_timeout': no answer within 2.5 seconds.
Expired_Never(a) == FALSE
Expired(a) == Timely => down[a] = << >> /\ \A k \in Connection : up[a][k] = << >>

TimeOut(a) ==
  /\ Awaiting(a) /\ ~ErrorSeen(a) /\ ~AckAccepted(a)
  /\ Expired(a)
  /\ Failed(a)
  /\ UNCHANGED down

-----------------------------------------------------------------------------
(* The module *)

Room_OneMore(r) == Len(r.steps) <= MAX_SEQUENCE_LENGTH
Room(r) == Len(r.steps) < MAX_SEQUENCE_LENGTH

Freed_Stuck(r) == r
Freed(r) == [r EXCEPT !.uploading = FALSE]

CountMatches(r) == Len(r.steps) # 0 /\ Len(r.steps) = r.length

\* A line reaches a module that is on; one that is off ignores it.
Receive(a) ==
  LET m == Head(down[a])
      r == receiver[a]
      Answer(kind) == up' = [up EXCEPT ![a][peer[a]] = Append(@, kind)]
      Silent == UNCHANGED <<up, receiver, stored, taken>>
  IN
  /\ down[a] # << >>
  /\ down' = [down EXCEPT ![a] = Tail(@)]
  /\ UNCHANGED <<registry, network, robbed, controller, mode, calm, failures, counters>>
  /\ \/ mode[a] = "off" /\ Silent
     \/ /\ mode[a] # "off" /\ m.type = "U"
        /\ IF r.uploading \/ mode[a] = "recording"
             THEN Silent
             ELSE /\ receiver' = [receiver EXCEPT ![a] =
                        [uploading |-> TRUE, id |-> m.song, length |-> Length(m.song),
                         steps |-> << >>]]
                  /\ Answer("ACK begin")
                  /\ UNCHANGED <<stored, taken>>
     \/ /\ mode[a] # "off" /\ m.type = "S"
        /\ IF r.uploading /\ Room(r)
             THEN /\ receiver' = [receiver EXCEPT ![a].steps = Append(@, <<m.song, m.step>>)]
                  /\ UNCHANGED <<up, stored, taken>>
             ELSE Silent
     \/ /\ mode[a] # "off" /\ m.type = "E"
        /\ IF ~r.uploading
             THEN Silent
             ELSE /\ receiver' = [receiver EXCEPT ![a] = Freed(r)]
                  /\ IF m.song = r.id /\ CountMatches(r)
                       THEN /\ stored' = [stored EXCEPT ![a] = r.steps]
                            /\ taken' = [taken EXCEPT ![a] = TRUE]
                            /\ Answer("ACK end")
                       ELSE Answer("ERR") /\ UNCHANGED <<stored, taken>>

\* Users: the record button is dead during an upload, the power button is not.
Change(a) ==
  /\ changes < MaxChanges
  /\ changes' = changes + 1
  /\ calm' = [calm EXCEPT ![a] = FALSE]

\* What was recorded, if anything was, replaces what was stored.
KeepRecording(a) == \E content \in {stored[a], Recorded} : stored' = [stored EXCEPT ![a] = content]

StartRecording(a) ==
  /\ Change(a)
  /\ mode[a] = "idle" /\ ~receiver[a].uploading
  /\ mode' = [mode EXCEPT ![a] = "recording"]
  /\ UNCHANGED <<registry, network, up, robbed, controller, down, receiver, stored, taken,
                 failures, greetings, uploads>>

StopRecording(a) ==
  /\ mode[a] = "recording"
  /\ calm' = [calm EXCEPT ![a] = FALSE]
  /\ mode' = [mode EXCEPT ![a] = "idle"]
  /\ KeepRecording(a)
  /\ UNCHANGED <<registry, network, up, robbed, controller, down, receiver, taken,
                 failures, counters>>

PressPower(a) ==
  /\ Change(a)
  /\ mode' = [mode EXCEPT ![a] = IF @ = "off" THEN "idle" ELSE "off"]
  /\ IF mode[a] = "recording" THEN KeepRecording(a) ELSE UNCHANGED stored
  /\ UNCHANGED <<registry, network, up, robbed, controller, down, receiver, taken,
                 failures, greetings, uploads>>

-----------------------------------------------------------------------------
(* Connections: Registry's actions, with what they mean here *)

\* Registering makes a new entry; a driver in progress keeps the old one.
Renewed(a) == IF Busy(a) /\ driver[a].current
                THEN [driver EXCEPT ![a].current = FALSE, ![a].ack = lastAck[a],
                                    ![a].error = lastError[a]]
                ELSE driver

Reconnect(a) ==
  /\ Connect(a)
  /\ driver' = Renewed(a)
  /\ calm' = [calm EXCEPT ![a] = FALSE]
  /\ UNCHANGED <<lastAck, lastError, shown, down, device, taken, failures, uploads, changes>>

LoseConnection(a) ==
  /\ Vanish(a)
  /\ down' = [down EXCEPT ![a] = << >>]
  /\ calm' = [calm EXCEPT ![a] = FALSE]
  /\ UNCHANGED <<controller, device, taken, failures, uploads, changes>>

CloseConnection(a) ==
  /\ Disconnect(a) \/ \E k \in Connection : Closed(a, k)
  /\ down' = IF peer'[a] = 0 THEN [down EXCEPT ![a] = << >>] ELSE down
  /\ calm' = [calm EXCEPT ![a] = FALSE]
  /\ UNCHANGED <<controller, device, taken, failures, uploads, changes>>

\* A reset loses the connection, the upload and what was stored.
Reboot(a) ==
  /\ Change(a)
  /\ IF peer[a] # 0 THEN Vanish(a) ELSE UNCHANGED <<registry, network, up, greetings, robbed>>
  /\ down' = [down EXCEPT ![a] = << >>]
  /\ mode' = [mode EXCEPT ![a] = "idle"]
  /\ receiver' = [receiver EXCEPT ![a].uploading = FALSE, ![a].steps = << >>]
  /\ stored' = [stored EXCEPT ![a] = Default]
  /\ UNCHANGED <<controller, taken, failures, uploads>>

\* ingestEsp32Line(): HELLO and the answers to an upload.  Answers that arrive in time
\* include those on a connection that the module has left.
Hear(a) == \E k \in Connection :
  /\ Timely => \A former \in 1 .. k - 1 : up[a][former] = << >>
  /\ \/ /\ HearHello(a, k)
        /\ UNCHANGED <<lastAck, lastError>>
     \/ \E kind \in {"ACK begin", "ACK end", "ERR"} :
          /\ Arrives(a, k, kind)
          /\ lastAck' = [lastAck EXCEPT ![a] = CASE kind = "ACK begin" -> "begin"
                                                 [] kind = "ACK end" -> "end"
                                                 [] OTHER -> @]
          /\ lastError' = [lastError EXCEPT ![a] = @ \/ kind = "ERR"]
          /\ UNCHANGED <<registry, network, greetings, robbed>>
  /\ UNCHANGED <<driver, shown, down, device, history, uploads, changes>>

-----------------------------------------------------------------------------
Init ==
  /\ RegistryInit
  /\ driver = [a \in Address |-> Idle]
  /\ lastAck = [a \in Address |-> "none"]
  /\ lastError = [a \in Address |-> FALSE]
  /\ shown = [a \in Address |-> NoSong]
  /\ down = [a \in Address |-> << >>]
  /\ mode = [a \in Address |-> "idle"]
  /\ receiver = [a \in Address |-> [uploading |-> FALSE, id |-> NoSong, length |-> 0,
                                    steps |-> << >>]]
  /\ stored = [a \in Address |-> Default]
  /\ taken = [a \in Address |-> FALSE]
  /\ calm = [a \in Address |-> FALSE]
  /\ failures = [a \in Address |-> 0]
  /\ uploads = 0 /\ changes = 0

Drive(a) == SendLine(a) \/ AbortUpload(a) \/ FinishUpload(a) \/ FailUpload(a) \/ TimeOut(a)

Next == \E a \in Address :
  \/ \E song \in Songs : RequestUpload(a, song)
  \/ Drive(a)
  \/ Receive(a)
  \/ Hear(a)
  \/ StartRecording(a) \/ StopRecording(a) \/ PressPower(a) \/ Reboot(a)
  \/ Reconnect(a) \/ LoseConnection(a) \/ CloseConnection(a)

\* The driver's timers fire, modules read and the controller hears what arrives.
Spec == Init /\ [][Next]_vars
          /\ \A a \in Address : WF_vars(Drive(a)) /\ WF_vars(Receive(a)) /\ WF_vars(Hear(a))

-----------------------------------------------------------------------------
(* Properties *)

\* Every variable holds what its declaration says, those of the registry included; a
\* connection in use has been accepted; and the receiver never holds more steps than
\* its array.
TypeOK ==
  /\ RegistryTypeOK
  /\ \A a \in Address : modules[a].ws <= accepted[a] /\ peer[a] <= accepted[a]
  /\ \A a \in Address : driver[a].song \in Songs => driver[a].next <= LineCount(driver[a].song) + 1
  /\ down \in [Address -> Seq([type : Line, song : Songs, step : 0 .. MAX_SEQUENCE_LENGTH])]
  /\ \A a \in Address : receiver[a].steps \in Seq(Step) /\ Len(receiver[a].steps) <= MAX_SEQUENCE_LENGTH
  /\ \A a \in Address : stored[a] \in Seq(Step \cup {<<NoSong, 1>>})
  /\ shown \in [Address -> Songs \cup {NoSong}]

\* What the planning documents ask for: an upload aborts cleanly, so that with all its
\* lines, pauses, answers, disconnects and reboots it is as good as the atomic one of
\* AtomicUpload, and a module never holds part of a sequence or a mix of two.  Proved of
\* uploads that find nothing of an earlier one (AtomicProofs); the code does not keep it
\* otherwise, as nothing tells a module that the driver has given up.
Exact(song) == {Whole(song)}
Asked == [a \in Address |-> driver[a].song]
A == INSTANCE AtomicUpload WITH asked <- Asked, Local <- {Default, Recorded}, Contents <- Exact
AtomicSpec == A!Spec

\* Whatever an abandoned upload has left in the receiver, an upload is atomic at least in
\* this: a module stores as many steps as the sequence it is asked to take over has, does
\* so only while it is asked to, and success is reported only if it has done so.  The ack
\* of the U line, of another upload, or in an entry nobody updates is taken for no other.
Sized(song) == [1 .. Length(song) -> Step]
B == INSTANCE AtomicUpload WITH asked <- Asked, Local <- {Default, Recorded}, Contents <- Sized
SizedSpec == B!Spec

\* A receiver that an abandoned upload has left waiting costs the user one more failure
\* and no more: of two undisturbed uploads in a row, one succeeds.
RetryWorks == \A a \in Address : failures[a] <= 1

\* Every request to upload is answered, whatever happens to the connection.
UploadsEnd == \A a \in Address : Busy(a) ~> ~Busy(a)
=============================================================================
