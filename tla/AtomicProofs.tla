---------------------------- MODULE AtomicProofs -----------------------------
(***************************************************************************)
(* Upload implements AtomicUpload, as far as it does: in the size of what  *)
(* a module takes over always, in its contents if uploads find the module  *)
(* quiet.  A step of Upload is a step of AtomicUpload, or leaves what that *)
(* sees unchanged.                                                         *)
(***************************************************************************)
EXTENDS UploadProofs

-----------------------------------------------------------------------------
(* The steps, in terms of what AtomicUpload sees *)

\* The driver's state is seen only in what it has been asked for.
LEMMA AskedKept ==
  ASSUME TInv, \A a \in Address : driver'[a].song = driver[a].song
  PROVE  Asked' = Asked
BY DEF Asked

LEMMA AskedChanged ==
  ASSUME NEW a \in Address, NEW song, driver'[a].song = song,
         \A b \in Address \ {a} : driver'[b].song = driver[b].song
  PROVE  Asked' = [Asked EXCEPT ![a] = song]
BY DEF Asked

Seen == <<stored, Asked, taken, shown>>

\* What an end of an upload takes over: the lines that the module has collected.
TakesOver(a, content) ==
  /\ Asked[a] # NoSong
  /\ stored' = [stored EXCEPT ![a] = content]
  /\ taken' = [taken EXCEPT ![a] = TRUE]
  /\ UNCHANGED <<Asked, shown>>

Others(a) ==
  \/ UNCHANGED Seen
  \/ \E song \in Songs : /\ Asked[a] = NoSong
                         /\ Asked' = [Asked EXCEPT ![a] = song]
                         /\ taken' = [taken EXCEPT ![a] = FALSE]
                         /\ UNCHANGED <<stored, shown>>
  \/ /\ \E content \in {Default, Recorded} : stored' = [stored EXCEPT ![a] = content]
     /\ UNCHANGED <<Asked, taken, shown>>
  \/ /\ Asked[a] # NoSong /\ taken[a]
     /\ Asked' = [Asked EXCEPT ![a] = NoSong]
     /\ shown' = [shown EXCEPT ![a] = Asked[a]]
     /\ UNCHANGED <<stored, taken>>
  \/ /\ Asked' = [Asked EXCEPT ![a] = NoSong]
     /\ UNCHANGED <<stored, taken, shown>>

LEMMA RequestSeen ==
  ASSUME TInv, NEW a \in Address, NEW song \in Songs, RequestUpload(a, song)
  PROVE  Others(a)
<1>1. driver' = [driver EXCEPT ![a] = [Idle EXCEPT !.song = song]] /\ Asked[a] = NoSong
  BY DEF RequestUpload, Busy, Asked
<1>2. driver'[a].song = song /\ \A b \in Address \ {a} : driver'[b].song = driver[b].song
  BY <1>1 DEF Idle, TInv, ControllerOK
<1>3. Asked' = [Asked EXCEPT ![a] = song]
  BY <1>2, AskedChanged
<1>4. taken' = [taken EXCEPT ![a] = FALSE] /\ UNCHANGED <<stored, shown>>
  BY DEF RequestUpload, device
<1>5. QED
  BY <1>1, <1>3, <1>4 DEF Others

LEMMA EndSeen ==
  ASSUME TInv, NEW a \in Address, AnswerOK(a),
         FinishUpload(a) \/ AbortUpload(a) \/ FailUpload(a) \/ TimeOut(a)
  PROVE  Others(a)
<1>1. driver' = [driver EXCEPT ![a] = Idle]
  BY DEF FinishUpload, AbortUpload, FailUpload, TimeOut, Failed
<1>2. driver'[a].song = NoSong /\ \A b \in Address \ {a} : driver'[b].song = driver[b].song
  BY <1>1 DEF Idle, TInv, ControllerOK
<1>3. Asked' = [Asked EXCEPT ![a] = NoSong]
  BY <1>2, AskedChanged
<1>4. CASE FinishUpload(a)
  <2>1. Busy(a) /\ (lastAck[a] = "end" \/ driver[a].ack = "end")
    BY <1>4 DEF FinishUpload, Awaiting, AckAccepted, AckSeen
  <2>2. taken[a] /\ Asked[a] # NoSong
    BY <2>1 DEF AnswerOK, Busy, Asked
  <2>3. shown' = [shown EXCEPT ![a] = Asked[a]] /\ UNCHANGED <<stored, taken>>
    BY <1>4 DEF FinishUpload, Asked, device
  <2>4. QED
    BY <1>3, <2>2, <2>3 DEF Others
<1>5. CASE AbortUpload(a) \/ FailUpload(a) \/ TimeOut(a)
  <2>1. UNCHANGED <<stored, taken, shown>>
    BY <1>5 DEF AbortUpload, FailUpload, TimeOut, Failed, device
  <2>2. QED
    BY <1>3, <2>1 DEF Others
<1>6. QED
  BY <1>4, <1>5

LEMMA LocalSeen ==
  ASSUME TInv, NEW a \in Address, StartRecording(a) \/ StopRecording(a) \/ PressPower(a) \/ Reboot(a)
  PROVE  Others(a)
<1>1. driver' = driver /\ UNCHANGED <<taken, shown>>
  BY DEF StartRecording, StopRecording, PressPower, Reboot, controller
<1>2. UNCHANGED Asked
  BY <1>1, AskedKept
<1>3. CASE UNCHANGED stored
  BY <1>1, <1>2, <1>3 DEF Others, Seen
<1>4. CASE KeepRecording(a)
  <2>1. CASE stored' = [stored EXCEPT ![a] = stored[a]]
    <3>1. stored' = stored
      BY <2>1 DEF TInv, DeviceOK
    <3>2. QED
      BY <1>3, <3>1
  <2>2. CASE stored' = [stored EXCEPT ![a] = Recorded]
    BY <1>1, <1>2, <2>2 DEF Others
  <2>3. QED
    BY <1>4, <2>1, <2>2 DEF KeepRecording
<1>5. CASE stored' = [stored EXCEPT ![a] = Default]
  BY <1>1, <1>2, <1>5 DEF Others
<1>6. QED
  BY <1>3, <1>4, <1>5 DEF StartRecording, StopRecording, PressPower, Reboot

LEMMA NothingSeen ==
  ASSUME TInv, NEW a \in Address,
         SendLine(a) \/ Hear(a) \/ Reconnect(a) \/ LoseConnection(a) \/ CloseConnection(a)
  PROVE  UNCHANGED Seen
<1>1. UNCHANGED <<stored, taken, shown>>
  BY DEF SendLine, Hear, Reconnect, LoseConnection, CloseConnection, device, history, controller
<1>2. driver'[a].song = driver[a].song
  BY SendFacts, Hears, Reconnected DEF LoseConnection, CloseConnection, controller
<1>3. \A b \in Address \ {a} : driver'[b] = driver[b]
  BY StepTypes DEF At, Drive
<1>4. UNCHANGED Asked
  BY <1>2, <1>3, AskedKept
<1>5. QED
  BY <1>1, <1>4 DEF Seen

\* What the module takes over is as long as the song it is asked to take over.
LEMMA ReceiveSeen ==
  ASSUME TInv, NEW a \in Address, Receive(a), AnswerOK(a)
  PROVE  \/ UNCHANGED Seen
         \/ /\ TakesOver(a, receiver[a].steps)
            /\ Asked[a] \in Songs /\ Asked[a] = driver[a].song
            /\ receiver[a].uploading /\ receiver[a].id = driver[a].song
            /\ receiver[a].steps \in Seq(Step) /\ Len(receiver[a].steps) = Length(Asked[a])
<1> DEFINE m == Head(down[a])
<1>1. /\ down[a] # << >> /\ down[a] \in Seq(Message)
      /\ UNCHANGED <<driver, shown>>
      /\ \/ Deaf(a, m) /\ Ignores(a)
         \/ Begins(a, m) \/ Collects(a, m) \/ Completes(a, m) \/ Rejects(a, m)
  BY ReceiveCases DEF TInv, DeviceOK
<1>2. UNCHANGED Asked
  BY <1>1, AskedKept
<1>3. CASE ~Completes(a, m)
  BY <1>1, <1>2, <1>3 DEF Seen, Ignores, Begins, Collects, Rejects
<1>4. CASE Completes(a, m)
  <2>1. /\ m.type = "E" /\ receiver[a].uploading /\ m.song = receiver[a].id
        /\ Len(receiver[a].steps) = receiver[a].length
        /\ stored' = [stored EXCEPT ![a] = receiver[a].steps]
        /\ taken' = [taken EXCEPT ![a] = TRUE]
    BY <1>4 DEF Completes, CountMatches
  <2>2. HasEnd(down[a]) /\ m.song = driver[a].song
    BY <1>1, <2>1, EndRead DEF AnswerOK
  <2>3. Busy(a)
    BY <2>2 DEF AnswerOK, Pending, Awaiting
  <2>4. driver[a].song \in Songs /\ Asked[a] = driver[a].song /\ Asked[a] # NoSong
    BY <2>3, Here DEF Asked, Busy
  <2>5. /\ receiver[a].length = Length(receiver[a].id)
        /\ receiver[a].steps \in Seq(Step)
    BY <2>1, Here DEF TInv, BoundsOK, ReceiverState
  <2>6. QED
    BY <1>1, <1>2, <2>1, <2>2, <2>4, <2>5 DEF TakesOver
<1>5. QED
  BY <1>3, <1>4

LEMMA StepSeen ==
  ASSUME PInv, NEW a \in Address, AddressStep(a), ~Receive(a)
  PROVE  Others(a)
<1>1. TInv /\ AnswerOK(a)
  BY DEF PInv
<1>2. QED
  BY <1>1, RequestSeen, EndSeen, LocalSeen, NothingSeen DEF AddressStep, Drive, Others

-----------------------------------------------------------------------------
(* Sizes *)

LEMMA SizedOthers ==
  ASSUME NEW a \in Address, Others(a)
  PROVE  [B!Next]_(B!vars)
<1>1. CASE UNCHANGED Seen
  BY <1>1 DEF Seen, B!vars
<1>2. CASE ~UNCHANGED Seen
  <2>1. (\E song \in Songs : B!Ask(a, song)) \/ B!Replace(a) \/ B!Succeed(a) \/ B!Fail(a)
    BY <1>2 DEF Others, B!Ask, B!Replace, B!Succeed, B!Fail
  <2>2. QED
    BY <2>1 DEF B!Next
<1>3. QED
  BY <1>1, <1>2

LEMMA SizedTakes ==
  ASSUME NEW a \in Address, NEW content, TakesOver(a, content), content \in Sized(Asked[a])
  PROVE  B!Next
<1>1. B!Take(a)
  BY DEF TakesOver, B!Take
<1>2. QED
  BY <1>1 DEF B!Next

LEMMA SizedStep ==
  ASSUME PInv, NEW a \in Address, AddressStep(a)
  PROVE  [B!Next]_(B!vars)
<1>1. CASE Receive(a)
  <2>1. TInv /\ AnswerOK(a)
    BY DEF PInv
  <2>2. CASE UNCHANGED Seen
    BY <2>2, SizedOthers DEF Others
  <2>3. CASE ~UNCHANGED Seen
    <3>1. /\ TakesOver(a, receiver[a].steps) /\ Asked[a] \in Songs
          /\ receiver[a].steps \in Seq(Step) /\ Len(receiver[a].steps) = Length(Asked[a])
      BY <1>1, <2>1, <2>3, ReceiveSeen
    <3>2. receiver[a].steps \in [1 .. Length(Asked[a]) -> Step]
      BY <3>1
    <3>3. QED
      BY <3>1, <3>2, SizedTakes DEF Sized
  <2>4. QED
    BY <2>2, <2>3
<1>2. CASE ~Receive(a)
  BY <1>2, StepSeen, SizedOthers
<1>3. QED
  BY <1>1, <1>2

LEMMA AtomicInitially ==
  ASSUME Init
  PROVE  stored \in [Address -> {Default, Recorded}] /\ Asked = [a \in Address |-> NoSong]
           /\ taken = [a \in Address |-> FALSE] /\ shown = [a \in Address |-> NoSong]
BY DEF Init, Asked, Idle

\* If modules answer in time, an upload to a module, with its lines, pauses, answers,
\* disconnects, reboots and retries, is a step of AtomicUpload with contents of the right
\* size: the module stores as many steps as the song it has been asked to take over has,
\* only while it is asked to, and success is reported only if it has done so.
THEOREM UploadsSized == ASSUME Timely PROVE Spec => SizedSpec
<1>1. Init => B!Init
  BY AtomicInitially DEF B!Init
<1>2. PInv /\ [Next]_vars => [B!Next]_(B!vars)
  <2>1. ASSUME UNCHANGED vars PROVE UNCHANGED B!vars
    BY <2>1 DEF vars, controller, device, history, B!vars, Asked
  <2>2. ASSUME PInv, Next PROVE [B!Next]_(B!vars)
    <3>1. PICK a \in Address : AddressStep(a)
      BY <2>2 DEF Next, AddressStep
    <3>2. QED
      BY <2>2, <3>1, SizedStep
  <2>3. QED
    BY <2>1, <2>2
<1>3. QED
  BY <1>1, <1>2, RetriesKept, PTL DEF Spec, SizedSpec, B!Spec

-----------------------------------------------------------------------------
(* Contents.  An upload that finds the module quiet is the only one whose    *)
(* lines it gets until its end: what is collected, under way and yet to be   *)
(* sent are rising steps of one song, though some may be missing.            *)

\* The lines under way belong to the song; its steps rise, above and below what is given.
OfSong(d, song)  == \A i \in 1 .. Len(d) : d[i].song = song
Rising(d)        == \A i, j \in 1 .. Len(d) :
                      i < j /\ d[i].type = "S" /\ d[j].type = "S" => d[i].step < d[j].step
Above(d, n)      == \A i \in 1 .. Len(d) : d[i].type = "S" => n < d[i].step
UpTo(d, n)       == \A i \in 1 .. Len(d) : d[i].type = "S" => d[i].step <= n

\* What has been collected: steps of one song, each above the one before it.
Collected(steps, song, n) ==
  /\ \A i \in 1 .. Len(steps) : steps[i][1] = song /\ steps[i][2] <= n
  /\ \A i, j \in 1 .. Len(steps) : i <= j => steps[j][2] - steps[i][2] >= j - i

\* The last step that has been sent, if a line has been.
LastSent(a) == IF driver[a].next - 2 <= Length(driver[a].song) THEN driver[a].next - 2
                                                               ELSE Length(driver[a].song)

CleanOK(a) == Busy(a) =>
  /\ OfSong(down[a], driver[a].song)
  /\ Rising(down[a])
  /\ UpTo(down[a], LastSent(a))
  /\ receiver[a].uploading =>
       /\ receiver[a].id = driver[a].song
       /\ Collected(receiver[a].steps, driver[a].song, LastSent(a))
       /\ \A i \in 1 .. Len(receiver[a].steps) : Above(down[a], receiver[a].steps[i][2])

LEMMA LinesNone ==
  /\ \A song : OfSong(<< >>, song)
  /\ Rising(<< >>)
  /\ \A n : Above(<< >>, n) /\ UpTo(<< >>, n)
BY DEF OfSong, Rising, Above, UpTo

LEMMA LinesRead ==
  ASSUME NEW d \in Seq(Message), d # << >>
  PROVE  /\ \A song : OfSong(d, song) => OfSong(Tail(d), song) /\ Head(d).song = song
         /\ Rising(d) => Rising(Tail(d)) /\ (Head(d).type = "S" => Above(Tail(d), Head(d).step))
         /\ \A n : Above(d, n) => Above(Tail(d), n) /\ (Head(d).type = "S" => n < Head(d).step)
         /\ \A n : UpTo(d, n) => UpTo(Tail(d), n) /\ (Head(d).type = "S" => Head(d).step <= n)
<1> DEFINE t == Tail(d)
<1>1. /\ Len(d) \in Nat \ {0} /\ Head(d) = d[1] /\ Len(t) = Len(d) - 1
      /\ \A i \in 1 .. Len(d) - 1 : t[i] = d[i + 1] /\ i + 1 \in 1 .. Len(d)
  BY LineRead
<1> HIDE DEF t
<1>2. ASSUME NEW song, OfSong(d, song) PROVE OfSong(t, song) /\ Head(d).song = song
  BY <1>1, <1>2 DEF OfSong
<1>3. ASSUME Rising(d) PROVE Rising(t) /\ (Head(d).type = "S" => Above(t, Head(d).step))
  <2>1. ASSUME NEW i \in 1 .. Len(t), NEW j \in 1 .. Len(t), i < j, t[i].type = "S", t[j].type = "S"
        PROVE  t[i].step < t[j].step
    <3>1. /\ t[i] = d[i + 1] /\ i + 1 \in 1 .. Len(d)
          /\ t[j] = d[j + 1] /\ j + 1 \in 1 .. Len(d) /\ i + 1 < j + 1
      BY <1>1, <2>1
    <3>2. QED
      BY <1>3, <2>1, <3>1 DEF Rising
  <2>2. ASSUME d[1].type = "S", NEW i \in 1 .. Len(t), t[i].type = "S"
        PROVE  d[1].step < t[i].step
    <3>1. t[i] = d[i + 1] /\ i + 1 \in 1 .. Len(d) /\ 1 \in 1 .. Len(d) /\ 1 < i + 1
      BY <1>1
    <3>2. QED
      BY <1>3, <2>2, <3>1 DEF Rising
  <2>3. QED
    BY <1>1, <2>1, <2>2 DEF Rising, Above
<1>4. ASSUME NEW n, Above(d, n)
      PROVE  Above(t, n) /\ (Head(d).type = "S" => n < Head(d).step)
  BY <1>1, <1>4 DEF Above
<1>5. ASSUME NEW n, UpTo(d, n)
      PROVE  UpTo(t, n) /\ (Head(d).type = "S" => Head(d).step <= n)
  BY <1>1, <1>5 DEF UpTo
<1>6. QED
  BY <1>2, <1>3, <1>4, <1>5 DEF t

LEMMA LinesSent ==
  ASSUME NEW d \in Seq(Message), NEW m \in Message, NEW n \in Int, UpTo(d, n),
         m.type = "S" => n < m.step
  PROVE  /\ OfSong(d, m.song) => OfSong(Append(d, m), m.song)
         /\ Rising(d) => Rising(Append(d, m))
         /\ \A h \in Int : Above(d, h) /\ h <= n => Above(Append(d, m), h)
         /\ \A h \in Int : n <= h /\ (m.type = "S" => m.step <= h) => UpTo(Append(d, m), h)
<1> DEFINE t == Append(d, m)
<1>1. /\ Len(d) \in Nat /\ Len(t) = Len(d) + 1 /\ t[Len(d) + 1] = m
      /\ \A i \in 1 .. Len(d) : t[i] = d[i] /\ d[i] \in Message
  OBVIOUS
<1> HIDE DEF t
<1>2. /\ m.step \in Int /\ \A i \in 1 .. Len(d) : d[i].step \in Int
      /\ \A i \in 1 .. Len(t) : i \in 1 .. Len(d) \/ i = Len(d) + 1
  BY <1>1, UploadAssumption DEF Message
<1>3. OfSong(d, m.song) => OfSong(t, m.song)
  BY <1>1, <1>2 DEF OfSong
<1>4. ASSUME Rising(d) PROVE Rising(t)
  <2>1. SUFFICES ASSUME NEW i \in 1 .. Len(t), NEW j \in 1 .. Len(t),
                        i < j, t[i].type = "S", t[j].type = "S"
                 PROVE  t[i].step < t[j].step
    BY DEF Rising
  <2>2. i \in 1 .. Len(d) /\ t[i] = d[i]
    BY <1>1, <2>1
  <2>3. CASE j = Len(d) + 1
    BY <1>1, <1>2, <2>1, <2>2, <2>3 DEF UpTo
  <2>4. CASE j \in 1 .. Len(d)
    BY <1>1, <1>4, <2>1, <2>2, <2>4 DEF Rising
  <2>5. QED
    BY <1>2, <2>3, <2>4
<1>5. ASSUME NEW h \in Int, Above(d, h), h <= n PROVE Above(t, h)
  BY <1>1, <1>2, <1>5 DEF Above
<1>6. ASSUME NEW h \in Int, n <= h, m.type = "S" => m.step <= h PROVE UpTo(t, h)
  BY <1>1, <1>2, <1>6 DEF UpTo
<1>7. QED
  BY <1>3, <1>4, <1>5, <1>6 DEF t

\* Another step is collected.
LEMMA CollectedMore ==
  ASSUME NEW steps \in Seq(Step), NEW song, NEW n \in Int, Collected(steps, song, n),
         NEW q \in 1 .. MAX_SEQUENCE_LENGTH, <<song, q>> \in Step, q <= n,
         \A i \in 1 .. Len(steps) : steps[i][2] < q
  PROVE  Collected(Append(steps, <<song, q>>), song, n)
<1> DEFINE e == <<song, q>>
           t == Append(steps, e)
<1>1. e[1] = song /\ e[2] = q /\ q \in Int /\ e \in Step
  BY UploadAssumption
<1> HIDE DEF e
<1>2. /\ Len(steps) \in Nat /\ Len(t) = Len(steps) + 1 /\ t[Len(steps) + 1] = e
      /\ \A i \in 1 .. Len(steps) : t[i] = steps[i] /\ steps[i] \in Step
  BY <1>1
<1> HIDE DEF t
<1>3. /\ \A i \in 1 .. Len(steps) : steps[i][2] \in Int
      /\ \A i \in 1 .. Len(t) : i \in 1 .. Len(steps) \/ i = Len(steps) + 1
  <2>1. \A x \in Step : x[2] \in Int
    BY UploadAssumption DEF Step
  <2>2. \A i \in 1 .. Len(steps) : steps[i][2] \in Int
    BY <1>2, <2>1
  <2>3. \A i \in 1 .. Len(t) : i \in 1 .. Len(steps) \/ i = Len(steps) + 1
    BY <1>2
  <2>4. QED
    BY <2>2, <2>3
<1>4. ASSUME NEW i \in 1 .. Len(t) PROVE t[i][1] = song /\ t[i][2] <= n
  BY <1>1, <1>2, <1>3 DEF Collected
<1>5. ASSUME NEW i \in 1 .. Len(t), NEW j \in 1 .. Len(t), i <= j
      PROVE  t[j][2] - t[i][2] >= j - i
  <2>1. CASE j \in 1 .. Len(steps)
    <3>1. i \in 1 .. Len(steps)
      BY <1>2, <1>5, <2>1
    <3>2. QED
      BY <1>2, <1>5, <2>1, <3>1 DEF Collected
  <2>2. CASE j = Len(steps) + 1 /\ i = Len(steps) + 1
    BY <1>1, <1>2, <2>2
  <2>3. CASE j = Len(steps) + 1 /\ i \in 1 .. Len(steps)
    <3> DEFINE l == Len(steps)
    <3>1. l \in 1 .. l /\ l \in Nat /\ i <= l
      BY <1>2, <2>3
    <3>2. steps[l][2] - steps[i][2] >= l - i /\ steps[l][2] < q
      BY <2>3, <3>1 DEF Collected
    <3>3. t[j][2] = q /\ t[i][2] = steps[i][2] /\ steps[l][2] \in Int /\ steps[i][2] \in Int
      BY <1>1, <1>2, <1>3, <2>3, <3>1
    <3>4. QED
      BY <1>1, <2>3, <3>1, <3>2, <3>3
  <2>4. QED
    BY <1>3, <2>1, <2>2, <2>3
<1>6. QED
  BY <1>4, <1>5 DEF Collected, t, e

\* As many rising steps as the song has are all its steps, in their order.
LEMMA CollectedAll ==
  ASSUME NEW song \in Songs, NEW steps \in Seq(Step), Len(steps) = Length(song),
         NEW n \in Int, n <= Length(song), Collected(steps, song, n)
  PROVE  steps = Whole(song)
<1> DEFINE l == Length(song)
<1>1. l \in Nat /\ 1 <= l /\ MAX_SEQUENCE_LENGTH \in Nat
  BY SongFacts, UploadAssumption
<1>2. ASSUME NEW i \in 1 .. l PROVE steps[i] = <<song, i>>
  <2>1. /\ i \in 1 .. Len(steps) /\ 1 \in 1 .. Len(steps) /\ l \in 1 .. Len(steps)
        /\ 1 <= i /\ i <= l
    BY <1>1
  <2>2. steps[i] \in Step /\ steps[1] \in Step /\ steps[l] \in Step
    BY <2>1
  <2>3. /\ steps[i] = <<steps[i][1], steps[i][2]>>
        /\ steps[i][2] \in Int /\ steps[1][2] \in Int /\ steps[l][2] \in Int /\ 1 <= steps[1][2]
    BY <1>1, <2>2 DEF Step
  <2>4. /\ steps[i][2] - steps[1][2] >= i - 1 /\ steps[l][2] - steps[i][2] >= l - i
        /\ steps[l][2] <= n /\ steps[i][1] = song
    BY <2>1 DEF Collected
  <2>5. steps[i][2] = i
    BY <1>1, <2>1, <2>3, <2>4
  <2>6. QED
    BY <2>3, <2>4, <2>5
<1>3. steps = [i \in 1 .. l |-> steps[i]]
  BY <1>1
<1>4. QED
  BY <1>2, <1>3 DEF Whole

LEMMA LinesFewerStill ==
  ASSUME NEW d \in Seq(Message), NEW d2, Fewer(d, d2)
  PROVE  /\ \A song : OfSong(d, song) => OfSong(d2, song)
         /\ Rising(d) => Rising(d2)
         /\ \A n : (Above(d, n) => Above(d2, n)) /\ (UpTo(d, n) => UpTo(d2, n))
<1>1. CASE d2 = d
  BY <1>1
<1>2. CASE d2 = << >>
  BY <1>2, LinesNone
<1>3. CASE d # << >> /\ d2 = Tail(d)
  BY <1>3, LinesRead
<1>4. QED
  BY <1>1, <1>2, <1>3 DEF Fewer

LEMMA Further ==
  ASSUME NEW n \in Int, NEW n2 \in Int, n <= n2
  PROVE  /\ \A d \in Seq(Message) : UpTo(d, n) => UpTo(d, n2)
         /\ \A steps \in Seq(Step) : \A song : Collected(steps, song, n) => Collected(steps, song, n2)
<1>1. ASSUME NEW d \in Seq(Message), UpTo(d, n) PROVE UpTo(d, n2)
  <2>1. \A i \in 1 .. Len(d) : d[i].step \in Int
    <3>1. \A i \in 1 .. Len(d) : d[i] \in Message
      OBVIOUS
    <3>2. QED
      BY <3>1, UploadAssumption DEF Message
  <2>2. QED
    BY <1>1, <2>1 DEF UpTo
<1>2. ASSUME NEW steps \in Seq(Step), NEW song, Collected(steps, song, n)
      PROVE  Collected(steps, song, n2)
  <2>1. \A i \in 1 .. Len(steps) : steps[i][2] \in Int
    <3>1. \A i \in 1 .. Len(steps) : steps[i] \in Step
      OBVIOUS
    <3>2. QED
      BY <3>1, UploadAssumption DEF Step
  <2>2. QED
    BY <1>2, <2>1 DEF Collected
<1>3. QED
  BY <1>1, <1>2

LEMMA LastSentFacts ==
  ASSUME TInv, NEW a \in Address, Busy(a)
  PROVE  LastSent(a) \in Int /\ LastSent(a) <= Length(driver[a].song)
BY Here, SongFacts DEF LastSent

\* Steps that send no line and leave the receiver alone or free it.
LEMMA CleanFewer ==
  ASSUME TInv, NEW a \in Address, CleanOK(a),
         driver'[a].song = driver[a].song, driver'[a].next = driver[a].next,
         Fewer(down[a], down'[a]),
         receiver'[a] = receiver[a] \/ ~receiver'[a].uploading
  PROVE  CleanOK(a)'
<1>1. Busy(a)' = Busy(a) /\ LastSent(a)' = LastSent(a)
  BY DEF Busy, LastSent
<1>2. /\ \A song : OfSong(down[a], song) => OfSong(down'[a], song)
      /\ Rising(down[a]) => Rising(down'[a])
      /\ \A n : UpTo(down[a], n) => UpTo(down'[a], n)
  BY Here, LinesFewerStill
<1>2a. \A n : Above(down[a], n) => Above(down'[a], n)
  BY Here, LinesFewerStill
<1>3. CASE ~Busy(a)
  BY <1>1, <1>3 DEF CleanOK
<1>4. CASE Busy(a)
  <2> DEFINE song == driver[a].song
             n == LastSent(a)
             r == receiver[a]
             late == \A i \in 1 .. Len(r.steps) : Above(down[a], r.steps[i][2])
             late2 == \A i \in 1 .. Len(r.steps) : Above(down'[a], r.steps[i][2])
  <2>1. /\ OfSong(down'[a], song) /\ Rising(down'[a]) /\ UpTo(down'[a], n)
        /\ r.uploading => r.id = song /\ Collected(r.steps, song, n) /\ late2
    <3>1. /\ OfSong(down[a], song) /\ Rising(down[a]) /\ UpTo(down[a], n)
          /\ r.uploading => r.id = song /\ Collected(r.steps, song, n) /\ late
      BY <1>4 DEF CleanOK
    <3>2. late => late2
      <4>1. SUFFICES ASSUME late, NEW i \in 1 .. Len(r.steps)
                     PROVE  Above(down'[a], r.steps[i][2])
        OBVIOUS
      <4> DEFINE m == r.steps[i][2]
      <4>2. Above(down[a], m)
        BY <4>1
      <4> HIDE DEF m
      <4>3. Above(down'[a], m)
        BY <1>2a, <4>2
      <4>4. QED
        BY <4>3 DEF m
    <3> HIDE DEF song, n, r, late, late2
    <3>3. /\ OfSong(down'[a], song) /\ Rising(down'[a]) /\ UpTo(down'[a], n)
      BY <1>2, <3>1
    <3>4. QED
      BY <3>1, <3>2, <3>3
  <2>2. LastSent(a)' = n /\ driver'[a].song = song
    BY <1>1
  <2> HIDE DEF n
  <2>3. receiver'[a].uploading => receiver'[a] = r
    OBVIOUS
  <2>4. QED
    BY <2>1, <2>2, <2>3 DEF CleanOK
<1>5. QED
  BY <1>3, <1>4

LEMMA SendClean ==
  ASSUME TInv, NEW a \in Address, SendLine(a), CleanOK(a)
  PROVE  CleanOK(a)'
<1> DEFINE song == driver[a].song
           line == LineOf(song, driver[a].next)
           n == LastSent(a)
           n2 == LastSent(a)'
           r == receiver[a]
<1>1. /\ song \in Songs /\ driver[a].next \in 1 .. LineCount(song) /\ Busy(a)
      /\ driver'[a].song = song /\ driver'[a].next = driver[a].next + 1
      /\ receiver'[a] = r /\ r \in ReceiverState
      /\ down[a] \in Seq(Message)
      /\ down'[a] = down[a] \/ down'[a] = Append(down[a], line)
  BY SendFacts, Here
<1>2. /\ line \in Message /\ line.song = song
      /\ line.type = "U" <=> driver[a].next = 1
      /\ line.type = "E" <=> driver[a].next = LineCount(song)
      /\ line.type = "S" => line.step = driver[a].next - 1
  BY <1>1, LineFacts
<1>3. /\ Length(song) \in Nat /\ LineCount(song) = Length(song) + 2
  BY <1>1, SongFacts
<1> HIDE DEF line
<1>4. /\ n \in Int /\ n2 \in Int /\ n <= n2
      /\ line.type = "S" => n < line.step /\ line.step <= n2
  <2>1. n = IF driver[a].next - 2 <= Length(song) THEN driver[a].next - 2 ELSE Length(song)
    BY DEF LastSent
  <2>2. n2 = IF driver[a].next - 1 <= Length(song) THEN driver[a].next - 1 ELSE Length(song)
    BY <1>1, <1>3 DEF LastSent
  <2> HIDE DEF n, n2
  <2>3. n \in Int /\ n2 \in Int /\ n <= n2
    BY <1>1, <1>3, <2>1, <2>2
  <2>4. line.type = "S" => driver[a].next - 1 <= Length(song)
    <3>1. line.type = "S" => line.type # "E"
      OBVIOUS
    <3>2. line.type = "S" => driver[a].next # LineCount(song)
      BY <1>2, <3>1
    <3>3. QED
      BY <1>1, <1>3, <3>2
  <2>5. line.type = "S" => n < line.step /\ line.step <= n2
    BY <1>1, <1>2, <1>3, <2>1, <2>2, <2>4
  <2>6. QED
    BY <2>3, <2>5
<1> HIDE DEF n, n2
<1>5. /\ OfSong(down[a], song) /\ Rising(down[a]) /\ UpTo(down[a], n)
      /\ r.uploading => /\ r.id = song /\ Collected(r.steps, song, n)
                        /\ \A i \in 1 .. Len(r.steps) : Above(down[a], r.steps[i][2])
  BY <1>1 DEF CleanOK, n
<1>6. OfSong(down'[a], song) /\ Rising(down'[a]) /\ UpTo(down'[a], n2)
  <2>1. CASE down'[a] = down[a]
    BY <1>1, <1>4, <1>5, <2>1, Further
  <2>2. CASE down'[a] = Append(down[a], line)
    BY <1>1, <1>2, <1>4, <1>5, <2>2, LinesSent
  <2>3. QED
    BY <1>1, <2>1, <2>2
<1>7. ASSUME r.uploading
      PROVE  /\ Collected(r.steps, song, n2)
             /\ \A i \in 1 .. Len(r.steps) : Above(down'[a], r.steps[i][2])
  <2>1. r.steps \in Seq(Step)
    BY <1>1 DEF ReceiverState
  <2>2. Collected(r.steps, song, n2)
    BY <1>4, <1>5, <1>7, <2>1, Further
  <2>3. ASSUME NEW i \in 1 .. Len(r.steps) PROVE Above(down'[a], r.steps[i][2])
    <3>1. r.steps[i] \in Step
      BY <2>1
    <3>2. r.steps[i][2] \in Int /\ r.steps[i][2] <= n
      BY <1>5, <1>7, <3>1, UploadAssumption DEF Step, Collected
    <3>3. Above(down[a], r.steps[i][2])
      BY <1>5, <1>7
    <3>4. CASE down'[a] = down[a]
      BY <3>3, <3>4
    <3>5. CASE down'[a] = Append(down[a], line)
      BY <1>1, <1>2, <1>4, <1>5, <3>2, <3>3, <3>5, LinesSent
    <3>6. QED
      BY <1>1, <3>4, <3>5
  <2>4. QED
    BY <2>2, <2>3
<1>8. QED
  BY <1>1, <1>5, <1>6, <1>7 DEF CleanOK, n2

LEMMA ReceiveClean ==
  ASSUME TInv, NEW a \in Address, Receive(a), CleanOK(a)
  PROVE  CleanOK(a)'
<1> DEFINE m == Head(down[a])
           song == driver[a].song
           r == receiver[a]
           n == LastSent(a)
<1>1. /\ down[a] # << >> /\ down[a] \in Seq(Message) /\ down'[a] = Tail(down[a])
      /\ m \in Message /\ driver'[a] = driver[a] /\ r \in ReceiverState
      /\ \/ Deaf(a, m) /\ Ignores(a)
         \/ Begins(a, m) \/ Collects(a, m) \/ Completes(a, m) \/ Rejects(a, m)
  BY ReceiveCases, Reads, Here
<1>2. Busy(a)' = Busy(a) /\ LastSent(a)' = n
  BY <1>1 DEF Busy, LastSent
<1>3. CASE receiver' = receiver \/ receiver' = [receiver EXCEPT ![a].uploading = FALSE]
  <2>1. receiver'[a] = receiver[a] \/ ~receiver'[a].uploading
    <3>1. CASE receiver' = [receiver EXCEPT ![a].uploading = FALSE]
      <4>1. receiver'[a] = [receiver[a] EXCEPT !.uploading = FALSE]
        BY <3>1 DEF TInv, DeviceOK
      <4>2. QED
        BY <1>1, <4>1 DEF ReceiverState
    <3>2. QED
      BY <1>3, <3>1
  <2>2. Fewer(down[a], down'[a])
    BY <1>1 DEF Fewer
  <2>3. QED
    BY <1>1, <2>1, <2>2, CleanFewer
<1>4. CASE ~Busy(a)
  BY <1>2, <1>4 DEF CleanOK
<1> HIDE DEF m
<1>5. ASSUME Busy(a)
      PROVE  /\ OfSong(down[a], song) /\ Rising(down[a]) /\ UpTo(down[a], n) /\ m.song = song
             /\ OfSong(down'[a], song) /\ Rising(down'[a]) /\ UpTo(down'[a], n)
             /\ m.type = "S" => m.step <= n /\ Above(down'[a], m.step)
             /\ n \in Int /\ song \in Songs
  <2>1. OfSong(down[a], song) /\ Rising(down[a]) /\ UpTo(down[a], n)
    BY <1>5 DEF CleanOK
  <2>2. QED
    BY <1>1, <1>5, <2>1, LinesRead, LastSentFacts, Here DEF m
<1>6. CASE Busy(a) /\ Begins(a, m)
  <2>1. receiver'[a] = [uploading |-> TRUE, id |-> m.song, length |-> Length(m.song),
                        steps |-> << >>]
    BY <1>6 DEF Begins, TInv, DeviceOK
  <2>2. receiver'[a].id = m.song /\ receiver'[a].steps = << >>
    BY <2>1
  <2>3. Collected(<< >>, song, n) /\ Len(<< >>) = 0
    BY DEF Collected
  <2>4. \A i \in 1 .. Len(receiver'[a].steps) : Above(down'[a], receiver'[a].steps[i][2])
    BY <2>2, <2>3
  <2>5. QED
    BY <1>1, <1>2, <1>5, <1>6, <2>2, <2>3, <2>4 DEF CleanOK
<1>7. CASE Busy(a) /\ Collects(a, m)
  <2> DEFINE q == m.step
             steps == Append(r.steps, <<song, q>>)
  <2>1. /\ m.type = "S" /\ r.uploading
        /\ receiver' = [receiver EXCEPT ![a].steps = steps]
    BY <1>5, <1>7 DEF Collects
  <2>2. /\ r.id = song /\ Collected(r.steps, song, n)
        /\ \A i \in 1 .. Len(r.steps) : Above(down[a], r.steps[i][2])
    BY <1>7, <2>1 DEF CleanOK
  <2>3. /\ q \in 1 .. MAX_SEQUENCE_LENGTH /\ r.steps \in Seq(Step)
        /\ <<song, q>> \in Step
    BY <1>1, <1>5, <1>7, <2>1, UploadAssumption DEF Message, ReceiverState, Step
  <2>4. \A i \in 1 .. Len(r.steps) : r.steps[i][2] < q /\ Above(down'[a], r.steps[i][2])
    BY <1>1, <2>1, <2>2, LinesRead DEF m
  <2>5. q <= n /\ Above(down'[a], q)
    BY <1>5, <1>7, <2>1
  <2>6. Collected(steps, song, n)
    BY <1>5, <1>7, <2>2, <2>3, <2>4, <2>5, CollectedMore
  <2>7. /\ Len(r.steps) \in Nat /\ Len(steps) = Len(r.steps) + 1
        /\ steps[Len(r.steps) + 1] = <<song, q>>
        /\ \A i \in 1 .. Len(r.steps) : steps[i] = r.steps[i]
    BY <2>3
  <2> HIDE DEF steps, q
  <2>8. \A i \in 1 .. Len(steps) : Above(down'[a], steps[i][2])
    <3>1. SUFFICES ASSUME NEW i \in 1 .. Len(steps) PROVE Above(down'[a], steps[i][2])
      OBVIOUS
    <3>2. CASE i \in 1 .. Len(r.steps)
      BY <2>4, <2>7, <3>2
    <3>3. CASE i = Len(r.steps) + 1
      BY <2>5, <2>7, <3>3
    <3>4. QED
      BY <2>7, <3>2, <3>3
  <2>9. receiver'[a].id = song /\ receiver'[a].steps = steps
    <3>1. receiver'[a] = [r EXCEPT !.steps = steps]
      BY <2>1 DEF TInv, DeviceOK
    <3>2. QED
      BY <1>1, <2>2, <3>1 DEF ReceiverState
  <2>10. QED
    BY <1>1, <1>2, <1>5, <1>7, <2>6, <2>8, <2>9 DEF CleanOK
<1>8. QED
  BY <1>1, <1>3, <1>4, <1>6, <1>7 DEF Ignores, Completes, Rejects

LEMMA StepClean ==
  ASSUME PInv, NEW a \in Address, CleanOK(a), AddressStep(a),
         \A song \in Songs : RequestUpload(a, song) => Quiet(a)
  PROVE  CleanOK(a)'
<1>1. TInv
  BY DEF PInv
<1>2. ASSUME NEW song \in Songs, RequestUpload(a, song) PROVE CleanOK(a)'
  <2>1. down'[a] = << >> /\ ~receiver'[a].uploading
    BY <1>2 DEF Quiet, RequestUpload, device
  <2>2. QED
    BY <2>1, LinesNone DEF CleanOK
<1>3. CASE FinishUpload(a) \/ AbortUpload(a) \/ FailUpload(a) \/ TimeOut(a)
  <2>1. driver'[a] = Idle
    BY <1>1, <1>3 DEF FinishUpload, AbortUpload, FailUpload, TimeOut, Failed, TInv, ControllerOK
  <2>2. ~Busy(a)'
    BY <2>1 DEF Busy, Idle
  <2>3. QED
    BY <2>2 DEF CleanOK
<1>4. CASE Hear(a) \/ Reconnect(a)
  <2>1. /\ driver'[a].song = driver[a].song /\ driver'[a].next = driver[a].next
        /\ down'[a] = down[a] /\ receiver'[a] = receiver[a]
    BY <1>1, <1>4, Hears, Reconnected
  <2>2. QED
    BY <1>1, <2>1, CleanFewer DEF Fewer
<1>5. CASE \/ StartRecording(a) \/ StopRecording(a) \/ PressPower(a)
           \/ LoseConnection(a) \/ CloseConnection(a)
  <2>1. driver' = driver /\ receiver' = receiver
    BY <1>5 DEF StartRecording, StopRecording, PressPower, LoseConnection, CloseConnection,
       controller, device
  <2>2. down'[a] = down[a] \/ down'[a] = << >>
    BY <1>1, <1>5 DEF StartRecording, StopRecording, PressPower, LoseConnection, CloseConnection,
       TInv, DeviceOK
  <2>3. QED
    BY <1>1, <2>1, <2>2, CleanFewer DEF Fewer
<1>6. CASE Reboot(a)
  <2>1. down'[a] = << >> /\ driver' = driver
    BY <1>1, <1>6 DEF Reboot, controller, TInv, DeviceOK
  <2>2. ~receiver'[a].uploading
    <3> DEFINE r == [receiver[a] EXCEPT !.uploading = FALSE, !.steps = << >>]
    <3>1. receiver'[a] = r
      BY <1>1, <1>6 DEF Reboot, TInv, DeviceOK
    <3>2. ~r.uploading
      BY <1>1, Here DEF ReceiverState
    <3> HIDE DEF r
    <3>3. QED
      BY <3>1, <3>2
  <2>3. QED
    BY <1>1, <2>1, <2>2, CleanFewer DEF Fewer
<1>7. QED
  BY <1>1, <1>2, <1>3, <1>4, <1>5, <1>6, SendClean, ReceiveClean DEF AddressStep, Drive

LEMMA OthersClean ==
  ASSUME NEW a \in Address, UNCHANGED At(a), CleanOK(a)
  PROVE  CleanOK(a)'
<1>1. driver'[a] = driver[a] /\ down'[a] = down[a] /\ receiver'[a] = receiver[a]
  BY DEF At
<1>2. Busy(a)' = Busy(a) /\ LastSent(a)' = LastSent(a)
  BY <1>1 DEF Busy, LastSent
<1>3. QED
  BY <1>1, <1>2 DEF CleanOK

-----------------------------------------------------------------------------
(* Uploads that find the module quiet *)

QuietRequests == \A a \in Address : \A song \in Songs : RequestUpload(a, song) => Quiet(a)

CleanInv == PInv /\ \A a \in Address : CleanOK(a)

LEMMA CleanKept ==
  ASSUME Timely
  PROVE  CleanInv /\ [Next]_vars /\ [QuietRequests]_vars => CleanInv'
<1>1. ASSUME CleanInv, UNCHANGED vars PROVE CleanInv'
  BY <1>1, IdleStep, OthersRetry, OthersClean DEF CleanInv, PInv
<1>2. ASSUME CleanInv, Next, QuietRequests PROVE CleanInv'
  <2>1. PICK a \in Address : AddressStep(a)
    BY <1>2 DEF Next, AddressStep
  <2>2. PInv' /\ CleanOK(a)'
    BY <1>2, <2>1, StepRetries, StepClean DEF CleanInv, QuietRequests
  <2>3. \A b \in Address \ {a} : CleanOK(b)'
    BY <1>2, <2>1, StepTypes, OthersClean DEF CleanInv, PInv, AddressStep
  <2>4. QED
    BY <2>2, <2>3 DEF CleanInv
<1>3. QED
  BY <1>1, <1>2

LEMMA AtomicOthers ==
  ASSUME NEW a \in Address, Others(a)
  PROVE  [A!Next]_(A!vars)
<1>1. CASE UNCHANGED Seen
  BY <1>1 DEF Seen, A!vars
<1>2. CASE ~UNCHANGED Seen
  <2>1. (\E song \in Songs : A!Ask(a, song)) \/ A!Replace(a) \/ A!Succeed(a) \/ A!Fail(a)
    BY <1>2 DEF Others, A!Ask, A!Replace, A!Succeed, A!Fail
  <2>2. QED
    BY <2>1 DEF A!Next
<1>3. QED
  BY <1>1, <1>2

LEMMA AtomicStep ==
  ASSUME CleanInv, NEW a \in Address, AddressStep(a)
  PROVE  [A!Next]_(A!vars)
<1>1. PInv /\ TInv /\ AnswerOK(a) /\ CleanOK(a)
  BY DEF CleanInv, PInv
<1>2. CASE Receive(a) /\ ~UNCHANGED Seen
  <2>1. /\ TakesOver(a, receiver[a].steps)
        /\ Asked[a] \in Songs /\ Asked[a] = driver[a].song
        /\ receiver[a].uploading
        /\ receiver[a].steps \in Seq(Step) /\ Len(receiver[a].steps) = Length(Asked[a])
    BY <1>1, <1>2, ReceiveSeen
  <2>2. Busy(a)
    BY <2>1, SongFacts DEF Busy
  <2>3. /\ LastSent(a) \in Int /\ LastSent(a) <= Length(Asked[a])
        /\ Collected(receiver[a].steps, Asked[a], LastSent(a))
    BY <1>1, <2>1, <2>2, LastSentFacts DEF CleanOK
  <2>4. receiver[a].steps = Whole(Asked[a])
    BY <2>1, <2>3, CollectedAll
  <2>5. A!Take(a)
    BY <2>1, <2>4 DEF TakesOver, A!Take, Exact
  <2>6. QED
    BY <2>5 DEF A!Next
<1>3. CASE ~Receive(a) \/ UNCHANGED Seen
  BY <1>1, <1>3, StepSeen, AtomicOthers DEF Others
<1>4. QED
  BY <1>2, <1>3

\* If modules answer in time and every upload finds its module quiet, with no upload begun
\* in its receiver and no line of one on the way, uploads are atomic: a module never holds
\* part of a sequence or a mix of two, and success is reported only of what the module has
\* taken over, whatever connections and modules do while the upload is going on.
THEOREM QuietUploadsAtomic ==
  ASSUME Timely
  PROVE  Spec /\ [][QuietRequests]_vars => AtomicSpec
<1>1. Init => A!Init
  BY AtomicInitially DEF A!Init
<1>2. Init => CleanInv
  <2>1. Init => \A a \in Address : ~Busy(a)
    BY DEF Init, Busy, Idle
  <2>2. QED
    BY <2>1, InitialRetries DEF CleanInv, CleanOK
<1>3. CleanInv /\ [Next]_vars => [A!Next]_(A!vars)
  <2>1. ASSUME UNCHANGED vars PROVE UNCHANGED A!vars
    BY <2>1 DEF vars, controller, device, history, A!vars, Asked
  <2>2. ASSUME CleanInv, Next PROVE [A!Next]_(A!vars)
    <3>1. PICK a \in Address : AddressStep(a)
      BY <2>2 DEF Next, AddressStep
    <3>2. QED
      BY <2>2, <3>1, AtomicStep
  <2>3. QED
    BY <2>1, <2>2
<1>4. QED
  BY <1>1, <1>2, <1>3, CleanKept, PTL DEF Spec, AtomicSpec, A!Spec
=============================================================================
