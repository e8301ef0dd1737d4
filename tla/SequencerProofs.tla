-------------------------- MODULE SequencerProofs ---------------------------
(***************************************************************************)
(* Safety of Sequencer for all values of its constants.                    *)
(*                                                                         *)
(* The invariant has one part per group of variables (power and chain,     *)
(* player, store, recorder, upload, keyboard, bounds).  Lemmas say what    *)
(* each helper does to its group; an action's lemma cites them for the     *)
(* groups it touches and Same* for the others.                             *)
(***************************************************************************)
EXTENDS Sequencer, TLAPS

PowerOK ==
  /\ on \in BOOLEAN /\ isMaster \in BOOLEAN /\ linked \in BOOLEAN
  /\ numModulesInChain \in 1 .. MAX_MODULES

PlayerOK ==
  /\ sequenceRunning \in BOOLEAN
  /\ currentSequenceMode \in Mode
  /\ currentSequenceStepIndex \in Nat
  /\ stepAge \in 0 .. Duration
  /\ waitingForServoRelease \in BOOLEAN
  /\ servoAge \in 0 .. 1
  /\ pulled \subseteq OwnKey
  /\ StepInArray

StoreOK == currentSequence \in Sequence

RecorderOK ==
  /\ recording \in BOOLEAN
  /\ recStepCount \in Nat
  /\ recChordKeys \in Seq(Key)
  /\ chordAge \in 0 .. 1
  /\ RecordingFits

UploadOK ==
  /\ uploadingSequence \in BOOLEAN
  /\ uploadStepCount \in Nat
  /\ uploadSequenceBuffer \in Sequence
  /\ attempts \in Nat
  /\ overlapped \in BOOLEAN

KeysOK ==
  /\ button \subseteq Key
  /\ heldTicks \in [Key -> 0 .. Duration]
  /\ isPressed \subseteq Key
  /\ globalKeyIsPressed \subseteq Key
  /\ keyAge \in [Key -> 0 .. Duration]

BoundsOK ==
  /\ presses \in 0 .. MaxPresses
  /\ commands \in 0 .. MaxCommands
  /\ recordings \in 0 .. MaxRecordings
  /\ lines \in 0 .. MaxLines
  /\ events \in 0 .. MaxEvents

IInv ==
  /\ PowerOK /\ PlayerOK /\ StoreOK /\ RecorderOK
  /\ UploadOK /\ KeysOK /\ BoundsOK
  /\ OneWriter

-----------------------------------------------------------------------------
(* Constants, keys and the groups a step leaves alone *)

LEMMA Keys ==
  /\ OwnKey \subseteq Key /\ RemoteKey \subseteq Key
  /\ 0 \in OwnKey /\ NUM_KEYS \in Key
  /\ \A k \in OwnKey : k + NUM_KEYS \in Key
  BY SequencerAssumption DEF OwnKey, Key, RemoteKey, MAX_MODULES

LEMMA Steps ==
  /\ MAX_SEQUENCE_LENGTH \in Nat /\ 0 \in StepIndex
  /\ \A n \in Nat : n \in StepIndex <=> n < MAX_SEQUENCE_LENGTH
  BY SequencerAssumption DEF StepIndex

LEMMA SamePower == ASSUME PowerOK, UNCHANGED <<power, chain>> PROVE PowerOK'
  BY DEF PowerOK, power, chain

LEMMA SamePlayer == ASSUME PlayerOK, UNCHANGED player PROVE PlayerOK'
  BY DEF PlayerOK, player, StepInArray

LEMMA SameStore == ASSUME StoreOK, UNCHANGED currentSequence PROVE StoreOK'
  BY DEF StoreOK

LEMMA SameRecorder == ASSUME RecorderOK, UNCHANGED recorder PROVE RecorderOK'
  BY DEF RecorderOK, recorder, RecordingFits

LEMMA SameUpload == ASSUME UploadOK, UNCHANGED upload PROVE UploadOK'
  BY DEF UploadOK, upload

LEMMA SameKeys == ASSUME KeysOK, UNCHANGED keyboard PROVE KeysOK'
  BY DEF KeysOK, keyboard

LEMMA SameBounds == ASSUME BoundsOK, UNCHANGED bounds PROVE BoundsOK'
  BY DEF BoundsOK, bounds

\* A step keeps the writers apart if it starts neither.
LEMMA SameWriters ==
  ASSUME OneWriter, recording' => recording, uploadingSequence' => uploadingSequence
  PROVE  OneWriter'
  BY DEF OneWriter

-----------------------------------------------------------------------------
(* The stored sequence *)

LEMMA Authors ==
  /\ Nobody \in Author /\ TheDefault \in Author /\ TheRecorder \in Author
  /\ attempts \in Nat => TheUpload \in Author
  BY DEF Author, Nobody, TheDefault, TheRecorder, TheUpload

LEMMA Somebody ==
  TheDefault # Nobody /\ TheRecorder # Nobody /\ TheUpload # Nobody
<1>1. "default" # "nobody" /\ "recording" # "nobody" /\ "upload" # "nobody"
  OBVIOUS
<1> QED BY <1>1 DEF Nobody, TheDefault, TheRecorder, TheUpload

LEMMA DefaultSteps ==
  ASSUME NEW count \in Nat, NEW n \in StepIndex
  PROVE  DefaultStep(count, n) \in Step
<1> DEFINE K == <<{0, NUM_KEYS}, {NUM_KEYS}, {0}>>
<1>1. (n % 3) + 1 \in 1 .. 3
  BY SequencerAssumption DEF StepIndex
<1>2. /\ K[1] \subseteq Key /\ K[2] \subseteq Key /\ K[3] \subseteq Key
      /\ {0} \subseteq Key
  BY Keys
<1>3. K[(n % 3) + 1] \subseteq Key
  <2>1. (n % 3) + 1 = 1 \/ (n % 3) + 1 = 2 \/ (n % 3) + 1 = 3
    BY <1>1
  <2> QED BY <2>1, <1>2
<1> QED BY <1>2, <1>3, Authors DEF DefaultStep, Step

LEMMA Defaults ==
  ASSUME NEW count \in Nat, NEW seq \in Sequence
  PROVE  DefaultFor(count, seq) \in Sequence
<1>1. \A n \in StepIndex : seq.steps[n] \in Step
  BY DEF Sequence
<1>2. \A n \in StepIndex : DefaultStep(count, n) \in Step
  BY DefaultSteps
<1>3. DefaultLength \in 0 .. MAX_SEQUENCE_LENGTH
  BY SequencerAssumption
<1> QED BY <1>1, <1>2, <1>3 DEF DefaultFor, Sequence

LEMMA RefreshedStores ==
  ASSUME NEW count \in Nat, NEW seq \in Sequence, NEW running \in BOOLEAN
  PROVE  Refreshed(seq, count, running) \in Sequence
  BY Defaults DEF Refreshed

\* Blank steps make a buffer of any announced length.
LEMMA Blanks ==
  ASSUME NEW id \in Nat \cup {-1}, NEW length \in 0 .. MAX_SEQUENCE_LENGTH
  PROVE  [id |-> id, length |-> length, steps |-> [n \in StepIndex |-> Blank]] \in Sequence
<1>1. Blank \in Step
  BY Authors DEF Blank, Step
<1> QED BY <1>1 DEF Sequence

LEMMA ChordKeys ==
  ASSUME RecorderOK PROVE Members(recChordKeys) \subseteq Key
  BY DEF RecorderOK, Members

LEMMA Committing ==
  ASSUME StoreOK, RecorderOK
  PROVE  /\ CommittedSteps \in [StepIndex -> Step]
         /\ CommittedCount \in 0 .. MAX_SEQUENCE_LENGTH
         /\ CommittedChord \in Seq(Key)
         /\ Len(CommittedChord) <= MAX_KEYS_PER_STEP
         /\ recording => CommittedChord = << >>
<1>1. [by |-> TheRecorder, keys |-> Members(recChordKeys)] \in Step
  BY ChordKeys, Authors DEF Step
<1>2. currentSequence.steps \in [StepIndex -> Step]
  BY DEF StoreOK, Sequence
<1>3. CommittedSteps \in [StepIndex -> Step]
  BY <1>1, <1>2 DEF CommittedSteps
<1>4. recStepCount \in 0 .. MAX_SEQUENCE_LENGTH
  BY Steps DEF RecorderOK, RecordingFits
<1>5. CommittedCount \in 0 .. MAX_SEQUENCE_LENGTH
  BY <1>4, Steps DEF CommittedCount, CanCommit, MemoryFull
<1>6. CommittedChord \in Seq(Key) /\ Len(CommittedChord) <= MAX_KEYS_PER_STEP
  BY SequencerAssumption DEF CommittedChord, RecorderOK, RecordingFits
<1>7. recording => CommittedChord = << >>
  BY <1>4, Steps DEF CommittedChord, CanCommit, MemoryFull, RecorderOK, RecordingFits
<1> QED BY <1>3, <1>5, <1>6, <1>7

LEMMA CapturedStores == ASSUME StoreOK, RecorderOK PROVE Captured \in Sequence
  BY Committing DEF Captured, Sequence, StoreOK

LEMMA Finishing ==
  ASSUME StoreOK, RecorderOK, FinishRecording
  PROVE  RecorderOK' /\ ~recording'
<1>1. RecorderOK'
  BY Committing, Steps DEF FinishRecording, RecorderOK, RecordingFits
<1> QED BY <1>1 DEF FinishRecording

LEMMA CommitStores == ASSUME StoreOK, RecorderOK, Commit PROVE StoreOK'
  BY Committing DEF Commit, StoreOK, Sequence

LEMMA Interrupting ==
  ASSUME StoreOK, RecorderOK, IF recording THEN FinishRecording ELSE UNCHANGED recorder
  PROVE  RecorderOK' /\ ~recording' /\ Interrupted \in Sequence
<1>1. CASE recording
  BY <1>1, Finishing, CapturedStores DEF Interrupted
<1>2. CASE ~recording
  BY <1>2, SameRecorder DEF Interrupted, StoreOK, recorder
<1> QED BY <1>1, <1>2

-----------------------------------------------------------------------------
(* The player *)

LEMMA Halting == ASSUME PlayerOK, Halt PROVE PlayerOK' /\ ~sequenceRunning'
  BY DEF PlayerOK, Halt, StepInArray

LEMMA PullsOwn == ASSUME NEW n, NEW mode PROVE Pulls(n, mode) \subseteq OwnKey
  BY DEF Pulls

LEMMA Starting ==
  ASSUME PlayerOK, NEW mode \in Mode, Start(mode) PROVE PlayerOK'
<1>1. pulled' \subseteq OwnKey
  BY PullsOwn DEF PlayerOK, Start
<1>2. 0 \in 0 .. Duration
  BY SequencerAssumption
<1> QED BY <1>1, <1>2, Steps DEF PlayerOK, Start, StepInArray

LEMMA Ending == ASSUME PlayerOK, EndSequence PROVE PlayerOK'
<1>1. currentSequenceStepIndex' \in Nat
  BY DEF PlayerOK, EndSequence
<1>2. sequenceRunning' = FALSE /\ pulled' = {} /\ waitingForServoRelease' = FALSE
  BY DEF EndSequence
<1>3. UNCHANGED <<currentSequenceMode, stepAge, servoAge>>
  BY DEF EndSequence
<1> QED BY <1>1, <1>2, <1>3 DEF PlayerOK, StepInArray

\* The index stays in the array while the step is not the last.
LEMMA Advancing ==
  ASSUME PlayerOK, StoreOK, ~LastStep
  PROVE  /\ currentSequenceStepIndex + 1 \in Nat
         /\ currentSequenceStepIndex + 1 \in StepIndex
<1>1. currentSequence.length \in 0 .. MAX_SEQUENCE_LENGTH
  BY DEF StoreOK, Sequence
<1> QED BY <1>1, Steps DEF PlayerOK, LastStep

LEMMA NextSteps ==
  ASSUME PlayerOK, StoreOK, ~LastStep, sequenceRunning, NextStep PROVE PlayerOK'
<1>1. 0 \in 0 .. Duration
  BY SequencerAssumption
<1> QED BY <1>1, Advancing DEF PlayerOK, NextStep, StepInArray

LEMMA PlaybackOK == ASSUME IInv, Playback PROVE IInv'
<1>1. PowerOK' /\ RecorderOK' /\ UploadOK' /\ KeysOK' /\ BoundsOK' /\ StoreOK'
  BY SamePower, SameRecorder, SameUpload, SameKeys, SameBounds, SameStore
     DEF IInv, Playback, AbandonSequence, RepeatKey, TeachingStep, GuidedStep
<1>2. OneWriter'
  BY DEF IInv, OneWriter, Playback, AbandonSequence, RepeatKey, TeachingStep, GuidedStep,
         recorder, upload
<1>3. PlayerOK /\ StoreOK
  BY DEF IInv
<1>4. 0 \in 0 .. Duration
  BY SequencerAssumption
<1>5. ASSUME AbandonSequence PROVE PlayerOK'
  BY <1>3, <1>5, Halting DEF AbandonSequence
<1>6. ASSUME RepeatKey PROVE PlayerOK'
  <2>1. pulled' \subseteq OwnKey
    BY <1>3, <1>6, PullsOwn DEF PlayerOK, RepeatKey
  <2> QED BY <2>1, <1>3, <1>4, <1>6 DEF RepeatKey, Playing, PlayerOK, StepInArray
<1>7. ASSUME TeachingStep PROVE PlayerOK'
  <2>1. CASE LastStep
    BY <2>1, <1>3, <1>7, Ending DEF TeachingStep
  <2>2. CASE ~LastStep
    <3>1. /\ sequenceRunning
          /\ UNCHANGED <<sequenceRunning, currentSequenceMode>>
          /\ currentSequenceStepIndex' = currentSequenceStepIndex + 1
      BY <2>2, <1>7 DEF TeachingStep, Playing
    <3>2. stepAge' \in 0 .. Duration /\ servoAge' \in 0 .. 1
      BY <2>2, <1>3, <1>4, <1>7 DEF TeachingStep, PlayerOK
    <3>3. waitingForServoRelease' \in BOOLEAN
      BY <2>2, <1>3, <1>7 DEF TeachingStep, PlayerOK
    <3>4. pulled' \subseteq OwnKey
      BY <2>2, <1>3, <1>7, PullsOwn DEF TeachingStep, PlayerOK
    <3> QED BY <3>1, <3>2, <3>3, <3>4, <2>2, <1>3, Advancing
            DEF PlayerOK, StepInArray
  <2> QED BY <2>1, <2>2
<1>8. ASSUME GuidedStep PROVE PlayerOK'
  <2>1. CASE LastStep
    BY <2>1, <1>3, <1>8, Ending DEF GuidedStep
  <2>2. CASE ~LastStep
    BY <2>2, <1>3, <1>8, NextSteps DEF GuidedStep, Playing
  <2> QED BY <2>1, <2>2
<1> QED BY <1>1, <1>2, <1>3, <1>5, <1>6, <1>7, <1>8 DEF IInv, Playback

-----------------------------------------------------------------------------
(* Buttons and commands *)

LEMMA PressStartOK == ASSUME IInv, NEW mode \in Mode, PressStart(mode) PROVE IInv'
<1>1. PowerOK' /\ RecorderOK' /\ UploadOK' /\ KeysOK' /\ StoreOK'
  BY SamePower, SameRecorder, SameUpload, SameKeys, SameStore DEF IInv, PressStart
<1>2. PlayerOK'
  BY Starting DEF IInv, PressStart
<1>3. BoundsOK'
  BY SequencerAssumption DEF IInv, PressStart, BoundsOK
<1>4. OneWriter'
  BY DEF IInv, OneWriter, PressStart, recorder, upload
<1> QED BY <1>1, <1>2, <1>3, <1>4 DEF IInv

LEMMA StartCommandOK == ASSUME IInv, NEW mode \in Mode, StartCommand(mode) PROVE IInv'
<1>1. PowerOK' /\ RecorderOK' /\ UploadOK' /\ KeysOK' /\ StoreOK'
  BY SamePower, SameRecorder, SameUpload, SameKeys, SameStore DEF IInv, StartCommand
<1>2. PlayerOK'
  BY Starting DEF IInv, StartCommand
<1>3. BoundsOK'
  BY SequencerAssumption DEF IInv, StartCommand, BoundsOK
<1>4. OneWriter'
  BY DEF IInv, OneWriter, StartCommand, recorder, upload
<1> QED BY <1>1, <1>2, <1>3, <1>4 DEF IInv

LEMMA StopCommandOK == ASSUME IInv, StopCommand PROVE IInv'
<1>1. PowerOK' /\ RecorderOK' /\ UploadOK' /\ KeysOK' /\ StoreOK' /\ BoundsOK'
  BY SamePower, SameRecorder, SameUpload, SameKeys, SameStore, SameBounds
     DEF IInv, StopCommand
<1>2. PlayerOK'
  BY Halting DEF IInv, StopCommand
<1>3. OneWriter'
  BY DEF IInv, OneWriter, StopCommand, recorder, upload
<1> QED BY <1>1, <1>2, <1>3 DEF IInv

LEMMA StartRecordingOK == ASSUME IInv, StartRecording PROVE IInv'
<1>1. PowerOK' /\ PlayerOK' /\ UploadOK' /\ KeysOK' /\ StoreOK'
  BY SamePower, SamePlayer, SameUpload, SameKeys, SameStore DEF IInv, StartRecording
<1>2. RecorderOK'
  <2>1. << >> \in Seq(Key) /\ Len(<< >>) = 0
    OBVIOUS
  <2> QED BY <2>1, SequencerAssumption DEF IInv, StartRecording, RecorderOK, RecordingFits
<1>3. BoundsOK'
  BY SequencerAssumption DEF IInv, StartRecording, BoundsOK
<1>4. OneWriter'
  BY DEF OneWriter, StartRecording, upload
<1> QED BY <1>1, <1>2, <1>3, <1>4 DEF IInv

LEMMA StopRecordingOK == ASSUME IInv, StopRecording PROVE IInv'
<1>1. PowerOK' /\ PlayerOK' /\ UploadOK' /\ KeysOK' /\ BoundsOK'
  BY SamePower, SamePlayer, SameUpload, SameKeys, SameBounds DEF IInv, StopRecording
<1>2. RecorderOK' /\ ~recording'
  BY Finishing DEF IInv, StopRecording
<1>3. StoreOK'
  BY CapturedStores DEF IInv, StopRecording, StoreOK
<1>4. OneWriter'
  BY <1>2 DEF OneWriter
<1> QED BY <1>1, <1>2, <1>3, <1>4 DEF IInv

LEMMA MoveKeyOK == ASSUME IInv, NEW k \in Key, MoveKey(k) PROVE IInv'
<1>1. PowerOK' /\ PlayerOK' /\ RecorderOK' /\ UploadOK' /\ StoreOK'
  BY SamePower, SamePlayer, SameRecorder, SameUpload, SameStore DEF IInv, MoveKey
<1>2. KeysOK'
  BY DEF IInv, MoveKey, KeysOK
<1>3. BoundsOK'
  BY SequencerAssumption DEF IInv, MoveKey, BoundsOK
<1>4. OneWriter'
  BY DEF IInv, OneWriter, MoveKey, recorder, upload
<1> QED BY <1>1, <1>2, <1>3, <1>4 DEF IInv

-----------------------------------------------------------------------------
(* Keys *)

LEMMA Noting ==
  ASSUME KeysOK, NEW g \in Key, NEW down \in BOOLEAN, NEW k \in Key,
         Note(g, down), Noticed(k), UNCHANGED <<button, heldTicks>>
  PROVE  KeysOK'
<1>1. keyAge' \in [Key -> 0 .. Duration]
  BY SequencerAssumption DEF KeysOK, Note
<1>2. globalKeyIsPressed' \subseteq Key
  BY DEF KeysOK, Note
<1>3. isPressed' \subseteq Key
  BY DEF KeysOK, Noticed
<1> QED BY <1>1, <1>2, <1>3 DEF KeysOK

LEMMA RecordPressOK ==
  ASSUME StoreOK, RecorderOK, recording, NEW k \in Key, RecordPress(k)
  PROVE  StoreOK' /\ RecorderOK'
<1> DEFINE Started == recChordKeys' = <<k>> /\ chordAge' = 0
<1>1. <<k>> \in Seq(Key) /\ Len(<<k>>) = 1 /\ 1 <= MAX_KEYS_PER_STEP
  BY SequencerAssumption
<1>2. CASE FinishRecording /\ currentSequence' = Captured
  BY <1>2, Finishing, CapturedStores DEF StoreOK
<1>3. CASE /\ ~MemoryFull /\ Started
           /\ UNCHANGED <<currentSequence, recording, recStepCount>>
  <2>1. StoreOK'
    BY <1>3, SameStore
  <2> QED BY <2>1, <1>1, <1>3, Steps DEF RecorderOK, RecordingFits, MemoryFull
<1>4. CASE /\ ~MemoryFull
           /\ Len(recChordKeys) \in 1 .. MAX_KEYS_PER_STEP - 1
           /\ recChordKeys' = Append(recChordKeys, k)
           /\ UNCHANGED <<currentSequence, recording, recStepCount, chordAge>>
  <2>1. StoreOK'
    BY <1>4, SameStore
  <2>2. recChordKeys' \in Seq(Key) /\ Len(recChordKeys') = Len(recChordKeys) + 1
    BY <1>4 DEF RecorderOK
  <2>3. Len(recChordKeys') <= MAX_KEYS_PER_STEP
    BY <2>2, <1>4, SequencerAssumption
  <2> QED BY <2>1, <2>2, <2>3, <1>4, Steps DEF RecorderOK, RecordingFits, MemoryFull
<1>5. CASE /\ recStepCount + 1 < MAX_SEQUENCE_LENGTH
           /\ Commit /\ Started /\ UNCHANGED recording
  <2>1. StoreOK'
    BY <1>5, CommitStores
  <2>2. recStepCount' \in Nat /\ recStepCount' < MAX_SEQUENCE_LENGTH
    BY <1>5, Steps DEF Commit, CommittedCount, RecorderOK
  <2> QED BY <2>1, <2>2, <1>1, <1>5, Steps DEF RecorderOK, RecordingFits
<1>6. recStepCount \in Nat /\ MAX_SEQUENCE_LENGTH \in Nat
  BY Steps DEF RecorderOK
<1>7. ~(recStepCount + 1 >= MAX_SEQUENCE_LENGTH) => recStepCount + 1 < MAX_SEQUENCE_LENGTH
  BY <1>6
<1> QED BY <1>2, <1>3, <1>4, <1>5, <1>7 DEF RecordPress

LEMMA RecordReleaseOK ==
  ASSUME StoreOK, RecorderOK, recording, NEW k \in Key, RecordRelease(k)
  PROVE  StoreOK' /\ RecorderOK' /\ recording'
<1>1. CASE k \in Members(recChordKeys)
  <2>1. StoreOK'
    BY <1>1, CommitStores DEF RecordRelease
  <2>2. RecorderOK'
    BY <1>1, Committing, Steps DEF RecordRelease, Commit, RecorderOK, RecordingFits
  <2> QED BY <2>1, <2>2, <1>1 DEF RecordRelease
<1>2. CASE k \notin Members(recChordKeys)
  BY <1>2, SameStore, SameRecorder DEF RecordRelease, recorder
<1> QED BY <1>1, <1>2

LEMMA Recording ==
  ASSUME StoreOK, RecorderOK, NEW k \in Key, NEW down \in BOOLEAN, Record(k, down)
  PROVE  StoreOK' /\ RecorderOK' /\ (recording' => recording)
<1>1. CASE isMaster /\ recording
  BY <1>1, RecordPressOK, RecordReleaseOK DEF Record
<1>2. CASE ~(isMaster /\ recording)
  BY <1>2, SameStore, SameRecorder DEF Record, recorder
<1> QED BY <1>1, <1>2

LEMMA PollKeyOK == ASSUME IInv, NEW k \in OwnKey, PollKey(k) PROVE IInv'
<1>1. PowerOK' /\ PlayerOK' /\ UploadOK' /\ BoundsOK'
  BY SamePower, SamePlayer, SameUpload, SameBounds DEF IInv, PollKey
<1>2. k \in Key /\ Global(k) \in Key /\ Down(k) \in BOOLEAN
  BY Keys DEF Global, Down
<1>3. StoreOK' /\ RecorderOK' /\ (recording' => recording)
  BY <1>2, Recording DEF IInv, PollKey
<1>4. KeysOK'
  BY <1>2, Noting DEF IInv, PollKey
<1>5. OneWriter'
  BY <1>3 DEF IInv, OneWriter, PollKey, upload
<1> QED BY <1>1, <1>3, <1>4, <1>5 DEF IInv

LEMMA NeighbourKeyOK == ASSUME IInv, NEW k \in RemoteKey, NeighbourKey(k) PROVE IInv'
<1>1. PowerOK' /\ PlayerOK' /\ UploadOK' /\ BoundsOK'
  BY SamePower, SamePlayer, SameUpload, SameBounds DEF IInv, NeighbourKey
<1>2. k \in Key /\ Down(k) \in BOOLEAN
  BY Keys DEF Down
<1>3. StoreOK' /\ RecorderOK' /\ (recording' => recording) /\ KeysOK'
  <2>1. CASE linked /\ isMaster
    BY <2>1, <1>2, Recording, Noting DEF IInv, NeighbourKey
  <2>2. CASE ~(linked /\ isMaster)
    <3>1. StoreOK' /\ RecorderOK' /\ (recording' => recording)
      BY <2>2, SameStore, SameRecorder DEF IInv, NeighbourKey, recorder
    <3>2. isPressed' \subseteq Key
      BY <1>2 DEF IInv, KeysOK, NeighbourKey, Noticed
    <3> QED BY <3>1, <3>2, <2>2 DEF IInv, NeighbourKey, KeysOK
  <2> QED BY <2>1, <2>2
<1>4. OneWriter'
  BY <1>3 DEF IInv, OneWriter, NeighbourKey, upload
<1> QED BY <1>1, <1>3, <1>4 DEF IInv

-----------------------------------------------------------------------------
(* Upload lines *)

LEMMA UploadBeginOK ==
  ASSUME IInv, NEW header \in UploadHeaders, UploadBegin(header) PROVE IInv'
<1>1. PowerOK' /\ PlayerOK' /\ RecorderOK' /\ KeysOK' /\ StoreOK'
  BY SamePower, SamePlayer, SameRecorder, SameKeys, SameStore DEF IInv, UploadBegin
<1>2. /\ header.id \in Nat \cup {-1} /\ header.length \in 0 .. MAX_SEQUENCE_LENGTH
      /\ header.valid \in BOOLEAN
  BY SequencerAssumption
<1>3. uploadSequenceBuffer' \in Sequence
  BY <1>2, Blanks DEF UploadBegin, Fresh
<1>4. UploadOK'
  BY <1>2, <1>3 DEF IInv, UploadOK, UploadBegin
<1>5. BoundsOK'
  BY SequencerAssumption DEF IInv, UploadBegin, Line, BoundsOK
<1>6. OneWriter'
  BY DEF OneWriter, UploadBegin, recorder
<1> QED BY <1>1, <1>4, <1>5, <1>6 DEF IInv

LEMMA UploadRefusedOK == ASSUME IInv, UploadRefused PROVE IInv'
<1>1. PowerOK' /\ PlayerOK' /\ RecorderOK' /\ KeysOK' /\ StoreOK'
  BY SamePower, SamePlayer, SameRecorder, SameKeys, SameStore DEF IInv, UploadRefused
<1>2. overlapped' \in BOOLEAN
  BY DEF UploadRefused
<1>3. UploadOK'
  BY <1>2 DEF IInv, UploadOK, UploadRefused
<1>4. BoundsOK'
  BY SequencerAssumption DEF IInv, UploadRefused, Line, BoundsOK
<1>5. OneWriter'
  BY DEF IInv, OneWriter, UploadRefused, recorder
<1> QED BY <1>1, <1>3, <1>4, <1>5 DEF IInv

LEMMA UploadStepOK == ASSUME IInv, NEW keys \in UploadKeys, UploadStep(keys) PROVE IInv'
<1>1. PowerOK' /\ PlayerOK' /\ RecorderOK' /\ KeysOK' /\ StoreOK'
  BY SamePower, SamePlayer, SameRecorder, SameKeys, SameStore DEF IInv, UploadStep
<1>2. keys \subseteq Key
  BY SequencerAssumption DEF Key, MAX_MODULES
<1>3. [by |-> TheUpload, keys |-> keys] \in Step
  BY <1>2, Authors DEF Step, IInv, UploadOK
<1>4. uploadSequenceBuffer' \in Sequence
  BY <1>3 DEF IInv, UploadOK, UploadStep, Sequence
<1>5. UploadOK'
  BY <1>4 DEF IInv, UploadOK, UploadStep
<1>6. BoundsOK'
  BY SequencerAssumption DEF IInv, UploadStep, Line, BoundsOK
<1>7. OneWriter'
  BY DEF IInv, OneWriter, UploadStep, recorder
<1> QED BY <1>1, <1>5, <1>6, <1>7 DEF IInv

LEMMA UploadEndOK == ASSUME IInv, NEW id \in UploadIds, UploadEnd(id) PROVE IInv'
<1>1. PowerOK' /\ PlayerOK' /\ RecorderOK' /\ KeysOK'
  BY SamePower, SamePlayer, SameRecorder, SameKeys DEF IInv, UploadEnd
<1>2. StoreOK' /\ UploadOK'
  <2>1. uploadingSequence' = FALSE /\ uploadSequenceBuffer' = uploadSequenceBuffer
    BY DEF UploadEnd
  <2>2. uploadStepCount' \in {0, uploadStepCount}
        /\ currentSequence' \in {currentSequence, uploadSequenceBuffer}
    BY DEF UploadEnd
  <2>3. uploadStepCount' \in Nat
    BY <2>2 DEF IInv, UploadOK
  <2>4. uploadSequenceBuffer' \in Sequence /\ currentSequence' \in Sequence
    BY <2>1, <2>2 DEF IInv, UploadOK, StoreOK
  <2>5. uploadingSequence' \in BOOLEAN /\ attempts' \in Nat /\ overlapped' \in BOOLEAN
    BY <2>1 DEF IInv, UploadOK, UploadEnd
  <2> QED BY <2>3, <2>4, <2>5 DEF StoreOK, UploadOK
<1>3. BoundsOK'
  BY SequencerAssumption DEF IInv, UploadEnd, Line, BoundsOK
<1>4. OneWriter'
  BY DEF OneWriter, UploadEnd
<1> QED BY <1>1, <1>2, <1>3, <1>4 DEF IInv

-----------------------------------------------------------------------------
(* Power, roles and the chain *)

LEMMA Happening == ASSUME BoundsOK, Event PROVE events' \in 0 .. MaxEvents
  BY SequencerAssumption DEF BoundsOK, Event

LEMMA PowerOffOK == ASSUME IInv, PowerOff PROVE IInv'
<1>1. UploadOK' /\ KeysOK'
  BY SameUpload, SameKeys DEF IInv, PowerOff
<1>2. PowerOK'
  BY DEF IInv, PowerOff, PowerOK, chain
<1>3. RecorderOK' /\ ~recording' /\ StoreOK'
  BY Interrupting DEF IInv, PowerOff, Interrupt, StoreOK
<1>4. PlayerOK'
  BY Halting DEF IInv, PowerOff, Interrupt
<1>5. BoundsOK'
  BY Happening DEF IInv, PowerOff, BoundsOK
<1>6. OneWriter'
  BY <1>3 DEF OneWriter
<1> QED BY <1>1, <1>2, <1>3, <1>4, <1>5, <1>6 DEF IInv

LEMMA PowerOnOK == ASSUME IInv, PowerOn PROVE IInv'
<1>1. /\ PlayerOK' /\ RecorderOK' /\ UploadOK' /\ KeysOK' /\ BoundsOK' /\ StoreOK'
  BY SamePlayer, SameRecorder, SameUpload, SameKeys, SameBounds, SameStore
     DEF IInv, PowerOn
<1>2. PowerOK'
  BY DEF IInv, PowerOn, PowerOK, chain
<1>3. OneWriter'
  BY DEF IInv, OneWriter, PowerOn, recorder, upload
<1> QED BY <1>1, <1>2, <1>3 DEF IInv

LEMMA DemoteOK == ASSUME IInv, Demote PROVE IInv'
<1>1. UploadOK' /\ KeysOK'
  BY SameUpload, SameKeys DEF IInv, Demote
<1>2. PowerOK'
  <2>1. isMaster' = FALSE /\ UNCHANGED <<on, linked>>
    BY DEF Demote
  <2>2. numModulesInChain' \in 1 .. MAX_MODULES
    BY DEF Demote, MAX_MODULES
  <2> QED BY <2>1, <2>2 DEF IInv, PowerOK
<1>3. RecorderOK' /\ ~recording' /\ StoreOK'
  BY Interrupting DEF IInv, Demote, Interrupt, StoreOK
<1>4. PlayerOK'
  BY Halting DEF IInv, Demote, Interrupt
<1>5. BoundsOK'
  BY Happening DEF IInv, Demote, BoundsOK
<1>6. OneWriter'
  BY <1>3 DEF OneWriter
<1> QED BY <1>1, <1>2, <1>3, <1>4, <1>5, <1>6 DEF IInv

LEMMA PromoteOK == ASSUME IInv, Promote PROVE IInv'
<1>1. UploadOK' /\ KeysOK'
  BY SameUpload, SameKeys DEF IInv, Promote
<1>2. PowerOK'
  BY DEF IInv, Promote, PowerOK, MAX_MODULES
<1>3. RecorderOK' /\ ~recording' /\ Interrupted \in Sequence
  BY Interrupting DEF IInv, Promote, Interrupt
<1>4. StoreOK'
  BY <1>3, RefreshedStores DEF Promote, StoreOK
<1>5. PlayerOK'
  BY Halting DEF IInv, Promote, Interrupt
<1>6. BoundsOK'
  BY SameBounds DEF IInv, Promote
<1>7. OneWriter'
  BY <1>3 DEF OneWriter
<1> QED BY <1>1, <1>2, <1>3, <1>4, <1>5, <1>6, <1>7 DEF IInv

LEMMA HearBroadcastOK == ASSUME IInv, HearBroadcast PROVE IInv'
<1>1. PowerOK' /\ RecorderOK' /\ UploadOK' /\ KeysOK' /\ StoreOK'
  BY SamePower, SameRecorder, SameUpload, SameKeys, SameStore DEF IInv, HearBroadcast
<1>2. PlayerOK'
  BY DEF IInv, HearBroadcast, PlayerOK, StepInArray, Mode
<1>3. BoundsOK'
  BY Happening DEF IInv, HearBroadcast, BoundsOK
<1>4. OneWriter'
  BY DEF IInv, OneWriter, HearBroadcast, recorder, upload
<1> QED BY <1>1, <1>2, <1>3, <1>4 DEF IInv

LEMMA HearStopOK == ASSUME IInv, HearStop PROVE IInv'
<1>1. PowerOK' /\ RecorderOK' /\ UploadOK' /\ KeysOK' /\ StoreOK'
  BY SamePower, SameRecorder, SameUpload, SameKeys, SameStore DEF IInv, HearStop
<1>2. sequenceRunning' \in BOOLEAN /\ (sequenceRunning' => sequenceRunning)
  BY DEF HearStop
<1>3. /\ pulled' = {}
      /\ UNCHANGED <<currentSequenceMode, currentSequenceStepIndex, stepAge,
                     waitingForServoRelease, servoAge>>
  BY DEF HearStop
<1>4. PlayerOK'
  BY <1>2, <1>3 DEF IInv, PlayerOK, StepInArray
<1>5. BoundsOK'
  BY Happening DEF IInv, HearStop, BoundsOK
<1>6. OneWriter'
  BY DEF IInv, OneWriter, HearStop, recorder, upload
<1> QED BY <1>1, <1>4, <1>5, <1>6 DEF IInv

LEMMA HearKeyOK ==
  ASSUME IInv, NEW k \in OwnKey, HearPull(k) \/ HearRelease(k) PROVE IInv'
<1>1. PowerOK' /\ RecorderOK' /\ UploadOK' /\ KeysOK' /\ StoreOK' /\ BoundsOK'
  BY SamePower, SameRecorder, SameUpload, SameKeys, SameStore, SameBounds
     DEF IInv, HearPull, HearRelease
<1>2. pulled' \subseteq OwnKey
  BY DEF IInv, PlayerOK, HearPull, HearRelease
<1>3. UNCHANGED <<sequenceRunning, currentSequenceMode, currentSequenceStepIndex, stepAge,
                  waitingForServoRelease, servoAge>>
  BY DEF HearPull, HearRelease
<1>4. PlayerOK'
  BY <1>2, <1>3 DEF IInv, PlayerOK, StepInArray
<1>5. OneWriter'
  BY DEF IInv, OneWriter, HearPull, HearRelease, recorder, upload
<1> QED BY <1>1, <1>4, <1>5 DEF IInv

LEMMA MoveCableOK == ASSUME IInv, MoveCable PROVE IInv'
<1>1. PlayerOK' /\ RecorderOK' /\ UploadOK' /\ KeysOK' /\ StoreOK'
  BY SamePlayer, SameRecorder, SameUpload, SameKeys, SameStore DEF IInv, MoveCable
<1>2. PowerOK'
  BY DEF IInv, MoveCable, PowerOK, power
<1>3. BoundsOK'
  BY Happening DEF IInv, MoveCable, BoundsOK
<1>4. OneWriter'
  BY DEF IInv, OneWriter, MoveCable, recorder, upload
<1> QED BY <1>1, <1>2, <1>3, <1>4 DEF IInv

LEMMA GrowChainOK == ASSUME IInv, GrowChain PROVE IInv'
<1>1. PlayerOK' /\ RecorderOK' /\ UploadOK' /\ KeysOK' /\ BoundsOK'
  BY SamePlayer, SameRecorder, SameUpload, SameKeys, SameBounds DEF IInv, GrowChain
<1>2. PowerOK'
  BY DEF IInv, GrowChain, PowerOK, power, MAX_MODULES
<1>3. StoreOK'
  BY RefreshedStores DEF IInv, GrowChain, StoreOK, PlayerOK
<1>4. OneWriter'
  BY DEF IInv, OneWriter, GrowChain, recorder, upload
<1> QED BY <1>1, <1>2, <1>3, <1>4 DEF IInv

LEMMA ShrinkChainOK == ASSUME IInv, ShrinkChain PROVE IInv'
<1>1. RecorderOK' /\ UploadOK' /\ KeysOK' /\ BoundsOK'
  BY SameRecorder, SameUpload, SameKeys, SameBounds DEF IInv, ShrinkChain
<1>2. PowerOK'
  BY DEF IInv, ShrinkChain, PowerOK, power, MAX_MODULES
<1>3. PlayerOK' /\ StoreOK'
  <2>1. CASE sequenceRunning /\ currentSequenceMode = "BROADCAST"
    BY <2>1, Halting, RefreshedStores DEF IInv, ShrinkChain, StoreOK
  <2>2. CASE ~(sequenceRunning /\ currentSequenceMode = "BROADCAST")
    <3>1. sequenceRunning \in BOOLEAN
      BY DEF IInv, PlayerOK
    <3> QED BY <3>1, <2>2, SamePlayer, RefreshedStores DEF IInv, ShrinkChain, StoreOK
  <2> QED BY <2>1, <2>2
<1>4. OneWriter'
  BY DEF IInv, OneWriter, ShrinkChain, recorder, upload
<1> QED BY <1>1, <1>2, <1>3, <1>4 DEF IInv

-----------------------------------------------------------------------------
(* Time *)

LEMMA Ageing ==
  ASSUME NEW limit \in Nat, NEW age \in 0 .. limit PROVE Older(age, limit) \in 0 .. limit
  BY DEF Older

LEMMA TickOK == ASSUME IInv, Tick PROVE IInv'
<1>1. PowerOK' /\ UploadOK' /\ BoundsOK' /\ StoreOK'
  BY SamePower, SameUpload, SameBounds, SameStore DEF IInv, Tick
<1>2. Duration \in Nat
  BY SequencerAssumption
<1>3. PlayerOK'
  <2>1. stepAge' \in 0 .. Duration
    BY <1>2, Ageing DEF IInv, Tick, PlayerOK
  <2>2. servoAge' \in 0 .. 1
    BY DEF IInv, Tick, PlayerOK
  <2>3. UNCHANGED <<sequenceRunning, currentSequenceMode, currentSequenceStepIndex,
                    waitingForServoRelease, pulled>>
    BY DEF Tick
  <2> QED BY <2>1, <2>2, <2>3 DEF IInv, PlayerOK, StepInArray
<1>4. RecorderOK'
  <2>1. chordAge' \in 0 .. 1
    BY DEF IInv, Tick, RecorderOK
  <2> QED BY <2>1 DEF IInv, Tick, RecorderOK, RecordingFits
<1>5. KeysOK'
  <2>1. keyAge' \in [Key -> 0 .. Duration]
    BY <1>2, Ageing DEF IInv, Tick, KeysOK
  <2>2. heldTicks' \in [Key -> 0 .. Duration]
    <3>1. \A k \in Key : Older(heldTicks[k], Duration) \in 0 .. Duration
      BY <1>2, Ageing DEF IInv, KeysOK
    <3> QED BY <3>1, <1>2 DEF Tick
  <2> QED BY <2>1, <2>2 DEF IInv, Tick, KeysOK
<1>6. OneWriter'
  BY DEF IInv, OneWriter, Tick, upload
<1> QED BY <1>1, <1>3, <1>4, <1>5, <1>6 DEF IInv

-----------------------------------------------------------------------------
(* The invariant *)

LEMMA InitOK == ASSUME Init PROVE IInv
<1>1. PowerOK
  BY DEF Init, PowerOK, MAX_MODULES
<1>2. PlayerOK
  <2>1. sequenceRunning = FALSE /\ waitingForServoRelease = FALSE /\ pulled = {}
    BY DEF Init
  <2>2. /\ currentSequenceStepIndex \in Nat
        /\ stepAge \in 0 .. Duration /\ servoAge \in 0 .. 1
    BY SequencerAssumption DEF Init
  <2>3. currentSequenceMode \in Mode
    BY DEF Init, Mode
  <2> QED BY <2>1, <2>2, <2>3 DEF PlayerOK, StepInArray
<1>3. NoSequence \in Sequence
  BY Blanks, Steps DEF NoSequence, NoSteps
<1>4. StoreOK
  BY <1>3, <1>1, Defaults DEF Init, StoreOK, PowerOK, MAX_MODULES
<1>5. RecorderOK
  <2>1. << >> \in Seq(Key) /\ Len(<< >>) = 0
    OBVIOUS
  <2>2. recording = FALSE /\ recChordKeys = << >>
    BY DEF Init
  <2>3. recStepCount = 0 /\ chordAge = 0
    BY DEF Init
  <2>4. recStepCount <= MAX_SEQUENCE_LENGTH /\ Len(recChordKeys) <= MAX_KEYS_PER_STEP
    BY <2>1, <2>2, <2>3, SequencerAssumption
  <2>5. RecordingFits
    BY <2>2, <2>4 DEF RecordingFits
  <2>6. recChordKeys \in Seq(Key)
    BY <2>1, <2>2
  <2>7. recStepCount \in Nat /\ chordAge \in 0 .. 1
    BY <2>3
  <2> QED BY <2>2, <2>5, <2>6, <2>7 DEF RecorderOK
<1>6. UploadOK
  BY <1>3 DEF Init, UploadOK
<1>7. KeysOK
  BY SequencerAssumption DEF Init, KeysOK
<1>8. BoundsOK
  BY SequencerAssumption DEF Init, BoundsOK
<1>9. OneWriter
  BY DEF Init, OneWriter
<1> QED BY <1>1, <1>2, <1>4, <1>5, <1>6, <1>7, <1>8, <1>9 DEF IInv

LEMMA StutterOK == ASSUME IInv, UNCHANGED vars PROVE IInv'
<1>1. PowerOK' /\ PlayerOK' /\ StoreOK' /\ RecorderOK' /\ UploadOK' /\ KeysOK' /\ BoundsOK'
  BY SamePower, SamePlayer, SameStore, SameRecorder, SameUpload, SameKeys, SameBounds
     DEF IInv, vars
<1>2. OneWriter'
  BY DEF IInv, OneWriter, vars, recorder, upload
<1> QED BY <1>1, <1>2 DEF IInv

LEMMA ButtonsOK == ASSUME IInv, Buttons PROVE IInv'
  BY PressStartOK, StartCommandOK, StopCommandOK, StartRecordingOK, StopRecordingOK,
     MoveKeyOK DEF Buttons

LEMMA PollingOK == ASSUME IInv, Polling PROVE IInv'
  BY PollKeyOK, NeighbourKeyOK DEF Polling

LEMMA UploadingOK == ASSUME IInv, Uploading PROVE IInv'
  BY UploadBeginOK, UploadRefusedOK, UploadStepOK, UploadEndOK DEF Uploading

LEMMA SurroundingsOK == ASSUME IInv, Surroundings PROVE IInv'
  BY PowerOffOK, PowerOnOK, DemoteOK, PromoteOK, HearBroadcastOK, HearStopOK, HearKeyOK,
     MoveCableOK, GrowChainOK, ShrinkChainOK DEF Surroundings

LEMMA NextOK == ASSUME IInv, [Next]_vars PROVE IInv'
  BY PlaybackOK, PollingOK, ButtonsOK, UploadingOK, SurroundingsOK, TickOK, StutterOK
     DEF Next

LEMMA Parts == IInv => /\ TypeOK /\ OneWriter /\ RecordingFits
                       /\ StepInArray
  BY DEF IInv, TypeOK, PowerOK, PlayerOK, StoreOK, RecorderOK, UploadOK, KeysOK, BoundsOK

\* Init implies the invariant and every step keeps it.
THEOREM Invariance == Spec => []IInv
<1>1. Init => IInv
  BY InitOK
<1>2. IInv /\ [Next]_vars => IInv'
  BY NextOK
<1> QED BY <1>1, <1>2, PTL DEF Spec

\* Every variable keeps its type.
THEOREM TypeCorrect == Spec => []TypeOK
  BY Invariance, Parts, PTL

\* The recorder and an upload never write at the same time.
THEOREM WritersExclude == Spec => []OneWriter
  BY Invariance, Parts, PTL

\* The recorder stays inside the memory for steps and chords.
THEOREM RecordingsFit == Spec => []RecordingFits
  BY Invariance, Parts, PTL

\* The step that playback and key feedback read is in the array.
THEOREM StepsInArray == Spec => []StepInArray
  BY Invariance, Parts, PTL

\* Halting brings every servo to rest if something played, and pulls none.
LEMMA HaltRests ==
  ASSUME Halt PROVE (sequenceRunning => pulled' = {}) /\ pulled' \subseteq pulled
  BY DEF Halt

LEMMA StepRests ==
  ASSUME IInv, Next
  PROVE  /\ sequenceRunning /\ ~sequenceRunning' => pulled' = {}
         /\ pulled' \subseteq pulled \/ sequenceRunning' \/ ~isMaster
<1>1. CASE Halt
  BY <1>1, HaltRests
<1>2. CASE sequenceRunning'
  BY <1>2
<1>3. CASE UNCHANGED <<sequenceRunning, pulled>>
  BY <1>3
<1>4. CASE pulled' = {}
  BY <1>4
<1>5. CASE Playback
  BY <1>1, <1>2, <1>4, <1>5
     DEF Playback, AbandonSequence, RepeatKey, TeachingStep, GuidedStep, EndSequence, NextStep,
         Playing
<1>6. CASE Polling \/ Uploading \/ Tick
  BY <1>3, <1>6 DEF Polling, PollKey, NeighbourKey, Uploading, UploadBegin, UploadRefused,
                    UploadStep, UploadEnd, Tick, player
<1>7. CASE Buttons
  BY <1>1, <1>2, <1>3, <1>7 DEF Buttons, PressStart, StartCommand, StopCommand, Start,
                                StartRecording, StopRecording, MoveKey, player
<1>8. CASE Surroundings
  <2>1. CASE \E k \in OwnKey : HearPull(k) \/ HearRelease(k)
    BY <2>1 DEF HearPull, HearRelease
  <2>2. CASE PowerOff \/ Demote \/ Promote
    BY <2>2, <1>1 DEF PowerOff, Demote, Promote, Interrupt
  <2>3. CASE PowerOn \/ MoveCable \/ GrowChain
    BY <2>3, <1>3 DEF PowerOn, MoveCable, GrowChain, player
  <2>4. CASE HearBroadcast
    BY <2>4, <1>2 DEF HearBroadcast
  <2>5. CASE HearStop
    BY <2>5, <1>4 DEF HearStop
  <2>6. CASE ShrinkChain
    BY <2>6, <1>1, <1>3 DEF ShrinkChain, player
  <2> QED BY <1>8, <2>1, <2>2, <2>3, <2>4, <2>5, <2>6 DEF Surroundings
<1> QED BY <1>5, <1>6, <1>7, <1>8 DEF Next

\* Whichever way a sequence ends, stopSequence() or the last step leaves no servo pulled,
\* and only a sequence or a module upstream pulls one (autoPressKey()).
THEOREM ServosAtRest == Spec => ServosRest
<1>1. IInv /\ [Next]_vars
      => [/\ sequenceRunning /\ ~sequenceRunning' => pulled' = {}
          /\ pulled' \subseteq pulled \/ sequenceRunning' \/ ~isMaster]_vars
  BY StepRests
<1> QED BY <1>1, Invariance, PTL DEF Spec, ServosRest

-----------------------------------------------------------------------------
(***************************************************************************)
(* Whole sequences.  As long as no power press, role change or cable move  *)
(* interferes and no U line finds an upload in progress, the recorder's    *)
(* steps so far and those of the upload in progress all have the right     *)
(* author, and a recorder that has not committed a step yet has left the   *)
(* sequence as it was.                                                     *)
(***************************************************************************)
Whole(seq) ==
  /\ seq.length > 0
  /\ \E who \in Author \ {Nobody} :
       \A n \in 0 .. seq.length - 1 : seq.steps[n].by = who

Settled == on /\ isMaster /\ (linked <=> numModulesInChain = 2)

By(steps, count, who) == \A n \in StepIndex : n < count => steps[n].by = who

Filled   == uploadingSequence => By(uploadSequenceBuffer.steps, uploadStepCount, TheUpload)
Recorded == recording => By(currentSequence.steps, recStepCount, TheRecorder)
Intact   == ~recording \/ recStepCount = 0 => Whole(currentSequence)

Undisturbed == Settled /\ Filled /\ Recorded /\ Intact
WInv == events = 0 /\ ~overlapped => Undisturbed

LEMMA AllBy ==
  ASSUME NEW seq \in Sequence, NEW who \in Author \ {Nobody}, seq.length > 0,
         By(seq.steps, seq.length, who)
  PROVE  Whole(seq)
<1>1. seq.length \in 0 .. MAX_SEQUENCE_LENGTH
  BY DEF Sequence
<1>2. \A n \in 0 .. seq.length - 1 : n \in StepIndex /\ n < seq.length
  BY <1>1, Steps DEF StepIndex
<1> QED BY <1>2 DEF Whole, By

LEMMA CommittedBy ==
  ASSUME IInv, recording, Recorded
  PROVE  By(CommittedSteps, CommittedCount, TheRecorder)
<1> SUFFICES ASSUME NEW n \in StepIndex, n < CommittedCount
             PROVE  CommittedSteps[n].by = TheRecorder
  BY DEF By
<1>1. currentSequence.steps \in [StepIndex -> Step] /\ recStepCount \in Nat /\ n \in Nat
  BY DEF IInv, StoreOK, Sequence, RecorderOK, StepIndex
<1>2. n < recStepCount => currentSequence.steps[n].by = TheRecorder
  BY DEF Recorded, By
<1>3. CASE CanCommit
  <2>1. n < recStepCount \/ n = recStepCount
    BY <1>1, <1>3 DEF CommittedCount
  <2> QED BY <2>1, <1>1, <1>2, <1>3 DEF CommittedSteps
<1>4. CASE ~CanCommit
  BY <1>2, <1>4 DEF CommittedSteps, CommittedCount
<1> QED BY <1>3, <1>4

LEMMA CapturedWhole ==
  ASSUME IInv, recording, Recorded, Intact PROVE Whole(Captured)
<1>1. recStepCount \in Nat /\ CommittedCount \in Nat
  BY Committing DEF IInv, RecorderOK
<1>2. CASE CommittedCount > 0
  <2>1. Captured \in Sequence
    BY CapturedStores DEF IInv
  <2>2. Captured.length = CommittedCount /\ Captured.steps = CommittedSteps
    BY <1>2 DEF Captured
  <2>3. TheRecorder \in Author \ {Nobody}
    BY Authors, Somebody
  <2>4. By(Captured.steps, Captured.length, TheRecorder)
    BY <2>2, CommittedBy
  <2> QED BY <2>1, <2>2, <2>3, <2>4, <1>2, AllBy
<1>3. CASE ~(CommittedCount > 0)
  <2>1. recStepCount = 0
    BY <1>1, <1>3 DEF CommittedCount
  <2> QED BY <2>1, <1>3 DEF Captured, Intact
<1> QED BY <1>2, <1>3

\* A step of the recorder that stops, commits or leaves everything alone.
LEMMA StopsWhole ==
  ASSUME IInv, recording, Recorded, Intact, FinishRecording, currentSequence' = Captured
  PROVE  Recorded' /\ Intact'
  BY CapturedWhole DEF FinishRecording, Recorded, Intact, Whole

LEMMA CommitsWhole ==
  ASSUME IInv, recording, Recorded, Intact, Commit, recording' = recording
  PROVE  Recorded' /\ Intact'
<1>1. recStepCount \in Nat
  BY DEF IInv, RecorderOK
<1>2. currentSequence'.steps = CommittedSteps /\ recStepCount' = CommittedCount
  BY DEF Commit, IInv, StoreOK, Sequence
<1>3. Recorded'
  BY <1>2, CommittedBy DEF Recorded, By
<1>4. CASE CanCommit
  BY <1>1, <1>2, <1>3, <1>4 DEF CommittedCount, Intact
<1>5. CASE ~CanCommit
  <2>1. currentSequence' = currentSequence /\ recStepCount' = recStepCount
    BY <1>5 DEF Commit, CommittedSteps, CommittedCount, IInv, StoreOK, Sequence
  <2> QED BY <2>1, <1>3 DEF Intact, Whole
<1> QED BY <1>4, <1>5

LEMMA SameWhole ==
  ASSUME Recorded, Intact, UNCHANGED <<currentSequence, recording, recStepCount>>
  PROVE  Recorded' /\ Intact'
  BY DEF Recorded, Intact, Whole, By

LEMMA SameFilled == ASSUME Filled, UNCHANGED upload PROVE Filled'
  BY DEF Filled, upload, By, TheUpload

LEMMA RecordWhole ==
  ASSUME IInv, Recorded, Intact, NEW k \in Key, NEW down \in BOOLEAN, Record(k, down)
  PROVE  Recorded' /\ Intact'
<1>1. CASE isMaster /\ recording /\ down
  <2>1. RecordPress(k)
    BY <1>1 DEF Record
  <2>2. CASE FinishRecording /\ currentSequence' = Captured
    BY <2>2, <1>1, StopsWhole
  <2>3. CASE UNCHANGED <<currentSequence, recording, recStepCount>>
    BY <2>3, SameWhole
  <2>4. CASE Commit /\ UNCHANGED recording
    BY <2>4, <1>1, CommitsWhole
  <2> QED BY <2>1, <2>2, <2>3, <2>4 DEF RecordPress
<1>2. CASE isMaster /\ recording /\ ~down
  <2>1. RecordRelease(k)
    BY <1>2 DEF Record
  <2>2. CASE k \in Members(recChordKeys)
    BY <2>1, <2>2, <1>2, CommitsWhole DEF RecordRelease
  <2>3. CASE k \notin Members(recChordKeys)
    BY <2>1, <2>3, SameWhole DEF RecordRelease, recorder
  <2> QED BY <2>2, <2>3
<1>3. CASE ~(isMaster /\ recording)
  BY <1>3, SameWhole DEF Record, recorder
<1> QED BY <1>1, <1>2, <1>3

LEMMA SameSettled == ASSUME Settled, UNCHANGED <<power, chain>> PROVE Settled'
  BY DEF Settled, power, chain

\* Keys, time, playback and commands do not touch the store; lines and the recorder
\* do, but keep it whole.
LEMMA PlaybackWhole == ASSUME Undisturbed, Playback PROVE Undisturbed'
  BY SameSettled, SameFilled, SameWhole
     DEF Undisturbed, Playback, AbandonSequence, RepeatKey, TeachingStep, GuidedStep, recorder

LEMMA TickWhole == ASSUME Undisturbed, Tick PROVE Undisturbed'
  BY SameSettled, SameFilled, SameWhole DEF Undisturbed, Tick

LEMMA PollingWhole == ASSUME IInv, Undisturbed, Polling PROVE Undisturbed'
<1>1. ASSUME NEW k \in OwnKey, PollKey(k) PROVE Undisturbed'
  <2>1. k \in Key /\ Down(k) \in BOOLEAN
    BY Keys DEF Down
  <2>2. Recorded' /\ Intact'
    BY <2>1, <1>1, RecordWhole DEF PollKey, Undisturbed
  <2> QED BY <2>2, <1>1, SameSettled, SameFilled DEF PollKey, Undisturbed
<1>2. ASSUME NEW k \in RemoteKey, NeighbourKey(k) PROVE Undisturbed'
  <2>1. k \in Key /\ Down(k) \in BOOLEAN
    BY Keys DEF Down
  <2>2. Recorded' /\ Intact'
    BY <2>1, <1>2, RecordWhole, SameWhole DEF NeighbourKey, Undisturbed, recorder
  <2> QED BY <2>2, <1>2, SameSettled, SameFilled DEF NeighbourKey, Undisturbed
<1> QED BY <1>1, <1>2 DEF Polling

LEMMA ButtonsWhole == ASSUME IInv, Undisturbed, Buttons PROVE Undisturbed'
<1>1. ASSUME StartRecording PROVE Undisturbed'
  <2>1. recStepCount' = 0 /\ ~recording /\ UNCHANGED currentSequence
    BY <1>1 DEF StartRecording
  <2>2. Recorded'
    BY <2>1 DEF Recorded, By, StepIndex
  <2>3. Intact'
    BY <2>1 DEF Undisturbed, Intact, Whole
  <2> QED BY <2>2, <2>3, <1>1, SameSettled, SameFilled DEF StartRecording, Undisturbed
<1>2. ASSUME StopRecording PROVE Undisturbed'
  <2>1. Recorded' /\ Intact'
    BY <1>2, StopsWhole DEF StopRecording, Undisturbed
  <2> QED BY <2>1, <1>2, SameSettled, SameFilled DEF StopRecording, Undisturbed
<1>3. ASSUME UNCHANGED <<power, chain, currentSequence, recorder, upload>>
      PROVE  Undisturbed'
  BY <1>3, SameSettled, SameFilled, SameWhole DEF Undisturbed, recorder
<1> QED BY <1>1, <1>2, <1>3 DEF Buttons, PressStart, StartCommand, StopCommand, MoveKey

LEMMA UploadBeginWhole ==
  ASSUME Undisturbed, NEW header, UploadBegin(header) PROVE Undisturbed'
<1>1. Filled'
  BY DEF UploadBegin, Filled, By, StepIndex
<1> QED BY <1>1, SameSettled, SameWhole DEF UploadBegin, Undisturbed, recorder

\* A refused line begins another upload, whose lines are refused too if none is in progress.
LEMMA UploadRefusedWhole ==
  ASSUME Undisturbed, UploadRefused, ~overlapped' PROVE Undisturbed'
<1>1. ~uploadingSequence'
  BY DEF UploadRefused
<1> QED BY <1>1, SameSettled, SameWhole DEF UploadRefused, Undisturbed, recorder, Filled

LEMMA UploadStepWhole ==
  ASSUME IInv, Undisturbed, NEW keys, UploadStep(keys) PROVE Undisturbed'
<1>1. Filled'
  <2> SUFFICES ASSUME NEW n \in StepIndex, n < uploadStepCount'
               PROVE  uploadSequenceBuffer'.steps[n].by = TheUpload'
    BY DEF Filled, By
  <2>1. /\ uploadSequenceBuffer.steps \in [StepIndex -> Step]
        /\ uploadStepCount \in Nat /\ n \in Nat
    BY DEF IInv, UploadOK, Sequence, StepIndex
  <2>2. n < uploadStepCount \/ n = uploadStepCount
    BY <2>1 DEF UploadStep
  <2>3. uploadSequenceBuffer'.steps =
          [uploadSequenceBuffer.steps EXCEPT ![uploadStepCount] =
             [by |-> TheUpload, keys |-> keys]]
    BY DEF UploadStep, IInv, UploadOK, Sequence
  <2>4. TheUpload' = TheUpload
    BY DEF UploadStep, TheUpload
  <2>5. n < uploadStepCount => uploadSequenceBuffer.steps[n].by = TheUpload
    BY DEF Undisturbed, Filled, By, UploadStep
  <2>6. [by |-> TheUpload, keys |-> keys].by = TheUpload
    OBVIOUS
  <2> HIDE DEF TheUpload
  <2> QED BY <2>1, <2>2, <2>3, <2>4, <2>5, <2>6
<1> QED BY <1>1, SameSettled, SameWhole DEF UploadStep, Undisturbed, recorder

LEMMA UploadEndWhole ==
  ASSUME IInv, Undisturbed, NEW id, UploadEnd(id) PROVE Undisturbed'
<1>1. ~recording
  BY DEF IInv, OneWriter, UploadEnd
<1>2. ~recording' /\ Recorded'
  BY <1>1 DEF UploadEnd, recorder, Recorded
<1>3. Settled'
  BY SameSettled DEF UploadEnd, Undisturbed
<1>4. CASE Complete(id)
  <2>1. /\ uploadSequenceBuffer \in Sequence
        /\ uploadStepCount \in Nat
        /\ uploadStepCount # 0 /\ uploadStepCount = uploadSequenceBuffer.length
    BY <1>4 DEF IInv, UploadOK, Complete
  <2>2. Whole(uploadSequenceBuffer)
    <3>1. TheUpload \in Author \ {Nobody}
      BY Authors, Somebody DEF IInv, UploadOK
    <3>2. By(uploadSequenceBuffer.steps, uploadSequenceBuffer.length, TheUpload)
      BY <2>1 DEF Undisturbed, Filled, UploadEnd
    <3>3. uploadSequenceBuffer.length > 0
      BY <2>1
    <3> QED BY <2>1, <3>1, <3>2, <3>3, AllBy
  <2>3. currentSequence' = uploadSequenceBuffer /\ uploadStepCount' = 0
    BY <1>4 DEF UploadEnd
  <2>4. Filled'
    BY DEF Filled, UploadEnd
  <2>5. Intact'
    BY <2>2, <2>3 DEF Intact, Whole
  <2> QED BY <1>2, <1>3, <2>4, <2>5 DEF Undisturbed
<1>5. CASE ~Complete(id)
  <2>1. UNCHANGED <<currentSequence, uploadStepCount, uploadSequenceBuffer>>
    BY <1>5 DEF UploadEnd
  <2>2. Filled'
    BY DEF Filled, UploadEnd
  <2>3. Intact'
    BY <2>1, <1>1 DEF Undisturbed, Intact, Whole
  <2> QED BY <1>2, <1>3, <2>2, <2>3 DEF Undisturbed
<1> QED BY <1>4, <1>5

LEMMA UploadingWhole ==
  ASSUME IInv, Undisturbed, Uploading, ~overlapped' PROVE Undisturbed'
  BY UploadBeginWhole, UploadRefusedWhole, UploadStepWhole, UploadEndWhole DEF Uploading

\* A settled chain neither grows nor shrinks, and everything else around the module
\* is an event.
LEMMA SurroundingsEvent ==
  ASSUME IInv, Settled, Surroundings PROVE events' # 0
<1>1. events \in Nat
  BY SequencerAssumption DEF IInv, BoundsOK
<1>2. /\ ~PowerOn /\ ~Promote /\ ~GrowChain /\ ~ShrinkChain
      /\ \A k \in OwnKey : ~HearPull(k) /\ ~HearRelease(k)
  <2>1. ~PowerOn /\ ~Promote /\ \A k \in OwnKey : ~HearPull(k) /\ ~HearRelease(k)
    BY DEF Settled, PowerOn, Promote, HearPull, HearRelease
  <2>2. ~GrowChain
    <3>1. linked <=> numModulesInChain = 2
      BY DEF Settled
    <3>2. GrowChain => linked /\ numModulesInChain = 1
      BY DEF GrowChain
    <3>3. ~(numModulesInChain = 1 /\ numModulesInChain = 2)
      OBVIOUS
    <3> QED BY <3>1, <3>2, <3>3
  <2>3. ~ShrinkChain
    BY DEF Settled, ShrinkChain
  <2> QED BY <2>1, <2>2, <2>3
<1>3. Event
  BY <1>2 DEF Surroundings, PowerOff, Demote, HearBroadcast, HearStop, MoveCable
<1> QED BY <1>1, <1>3 DEF Event

\* The count of events never falls back to 0.
LEMMA EventsStay == ASSUME IInv, [Next]_vars, events' = 0 PROVE events = 0
<1>1. events \in Nat
  BY SequencerAssumption DEF IInv, BoundsOK
<1>2. ASSUME Event PROVE FALSE
  BY <1>1, <1>2 DEF Event
<1>3. CASE Playback
  BY <1>3 DEF Playback, AbandonSequence, RepeatKey, TeachingStep, GuidedStep, bounds
<1>4. CASE Polling
  BY <1>4 DEF Polling, PollKey, NeighbourKey, bounds
<1>5. CASE Buttons
  BY <1>5 DEF Buttons, PressStart, StartCommand, StopCommand, StartRecording,
              StopRecording, MoveKey, bounds
<1>6. CASE Uploading
  BY <1>6 DEF Uploading, UploadBegin, UploadRefused, UploadStep, UploadEnd
<1>7. CASE Surroundings
  BY <1>2, <1>7 DEF Surroundings, PowerOff, PowerOn, Demote, Promote, HearBroadcast,
              HearStop, HearPull, HearRelease, MoveCable, GrowChain, ShrinkChain, bounds
<1>8. CASE Tick \/ UNCHANGED vars
  BY <1>8 DEF Tick, bounds, vars
<1> QED BY <1>3, <1>4, <1>5, <1>6, <1>7, <1>8 DEF Next

LEMMA OverlapStays == ASSUME [Next]_vars, overlapped PROVE overlapped'
<1>1. ASSUME UNCHANGED upload PROVE overlapped'
  BY <1>1 DEF upload
<1>2. CASE Playback
  BY <1>1, <1>2 DEF Playback, AbandonSequence, RepeatKey, TeachingStep, GuidedStep
<1>3. CASE Polling
  BY <1>1, <1>3 DEF Polling, PollKey, NeighbourKey
<1>4. CASE Buttons
  BY <1>1, <1>4 DEF Buttons, PressStart, StartCommand, StopCommand, StartRecording,
                    StopRecording, MoveKey
<1>5. CASE Uploading
  BY <1>5 DEF Uploading, UploadBegin, UploadRefused, UploadStep, UploadEnd
<1>6. CASE Surroundings
  BY <1>1, <1>6 DEF Surroundings, PowerOff, PowerOn, Demote, Promote, HearBroadcast,
                    HearStop, HearPull, HearRelease, MoveCable, GrowChain, ShrinkChain
<1>7. CASE Tick \/ UNCHANGED vars
  BY <1>1, <1>7 DEF Tick, vars
<1> QED BY <1>2, <1>3, <1>4, <1>5, <1>6, <1>7 DEF Next

LEMMA StutterWhole == ASSUME Undisturbed, UNCHANGED vars PROVE Undisturbed'
  BY SameSettled, SameFilled, SameWhole DEF Undisturbed, vars, recorder

LEMMA WholeStays == ASSUME IInv, WInv, [Next]_vars PROVE WInv'
<1> SUFFICES ASSUME events' = 0, ~overlapped' PROVE Undisturbed'
  BY DEF WInv
<1>1. Undisturbed
  BY EventsStay, OverlapStays DEF WInv
<1> QED BY <1>1, PlaybackWhole, PollingWhole, ButtonsWhole, UploadingWhole, TickWhole,
           StutterWhole, SurroundingsEvent DEF Next, Undisturbed

LEMMA WholeAtFirst == ASSUME Init PROVE WInv
<1>1. IInv
  BY InitOK
<1>2. Settled
  BY DEF Init, Settled
<1>3. Filled /\ Recorded
  BY DEF Init, Filled, Recorded, By, StepIndex
<1>4. Whole(currentSequence)
  <2>1. currentSequence = DefaultFor(numModulesInChain, NoSequence)
    BY DEF Init
  <2>2. currentSequence.length = DefaultLength /\ DefaultLength > 0
    BY <2>1, SequencerAssumption DEF DefaultFor
  <2>3. By(currentSequence.steps, DefaultLength, TheDefault)
    BY <2>1 DEF By, DefaultFor, DefaultStep
  <2>4. TheDefault \in Author \ {Nobody}
    BY Authors, Somebody
  <2> QED BY <1>1, <2>2, <2>3, <2>4, AllBy DEF IInv, StoreOK
<1> QED BY <1>2, <1>3, <1>4 DEF WInv, Undisturbed, Intact

LEMMA WholeStored == ASSUME IInv, WInv PROVE StoredWhole
<1> SUFFICES ASSUME Whole(currentSequence)
             PROVE  /\ currentSequence.length > 0
                    /\ currentSequence.steps[0].by # Nobody
                    /\ \A n \in 0 .. currentSequence.length - 1 :
                         currentSequence.steps[n].by = currentSequence.steps[0].by
  BY DEF WInv, Undisturbed, Intact, StoredWhole
<1>1. PICK who \in Author \ {Nobody} :
        \A n \in 0 .. currentSequence.length - 1 : currentSequence.steps[n].by = who
  BY DEF Whole
<1>2. currentSequence.length > 0 /\ currentSequence.length \in Nat
  BY DEF Whole, IInv, StoreOK, Sequence
<1>3. 0 \in 0 .. currentSequence.length - 1
  BY <1>2
<1> QED BY <1>1, <1>2, <1>3

\* Until a power press, a role change, a moved cable or a U line during an upload, the
\* module always holds a sequence that one author provided completely: one upload, not
\* a mixture of two (handleSequenceCommand()).
THEOREM StoredWholeUndisturbed == Spec => []StoredWhole
<1>1. Init => IInv /\ WInv
  BY InitOK, WholeAtFirst
<1>2. IInv /\ WInv /\ [Next]_vars => IInv' /\ WInv'
  BY NextOK, WholeStays
<1>3. IInv /\ WInv => StoredWhole
  BY WholeStored
<1> QED BY <1>1, <1>2, <1>3, PTL DEF Spec

-----------------------------------------------------------------------------
(***************************************************************************)
(* GuidedHeld.  While the module stays a master and its cable where it is, *)
(* the keys the master takes for pressed are those whose modules noticed   *)
(* them.  A guided sequence pulls none, so at every tick a finger is on    *)
(* each of them: since the press was noticed or, if a servo of an earlier  *)
(* demonstration had pulled the key, at least since the step began.        *)
(***************************************************************************)
InTouch ==
  /\ isMaster
  /\ globalKeyIsPressed \subseteq isPressed
  /\ ~linked => globalKeyIsPressed \subseteq OwnKey

ByHand(k) == heldTicks[k] >= keyAge[k] \/ heldTicks[k] >= stepAge

Fingers ==
  /\ sequenceRunning => on
  /\ ~sequenceRunning => pulled = {}
  /\ Playing("GUIDED") => pulled = {} /\ \A k \in globalKeyIsPressed : ByHand(k)

Stays == ~Demote /\ ~MoveCable

LEMMA SameTouch ==
  ASSUME InTouch, isMaster', UNCHANGED <<linked, isPressed, globalKeyIsPressed>>
  PROVE  InTouch'
  BY DEF InTouch

LEMMA SameFingers ==
  ASSUME Fingers, UNCHANGED <<on, isMaster, player, heldTicks, keyAge, globalKeyIsPressed>>
  PROVE  Fingers'
  BY DEF Fingers, Playing, Awake, ByHand, player

\* A press that is noticed starts the key's clock; a release takes the key away.
LEMMA NotedTouch ==
  ASSUME KeysOK, InTouch, Fingers, NEW k \in Key, k \in OwnKey \/ linked,
         Note(k, Down(k)), Noticed(k), UNCHANGED <<on, isMaster, linked, player, heldTicks>>
  PROVE  InTouch' /\ Fingers'
<1>1. globalKeyIsPressed' = IF Down(k) THEN globalKeyIsPressed \cup {k}
                                       ELSE globalKeyIsPressed \ {k}
  BY DEF Note
<1>2. isPressed' = IF Down(k) THEN isPressed \cup {k} ELSE isPressed \ {k}
  BY DEF Noticed
<1>3. InTouch'
  BY <1>1, <1>2 DEF InTouch
<1>4. ASSUME NEW g \in globalKeyIsPressed', \A h \in globalKeyIsPressed : ByHand(h)
      PROVE  ByHand(g)'
  <2>1. g \in Key /\ heldTicks[g] \in 0 .. Duration /\ Duration \in Nat
    BY <1>1, SequencerAssumption DEF KeysOK
  <2>2. CASE Down(k) /\ g = k
    <3>1. keyAge'[g] = 0
      BY <2>2 DEF Note, KeysOK
    <3> QED BY <2>1, <3>1 DEF ByHand
  <2>3. CASE ~(Down(k) /\ g = k)
    <3>1. (g \in globalKeyIsPressed /\ g # k) \/ ~Down(k)
      BY <1>1, <2>3
    <3>2. keyAge'[g] = keyAge[g] /\ g \in globalKeyIsPressed
      BY <1>1, <2>1, <2>3, <3>1 DEF Note, KeysOK
    <3> QED BY <1>4, <3>2 DEF ByHand, player
  <2> QED BY <2>2, <2>3
<1>5. (sequenceRunning => on)' /\ (~sequenceRunning => pulled = {})' /\ (pulled' = pulled) /\ (Playing("GUIDED")' = Playing("GUIDED"))
  BY DEF Fingers, Playing, Awake, player
<1> QED BY <1>3, <1>4, <1>5 DEF Fingers

LEMMA PollingTouch ==
  ASSUME IInv, InTouch, Fingers, Polling PROVE InTouch' /\ Fingers'
<1>1. ASSUME NEW k \in OwnKey, PollKey(k) PROVE InTouch' /\ Fingers'
  <2>1. Global(k) = k /\ k \in Key
    BY Keys DEF Global, InTouch
  <2>2. Note(k, Down(k)) /\ Noticed(k) /\ UNCHANGED <<on, isMaster, linked, player, heldTicks>>
    BY <1>1, <2>1 DEF PollKey, power, chain
  <2> QED BY <2>1, <2>2, NotedTouch DEF IInv
<1>2. ASSUME NEW k \in RemoteKey, NeighbourKey(k) PROVE InTouch' /\ Fingers'
  <2>1. k \in Key /\ UNCHANGED <<on, isMaster, linked, player, heldTicks>> /\ Noticed(k)
    BY <1>2, Keys DEF NeighbourKey, power, chain
  <2>2. CASE linked
    <3>1. Note(k, Down(k))
      BY <1>2, <2>2 DEF NeighbourKey, InTouch
    <3> QED BY <2>1, <2>2, <3>1, NotedTouch DEF IInv
  <2>3. CASE ~linked
    <3>1. UNCHANGED <<globalKeyIsPressed, keyAge>> /\ k \notin OwnKey
      BY <1>2, <2>3 DEF NeighbourKey, RemoteKey
    <3>2. InTouch'
      BY <2>1, <2>3, <3>1 DEF InTouch, Noticed
    <3> QED BY <2>1, <3>1, <3>2, SameFingers
  <2> QED BY <2>2, <2>3
<1> QED BY <1>1, <1>2 DEF Polling

\* No tick passes with a key unnoticed, so in a guided sequence there is a finger on each
\* key that is taken for pressed.
LEMMA TickTouch == ASSUME IInv, InTouch, Fingers, Tick PROVE InTouch' /\ Fingers'
<1>1. /\ UNCHANGED <<on, isMaster, linked, sequenceRunning, currentSequenceMode, pulled,
                     button, isPressed, globalKeyIsPressed>>
  BY DEF Tick, power, chain
<1>2. InTouch'
  BY <1>1, SameTouch DEF InTouch
<1>3. ASSUME Playing("GUIDED"), NEW k \in globalKeyIsPressed PROVE ByHand(k)'
  <2>1. pulled = {} /\ ByHand(k) /\ on
    BY <1>3 DEF Fingers, Playing, Awake
  <2>2. k \in Key /\ k \in isPressed
    BY DEF InTouch, IInv, KeysOK
  <2>3. ~Edge(k)
    <3>1. k \in OwnKey \/ k \in RemoteKey
      BY <2>2 DEF RemoteKey
    <3> QED BY <2>1, <3>1 DEF Tick, NeighbourListened
  <2>4. k \in button
    BY <2>1, <2>2, <2>3 DEF Edge, Down
  <2>5. /\ heldTicks'[k] = Older(heldTicks[k], Duration)
        /\ keyAge'[k] = Older(keyAge[k], Duration)
        /\ stepAge' = Older(stepAge, Duration)
    BY <1>3, <2>2, <2>4 DEF Tick, Playing
  <2>6. /\ heldTicks[k] \in 0 .. Duration /\ keyAge[k] \in 0 .. Duration
        /\ stepAge \in 0 .. Duration /\ Duration \in Nat
    BY <2>2, SequencerAssumption DEF IInv, KeysOK, PlayerOK
  <2> QED BY <2>1, <2>5, <2>6 DEF ByHand, Older
<1>4. Playing("GUIDED")' = Playing("GUIDED")
  BY <1>1 DEF Playing, Awake
<1> QED BY <1>1, <1>2, <1>3, <1>4 DEF Fingers

\* A step that begins has no time behind it; the player pulls keys only to teach.
LEMMA StartTouch ==
  ASSUME IInv, Fingers, Awake, NEW mode \in Mode, Start(mode),
         UNCHANGED <<on, isMaster, heldTicks, globalKeyIsPressed>>
  PROVE  Fingers'
<1>1. pulled = {} /\ pulled' = pulled \cup Pulls(0, mode) /\ stepAge' = 0
      /\ currentSequenceMode' = mode /\ sequenceRunning'
  BY DEF Fingers, Start
<1>2. mode = "GUIDED" => pulled' = {}
  BY <1>1 DEF Pulls
<1>3. ASSUME NEW k \in globalKeyIsPressed PROVE ByHand(k)'
  <2>1. heldTicks[k] \in 0 .. Duration /\ Duration \in Nat
    BY SequencerAssumption DEF IInv, KeysOK
  <2> QED BY <1>1, <2>1 DEF ByHand
<1> QED BY <1>1, <1>2, <1>3 DEF Fingers, Playing, Awake

LEMMA HaltTouch ==
  ASSUME Fingers, Halt PROVE Fingers'
  BY DEF Halt, Fingers, Playing

LEMMA PlaybackTouch ==
  ASSUME IInv, Fingers, Playback PROVE Fingers'
<1>1. UNCHANGED <<on, isMaster, heldTicks, keyAge, globalKeyIsPressed>>
  BY DEF Playback, AbandonSequence, RepeatKey, TeachingStep, GuidedStep, power, keyboard
<1>2. CASE AbandonSequence
  BY <1>2, HaltTouch DEF AbandonSequence
<1>3. CASE RepeatKey \/ TeachingStep
  <2>1. /\ sequenceRunning
        /\ sequenceRunning' => currentSequenceMode' = "TEACHING"
        /\ ~sequenceRunning' => pulled' = {}
    BY <1>3 DEF RepeatKey, TeachingStep, EndSequence, Playing
  <2> QED BY <1>1, <2>1 DEF Fingers, Playing
<1>4. CASE GuidedStep
  <2>1. CASE EndSequence
    BY <2>1 DEF EndSequence, Fingers, Playing
  <2>2. CASE NextStep
    <3>1. /\ pulled = {} /\ pulled' = {} /\ stepAge' = 0
          /\ sequenceRunning' = sequenceRunning
      BY <1>4, <2>2 DEF NextStep, GuidedStep, Fingers
    <3>2. ASSUME NEW k \in globalKeyIsPressed PROVE ByHand(k)'
      <4>1. heldTicks[k] \in 0 .. Duration /\ Duration \in Nat
        BY SequencerAssumption DEF IInv, KeysOK
      <4> QED BY <1>1, <3>1, <4>1 DEF ByHand
    <3> QED BY <1>1, <3>1, <3>2 DEF Fingers
  <2> QED BY <1>4, <2>1, <2>2 DEF GuidedStep
<1> QED BY <1>2, <1>3, <1>4 DEF Playback

LEMMA ButtonsTouch ==
  ASSUME IInv, InTouch, Fingers, Buttons PROVE InTouch' /\ Fingers'
<1>1. UNCHANGED <<on, isMaster, linked, heldTicks, keyAge, isPressed, globalKeyIsPressed>>
  BY DEF Buttons, PressStart, StartCommand, StopCommand, StartRecording, StopRecording,
         MoveKey, power, chain, keyboard
<1>2. InTouch'
  BY <1>1, SameTouch DEF InTouch
<1>3. ASSUME NEW mode \in Mode, PressStart(mode) \/ StartCommand(mode) PROVE Fingers'
  BY <1>1, <1>3, StartTouch DEF PressStart, StartCommand
<1>4. CASE StopCommand
  BY <1>2, <1>4, HaltTouch DEF StopCommand
<1>5. CASE StartRecording \/ StopRecording \/ \E k \in Key : MoveKey(k)
  BY <1>1, <1>2, <1>5, SameFingers DEF StartRecording, StopRecording, MoveKey
<1> QED BY <1>2, <1>3, <1>4, <1>5 DEF Buttons

LEMMA UploadingTouch ==
  ASSUME InTouch, Fingers, Uploading PROVE InTouch' /\ Fingers'
<1>1. /\ UNCHANGED <<on, isMaster, linked, player, heldTicks, keyAge, isPressed,
                     globalKeyIsPressed>>
  BY DEF Uploading, UploadBegin, UploadRefused, UploadStep, UploadEnd, power, chain, keyboard
<1> QED BY <1>1, SameTouch, SameFingers DEF InTouch

LEMMA SurroundingsTouch ==
  ASSUME InTouch, Fingers, Surroundings, Stays PROVE InTouch' /\ Fingers'
<1>1. /\ UNCHANGED <<isMaster, linked, heldTicks, keyAge, isPressed, globalKeyIsPressed>>
  BY DEF Surroundings, Stays, InTouch, PowerOff, PowerOn, Promote, HearBroadcast, HearStop,
         HearPull, HearRelease, GrowChain, ShrinkChain, chain, power, keyboard
<1>2. InTouch'
  BY <1>1, SameTouch DEF InTouch
<1>3. CASE PowerOff
  BY <1>2, <1>3, HaltTouch DEF PowerOff, Interrupt
<1>4. CASE PowerOn
  <2>1. ~sequenceRunning' /\ pulled' = {}
    BY <1>4 DEF PowerOn, player, Fingers
  <2> QED BY <2>1, <1>2 DEF Fingers, Playing
<1>5. CASE HearBroadcast
  BY <1>2, <1>5 DEF HearBroadcast, Fingers, Playing, power
<1>6. CASE HearStop
  <2>1. pulled' = {} /\ (sequenceRunning' => sequenceRunning)
        /\ UNCHANGED <<on, isMaster, currentSequenceMode, stepAge>>
    BY <1>6 DEF HearStop, power
  <2> QED BY <1>1, <1>2, <2>1 DEF Fingers, Playing, Awake, ByHand
<1>7. CASE GrowChain
  BY <1>1, <1>2, <1>7, SameFingers DEF GrowChain, power
<1>8. CASE ShrinkChain
  BY <1>1, <1>2, <1>8, SameFingers, HaltTouch DEF ShrinkChain, power
<1>9. ~Promote /\ \A k \in OwnKey : ~HearPull(k) /\ ~HearRelease(k)
  BY DEF InTouch, Promote, HearPull, HearRelease
<1> QED BY <1>2, <1>3, <1>4, <1>5, <1>6, <1>7, <1>8, <1>9 DEF Surroundings, Stays

LEMMA TouchStays ==
  ASSUME IInv, InTouch, Fingers, [Next]_vars, [Stays]_vars PROVE InTouch' /\ Fingers'
<1>1. CASE UNCHANGED vars
  BY <1>1, SameTouch, SameFingers DEF vars, power, chain, keyboard, InTouch
<1>2. CASE Playback
  <2>1. UNCHANGED <<isMaster, linked, isPressed, globalKeyIsPressed>>
    BY <1>2 DEF Playback, AbandonSequence, RepeatKey, TeachingStep, GuidedStep, power, chain,
                keyboard
  <2> QED BY <1>2, <2>1, PlaybackTouch, SameTouch DEF InTouch
<1> QED BY <1>1, <1>2, PollingTouch, ButtonsTouch, UploadingTouch, SurroundingsTouch, TickTouch
           DEF Next

LEMMA TouchAtFirst == ASSUME Init PROVE InTouch /\ Fingers
  BY DEF Init, InTouch, Fingers, Playing

LEMMA HeldByHand ==
  ASSUME IInv, Fingers, GuidedStep
  PROVE  \A k \in CurrentStep.keys : heldTicks[k] >= Duration
<1> SUFFICES ASSUME NEW k \in CurrentStep.keys PROVE heldTicks[k] >= Duration
  OBVIOUS
<1>1. k \in globalKeyIsPressed /\ stepAge >= Duration /\ keyAge[k] >= Duration
  BY DEF GuidedStep, Held
<1>2. ByHand(k)
  BY <1>1 DEF GuidedStep, Fingers
<1>3. /\ heldTicks[k] \in 0 .. Duration /\ keyAge[k] \in 0 .. Duration
      /\ stepAge \in 0 .. Duration /\ Duration \in Nat
  BY <1>1, SequencerAssumption DEF IInv, KeysOK, PlayerOK
<1> QED BY <1>1, <1>2, <1>3 DEF ByHand

\* As long as the module is not demoted and no cable moved, whatever is recorded, uploaded,
\* taught or switched off in between, handleGuidedModePlayback() advances only past keys
\* that the user has held down for the step's duration.
THEOREM GuidedStepsHeld ==
  Spec /\ [][Stays]_vars
    => [][GuidedStep => \A k \in CurrentStep.keys : heldTicks[k] >= Duration]_vars
<1>1. Init => IInv /\ InTouch /\ Fingers
  BY InitOK, TouchAtFirst
<1>2. IInv /\ InTouch /\ Fingers /\ [Next]_vars /\ [Stays]_vars => (IInv /\ InTouch /\ Fingers)'
  BY NextOK, TouchStays
<1>3. IInv /\ Fingers /\ [Next]_vars
      => [GuidedStep => \A k \in CurrentStep.keys : heldTicks[k] >= Duration]_vars
  BY HeldByHand
<1> QED BY <1>1, <1>2, <1>3, PTL DEF Spec

TInv == events = 0 => InTouch /\ Fingers

LEMMA TInvStays == ASSUME IInv, TInv, [Next]_vars PROVE TInv'
<1> SUFFICES ASSUME events' = 0 PROVE (InTouch /\ Fingers)'
  BY DEF TInv
<1>1. events = 0
  BY EventsStay
<1>2. ~Event
  BY <1>1 DEF Event
<1>3. [Stays]_vars
  BY <1>2 DEF Stays, Demote, MoveCable
<1> QED BY <1>1, <1>3, TouchStays DEF TInv

\* In particular, with nothing asked of the behaviour, up to the first power press, role
\* change or cable move (handleGuidedModePlayback()).
COROLLARY GuidedStepsHeldAtFirst == Spec => GuidedHeld
<1>1. Init => IInv /\ TInv
  BY InitOK, TouchAtFirst DEF TInv
<1>2. IInv /\ TInv /\ [Next]_vars => (IInv /\ TInv)'
  BY NextOK, TInvStays
<1>3. IInv /\ TInv /\ [Next]_vars
      => [GuidedStep /\ events = 0 => \A k \in CurrentStep.keys : heldTicks[k] >= Duration]_vars
  BY HeldByHand DEF TInv
<1> QED BY <1>1, <1>2, <1>3, PTL DEF Spec, GuidedHeld

=============================================================================
