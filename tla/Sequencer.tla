----------------------------- MODULE Sequencer ------------------------------
(***************************************************************************)
(* What one module does with its sequence: play it, record one, receive an *)
(* upload.  Three subsystems write currentSequence; power presses, role    *)
(* changes and a changing chain interrupt them.                            *)
(*                                                                         *)
(* The module is the head of its chain while it is a master; with NUM_KEYS *)
(* keys per module, key k lies on module k \div NUM_KEYS.  The keys behind *)
(* it are a neighbour's, whose presses arrive as "K" and "k" lines.        *)
(***************************************************************************)
EXTENDS Integers, Sequences, FiniteSets

CONSTANTS
  NUM_KEYS,             \* keys of one module
  MAX_SEQUENCE_LENGTH,
  MAX_KEYS_PER_STEP,
  DefaultLength,        \* steps of the default sequences
  Duration,             \* ticks a step lasts
  UploadHeaders,        \* fields of U lines: id (-1 for none), length, all valid or not
  UploadIds,            \* ids in E lines, -1 for none
  UploadKeys,           \* keys of an uploaded step
  MaxPresses,           \* bound: presses and releases by the user
  MaxCommands,          \* bound: sequences started
  MaxRecordings,        \* bound: recordings started
  MaxLines,             \* bound: upload lines received
  MaxEvents,            \* bound: power presses, role changes, cable moves
  MaxInputs             \* bound: all of these together

ASSUME SequencerAssumption ==
  /\ NUM_KEYS \in Nat \ {0}
  /\ MAX_SEQUENCE_LENGTH \in Nat \ {0}
  /\ MAX_KEYS_PER_STEP \in Nat \ {0}
  /\ DefaultLength \in 1 .. MAX_SEQUENCE_LENGTH
  /\ Duration \in Nat \ {0}
  /\ UploadHeaders \subseteq [id : Nat \cup {-1}, length : 0 .. MAX_SEQUENCE_LENGTH,
                              valid : BOOLEAN]
  /\ UploadIds \subseteq Nat \cup {-1}
  /\ \A keys \in UploadKeys : keys \subseteq 0 .. 2 * NUM_KEYS - 1
  /\ MaxPresses \in Nat
  /\ MaxCommands \in Nat
  /\ MaxRecordings \in Nat
  /\ MaxLines \in Nat
  /\ MaxEvents \in Nat
  /\ MaxInputs \in Nat

\* A chain of up to two modules: keys 0 .. NUM_KEYS-1 and those of the neighbour.
MAX_MODULES == 2
OwnKey      == 0 .. NUM_KEYS - 1
Key         == 0 .. NUM_KEYS * MAX_MODULES - 1
RemoteKey   == Key \ OwnKey

VARIABLES
  on,
  isMaster,
  linked,                    \* a cable joins the neighbour downstream
  numModulesInChain,
  sequenceRunning,
  currentSequenceMode,
  currentSequenceStepIndex,
  stepAge,                   \* ticks since currentStepStartTime
  waitingForServoRelease,
  servoAge,                  \* ticks since servoReleaseStartTime
  pulled,                    \* own keys held down by servo
  currentSequence,
  recording,
  recStepCount,
  recChordKeys,
  chordAge,                  \* ticks since recChordStartTime
  uploadingSequence,
  uploadStepCount,
  uploadSequenceBuffer,
  attempts,                  \* U lines that arrived, for the properties
  overlapped,                \* one of them during an upload, for the properties
  button,                    \* keys the user holds down
  heldTicks,                 \* ticks through which each key was held down
  isPressed,                 \* per key: the last edge its module noticed
  globalKeyIsPressed,
  keyAge,                    \* ticks since globalKeyPressTime
  presses, commands, recordings, lines, events

power    == <<on, isMaster>>
chain    == <<linked, numModulesInChain>>
player   == <<sequenceRunning, currentSequenceMode, currentSequenceStepIndex,
              stepAge, waitingForServoRelease, servoAge, pulled>>
recorder == <<recording, recStepCount, recChordKeys, chordAge>>
upload   == <<uploadingSequence, uploadStepCount, uploadSequenceBuffer,
              attempts, overlapped>>
keyboard == <<button, heldTicks, isPressed, globalKeyIsPressed, keyAge>>
bounds   == <<presses, commands, recordings, lines, events>>
vars     == <<power, chain, player, currentSequence, recorder, upload, keyboard, bounds>>

Mode == {"GUIDED", "TEACHING", "BROADCAST"}

\* Steps and sequences.  A step remembers who wrote it, for the properties: two
\* uploads are two authors.
StepIndex   == 0 .. MAX_SEQUENCE_LENGTH - 1
Author      == {"default", "recording", "upload", "nobody"} \X Nat
Nobody      == <<"nobody", 0>>
TheDefault  == <<"default", 0>>
TheRecorder == <<"recording", 0>>
TheUpload   == <<"upload", attempts>>
Step        == [by : Author, keys : SUBSET Key]
Blank       == [by |-> Nobody, keys |-> {}]
Sequence    == [id : Nat \cup {-1}, length : 0 .. MAX_SEQUENCE_LENGTH,
                steps : [StepIndex -> Step]]

TypeOK ==
  /\ on \in BOOLEAN /\ isMaster \in BOOLEAN /\ linked \in BOOLEAN
  /\ numModulesInChain \in 1 .. MAX_MODULES
  /\ sequenceRunning \in BOOLEAN
  /\ currentSequenceMode \in Mode
  /\ currentSequenceStepIndex \in Nat
  /\ stepAge \in 0 .. Duration
  /\ waitingForServoRelease \in BOOLEAN
  /\ servoAge \in 0 .. 1
  /\ pulled \subseteq OwnKey
  /\ currentSequence \in Sequence
  /\ recording \in BOOLEAN
  /\ recStepCount \in Nat
  /\ recChordKeys \in Seq(Key)
  /\ chordAge \in 0 .. 1
  /\ uploadingSequence \in BOOLEAN
  /\ uploadStepCount \in Nat
  /\ uploadSequenceBuffer \in Sequence
  /\ attempts \in Nat /\ overlapped \in BOOLEAN
  /\ button \subseteq Key
  /\ heldTicks \in [Key -> 0 .. Duration]
  /\ isPressed \subseteq Key
  /\ globalKeyIsPressed \subseteq Key
  /\ keyAge \in [Key -> 0 .. Duration]
  /\ presses \in 0 .. MaxPresses
  /\ commands \in 0 .. MaxCommands
  /\ recordings \in 0 .. MaxRecordings
  /\ lines \in 0 .. MaxLines
  /\ events \in 0 .. MaxEvents

-----------------------------------------------------------------------------
(* The stored sequence *)

\* The default sequence for one module, or for two or more, whose steps share keys
\* with the next one here and there; memcpy() leaves the steps behind it alone.
DefaultStep(count, n) ==
  [by |-> TheDefault,
   keys |-> IF count >= 2 THEN <<{0, NUM_KEYS}, {NUM_KEYS}, {0}>>[(n % 3) + 1] ELSE {0}]
DefaultFor(count, seq) ==
  [id |-> 0, length |-> DefaultLength,
   steps |-> [n \in StepIndex |-> IF n < DefaultLength THEN DefaultStep(count, n)
                                                       ELSE seq.steps[n]]]

\* updateDefaultSequenceForChainSize(), for the count and the running flag that
\* its caller leaves.
Refreshed(seq, count, running) ==
  IF seq.id # 0 \/ running THEN seq ELSE DefaultFor(count, seq)

Members(s) == {s[n] : n \in DOMAIN s}

MemoryFull_OffByOne == recStepCount > MAX_SEQUENCE_LENGTH
MemoryFull == recStepCount >= MAX_SEQUENCE_LENGTH

\* The recorder's state when the chord in progress has been committed.
CanCommit == recChordKeys # << >> /\ ~MemoryFull
CommittedSteps ==
  IF CanCommit
  THEN [currentSequence.steps EXCEPT ![recStepCount] =
          [by |-> TheRecorder, keys |-> Members(recChordKeys)]]
  ELSE currentSequence.steps
CommittedCount == IF CanCommit THEN recStepCount + 1 ELSE recStepCount
CommittedChord == IF CanCommit THEN << >> ELSE recChordKeys

\* commitRecordedStep(), whatever the chord is afterwards.
Commit ==
  /\ currentSequence' = [currentSequence EXCEPT !.steps = CommittedSteps]
  /\ recStepCount' = CommittedCount

\* What stopRecording() makes of the sequence: any recorded step replaces it.
Captured ==
  IF CommittedCount > 0
  THEN [id |-> 0, length |-> CommittedCount, steps |-> CommittedSteps]
  ELSE currentSequence

FinishRecording ==
  /\ recording' = FALSE
  /\ recStepCount' = CommittedCount
  /\ recChordKeys' = CommittedChord
  /\ UNCHANGED chordAge

-----------------------------------------------------------------------------
(* The player *)

CurrentStep == currentSequence.steps[currentSequenceStepIndex]

\* Servos that executeCurrentSequenceStep() engages for step n.
Pulls(n, mode) ==
  IF mode = "TEACHING" THEN currentSequence.steps[n].keys \cap OwnKey ELSE {}

Halt_ServosLeft ==
  /\ sequenceRunning' = FALSE
  /\ waitingForServoRelease' = (waitingForServoRelease /\ ~sequenceRunning)
  /\ UNCHANGED <<currentSequenceMode, currentSequenceStepIndex, stepAge, servoAge, pulled>>

\* stopSequence(), without the lines it sends.
Halt ==
  /\ sequenceRunning' = FALSE
  /\ IF sequenceRunning
       THEN waitingForServoRelease' = FALSE /\ pulled' = {}
       ELSE UNCHANGED <<waitingForServoRelease, pulled>>
  /\ UNCHANGED <<currentSequenceMode, currentSequenceStepIndex, stepAge, servoAge>>

\* startSequence()
Start(mode) ==
  /\ ~sequenceRunning
  /\ mode = "BROADCAST" \/ currentSequence.length > 0
  /\ sequenceRunning' = TRUE
  /\ currentSequenceMode' = mode
  /\ currentSequenceStepIndex' = 0
  /\ stepAge' = 0
  /\ pulled' = pulled \cup Pulls(0, mode)
  /\ UNCHANGED <<waitingForServoRelease, servoAge>>

Awake == on /\ isMaster
Room  == presses + commands + recordings + lines + events < MaxInputs

\* The guided and teaching buttons, dead while something plays or records.
PressStart(mode) ==
  /\ Awake
  /\ ~recording
  /\ mode # "BROADCAST"
  /\ commands < MaxCommands /\ Room
  /\ Start(mode)
  /\ commands' = commands + 1
  /\ UNCHANGED <<power, chain, currentSequence, recorder, upload, keyboard,
                 presses, recordings, lines, events>>

\* The commands g, t and b.
StartCommand(mode) ==
  /\ Awake
  /\ commands < MaxCommands /\ Room
  /\ Start(mode)
  /\ commands' = commands + 1
  /\ UNCHANGED <<power, chain, currentSequence, recorder, upload, keyboard,
                 presses, recordings, lines, events>>

\* The command x.
StopCommand ==
  /\ Awake
  /\ sequenceRunning
  /\ Halt
  /\ UNCHANGED <<power, chain, currentSequence, recorder, upload, keyboard, bounds>>

Playing(mode) == Awake /\ sequenceRunning /\ currentSequenceMode = mode
StepValid == currentSequenceStepIndex < currentSequence.length

\* The defensive check of handleSequencePlayback().
AbandonSequence ==
  /\ Playing("GUIDED") \/ Playing("TEACHING")
  /\ ~StepValid
  /\ Halt
  /\ UNCHANGED <<power, chain, currentSequence, recorder, upload, keyboard, bounds>>

RepeatKey_StillWaiting ==
  /\ Playing("TEACHING")
  /\ StepValid
  /\ waitingForServoRelease
  /\ servoAge = 1
  /\ stepAge' = 0
  /\ pulled' = pulled \cup Pulls(currentSequenceStepIndex, "TEACHING")
  /\ UNCHANGED <<sequenceRunning, currentSequenceMode, currentSequenceStepIndex, servoAge,
                 waitingForServoRelease>>
  /\ UNCHANGED <<power, chain, currentSequence, recorder, upload, keyboard, bounds>>

\* handleTeachingModePlayback(), while a servo lets go before the same key again.
RepeatKey ==
  /\ Playing("TEACHING")
  /\ StepValid
  /\ waitingForServoRelease
  /\ servoAge = 1
  /\ waitingForServoRelease' = FALSE
  /\ stepAge' = 0
  /\ pulled' = pulled \cup Pulls(currentSequenceStepIndex, "TEACHING")
  /\ UNCHANGED <<sequenceRunning, currentSequenceMode, currentSequenceStepIndex, servoAge>>
  /\ UNCHANGED <<power, chain, currentSequence, recorder, upload, keyboard, bounds>>

\* Both modes end a sequence after its last step.
EndSequence ==
  /\ sequenceRunning' = FALSE
  /\ waitingForServoRelease' = FALSE
  /\ pulled' = {}
  /\ currentSequenceStepIndex' = currentSequenceStepIndex + 1
  /\ UNCHANGED <<currentSequenceMode, stepAge, servoAge>>

LastStep == currentSequenceStepIndex + 1 >= currentSequence.length

\* handleTeachingModePlayback(), when a step's time is over.
TeachingStep ==
  /\ Playing("TEACHING")
  /\ StepValid
  /\ ~waitingForServoRelease
  /\ stepAge >= Duration
  /\ IF LastStep THEN EndSequence
     ELSE LET next == currentSequenceStepIndex + 1
              released == pulled \ CurrentStep.keys
              repeats == CurrentStep.keys \cap currentSequence.steps[next].keys # {}
          IN /\ currentSequenceStepIndex' = next
             /\ IF repeats
                  THEN /\ waitingForServoRelease' = TRUE
                       /\ servoAge' = 0
                       /\ pulled' = released
                       /\ UNCHANGED stepAge
                  ELSE /\ stepAge' = 0
                       /\ pulled' = released \cup Pulls(next, "TEACHING")
                       /\ UNCHANGED <<waitingForServoRelease, servoAge>>
             /\ UNCHANGED <<sequenceRunning, currentSequenceMode>>
  /\ UNCHANGED <<power, chain, currentSequence, recorder, upload, keyboard, bounds>>

Held_NotTimed == /\ CurrentStep.keys \subseteq globalKeyIsPressed
                 /\ stepAge >= Duration

\* All keys of the step are down, and have been for the step's duration since the
\* later of their presses and the step's start.
Held == /\ CurrentStep.keys \subseteq globalKeyIsPressed
        /\ stepAge >= Duration
        /\ \A k \in CurrentStep.keys : keyAge[k] >= Duration

NextStep ==
  /\ currentSequenceStepIndex' = currentSequenceStepIndex + 1
  /\ stepAge' = 0
  /\ pulled' = pulled \ CurrentStep.keys
  /\ UNCHANGED <<sequenceRunning, currentSequenceMode, waitingForServoRelease, servoAge>>

GuidedStep_PastTheEnd ==
  /\ Playing("GUIDED")
  /\ StepValid
  /\ Held
  /\ IF currentSequenceStepIndex >= currentSequence.length THEN EndSequence ELSE NextStep
  /\ UNCHANGED <<power, chain, currentSequence, recorder, upload, keyboard, bounds>>

\* handleGuidedModePlayback()
GuidedStep ==
  /\ Playing("GUIDED")
  /\ StepValid
  /\ Held
  /\ IF LastStep THEN EndSequence ELSE NextStep
  /\ UNCHANGED <<power, chain, currentSequence, recorder, upload, keyboard, bounds>>

-----------------------------------------------------------------------------
(* The recorder *)

\* The record button, dead while something plays or is being uploaded.
StartRecording ==
  /\ Awake
  /\ ~sequenceRunning /\ ~uploadingSequence
  /\ ~recording
  /\ recordings < MaxRecordings /\ Room
  /\ recording' = TRUE
  /\ recStepCount' = 0
  /\ recChordKeys' = << >>
  /\ recordings' = recordings + 1
  /\ UNCHANGED <<power, chain, player, currentSequence, chordAge, upload, keyboard,
                 presses, commands, lines, events>>

StopRecording ==
  /\ Awake
  /\ ~sequenceRunning /\ ~uploadingSequence
  /\ recording
  /\ FinishRecording
  /\ currentSequence' = Captured
  /\ UNCHANGED <<power, chain, player, upload, keyboard, bounds>>

\* recordKeyPress(): the memory is full, a chord starts, grows, or gives way to
\* the next one.
RecordPress(k) ==
  \/ /\ MemoryFull
     /\ FinishRecording
     /\ currentSequence' = Captured
  \/ /\ ~MemoryFull
     /\ recChordKeys = << >>
     /\ recChordKeys' = <<k>>
     /\ chordAge' = 0
     /\ UNCHANGED <<currentSequence, recording, recStepCount>>
  \/ /\ ~MemoryFull
     /\ Len(recChordKeys) \in 1 .. MAX_KEYS_PER_STEP - 1
     /\ chordAge = 0
     /\ recChordKeys' = Append(recChordKeys, k)
     /\ UNCHANGED <<currentSequence, recording, recStepCount, chordAge>>
  \/ /\ ~MemoryFull
     /\ recChordKeys # << >>
     /\ chordAge = 1 \/ Len(recChordKeys) >= MAX_KEYS_PER_STEP
     /\ IF recStepCount + 1 >= MAX_SEQUENCE_LENGTH
          THEN /\ FinishRecording
               /\ currentSequence' = Captured
          ELSE /\ Commit
               /\ recChordKeys' = <<k>>
               /\ chordAge' = 0
               /\ UNCHANGED recording

\* recordKeyRelease(): the first release of a key of the chord commits it.
RecordRelease(k) ==
  IF k \in Members(recChordKeys)
  THEN /\ Commit
       /\ recChordKeys' = CommittedChord
       /\ UNCHANGED <<recording, chordAge>>
  ELSE UNCHANGED <<currentSequence, recorder>>

\* An edge of key k that the master hears of.
Record(k, down) ==
  IF isMaster /\ recording
  THEN IF down THEN RecordPress(k) ELSE RecordRelease(k)
  ELSE UNCHANGED <<currentSequence, recorder>>

-----------------------------------------------------------------------------
(* Keys *)

\* The key index a module gives to its own key k: the neighbour's place if it is
\* a slave behind one master.
Global(k) == IF isMaster THEN k ELSE k + NUM_KEYS

\* What an edge of key g does to the master's arrays.
Note(g, down) ==
  /\ globalKeyIsPressed' = IF down THEN globalKeyIsPressed \cup {g}
                                   ELSE globalKeyIsPressed \ {g}
  /\ keyAge' = IF down THEN [keyAge EXCEPT ![g] = 0] ELSE keyAge

\* Key k is down, by a finger or by a servo, and moved since its module last looked.
Down(k) == k \in button \cup pulled
Edge(k) == Down(k) # (k \in isPressed)
Noticed(k) == isPressed' = IF Down(k) THEN isPressed \cup {k} ELSE isPressed \ {k}

\* handleKeyPresses() for one key.
PollKey(k) ==
  /\ on
  /\ Edge(k)
  /\ Noticed(k)
  /\ Note(Global(k), Down(k))
  /\ Record(k, Down(k))
  /\ UNCHANGED <<power, chain, player, upload, button, heldTicks, bounds>>

\* The neighbour notices an edge of its key and sends a K or k line, which waits in
\* the RX buffer of a module that is off and is lost if no cable carries it.  The
\* neighbour of a slave numbers its keys beyond the model's.
NeighbourListened == on \/ ~linked
NeighbourKey(k) ==
  /\ NeighbourListened
  /\ Edge(k)
  /\ Noticed(k)
  /\ IF linked /\ isMaster
       THEN Note(k, Down(k)) /\ Record(k, Down(k))
       ELSE UNCHANGED <<globalKeyIsPressed, keyAge, currentSequence, recorder>>
  /\ UNCHANGED <<power, chain, player, upload, button, heldTicks, bounds>>

MoveKey(k) ==
  /\ presses < MaxPresses /\ Room
  /\ button' = IF k \in button THEN button \ {k} ELSE button \cup {k}
  /\ presses' = presses + 1
  /\ UNCHANGED <<power, chain, player, currentSequence, recorder, upload, heldTicks,
                 isPressed, globalKeyIsPressed, keyAge, commands, recordings,
                 lines, events>>

-----------------------------------------------------------------------------
(* The upload receiver *)

Line == lines < MaxLines /\ Room /\ lines' = lines + 1

Fresh(header) ==
  [id |-> header.id, length |-> header.length, steps |-> [n \in StepIndex |-> Blank]]

UploadBegin_WhileRecording(header) ==
  /\ Awake
  /\ Line
  /\ ~uploadingSequence
  /\ uploadingSequence' = header.valid
  /\ uploadStepCount' = 0
  /\ uploadSequenceBuffer' = Fresh(header)
  /\ attempts' = attempts + 1
  /\ UNCHANGED <<overlapped, power, chain, player, currentSequence, recorder, keyboard,
                 presses, commands, recordings, events>>

UploadBegin_OldSteps(header) ==
  /\ Awake
  /\ Line
  /\ ~uploadingSequence /\ ~recording
  /\ uploadingSequence' = header.valid
  /\ uploadSequenceBuffer' = [Fresh(header) EXCEPT !.steps = uploadSequenceBuffer.steps]
  /\ attempts' = attempts + 1
  /\ UNCHANGED <<uploadStepCount, overlapped, power, chain, player, currentSequence,
                 recorder, keyboard, presses, commands, recordings, events>>

\* A "U" line that begins an upload with a fresh buffer.  A line with a field it
\* cannot parse gives the buffer up again.
UploadBegin(header) ==
  /\ Awake
  /\ Line
  /\ ~uploadingSequence /\ ~recording
  /\ uploadingSequence' = header.valid
  /\ uploadStepCount' = 0
  /\ uploadSequenceBuffer' = Fresh(header)
  /\ attempts' = attempts + 1
  /\ UNCHANGED <<overlapped, power, chain, player, currentSequence, recorder, keyboard,
                 presses, commands, recordings, events>>

\* A "U" line that is refused, without an answer; the lines of that upload follow.
UploadRefused ==
  /\ Awake
  /\ Line
  /\ uploadingSequence \/ recording
  /\ attempts' = attempts + 1
  /\ overlapped' = (overlapped \/ uploadingSequence)
  /\ UNCHANGED <<power, chain, player, currentSequence, recorder, uploadingSequence,
                 uploadStepCount, uploadSequenceBuffer, keyboard,
                 presses, commands, recordings, events>>

\* An "S" line with valid fields, of the upload whose U line came last.
UploadStep(keys) ==
  /\ Awake
  /\ Line
  /\ uploadingSequence
  /\ uploadStepCount < MAX_SEQUENCE_LENGTH
  /\ uploadSequenceBuffer' = [uploadSequenceBuffer EXCEPT
                                !.steps[uploadStepCount] = [by |-> TheUpload, keys |-> keys]]
  /\ uploadStepCount' = uploadStepCount + 1
  /\ UNCHANGED <<power, chain, player, currentSequence, recorder, uploadingSequence,
                 attempts, overlapped, keyboard, presses, commands, recordings, events>>

\* The checks of processSequenceEndCommand().
Complete(id) == /\ id = uploadSequenceBuffer.id
                /\ uploadStepCount # 0
                /\ uploadStepCount = uploadSequenceBuffer.length

\* An "E" line: the buffer becomes the sequence, even one that is being played.
UploadEnd(id) ==
  /\ Awake
  /\ Line
  /\ uploadingSequence
  /\ uploadingSequence' = FALSE
  /\ IF Complete(id)
       THEN currentSequence' = uploadSequenceBuffer /\ uploadStepCount' = 0
       ELSE UNCHANGED <<currentSequence, uploadStepCount>>
  /\ UNCHANGED <<power, chain, player, recorder, uploadSequenceBuffer, attempts,
                 overlapped, keyboard, presses, commands, recordings, events>>

-----------------------------------------------------------------------------
(* Power, roles and the chain *)

Event == events < MaxEvents /\ Room /\ events' = events + 1

\* What powerOff(), promoteToMaster() and demoteToSlave() do first.
Interrupt ==
  /\ IF recording
       THEN FinishRecording
       ELSE UNCHANGED recorder
  /\ Halt
Interrupted == IF recording THEN Captured ELSE currentSequence

PowerOff ==
  /\ on
  /\ Event
  /\ on' = FALSE
  /\ Interrupt
  /\ currentSequence' = Interrupted
  /\ UNCHANGED <<isMaster, chain, upload, keyboard, presses, commands, recordings, lines>>

PowerOn ==
  /\ ~on
  /\ on' = TRUE
  /\ UNCHANGED <<isMaster, chain, player, currentSequence, recorder, upload, keyboard,
                 bounds>>

Demote ==
  /\ Awake
  /\ Event
  /\ isMaster' = FALSE
  /\ numModulesInChain' = 2
  /\ Interrupt
  /\ currentSequence' = Interrupted
  /\ UNCHANGED <<on, linked, upload, keyboard, presses, commands, recordings, lines>>

\* Undoes a demotion, like PowerOn a PowerOff, and needs no bound of its own.
Promote ==
  /\ on /\ ~isMaster
  /\ isMaster' = TRUE
  /\ numModulesInChain' = 1
  /\ Interrupt
  /\ currentSequence' = Refreshed(Interrupted, 1, FALSE)
  /\ UNCHANGED <<on, linked, upload, keyboard, bounds>>

\* The lines obeyed from upstream: b and x, and t and r for a key of this module; g only
\* lights a key, and lines for other modules travel on.  Keys start at the module's
\* place in the chain, so nobody upstream of a master names one of its keys.
HearBroadcast ==
  /\ on
  /\ Event
  /\ currentSequenceMode' = "BROADCAST"
  /\ sequenceRunning' = TRUE
  /\ UNCHANGED <<currentSequenceStepIndex, stepAge, waitingForServoRelease, servoAge, pulled>>
  /\ UNCHANGED <<power, chain, currentSequence, recorder, upload, keyboard,
                 presses, commands, recordings, lines>>

HearStop ==
  /\ on
  /\ Event
  /\ pulled' = {}
  /\ sequenceRunning' = (sequenceRunning /\ currentSequenceMode # "BROADCAST")
  /\ UNCHANGED <<currentSequenceMode, currentSequenceStepIndex, stepAge,
                 waitingForServoRelease, servoAge>>
  /\ UNCHANGED <<power, chain, currentSequence, recorder, upload, keyboard,
                 presses, commands, recordings, lines>>

HearPull(k) ==
  /\ on /\ ~isMaster
  /\ k \notin pulled
  /\ pulled' = pulled \cup {k}
  /\ UNCHANGED <<sequenceRunning, currentSequenceMode, currentSequenceStepIndex, stepAge,
                 waitingForServoRelease, servoAge>>
  /\ UNCHANGED <<power, chain, currentSequence, recorder, upload, keyboard, bounds>>

HearRelease(k) ==
  /\ on /\ ~isMaster
  /\ k \in pulled
  /\ pulled' = pulled \ {k}
  /\ UNCHANGED <<sequenceRunning, currentSequenceMode, currentSequenceStepIndex, stepAge,
                 waitingForServoRelease, servoAge>>
  /\ UNCHANGED <<power, chain, currentSequence, recorder, upload, keyboard, bounds>>

MoveCable ==
  /\ Event
  /\ linked' = ~linked
  /\ UNCHANGED <<power, numModulesInChain, player, currentSequence, recorder, upload,
                 keyboard, presses, commands, recordings, lines>>

\* A reply from the neighbour raises a master's count.
GrowChain ==
  /\ Awake
  /\ linked
  /\ numModulesInChain = 1
  /\ numModulesInChain' = 2
  /\ currentSequence' = Refreshed(currentSequence, 2, sequenceRunning)
  /\ UNCHANGED <<power, linked, player, recorder, upload, keyboard, bounds>>

\* The replies have stopped: checkHeartbeatReply().
ShrinkChain ==
  /\ Awake
  /\ ~linked
  /\ numModulesInChain = 2
  /\ numModulesInChain' = 1
  /\ IF sequenceRunning /\ currentSequenceMode = "BROADCAST"
       THEN /\ Halt
            /\ currentSequence' = Refreshed(currentSequence, 1, FALSE)
       ELSE /\ UNCHANGED player
            /\ currentSequence' = Refreshed(currentSequence, 1, sequenceRunning)
  /\ UNCHANGED <<power, linked, recorder, upload, keyboard, bounds>>

-----------------------------------------------------------------------------
(* Time *)

Older(age, limit) == IF age < limit THEN age + 1 ELSE age

\* A tick waits until the modules have looked at their keys, which they do every
\* few milliseconds.
Tick ==
  /\ on => \A k \in OwnKey : ~Edge(k)
  /\ NeighbourListened => \A k \in RemoteKey : ~Edge(k)
  /\ stepAge' = IF sequenceRunning THEN Older(stepAge, Duration) ELSE stepAge
  /\ servoAge' = IF waitingForServoRelease THEN 1 ELSE servoAge
  /\ chordAge' = IF recChordKeys # << >> THEN 1 ELSE chordAge
  /\ heldTicks' = [k \in Key |-> IF k \in button THEN Older(heldTicks[k], Duration) ELSE 0]
  /\ keyAge' = [k \in Key |-> Older(keyAge[k], Duration)]
  /\ UNCHANGED <<power, chain, sequenceRunning, currentSequenceMode,
                 currentSequenceStepIndex, waitingForServoRelease, pulled,
                 currentSequence, recording, recStepCount, recChordKeys, upload,
                 button, isPressed, globalKeyIsPressed, bounds>>

-----------------------------------------------------------------------------
NoSteps == [n \in StepIndex |-> Blank]
NoSequence == [id |-> 0, length |-> 0, steps |-> NoSteps]

\* A master that has counted its chain.
Init ==
  /\ on = TRUE
  /\ isMaster = TRUE
  /\ linked \in BOOLEAN
  /\ numModulesInChain = (IF linked THEN 2 ELSE 1)
  /\ sequenceRunning = FALSE
  /\ currentSequenceMode = "GUIDED"
  /\ currentSequenceStepIndex = 0
  /\ stepAge = 0
  /\ waitingForServoRelease = FALSE
  /\ servoAge = 0
  /\ pulled = {}
  /\ currentSequence = DefaultFor(numModulesInChain, NoSequence)
  /\ recording = FALSE
  /\ recStepCount = 0
  /\ recChordKeys = << >>
  /\ chordAge = 0
  /\ uploadingSequence = FALSE
  /\ uploadStepCount = 0
  /\ uploadSequenceBuffer = NoSequence
  /\ attempts = 0
  /\ overlapped = FALSE
  /\ button = {}
  /\ heldTicks = [k \in Key |-> 0]
  /\ isPressed = {}
  /\ globalKeyIsPressed = {}
  /\ keyAge = [k \in Key |-> 0]
  /\ presses = 0 /\ commands = 0 /\ recordings = 0 /\ lines = 0 /\ events = 0

Playback == AbandonSequence \/ RepeatKey \/ TeachingStep \/ GuidedStep

Polling ==
  \/ \E k \in OwnKey : PollKey(k)
  \/ \E k \in RemoteKey : NeighbourKey(k)

Buttons ==
  \/ \E mode \in Mode : PressStart(mode) \/ StartCommand(mode)
  \/ StopCommand
  \/ StartRecording
  \/ StopRecording
  \/ \E k \in Key : MoveKey(k)

\* Lines without an id leave -1 in the buffer, lines without a length leave 0.
Uploading ==
  \/ \E header \in UploadHeaders : UploadBegin(header)
  \/ UploadRefused
  \/ \E keys \in UploadKeys : UploadStep(keys)
  \/ \E id \in UploadIds : UploadEnd(id)

Surroundings ==
  \/ PowerOff \/ PowerOn
  \/ Demote \/ Promote
  \/ HearBroadcast \/ HearStop
  \/ \E k \in OwnKey : HearPull(k) \/ HearRelease(k)
  \/ MoveCable \/ GrowChain \/ ShrinkChain

Next == Playback \/ Polling \/ Buttons \/ Uploading \/ Surroundings \/ Tick

\* loop() plays and polls forever, and time passes.
Fairness == WF_vars(Playback) /\ WF_vars(Polling) /\ WF_vars(Tick)

Spec == Init /\ [][Next]_vars /\ Fairness

-----------------------------------------------------------------------------
(* Properties *)

\* The recorder writes currentSequence in place and an upload replaces it: they
\* never overlap (the guards of handleRecordButton() and handleSequenceCommand()
\* hold across power presses, role changes and lines in any order).
OneWriter == ~(recording /\ uploadingSequence)

\* recordKeyPress() and commitRecordedStep() stay inside their arrays, however
\* presses, releases, lost releases and interruptions alternate.
RecordingFits ==
  /\ recStepCount <= MAX_SEQUENCE_LENGTH
  /\ Len(recChordKeys) <= MAX_KEYS_PER_STEP
  /\ recording /\ recChordKeys # << >> => recStepCount < MAX_SEQUENCE_LENGTH

\* evaluateWrongKeyFeedback() reads CURRENT_STEP without a check: the index is one
\* of the array even when an upload has put a shorter sequence in place.
StepInArray ==
  sequenceRunning /\ currentSequenceMode # "BROADCAST"
    => currentSequenceStepIndex \in StepIndex

\* Whichever way a sequence ends (last step, defensive check, command, power press,
\* promotion, demotion, lost listener), every servo goes back to rest, those included
\* that were pulled from upstream before; and only a sequence or a module upstream
\* pulls one (stopSequence(), autoPressKey()).
ServosRest ==
  [][/\ sequenceRunning /\ ~sequenceRunning' => pulled' = {}
     /\ pulled' \subseteq pulled \/ sequenceRunning' \/ ~isMaster]_vars

\* Until a power press, a role change, a moved cable or a U line that finds an upload
\* in progress, what can be played is what one author provided completely: the steps
\* of a sequence that is not being recorded are all defaults, all recorded or all of
\* one and the same upload, whatever happened to the uploads before it
\* (handleSequenceCommand(), processSequenceEndCommand()).
StoredWhole ==
  events = 0 /\ ~recording /\ ~overlapped =>
    /\ currentSequence.length > 0
    /\ currentSequence.steps[0].by # Nobody
    /\ \A n \in 0 .. currentSequence.length - 1 :
         currentSequence.steps[n].by = currentSequence.steps[0].by

\* Guided mode advances only when each key of the step has been held down, by the
\* user, for the step's duration (firmware_v5.ino:9-10), until a power press, a role
\* change or a moved cable.
GuidedHeld ==
  [][GuidedStep /\ events = 0 => \A k \in CurrentStep.keys : heldTicks[k] >= Duration]_vars

\* A demonstration comes to its end, or something else takes its place; consecutive
\* steps with the same key do not stall it.
TeachingEnds ==
  (sequenceRunning /\ currentSequenceMode = "TEACHING")
    ~> ~(sequenceRunning /\ currentSequenceMode = "TEACHING")

\* A sequence that the user recorded or uploaded never gives way to a default
\* ("only acts if the current sequence is the default", sequence_control.ino:347-348).
OnlyDefaultsRefreshed ==
  [][currentSequence'.steps[0].by = TheDefault
        => currentSequence.steps[0].by = TheDefault]_vars
=============================================================================
