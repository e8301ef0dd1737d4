# Open Octave: specifications and proofs

Open Octave is a keyboard made of 12-key modules.  Each module is an ESP32 that
runs `src/Arduino/OO-firmware/firmware_v5`; modules are chained by UART cables,
the first one is the master and talks to a Node.js controller
(`src/software/controller`) by WebSocket or USB, and a React application
(`src/software/web`) drives the controller.  This directory holds TLA+ models of
the parts that have state and concurrency, the TLC runs that check them and
proofs for TLAPS.  `tlc -config X.cfg M` checks a run, `tlapm M.tla` a proof
module; `PROJECT.json` lists runs, mutants of the models that each property must
catch, the code that each definition stands for, hazards, findings and theorems.

## The system

| Component | State | Operations | Talks to |
|---|---|---|---|
| Chain protocol (`communication.ino`, `master_control.ino`, `slave_control.ino`) | role, `moduleChainIndex`, `numModulesInChain`, heartbeat timers | send, hear and answer heartbeats; promote, demote; `b` and `x` lines | neighbours by UART; player, recorder |
| Line framing (`communication.ino`) | three 64-byte line buffers with overflow flags | accumulate, dispatch, discard | chain, commands |
| Sequence player (`sequence_control.ino`) | `currentSequence`, step index and start time, mode, `waitingForServoRelease` | start, step (teaching, guided), stop, default sequence | keys, downstream modules, controller |
| Recorder (`record_control.ino`) | `recording`, chord, `recStepCount`; writes the steps of `currentSequence` in place | start, press, release, commit, stop | keys, player, chain (flash) |
| Upload receiver (`communication.ino` 629-957) | `uploadingSequence`, `uploadStepCount`, buffer | `U`, `S`, `E` lines | controller, player |
| Keys, LEDs, servos (`key_control.ino`) | pressed flags and times, local and global | debounce, forward to the master | player, recorder, chain |
| Power (`helpers.ino`, `firmware_v5.ino`) | `on` | button, `o` command | all of the above |
| WiFi and WebSocket client (`wifi.ino`) | connection flags | connect, reconnect, say hello | controller |
| Audio (`chord_synthesis.ino`), test log (`testlogging.ino`) | sound buffers; counters | synthesise; log | none |
| Module registry (`server.js` 75-346) | map of modules, sockets, labels | register, touch, unregister, clean up, send | modules, web |
| Upload driver (`server.js` 575-660, 899-1053) | last ack and error per module | send lines and await acks, to one or all | upload receiver, web |
| USB serial ports (`server.js` 386-559) | open ports, discovery timer | open, close, discover | modules |
| Database (`database/sqlite.js`) and routes | tables | CRUD | web |
| MIDI import (`services/midi_import.js`) | none | notes to steps | web |
| Web application (`App.jsx`) | caches, editor | refresh, upload, edit | controller |

What is hard in it: every module polls its ports, its timers and its buttons in
one loop, and its neighbours do the same at their own pace; nothing is
acknowledged on the chain; roles change while something plays, records or is
being uploaded; three subsystems share `currentSequence`; the controller awaits
acks in one place while the same module's messages, closes and reconnects are
handled in another.

What makes each part correct:

- chain: one master per chain, indices in order, the count true, key indices
  inside the arrays, silence on every role change, one broadcast mode;
- player, recorder, upload: at most one of them writes `currentSequence`, the
  stored sequence is always one that somebody provided completely, the step
  index is valid whenever it is used, buffers do not overflow;
- framing: a line is dispatched whole or not at all, and the next one is not hurt;
- registry: a live module is listed, once, under its label; a dead one is not;
- upload driver: what the controller reports is what the module stored;
- web application: its controls come free, its keyboards follow the controller, and
  what its library holds can be played.

## Modules

| Module | Models | Proofs | State |
|---|---|---|---|
| `Chain` | the chain protocol of N modules | `ChainProofs` | done |
| `Sequencer` | player, recorder and upload receiver of one module | `SequencerProofs` | done |
| `LineFramer` | the line buffers of one port | `FramerProofs` | done |
| `Registry` | the controller's map of modules and its connections | `RegistryProofs` | done |
| `AtomicUpload` | what an upload promises | `AtomicProofs` | done |
| `Upload` | driver, receiver and `Registry`'s connections, as an implementation of `AtomicUpload` | `UploadProofs`, `AtomicProofs` | done |
| `MidiImport` | from the notes of a file to steps | `MidiProofs` | done |
| `Studio` | the web application and the routes it calls, with `MidiImport` | `StudioProofs` | done |

`MCChain`, `MCSequencer`, `MCLineFramer`, `MCRegistry`, `MCUpload` and `MCStudio`
hold the inputs of the TLC runs.  The models meet where the parts of the system
do: `Upload` uses the actions of `Registry` for its connections and repeats the
receiver of `Sequencer` in the detail the driver can tell apart; `Studio` takes
an upload for one step, which is what `Upload` is checked against, and its
library is held against the conditions of the receiver (`FirmwareTakes`).

Left, in this order: `ChainKeys` (the key lines of the chain over `Chain`'s
indices, the debouncing, the second after a role change), the editing of a
sequence that is already in the library, and the race of opening a serial port by
hand with the discovery.  Every safety property that a run checks and the code
fulfils is also proved, under the conditions named below.

## Chain

`Chain` puts N modules side by side.  `cable[l]` joins module l to module l+1,
`down[l]` and `up[l]` are the messages between them: wire and RX buffer
together.  Each variable carries the name of the firmware's global; the three
time stamps are ages in ticks, capped where the code stops telling them apart
(`heardAge` at `HEARTBEAT_TIMEOUT`).  There is one action per handler of a
message and per timer check (`Loop(i)` is their disjunction) and one per thing
that users, the controller and physics do (`Environment`).  `loop()` polls them
in a fixed order; the model takes them in any order, which covers every order of
arrival and leaves the handlers atomic, as they are on a single core without
interrupts that touch this state.

Details worth knowing:

- `demoteToSlave()` and `promoteToMaster()` flush the RX buffers.  What has
  reached the buffer and what is still on the wire is open, so a flush drops any
  number of the oldest messages.
- Unplugging loses any number of the newest messages.  A full or unplugged link
  loses what is written to it.
- A cable that is moved may add noise to one of its ends (`Noise`): a pair of bytes that
  reads as a heartbeat with any index.  The checks at lines 202 and 330 reject those that no
  chain has (`MAX_MODULES` stands for all of them) and accept the others, so a slave may
  take index 0 or an index beyond its place until the next true heartbeat.  Noise that
  is half a heartbeat or part of a line is the business of `LineFramer`.
- `TEACHING` does to the chain what `GUIDED` does and is left out.  The lines
  that light, press and report keys are left out, as no role depends on them.
- A module that is off leaves its ports unread, and reads what has piled up
  when it is turned on.
- A recording matters to the chain because the flash that starts and ends it
  sends an `x` line.  `StopRecording` may happen at any time: by the button
  while nothing plays, or by a key press when `MAX_SEQUENCE_LENGTH` steps are
  captured.

A tick is the time in which a module that is not held up has gone through `loop()`: it
waits until nobody has anything left to read or to do (`Busy`), which the age counters
then measure in.  With `Interval` 1 it is a second.  The longest pass that does not block
is one of a master, which plays a success animation and a record flash and takes
0.8 s.  What holds `loop()` up for longer is an action: `Block`, up to `Resume`.  It
stands for `webSocket.loop()` while it connects (up to 5 s, `WebSocketsClient.cpp:331` and
`WebSockets.h:125`, against a `HEARTBEAT_TIMEOUT` of 2 s), for a write to a dead socket, for
the servo test (`validation.ino:74`) and for `disconnectWifi()` (`slave_control.ino:31`);
`setup()` waits for the WiFi for up to 10 s, so `Reboot` blocks as well.  A blocked module
reads nothing, answers nothing and looks at no timer, for any number of ticks, while its
neighbours give it up and its buffers fill.  So timeouts race messages, and modules promote
themselves though no cable moves; what holds only of a chain that nobody holds up says so
(`upsets = 0`).

Fairness: weak fairness of `Loop(i)` for every module, since `loop()` runs
forever, and of `Tick`.  None for users.

Bounds: three modules, an interval of one tick and a timeout of two (the code's ratio),
links of three messages.  Upsets (cable moves, power presses, reboots, blocked loops),
commands and recordings have a bound each and one together (`MaxEvents` 2): two moves
suffice for a module to be detached and attached again, or detached while another reboots
or is held up.  They are bounded because "finally" only means something once they
rest.  `chain_overlong` starts from any cables, with a chain that may be longer than
`MAX_MODULES`; the others from a settled chain (`AssembledSpec`).

| Run | Shows |
|---|---|
| `chain_overlong` | three modules with `MAX_MODULES` 2, any cables in place at the start, one upset, noise, one sequence: types, ranges and roles; no module promotes itself without reason, all of them find their roles, and a broadcast ends when its last listener leaves |
| `chain_moves` | two upsets in a settled chain of three: roles and indices converge, every module is counted |
| `chain_traffic` | a settled chain of three with a sequence, a recording, an upset, any two of them: octaves, silence on role changes; slaves end up in their master's mode when nothing upsets the chain |
| `chain_counts` | finding: the count of a master does not go down when the last of three modules leaves |

The finding is the claim of the comment at `communication.ino:339`, that the timeout in
`checkHeartbeatReply()` "handles the count going DOWN (module removal)".  The replies of
the middle module refresh the master's timer, so the timeout never comes, and
`CountsExact` fails; `CountsReach` is the half that holds.

### What is proved

`ChainProofs` proves every safety property of these runs for any
number of modules and any constants that meet `ChainAssumption`: type
correctness, `MasterHasIndexZero`, `AddressesInRange`, `NotesMatch`,
`SlavesOnlyBroadcast`, `IndexWithinReach` and the action property
`RoleChangeSilences`.

The properties are not inductive.  A slave could be handed index 0, or an index
beyond its place, by a message already under way.  The invariant `IInv` adds what
may be under way: until there has been noise (`noises = 0`), every heartbeat on link l
carries an index from 1 to l+1 or an implausible one (`DownMessages`).
`RefreshFromUpstream` forwards its index plus one only after the check against
`MAX_MODULES`, and `SendHeartbeat` is sent by masters, whose index is 0.  Behind noise,
which the code takes for what it reads as, `IndexWithinReach` and the second half of
`MasterHasIndexZero` are false and not claimed; `AddressesInRange`, which keeps the
keys inside their arrays, and `NotesMatch` hold even so.

The argument has three layers: lemmas about queues (writing, consuming, flushing
and cutting keep them allowed), `OneModule` (a step that changes only module i,
and leaves i as the invariant wants it, preserves the invariant) and one lemma
for each action.  `NextOK` collects them.

`NoSpuriousPromotion` (`NoPromotionAtRest`) assumes `Interval < Timeout`.  Until something
upsets the chain (`upsets = 0`: no cable moves, no power press or reboot, and no loop that
blocks), `Steady` says of every module that its index and the heartbeats on their way to it
come no further than from the gap at the head of its chain (`Placed`, `NearMessages`), so
the place that a module within reach (`Near`) is offered is never implausible; and that a
slave within reach has heard a heartbeat since its neighbour last passed one on, or
one is waiting for it (`Heeded`).  At a tick nothing waits.  So, by the least
counterexample, the time since a slave heard a heartbeat is at most `Interval`, as the
time since the master sent one is, and stays below `Timeout`.  One condition remains
(`Roomy`): a full link holds a heartbeat, so that one that is lost is not missed; a
condition on the size of the UART buffer, which `chain_overlong` satisfies.

Three theorems hold what safety there is in the liveness properties.
`PlacesOnlyGrow`: under the same conditions the index of a module within reach never
falls and never passes its place, so a module that has reached the place that
`RolesConverge` means keeps it; the heartbeats on a link are in order (`InOrder`),
none below the receiver's index and none above its neighbour's plus one.
`NoneOvercounted`: until something upsets the chain, the head of a chain never counts more
modules than its chain has, which is what remains of `CountsExact`; it needs no condition
on links, as no reply can tell of a module beyond the next gap (`ReplyMessages`).
`BroadcastAgreesWhenRead`: as soon as only heartbeats are on the way downstream, all
modules broadcast or none does, which is what `BroadcastAgrees` says without the
promise that the moment comes.  It speaks of `AssembledSpec`, like the run, of behaviours
without upsets and recordings (the defect below), of a chain no longer than
`MAX_MODULES`, and assumes `Interval < Timeout` and `Spare`: no link is ever full, so no
line is lost.  The invariant is `Follows`: reading the lines on its way brings every
module to its left neighbour's mode.
These three are stated in `ChainProofs`, which extends `MCChain` for `Assembled`, and
have no run of their own.

Liveness (`RolesConverge`, `CountsReach`, `BroadcastAgrees`, `LonelyBroadcastEnds`) is
model-checked only.

Two defects of this part are hazards in `PROJECT.json` with a note: the flash at the end
of a recording stops the slaves' broadcast, and a slave that is attached while its master
broadcasts never hears of it.  `BroadcastAgrees` is stated where they do not bite.

## Sequencer

`Sequencer` is one module with whatever it plays, records and receives, and a
neighbour that may hang on its downstream port.  Its variables carry the names of
the firmware's globals.  Keys 0 to `NUM_KEYS`-1 are its own; the next `NUM_KEYS`
are the neighbour's, and their presses arrive as `K` and `k` lines
(`NeighbourKey`) or, without a cable, not at all.

| Code | Actions |
|---|---|
| buttons and the commands `g`, `t`, `b`, `x` | `PressStart`, `StartCommand`, `StopCommand` |
| `handleSequencePlayback()` | `AbandonSequence`, `RepeatKey`, `TeachingStep`, `GuidedStep` |
| record button, `stopRecording()` | `StartRecording`, `StopRecording` |
| `handleKeyPresses()`, `K`/`k` lines, `recordKeyPress()`, `recordKeyRelease()` | `PollKey`, `NeighbourKey` with `Record` and `Note` |
| `U`, `S`, `E` lines | `UploadBegin`, `UploadStep`, `UploadEnd` |
| power, promotion, demotion | `PowerOff`, `PowerOn`, `Promote`, `Demote` |
| `b`, `x`, `t` and `r` lines from upstream | `HearBroadcast`, `HearStop`, `HearPull`, `HearRelease` |
| replies and their timeout | `GrowChain`, `ShrinkChain` |
| fingers, cables, time | `MoveKey`, `MoveCable`, `Tick` |

Details worth knowing:

- A step is the set of its keys and its author (`by`), which the code does not
  keep; the properties tell by it whose sequence is stored.  Every `U` line that a module
  hears is an author of its own (`attempts`), also one that it refuses; `overlapped`
  notes that one came during an upload.  Names, colours and
  the lengths of steps are left out: every step lasts `Duration` ticks.
- The default sequences stand for their tables: a few steps, some of which share
  a key with the next, for one module or for two.
- Lines from upstream pull and release the keys of a slave (`t`, `r`).  `g` only lights
  one, and lines for keys of other modules travel on.  A slave keeps a pulled key down when
  it promotes itself or is switched off, as `stopSequence()` returns early when nothing
  plays (a hazard); `ServosRest` speaks of sequences that end.
- A servo that pulls a key presses its button, as the comment at the head of
  `firmware_v5.ino` says: `Down` is a finger or a servo.
- Instants are ages: `stepAge` and `keyAge` stop at `Duration`, `servoAge` and
  `chordAge` only say whether `SERVO_RELEASE_DELAY` and `CHORD_WINDOW_MS` are over.
- `Tick` waits until the module has looked at its keys and the neighbour's lines
  have been read, as `loop()` does in milliseconds.  Playback may lag.
- Uploaded lines carry any id of `UploadIds` (-1 where the line has none), any
  length (0 where it has none) and any keys of `UploadKeys`, and a `U` line may
  have a field that cannot be parsed.  A refused line changes nothing.
- Debouncing, the 500 ms without buttons after a promotion, and the second in
  which a neighbour still uses its old index after a role change are left out.

Fairness: weak fairness of playback and polling, since `loop()` runs for ever, and
of time.  None for users, lines or cables.

Bounds: one key per module, so that every step is either the module's, the
neighbour's or a chord of both; two steps, each of one tick; two presses or releases, one
sequence, one recording, one event, which may interrupt whatever is going on (what undoes
an event, `PowerOn` and `Promote`, is not bounded), and six upload lines: enough for an
upload that breaks off, the retry that it refuses, and a whole upload behind it.  All
these share a budget of six (`MaxInputs`).  The lines of `t` and `r` are not bounded.  The
theorems below hold for any number.

| Run | Shows |
|---|---|
| `sequencer` | with lines, commands and keys in any order, power presses, role changes and cable moves: recording and upload exclude each other, what is stored is whole under the conditions of `StoredWhole`, array bounds and step index hold, every sequence that ends lets go of the servos, guided steps wait for keys that are held for their duration, demonstrations end |
| `seq_recorded_lost` | finding: attaching or detaching a module replaces a recording by the default sequence |

`StoredWhole` holds until the first event and the first `U` line that finds an upload in
progress.  `updateDefaultSequenceForChainSize()` also runs in the middle of a recording
and overwrites the steps already captured (a hazard in `PROJECT.json`); and a `U` line
during an upload is refused without a word, its `S` lines are appended to the other
upload's, and a mix of two is stored if the numbers fit.  The latter is the finding of
`upload_full`, where the driver takes part.  `GuidedHeld` holds until the first event: a
neighbour's key that was down when its cable was pulled counts as held for ever.

### What is proved

`SequencerProofs` proves, for any number of keys, steps and events, type
correctness, `OneWriter`, `RecordingFits`, `StepInArray`, the action property `ServosRest`
and `StoredWhole` (`StoredWholeUndisturbed`).  It assumes `SequencerAssumption` only.

Together with types and bounds the first three are inductive: `IInv` is their
conjunction, cut into one part per group of variables, so that each action's
lemma argues only about the groups it touches.  `OneWriter` makes `StepInArray`
and the recorder's part survive uploads; the last clause of `RecordingFits` says
that there is room for the chord in progress, which is what makes
`commitRecordedStep()` never drop one.

`StoredWhole` needs more: while something is uploaded or recorded, the steps so
far must be those of the last `U` line (`Filled`) or the recorder's (`Recorded`), and a
recorder that has committed nothing must have left the old sequence as it was
(`Intact`).  `WInv` adds that the chain is settled as long as no event has
happened, since otherwise its growth loads a default sequence.

`GuidedHeld` holds as long as the module is not demoted and no cable is moved
(`GuidedStepsHeld`), and so in particular until the first event, which is what the run
checks (`GuidedStepsHeldAtFirst`).  Then the keys that the
master takes for pressed are those whose modules noticed them (`InTouch`), and while a
guided sequence plays no servo pulls one, so a finger is on each of them: since the
press was noticed or, for a key that a demonstration had pulled before, at least since
the step began (`Fingers`).  Both give the user's hand the step's duration by the
time the code advances.

The liveness property `TeachingEnds` is model-checked only.

## Line framer

`LineFramer` is one serial port of a module, of either kind: a chain port, with
heartbeats between the lines, or the USB port, with the look at the first waiting
byte for an `o`.  `wire` is what is on its way and `rx` what the UART has buffered, so
a poll finds any part of a line.  A byte of a line carries the number of its line,
which the code does not see; the properties compare with it what was sent and what
was handed on.  The letters are an `o` and any other one.

Actions: `Send`, `SendBeat`, `Deliver` for the other end; `HearBeat`, `ReadChain`,
`ReadUsb`, `TogglePower`, `DrainUsb` for the polls of `loop()`, one per byte, in
whose middle no role changes (`polling`); `Lose` and `Noise` for a bad contact;
`ChangeRole` and `PressPower`.

Two things the model shows of the code:

- on a chain port the newline that ends an overlong line is dropped as unprintable
  before the overflow flag is looked at, so every later line is discarded as well,
  until the next role change.  What is due (`Due`) is every line that fits, on either kind
  of port, and the run `framer_deaf` shows that it is not all heard, although the comment
  at `communication.ino:114` says "just clear the flag and move on".  `WholeLines` says of
  what is heard that it is a beginning of what is due, and `AllHeard` leaves out chain
  ports that were sent an overlong line;
- an `o` at the head of the USB buffer in the middle of a line toggles the power.
  `TakenForCommand` excludes such lines from `WholeLines`.

Fairness: weak fairness of `Deliver` and of `Poll`, since `loop()` runs for ever.

Bounds (`LineFramer.cfg`): a buffer of three bytes, lines of one, two and four letters
(short, just fitting with an `o`, too long by a letter that overflows and one that is
discarded), three lines, so that a damaged or overlong
line has one before and one behind it, one heartbeat, one lost or bogus byte, one role
change or power press.

| Run | Shows |
|---|---|
| `line_framer` | without faults lines are handed on once, whole and in order, and all that fit are (on a chain port as long as none was overlong), and heartbeats get through; a lost or bogus byte costs at most two lines; no command is put together from two |
| `framer_deaf` | finding: behind an overlong line a chain port hands on no line any more (`HearsOn`) |

Proved in `FramerProofs`, for lines, buffers and numbers of any size: `TypeOK`, which
says that a line and its terminator fit the buffer, and `NoMixture`.  The latter
is not inductive, since the line buffer and the unread bytes have to fit together.
`Unbroken` says that in the unread stream `rx \o wire` each letter is followed by
one of the same line or by a newline, and `Begun` that the stream goes on where the
line buffer ends; a role change may take away any beginning of the stream, but
empties the line buffer with it.

`WholeLines` and `BeatsGetThrough` are proved there as well.  Both say where the
framer ends up when everything has been read, so their invariant (`Traced`) says
where it is on the way: a `Place` counts the lines that are through, the letters of the one
in progress and the heartbeats, and the unread bytes must lead from the place of the
line buffer to that of the sender, each byte by one step (`Leads`, `Way`).  Writing
makes the way longer at its end, reading shorter at its beginning, and once nothing
is unread the two places are the same.  The argument needs no bound on lines,
buffers or heartbeats, and covers overlong lines on both kinds of port.

`DamageContained` lets the way make detours: a fault puts the line it falls into on a
set of lines that are hit, at most one for each fault (`Hits`), and inside those lines
a byte may lead anywhere (`Goes`, `Trail`).  The newline behind a line that is not hit
brings the reader back to where it ought to be (`Reader`), so a line that is missed
is hit itself or follows one that is (`Passed`), two for each fault.  A chain port
behind an overlong line is past help (`Deaf`) and outside of the property.

The liveness of `AllHeard` stays with TLC.

## Registry

`Registry` is the controller's map of modules.  An address is a WiFi address or the
path of a USB port; its connections are numbered in the order in which the
controller accepts them, and each has its socket's `readyState` and its own queue of
lines that are not handled yet.  `peer` is the connection that the module itself
uses.  The difference between the two is what makes the registry hard: a module may
have left a connection, and be back on the next one, before the controller hears that
the first has closed.  `unregisterModule()` looks at the address only, so this close
unlists the module that has come back; `robbed` marks the addresses to which this has
happened since they connected.

| Code | Actions |
|---|---|
| `wss.on('connection')`, `connectSerial()` with its discovery | `Connect` |
| `close` and `error` handlers, `POST /api/disconnect` | `Closed`, `Disconnect` |
| `ingestEsp32Line()`: HELLO and BYE, `pong` | `HearHello`, `HearBye`, `Pong` |
| `cleanupStaleModules()` | `CleanUp` |
| modules, cables | `Vanish`, `Greet` |

Ages count clean-up intervals and stop one beyond `StaleAfter`.

Fairness: the clean-up's interval fires, what has arrived is handled, and a socket
that its module has left closes in the end (TCP's timeout or the ping).  Nothing
makes a module connect, speak or answer a ping.

Bounds (`Registry.cfg`): one module on WiFi and one on USB, two connections and one
further greeting each, `StaleAfter` 1.  Two connections are one reconnection, which
suffices for the old close to come after the new registration; two modules suffice
for labels to collide.

| Run | Shows |
|---|---|
| `registry` | labels are unique, live modules are listed with their connection unless `robbed`, a listed USB module can be reached, and a module that has gone does not stay listed |

Proved in `RegistryProofs`, for any number of modules, connections and greetings:
types, `LabelsUnique`, `LiveListed` and `SerialSound`.  The invariant has a global
part, types and labels, and a part per address (`AddressOK`): connections are used in
the order of their numbers; no BYE is under way from a module on WiFi; a port has at
most one open connection, the one its entry knows, and no unread line from any other.
So an action of one address leaves the others' parts alone, which one lemma says for
all of them; only the clean-up touches every address.  `GoneUnlisted` is a liveness
property and model-checked only.

## Upload

`Upload` is `uploadLinesToModule()` with the module's receiver, on the connections of
`Registry`: the driver sends a line, pauses, looks for an error, and after the last
line waits for `ACK end`.  Its step `SendLine` is one line with the pause behind it;
between two of them the module may reconnect, disconnect, reboot, start and stop a
recording or be switched off.  The driver keeps the entry that it fetched at the start
(`driver.current`), also when the module has registered anew and the answers go to
the new entry.

`AtomicUpload` says what the user is promised: a module takes a sequence over whole
or not at all, only while it is asked to, and success is shown only of a sequence
that it has taken over since.  `AtomicSpec` is the refinement, under the mapping
`asked <- driver.song`; the other variables have the same names.

Fairness: the driver's timers fire, modules read what arrives, the controller
handles what arrives.

Bounds (`Upload.cfg`): one module, songs of one and two steps where the receiver has
room for two, three uploads, one reconnection, one reboot, recording or power
press.  Three uploads suffice for one that breaks off, one that meets what it left
behind, and one more.  There is at most one upload to a module at a time: the page
disables its button, although two pages are not kept apart (a hazard).  `Timely`
says that an answer that will come comes within the driver's 2.5 seconds, those on
an old connection before those on a new one; without it an upload takes the answer to
the one before for its own (another hazard).

| Run | Shows |
|---|---|
| `upload` | a module stores as many steps as the song has, only while it is asked to, and success is reported only then (`SizedSpec`); uploads end whatever happens, and after an abandoned one at most one undisturbed attempt fails |
| `upload_full` | finding: with a song of maximal length the retry of an upload that broke off stores a mix of both attempts and reports success, so that `AtomicSpec` fails |

The finding is one of the receiver: an upload whose `E` line never came leaves
`uploadingSequence` set, the retry's `U` line is refused without a word, and its steps
are appended.  A short song then fails its step count; one that fills the array
passes it.  The same mix can arise for a song of any length when the connection breaks
twice more, so larger bounds than those of `upload_full` show it too, and no run
claims `AtomicSpec`.  What may pass for a song is a parameter of `AtomicUpload`
(`Contents`): `AtomicSpec` takes nothing but the song, `SizedSpec`, which is what the code
keeps, whatever has its number of steps.

### What is proved

`UploadProofs` and `AtomicProofs` hold for any number of modules, songs, connections,
uploads, reboots, recordings and power presses.  All but the types assume `Timely`.

- Types (`UploadTypesCorrect`).  The registry's invariant is used as it stands: an
  action of `Upload` is one of `Registry` with some lines more, none of them a
  greeting.
- `RetryWorks` (`RetriesWork`).  `AnswerOK` follows an answer: there is at most one
  final answer to an upload, no line is on its way behind it, and an `ACK end` means that the
  module has taken the song over.  `RetryOK` says what the first of two undisturbed
  failures must have done: it has emptied the receiver (`Quiet`), and the second
  upload is then on track with every line (`OnTrack`), so it cannot fail.
- `SizedSpec` (`UploadsSized`): whatever happens, a module stores as many steps as
  the song has, only while it is asked to, and success is only reported if it has
  done so.
- `AtomicSpec` where every upload finds its module quiet, with no upload begun in
  its receiver and no line of one under way (`QuietUploadsAtomic`, with the condition
  `QuietRequests`).  Without the condition it is false, as the finding and the three
  connections above show, and the controller does not enforce it: an upload that
  broke off leaves a receiver that is not quiet.  The condition does not say anything
  about what happens afterwards: the connection may still break, the module reboot,
  record or be switched off while its lines are under way.  `CleanOK` is the
  invariant: what is under way and what has been collected is of the song in progress, in order,
  and nothing twice.

`UploadsEnd`, which is liveness, is model-checked only.

## Studio and MIDI import

`Studio` is the React application: pages, the requests they have under way, and what
the controller keeps for them.  Requests are served and answers handled in any order;
a request or an answer may be lost.  One action per user interface handler
(`PickSequence`, `PickForAll`, `ToggleColors`, `Delete`, and those of the import
dialog), one per route (`ServeModules` and the like), and one per continuation behind
an `await` (`Refreshed`, `Fetched`, `Uploaded`, `Recolored`, `Deleted`,
`FileImported`, `Accepted`, `EditorSaved`).  Modules come and go as `Registry` lets
them; an upload is one step, which succeeds or fails.

`MidiImport` is `midi_import.js` from the notes of a file to steps: the choice of the
transposition, of all tracks or the best one, the trimming of chords and durations.
`ImportFaithful` compares its result with a definition of its own, which says what it
means that steps play a file (`Faithful`): one step per onset in order, each with
all its pitches or the lowest that fit, moved by as few octaves as possible, nothing
refused that fits.  `LibraryPlays` holds what the library stores against what
the firmware accepts.

Ids count from 0 as the controller gives them: the seeded demos have the first ones, and
`None` stands for `null`.  Where the code tests an id for truth, the model does so too
(`Truthy`), which is false of 0: `Return` (`registerModule()`, `server.js:98`) forgets
that a module holds the first demo, and `Stale` (`App.jsx:1010`) never fetches its keyboard
after another page has uploaded it or the fetch behind an upload was lost, contrary to
the comment at `App.jsx:1006`.  That is a defect, listed as a hazard; `KeyboardFollows` is
stated, and holds, for all other ids.

In the editor users change, add, leave out and move steps (`EditDraft`), with the keys of
the longest chain (`MAX_TOTAL_KEYS`, 48), also such steps as `saveEditorSequence()`
refuses (`EditorTakes`).  So `LibraryPlays` says that a preview can be played on the two
modules that an import is made for (`KEYS`, 24), and what is in the library by the longest
chain.  The page offers a chain only sequences whose keys it has (`App.jsx:1220`), as far
as it knows the chain's length; in the model it offers all, since nothing else checks.  The developer form of the editor, which is
JSON, is not modelled.

`EditorSaved` does what the code does: `closeEditor()` sets a saved import back to
the preview, from which it can be saved once more, although a comment says the
contrary (a hazard).

Fairness: the timer fires, requests about modules are answered, by an error if need
be, and their answers handled, for each kind separately (polls; fetches for each
module; uploads and deletions).  None for users and for the import dialog, nor for the
network's losses.

Bounds (`Studio.cfg`): one page, since pages share nothing but the controller; two
modules; three sequences in the library at the start, with the ids 0 to 2; at most two polls or fetches of a
page under way when it polls, enough to overtake each other.  Users, modules and the
network share a number of acts (`Sessions`): two about modules; one about modules
and two about imports; four about imports, with a few files; or one import of any of
the some 2500 files of `SmallFiles`.  The keyboard is scaled down: octaves of two
keys, three keys from pitch 4, five keys in the longest chain, a span of at most four, three notes, two steps, two keys
per step; what users enter in the editor is a step for keys beyond two modules,
one that names a key twice and one that is too long.  So each limit can be reached and exceeded, the shift can round up and
down, and there are files that fit from below, from above, only by one track or not
at all.

| Run | Shows |
|---|---|
| `studio` | keyboards follow the controller but for id 0, controls come free, imports are faithful, and what they and the editor save can be played |

### What is proved

`MidiProofs` holds for files, keyboards, spans and octaves of any size: a file is
refused only if nothing in it fits (`RefusedRightly`), and what is made of any other
can be saved and played and is faithful to it (`ImportedRightly`).  The
proof follows the code: the limits of the shift are quotients rounded up and down, and between them
the loop finds the shift of least magnitude (`Loop`, `BestShiftIs`);
a chord keeps the lowest pitches of its onset that have a finger (`ChordIs`,
`KeptIs`); each onset makes one step, in order (`StepIs`, `ConvertedIs`); and the choice
between all tracks and the best one overlooks none (`BestTrackIs`, `ImportedIs`).  In `MidiImport` a set is
sorted by rank, and the loop over shifts is a recursive function, because the
prover cannot look into the library's sorting or into `RECURSIVE` operators;
`MAX_MIDI` is the highest pitch there is.

`StudioProofs` proves `TypeOK`, `LibraryPlays` and `ImportFaithful` for any number of
pages, modules, requests and files.  An answer is not looked at again when it comes, so
the invariant `StudioInv` follows the requests: a request for an import carries a file
and, once served, what that file is made into (`Made`); one that saves carries steps
that the longest chain can play (`Carries`); a draft holds steps of the form that the
editor offers (`DraftsSound`), so what `EditorTakes` lets pass is among them; and the dialog shows the result of the file it names
(`Shows`), whichever has been chosen since.  What a library entry may hold comes from
`ImportedRightly`.

`KeyboardFollows` and `PageFrees` are liveness and model-checked only.

## What is proved and what is model-checked

| Module | Proved for all values of the constants | Model-checked only |
|---|---|---|
| `Chain` | every safety property of its runs; for `NoSpuriousPromotion`, if `Interval < Timeout` and `Roomy` | `RolesConverge`, `CountsReach`, `BroadcastAgrees`, `LonelyBroadcastEnds` |
| `Sequencer` | every property of `sequencer` but `TeachingEnds` | `TeachingEnds` |
| `LineFramer` | `TypeOK`, `NoMixture`, `WholeLines`, `BeatsGetThrough`, `DamageContained` | `AllHeard` |
| `Registry` | types, `LabelsUnique`, `LiveListed`, `SerialSound` | `GoneUnlisted` |
| `Upload` | `TypeOK`; if `Timely`, `RetryWorks`, `SizedSpec`, and `AtomicSpec` under `QuietRequests` | `UploadsEnd` |
| `MidiImport`, `Studio` | `TypeOK`, `LibraryPlays`, `ImportFaithful` | `KeyboardFollows`, `PageFrees` |

The properties of the four violation runs (`CountsExact`, `OnlyDefaultsRefreshed`,
`HearsOn`, `AtomicSpec`) are claims of comments and documents that the code does not keep.

The proofs assume the named assumptions on constants of each module and, where the
table says so, the condition there, and nothing else.  Liveness under fairness is beyond TLAPS.

## Not modelled

The table of components in `PROJECT.json` gives the reason for each part.

- Audio is floating point in a task of its own.  LEDs, test log, self-tests, the log
  buffer, `STATUS` lines and the chain length that modules report hold no state that
  anything else reads.
- The WiFi client of the firmware is a wrapper around library calls; its reconnects
  are `Connect` and `Vanish` of `Registry`.
- Serial ports: a failed opening, and a manual opening that races the discovery.
- Registry: labels beyond the 26th.
- Database: seeding, migrations, overwriting a sequence by its id.
- Upload: two uploads to a module at once, and the route `/api/db/sequences/:id/upload` to all modules, which marks
  failed modules too (a hazard).
- Web: the editor for sequences of the library, the JSON form of the editor, the
  filter for sequences that fit a chain, the developer panels.
- The hop by hop travel of the key lines `t`, `g`, `r`, `K` and `k`, planned as
  `ChainKeys`; what they do to the module that they name is in `Sequencer`.
- The libraries under `src/Arduino/libraries` are third-party code, and most of the
  lines of the repository.
