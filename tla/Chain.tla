------------------------------- MODULE Chain --------------------------------
(***************************************************************************)
(* The daisy chain of Open Octave modules: role election by heartbeats,    *)
(* chain indices, the module count, the broadcast mode a master imposes on *)
(* its slaves, and the traffic its recordings add.                         *)
(*                                                                         *)
(* N modules lie side by side; a cable may join module i (upstream) to     *)
(* module i+1 (downstream).  Every module runs the same loop().  A UART    *)
(* link is a FIFO of messages that stands for the wire and the receiver's  *)
(* RX buffer together, so that a message in it may have been overtaken by  *)
(* a timer check of the receiver.                                          *)
(*                                                                         *)
(* A tick is HEARTBEAT_INTERVAL / Interval and longer than any pass through *)
(* loop() that does not block: the longest, a success animation and a      *)
(* record flash in one pass of a master, takes 0.8 s of a second.  What can *)
(* hold loop() up for longer is an upset of its own, Block: webSocket.loop()*)
(* while it connects (5 s), a write to a dead socket, the servo test.      *)
(***************************************************************************)
EXTENDS Integers, Sequences

CONSTANTS
  N,            \* number of modules, 0 .. N-1 in physical order
  MAX_MODULES,  \* longest supported chain
  Interval,     \* HEARTBEAT_INTERVAL in ticks
  Timeout,      \* HEARTBEAT_TIMEOUT in ticks
  LinkCap,      \* bound: messages a link holds; more are lost
  MaxUpsets,    \* bound: cable moves, power presses, reboots, blocked loops
  MaxNoise,     \* bound: upsets of a cable that come with contact noise
  MaxCommands,  \* bound: sequences started by users or the controller
  MaxRecordings,\* bound: recordings started by users
  MaxEvents     \* bound: upsets, commands and recordings together

ASSUME ChainAssumption ==
  /\ N \in Nat \ {0}
  /\ MAX_MODULES \in Nat \ {0, 1}
  /\ Interval \in Nat \ {0}
  /\ Timeout \in Nat \ {0}
  /\ LinkCap \in Nat
  /\ MaxUpsets \in Nat
  /\ MaxNoise \in Nat
  /\ MaxCommands \in Nat
  /\ MaxRecordings \in Nat
  /\ MaxEvents \in Nat

Module == 0 .. N-1
Link   == 0 .. N-2     \* link l joins module l to module l+1

VARIABLES
  on,                   \* per module: powered by its button
  blocked,              \* per module: a call in loop() takes longer than a tick
  isMaster,
  moduleChainIndex,
  numModulesInChain,
  sequenceRunning,
  currentSequenceMode,
  recording,
  noteShift,            \* octave shift configureNotes() last applied
  sentAge,              \* ticks since timeLastHeartbeatSent
  heardAge,             \* ticks since timeLastHeartbeatReceived
  replyAge,             \* ticks since timeLastHeartbeatReplyReceived
  cable,                \* per link: plugged in
  down,                 \* per link: messages travelling downstream
  up,                   \* per link: messages travelling upstream
  upsets,               \* cable moves, power presses, reboots, blocks so far
  noises,               \* upsets so far that came with contact noise
  commands,             \* sequences started so far
  recordings            \* recordings started so far

power   == <<on, blocked>>
role    == <<isMaster, moduleChainIndex, numModulesInChain>>
playing == <<sequenceRunning, currentSequenceMode, recording, noteShift>>
ages    == <<sentAge, heardAge, replyAge>>
links   == <<down, up>>
bounds  == <<upsets, noises, commands, recordings>>
vars    == <<power, role, playing, ages, cable, links, bounds>>

\* TEACHING acts on the chain as GUIDED does.
Mode == {"GUIDED", "BROADCAST"}

Heartbeat(n) == [type |-> "hb", num |-> n]
StartLine    == [type |-> "b", num |-> 0]
StopLine     == [type |-> "x", num |-> 0]
Message == [type : {"hb", "b", "x"}, num : Nat]

TypeOK ==
  /\ on \in [Module -> BOOLEAN]
  /\ blocked \in [Module -> BOOLEAN]
  /\ isMaster \in [Module -> BOOLEAN]
  /\ moduleChainIndex \in [Module -> Nat]
  /\ numModulesInChain \in [Module -> Nat]
  /\ sequenceRunning \in [Module -> BOOLEAN]
  /\ currentSequenceMode \in [Module -> Mode]
  /\ recording \in [Module -> BOOLEAN]
  /\ noteShift \in [Module -> Nat]
  /\ sentAge \in [Module -> 0 .. Interval]
  /\ heardAge \in [Module -> 0 .. Timeout]
  /\ replyAge \in [Module -> 0 .. Timeout]
  /\ cable \in [Link -> BOOLEAN]
  /\ down \in [Link -> Seq(Message)]
  /\ up \in [Link -> Seq(Message)]
  /\ upsets \in 0 .. MaxUpsets
  /\ noises \in 0 .. MaxNoise
  /\ commands \in 0 .. MaxCommands
  /\ recordings \in 0 .. MaxRecordings

-----------------------------------------------------------------------------
(* Helpers *)

\* loop() of module i gets to its chain, its buttons and its player.
Running(i) == on[i] /\ ~blocked[i]

\* The environment may still disturb, command or record.
Room == upsets + commands + recordings < MaxEvents
Upset == Room /\ upsets < MaxUpsets /\ upsets' = upsets + 1

\* The octave shift configureNotes() computes.
Shift(running, mode, index) ==
  IF running /\ mode = "BROADCAST" THEN 0 ELSE index

Broadcasting(i) == sequenceRunning[i] /\ currentSequenceMode[i] = "BROADCAST"

\* Link l of the queues q after m was written to it: a message written to an
\* unplugged or full link is lost, and so is one written where no link is.
Carry(q, l, m) ==
  IF l \in Link /\ cable[l] /\ Len(q[l]) < LinkCap
  THEN [q EXCEPT ![l] = Append(@, m)]
  ELSE q

SendDown(i, q, m) == Carry(q, i, m)
SendUp(i, q, m)   == Carry(q, i - 1, m)

\* The queues q after the receiver of link l dropped the oldest messages, those
\* that had reached its RX buffer; what was still on the wire survives.
Flushed(q, l) ==
  IF l \in Link
  THEN {[q EXCEPT ![l] = SubSeq(@, k, Len(@))] : k \in 1 .. Len(q[l]) + 1}
  ELSE {q}

\* stopSequence(): the "x" line it writes downstream, the flag it clears and the
\* octave shift it leaves.
StopSent(i, q) == IF sequenceRunning[i] THEN SendDown(i, q, StopLine) ELSE q
\* What a module that changes its role or is turned off sends first: the flash
\* that ends a recording finishes with an "x" line of its own.
FinalLines(i, q) ==
  StopSent(i, IF recording[i] THEN SendDown(i, q, StopLine) ELSE q)
StoppedShift_NotConfigured(i) == noteShift[i]
StoppedShift(i) == IF Broadcasting(i) THEN moduleChainIndex[i] ELSE noteShift[i]
Silenced_StillRunning(i) == sequenceRunning
Silenced(i) == [sequenceRunning EXCEPT ![i] = FALSE]

\* The oldest unread message of a link is a line or heartbeat of this type.
Waiting(q, l, type) == l \in Link /\ q[l] # << >> /\ Head(q[l]).type = type
Consume(q, l) == [q EXCEPT ![l] = Tail(@)]

\* Heartbeats and replies with an index no chain can have are UART noise.
Plausible_Unchecked(num) == TRUE
Plausible(num) == num < MAX_MODULES

-----------------------------------------------------------------------------
(* Handlers of the upstream port *)

IgnoreUpstreamNoise(i) ==
  /\ Running(i)
  /\ Waiting(down, i - 1, "hb")
  /\ ~Plausible(Head(down[i-1]).num)
  /\ down' = Consume(down, i - 1)
  /\ UNCHANGED <<power, role, playing, ages, cable, up, bounds>>

\* The part of handleHeartbeatFromUpstream() that slaves and masters share.
AcceptHeartbeat(i, num) ==
  /\ heardAge' = [heardAge EXCEPT ![i] = 0]
  /\ numModulesInChain' = [numModulesInChain EXCEPT ![i] = num + 1]
  /\ moduleChainIndex' = [moduleChainIndex EXCEPT ![i] = num]
  /\ UNCHANGED <<sentAge, replyAge>>

\* A slave takes its index from the heartbeat, forwards it and replies.
RefreshFromUpstream(i) ==
  /\ Running(i)
  /\ Waiting(down, i - 1, "hb")
  /\ ~isMaster[i]
  /\ LET num == Head(down[i-1]).num IN
       /\ Plausible(num)
       /\ AcceptHeartbeat(i, num)
       /\ noteShift' = IF moduleChainIndex[i] = num THEN noteShift
                       ELSE [noteShift EXCEPT ![i] =
                               Shift(sequenceRunning[i], currentSequenceMode[i], num)]
       /\ down' = SendDown(i, Consume(down, i - 1), Heartbeat(num + 1))
       /\ up' = SendUp(i, up, Heartbeat(num))
  /\ UNCHANGED <<power, isMaster, sequenceRunning, currentSequenceMode, recording,
                 cable, bounds>>

\* A master that hears a heartbeat has an upstream neighbour: it stops what it
\* plays, flushes both ports and becomes a slave.
DemoteToSlave(i) ==
  /\ Running(i)
  /\ Waiting(down, i - 1, "hb")
  /\ isMaster[i]
  /\ LET num == Head(down[i-1]).num IN
       /\ Plausible(num)
       /\ AcceptHeartbeat(i, num)
       /\ noteShift' = [noteShift EXCEPT ![i] =
                          IF moduleChainIndex[i] = num THEN StoppedShift(i)
                          ELSE Shift(FALSE, currentSequenceMode[i], num)]
       /\ \E d \in Flushed(Consume(down, i - 1), i - 1) :
            down' = SendDown(i, FinalLines(i, d), Heartbeat(num + 1))
       /\ \E u \in Flushed(up, i) : up' = SendUp(i, u, Heartbeat(num))
  /\ isMaster' = [isMaster EXCEPT ![i] = FALSE]
  /\ sequenceRunning' = Silenced(i)
  /\ recording' = [recording EXCEPT ![i] = FALSE]
  /\ UNCHANGED <<power, currentSequenceMode, cable, bounds>>

\* The "b" line: whoever reads it broadcasts, a master too.
BroadcastFromUpstream(i) ==
  /\ Running(i)
  /\ Waiting(down, i - 1, "b")
  /\ currentSequenceMode' = [currentSequenceMode EXCEPT ![i] = "BROADCAST"]
  /\ sequenceRunning' = [sequenceRunning EXCEPT ![i] = TRUE]
  /\ noteShift' = [noteShift EXCEPT ![i] = 0]
  /\ down' = SendDown(i, Consume(down, i - 1), StartLine)
  /\ UNCHANGED <<power, role, recording, ages, cable, up, bounds>>

\* Wrong: a slave obeys the "x" line and does not pass it on.
StopFromUpstream_NotForwarded(i) ==
  /\ Running(i)
  /\ Waiting(down, i - 1, "x")
  /\ IF Broadcasting(i)
       THEN /\ sequenceRunning' = Silenced(i)
            /\ noteShift' = [noteShift EXCEPT ![i] = moduleChainIndex[i]]
       ELSE UNCHANGED <<sequenceRunning, noteShift>>
  /\ down' = Consume(down, i - 1)
  /\ UNCHANGED <<power, role, currentSequenceMode, recording, ages, cable, up, bounds>>

\* The "x" line ends a broadcast and nothing else, and always travels on.
StopFromUpstream(i) ==
  /\ Running(i)
  /\ Waiting(down, i - 1, "x")
  /\ IF Broadcasting(i)
       THEN /\ sequenceRunning' = Silenced(i)
            /\ noteShift' = [noteShift EXCEPT ![i] = moduleChainIndex[i]]
       ELSE UNCHANGED <<sequenceRunning, noteShift>>
  /\ down' = SendDown(i, Consume(down, i - 1), StopLine)
  /\ UNCHANGED <<power, role, currentSequenceMode, recording, ages, cable, up, bounds>>

-----------------------------------------------------------------------------
(* Handlers of the downstream port *)

IgnoreDownstreamNoise(i) ==
  /\ Running(i)
  /\ Waiting(up, i, "hb")
  /\ ~Plausible(Head(up[i]).num)
  /\ up' = Consume(up, i)
  /\ UNCHANGED <<power, role, playing, ages, cable, down, bounds>>

\* A reply proves that a downstream neighbour lives.  It can raise the count
\* but not lower it; slaves pass it on.
ReplyFromDownstream(i) ==
  /\ Running(i)
  /\ Waiting(up, i, "hb")
  /\ LET num == Head(up[i]).num IN
       /\ Plausible(num)
       /\ replyAge' = [replyAge EXCEPT ![i] = 0]
       /\ numModulesInChain' = [numModulesInChain EXCEPT ![i] =
                                  IF num + 1 > @ THEN num + 1 ELSE @]
       /\ up' = IF isMaster[i] THEN Consume(up, i)
                               ELSE SendUp(i, Consume(up, i), Heartbeat(num))
  /\ UNCHANGED <<power, isMaster, moduleChainIndex, playing, sentAge, heardAge,
                 cable, down, bounds>>

-----------------------------------------------------------------------------
(* Timers *)

UpstreamLost_Early(i) == ~isMaster[i] /\ heardAge[i] >= Interval
UpstreamLost_Never(i) == FALSE
UpstreamLost(i) == ~isMaster[i] /\ heardAge[i] >= Timeout

DownstreamLost_Early(i) == /\ numModulesInChain[i] > moduleChainIndex[i] + 1
                           /\ replyAge[i] >= Interval
DownstreamLost(i) == /\ numModulesInChain[i] > moduleChainIndex[i] + 1
                     /\ replyAge[i] >= Timeout

HeartbeatDue(i) == isMaster[i] /\ sentAge[i] >= Interval

PromoteToMaster(i) ==
  /\ Running(i)
  /\ UpstreamLost(i)
  /\ isMaster' = [isMaster EXCEPT ![i] = TRUE]
  /\ moduleChainIndex' = [moduleChainIndex EXCEPT ![i] = 0]
  /\ numModulesInChain' = [numModulesInChain EXCEPT ![i] = 1]
  /\ sequenceRunning' = Silenced(i)
  /\ noteShift' = [noteShift EXCEPT ![i] = 0]
  /\ sentAge' = [sentAge EXCEPT ![i] = 0]
  /\ replyAge' = [replyAge EXCEPT ![i] = 0]
  /\ recording' = [recording EXCEPT ![i] = FALSE]
  /\ \E d \in Flushed(down, i - 1) : down' = FinalLines(i, d)
  /\ up' \in Flushed(up, i)
  /\ UNCHANGED <<power, currentSequenceMode, heardAge, cable, bounds>>

\* Wrong: the count is reset and the broadcast goes on.
CheckHeartbeatReply_NoAbort(i) ==
  /\ Running(i)
  /\ DownstreamLost(i)
  /\ numModulesInChain' = [numModulesInChain EXCEPT ![i] = moduleChainIndex[i] + 1]
  /\ UNCHANGED <<power, isMaster, moduleChainIndex, playing, ages, cable, links, bounds>>

\* No reply for a while: the module counts up to itself, and a master left
\* alone ends its broadcast.
CheckHeartbeatReply(i) ==
  /\ Running(i)
  /\ DownstreamLost(i)
  /\ numModulesInChain' = [numModulesInChain EXCEPT ![i] = moduleChainIndex[i] + 1]
  /\ IF isMaster[i] /\ Broadcasting(i) /\ moduleChainIndex[i] = 0
       THEN /\ sequenceRunning' = Silenced(i)
            /\ noteShift' = [noteShift EXCEPT ![i] = StoppedShift(i)]
            /\ down' = StopSent(i, down)
       ELSE UNCHANGED <<sequenceRunning, noteShift, down>>
  /\ UNCHANGED <<power, isMaster, moduleChainIndex, currentSequenceMode, recording,
                 ages, cable, up, bounds>>

\* Wrong: the heartbeat names the place on the wrong side of the sender, the
\* sender's own, or one place too far.
SendHeartbeat_TooFar(i) ==
  /\ Running(i)
  /\ HeartbeatDue(i)
  /\ down' = SendDown(i, down, Heartbeat(moduleChainIndex[i] + 2))
  /\ sentAge' = [sentAge EXCEPT ![i] = 0]
  /\ UNCHANGED <<power, role, playing, heardAge, replyAge, cable, up, bounds>>

SendHeartbeat_WrongSide(i) ==
  /\ Running(i)
  /\ HeartbeatDue(i)
  /\ down' = SendDown(i, down, Heartbeat(moduleChainIndex[i] - 1))
  /\ sentAge' = [sentAge EXCEPT ![i] = 0]
  /\ UNCHANGED <<power, role, playing, heardAge, replyAge, cable, up, bounds>>

SendHeartbeat_OwnIndex(i) ==
  /\ Running(i)
  /\ HeartbeatDue(i)
  /\ down' = SendDown(i, down, Heartbeat(moduleChainIndex[i]))
  /\ sentAge' = [sentAge EXCEPT ![i] = 0]
  /\ UNCHANGED <<power, role, playing, heardAge, replyAge, cable, up, bounds>>

SendHeartbeat(i) ==
  /\ Running(i)
  /\ HeartbeatDue(i)
  /\ down' = SendDown(i, down, Heartbeat(moduleChainIndex[i] + 1))
  /\ sentAge' = [sentAge EXCEPT ![i] = 0]
  /\ UNCHANGED <<power, role, playing, heardAge, replyAge, cable, up, bounds>>

\* The call that blocked loop() comes back.
Resume(i) ==
  /\ blocked[i]
  /\ blocked' = [blocked EXCEPT ![i] = FALSE]
  /\ UNCHANGED <<on, role, playing, ages, cable, links, bounds>>

\* One thing loop() may do next on module i.
Loop(i) ==
  \/ Resume(i)
  \/ IgnoreUpstreamNoise(i)
  \/ RefreshFromUpstream(i)
  \/ DemoteToSlave(i)
  \/ BroadcastFromUpstream(i)
  \/ StopFromUpstream(i)
  \/ IgnoreDownstreamNoise(i)
  \/ ReplyFromDownstream(i)
  \/ PromoteToMaster(i)
  \/ CheckHeartbeatReply(i)
  \/ SendHeartbeat(i)

-----------------------------------------------------------------------------
(* Users and the controller *)

\* startSequence() of the head of a chain.
StartSequence(i, mode) ==
  /\ Running(i)
  /\ isMaster[i]
  /\ ~sequenceRunning[i]
  /\ commands < MaxCommands /\ Room
  /\ sequenceRunning' = [sequenceRunning EXCEPT ![i] = TRUE]
  /\ currentSequenceMode' = [currentSequenceMode EXCEPT ![i] = mode]
  /\ down' = IF mode = "BROADCAST" THEN SendDown(i, down, StartLine) ELSE down
  /\ commands' = commands + 1
  /\ UNCHANGED <<power, role, recording, noteShift, ages, cable, up,
                 upsets, noises, recordings>>

\* The "x" command, or the last step of a guided or teaching sequence.
StopSequence(i) ==
  /\ Running(i)
  /\ isMaster[i]
  /\ sequenceRunning[i]
  /\ down' = StopSent(i, down)
  /\ noteShift' = [noteShift EXCEPT ![i] = StoppedShift(i)]
  /\ sequenceRunning' = Silenced(i)
  /\ UNCHANGED <<power, role, currentSequenceMode, recording, ages, cable, up, bounds>>

\* The record button; the flash that signals it ends with an "x" line, which the
\* slaves obey.
StartRecording(i) ==
  /\ Running(i)
  /\ isMaster[i]
  /\ ~sequenceRunning[i] /\ ~recording[i]
  /\ recordings < MaxRecordings /\ Room
  /\ recording' = [recording EXCEPT ![i] = TRUE]
  /\ down' = SendDown(i, down, StopLine)
  /\ recordings' = recordings + 1
  /\ UNCHANGED <<power, role, sequenceRunning, currentSequenceMode, noteShift, ages,
                 cable, up, upsets, noises, commands>>

\* The record button while nothing plays, or a key press when MAX_SEQUENCE_LENGTH
\* steps are captured, whatever plays.
StopRecording(i) ==
  /\ Running(i)
  /\ isMaster[i]
  /\ recording[i]
  /\ recording' = [recording EXCEPT ![i] = FALSE]
  /\ down' = SendDown(i, down, StopLine)
  /\ UNCHANGED <<power, role, sequenceRunning, currentSequenceMode, noteShift, ages,
                 cable, up, bounds>>

\* A button press turns a module off: it goes deaf until it is turned on.
PowerOff(i) ==
  /\ Running(i)
  /\ Upset
  /\ on' = [on EXCEPT ![i] = FALSE]
  /\ down' = FinalLines(i, down)
  /\ noteShift' = [noteShift EXCEPT ![i] = StoppedShift(i)]
  /\ sequenceRunning' = Silenced(i)
  /\ recording' = [recording EXCEPT ![i] = FALSE]
  /\ UNCHANGED <<blocked, role, currentSequenceMode, ages, cable, up, noises,
                 commands, recordings>>

PowerOn(i) ==
  /\ ~on[i] /\ ~blocked[i]
  /\ on' = [on EXCEPT ![i] = TRUE]
  /\ UNCHANGED <<blocked, role, playing, ages, cable, links, bounds>>

\* A call in loop() takes longer than a tick.  For a slave this is disconnectWifi() of its
\* demotion (the code restarts heardAge after it; the model lets it run on).
Block(i) ==
  /\ ~blocked[i]
  /\ Upset
  /\ blocked' = [blocked EXCEPT ![i] = TRUE]
  /\ UNCHANGED <<on, role, playing, ages, cable, links, noises, commands, recordings>>

\* Reset of the board: setup() runs with the globals' initial values and waits
\* for the WiFi; the RX buffers are gone.  Nothing is sent to the neighbours.
Reboot(i) ==
  /\ Upset
  /\ on' = [on EXCEPT ![i] = TRUE]
  /\ blocked' = [blocked EXCEPT ![i] = TRUE]
  /\ isMaster' = [isMaster EXCEPT ![i] = TRUE]
  /\ moduleChainIndex' = [moduleChainIndex EXCEPT ![i] = 0]
  /\ numModulesInChain' = [numModulesInChain EXCEPT ![i] = 1]
  /\ sequenceRunning' = Silenced(i)
  /\ currentSequenceMode' = [currentSequenceMode EXCEPT ![i] = "GUIDED"]
  /\ recording' = [recording EXCEPT ![i] = FALSE]
  /\ noteShift' = [noteShift EXCEPT ![i] = 0]
  /\ sentAge' = [sentAge EXCEPT ![i] = Interval]
  /\ heardAge' = [heardAge EXCEPT ![i] = Timeout]
  /\ replyAge' = [replyAge EXCEPT ![i] = Timeout]
  /\ down' \in Flushed(down, i - 1)
  /\ up' \in Flushed(up, i)
  /\ UNCHANGED <<cable, noises, commands, recordings>>

\* The queues of link l, with contact noise at one of its ports or without: a
\* pair of bytes that reads as a heartbeat with any index.  MAX_MODULES stands
\* for all those that no module accepts.
Noise(l, d, u) ==
  \/ /\ down' = d
     /\ up' = u
     /\ UNCHANGED noises
  \/ /\ noises < MaxNoise
     /\ noises' = noises + 1
     /\ \E n \in 0 .. MAX_MODULES :
          \/ /\ down' = [d EXCEPT ![l] = Append(@, Heartbeat(n))]
             /\ up' = u
          \/ /\ down' = d
             /\ up' = [u EXCEPT ![l] = Append(@, Heartbeat(n))]

Plug(l) ==
  /\ ~cable[l]
  /\ Upset
  /\ cable' = [cable EXCEPT ![l] = TRUE]
  /\ Noise(l, down, up)
  /\ UNCHANGED <<power, role, playing, ages, commands, recordings>>

\* What was on the wire, the newest messages of the two queues, is lost.
Unplug(l) ==
  /\ cable[l]
  /\ Upset
  /\ cable' = [cable EXCEPT ![l] = FALSE]
  /\ \E j \in 0 .. Len(down[l]), k \in 0 .. Len(up[l]) :
       Noise(l, [down EXCEPT ![l] = SubSeq(@, 1, j)], [up EXCEPT ![l] = SubSeq(@, 1, k)])
  /\ UNCHANGED <<power, role, playing, ages, commands, recordings>>

-----------------------------------------------------------------------------
(* Time *)

Older(age, limit) == [i \in Module |-> IF age[i] < limit THEN age[i] + 1 ELSE limit]

\* Module i has something to do before the next tick.
Busy(i) ==
  /\ Running(i)
  /\ \/ i - 1 \in Link /\ down[i-1] # << >>
     \/ i \in Link /\ up[i] # << >>
     \/ UpstreamLost(i)
     \/ DownstreamLost(i)
     \/ HeartbeatDue(i)

Tick ==
  /\ \A i \in Module : ~Busy(i)
  /\ sentAge' = Older(sentAge, Interval)
  /\ heardAge' = Older(heardAge, Timeout)
  /\ replyAge' = Older(replyAge, Timeout)
  /\ UNCHANGED <<power, role, playing, cable, links, bounds>>

-----------------------------------------------------------------------------
(* All modules have just booted; any cables may be in place. *)
Init ==
  /\ on = [i \in Module |-> TRUE]
  /\ blocked = [i \in Module |-> FALSE]
  /\ isMaster = [i \in Module |-> TRUE]
  /\ moduleChainIndex = [i \in Module |-> 0]
  /\ numModulesInChain = [i \in Module |-> 1]
  /\ sequenceRunning = [i \in Module |-> FALSE]
  /\ currentSequenceMode = [i \in Module |-> "GUIDED"]
  /\ recording = [i \in Module |-> FALSE]
  /\ noteShift = [i \in Module |-> 0]
  /\ sentAge = [i \in Module |-> Interval]
  /\ heardAge = [i \in Module |-> Timeout]
  /\ replyAge = [i \in Module |-> Timeout]
  /\ cable \in [Link -> BOOLEAN]
  /\ down = [l \in Link |-> << >>]
  /\ up = [l \in Link |-> << >>]
  /\ upsets = 0
  /\ noises = 0
  /\ commands = 0
  /\ recordings = 0

Environment ==
  \/ \E i \in Module : \E mode \in Mode : StartSequence(i, mode)
  \/ \E i \in Module : StopSequence(i)
  \/ \E i \in Module : StartRecording(i)
  \/ \E i \in Module : StopRecording(i)
  \/ \E i \in Module : PowerOff(i)
  \/ \E i \in Module : PowerOn(i)
  \/ \E i \in Module : Block(i)
  \/ \E i \in Module : Reboot(i)
  \/ \E l \in Link : Plug(l)
  \/ \E l \in Link : Unplug(l)

Next ==
  \/ \E i \in Module : Loop(i)
  \/ Environment
  \/ Tick

\* loop() runs forever on every module: every call that blocks it has a timeout.
\* And time passes.
Fairness ==
  /\ \A i \in Module : WF_vars(Loop(i))
  /\ WF_vars(Tick)

Spec     == Init /\ [][Next]_vars
LiveSpec == Spec /\ Fairness

-----------------------------------------------------------------------------
\* Module l hears its upstream side and passes heartbeats on to module l+1.
Linked(l) == cable[l] /\ on[l]

\* The leftmost module that module i is joined to, and the number of modules
\* joined to module i on its right, i included.
Leftmost(i) == CHOOSE h \in 0 .. i : /\ h = 0 \/ ~Linked(h - 1)
                                     /\ \A l \in h .. i - 1 : Linked(l)
ChainSize(i) == LET last == CHOOSE j \in i .. N - 1 :
                              /\ \A l \in i .. j - 1 : cable[l] /\ on[l+1]
                              /\ j = N - 1 \/ ~(cable[j] /\ on[j+1])
                    size == last - i + 1
                IN IF size < MAX_MODULES THEN size ELSE MAX_MODULES

(* Safety *)

\* A module that leads a chain has index 0, and no slave has unless noise said
\* so: the master alone addresses keys 0 .. 11.
MasterHasIndexZero ==
  \A i \in Module : /\ isMaster[i] => moduleChainIndex[i] = 0
                    /\ noises = 0 /\ moduleChainIndex[i] = 0 => isMaster[i]

\* Whatever the neighbours and the noise on a cable say, a module's keys and the
\* keys of all modules it counts lie in the MAX_TOTAL_KEYS arrays, and it counts
\* at least itself.
AddressesInRange ==
  \A i \in Module : /\ moduleChainIndex[i] < numModulesInChain[i]
                    /\ numModulesInChain[i] <= MAX_MODULES

\* The octave a module sounds is the one its index asks for, and the base octave
\* exactly while it broadcasts, through all role changes, stops and restarts.
NotesMatch ==
  \A i \in Module : noteShift[i] = Shift(sequenceRunning[i],
                                         currentSequenceMode[i],
                                         moduleChainIndex[i])

\* A slave plays and records nothing of its own: if it runs, it follows a
\* broadcast.
SlavesOnlyBroadcast ==
  \A i \in Module : ~isMaster[i] => /\ ~recording[i]
                                    /\ sequenceRunning[i] => Broadcasting(i)

\* Without noise an index never exceeds the number of modules to the left: no
\* heartbeat is counted twice, and no module believes in neighbours that cannot
\* exist.
IndexWithinReach == noises = 0 => \A i \in Module : moduleChainIndex[i] <= i

\* A module that changes its role falls silent in the same step.
RoleChangeSilences ==
  [][\A i \in Module : isMaster'[i] # isMaster[i] => ~sequenceRunning'[i]]_vars

\* Until a cable moves, a module goes off or a loop blocks, a slave stays a slave:
\* a heartbeat each Interval keeps checkHeartbeat() quiet.  (The module beyond a
\* full chain is offered no index.)
NoSpuriousPromotion ==
  [][upsets' = 0 => \A i \in Module :
       isMaster'[i] => isMaster[i] \/ i - Leftmost(i) >= MAX_MODULES]_vars

-----------------------------------------------------------------------------
(* Liveness: what the chain settles on once nothing disturbs it any more *)

\* Every module ends up with its place in the chain it is part of as index; the
\* leftmost one becomes the master.  A module beyond MAX_MODULES leads a chain
\* of its own.
RolesConverge ==
  <>[](\A i \in Module :
         on[i] => moduleChainIndex[i] = (i - Leftmost(i)) % MAX_MODULES)

\* A master finally knows of every module behind it, and of none when there is
\* none; ...
CountsReach ==
  <>[](\A i \in Module :
         on[i] /\ isMaster[i] =>
           /\ numModulesInChain[i] >= ChainSize(i)
           /\ ChainSize(i) = 1 => numModulesInChain[i] = 1)

\* ... and of no other: the comment in handleHeartbeatFromDownstream() says that
\* "the timeout in checkHeartbeatReply() handles the count going DOWN (module
\* removal)".  It does not: see NoneOvercounted in ChainProofs for what holds.
CountsExact ==
  <>[](\A i \in Module :
         on[i] /\ isMaster[i] => numModulesInChain[i] = ChainSize(i))

\* In a chain that nothing upsets and where nobody records, the slaves of module
\* 0 end up broadcasting exactly if module 0 does.
BroadcastAgrees ==
  [](upsets = 0 /\ recordings = 0)
    => <>[](\A i \in Module : Broadcasting(i) = Broadcasting(0))

\* A broadcast whose last listener is unplugged is aborted.
LonelyBroadcastEnds ==
  (Broadcasting(0) /\ numModulesInChain[0] > 1 /\ ~cable[0])
    ~> (~Broadcasting(0) \/ cable[0] \/ ~on[0])
=============================================================================
