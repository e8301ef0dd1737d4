---------------------------- MODULE ChainProofs -----------------------------
(***************************************************************************)
(* The safety invariants of Chain, for every number of modules and every   *)
(* setting of its constants; then what holds until something upsets one:   *)
(* no slave promotes itself without reason, a place that has been reached  *)
(* is kept, nobody is counted who is not there, and all modules are in one    *)
(* mode as soon as every line has been read.                               *)
(***************************************************************************)
EXTENDS MCChain, SequenceTheorems, WellFoundedInduction, TLAPS

(* What may travel downstream on link l: until there is noise, no heartbeat   *)
(* offers an index that is 0 or lies beyond the modules to the left.         *)
DownMessages ==
  [l \in Link |-> {m \in Message : m.type = "hb" =>
                     \/ noises # 0
                     \/ m.num \in 1 .. l + 1
                     \/ m.num >= MAX_MODULES}]
AnyMessages == [l \in Link |-> Message]

\* Every queue of q holds messages that D allows on its link.
QueuesOK(q, D) == /\ q \in [Link -> Seq(Message)]
                  /\ \A l \in Link : q[l] \in Seq(D[l])

IInv == /\ TypeOK
        /\ QueuesOK(down, DownMessages)
        /\ MasterHasIndexZero
        /\ AddressesInRange
        /\ NotesMatch
        /\ SlavesOnlyBroadcast
        /\ IndexWithinReach
        /\ noises <= upsets

-----------------------------------------------------------------------------
(* Queues *)

LEMMA MessagesAllowed ==
  /\ DownMessages \in [Link -> SUBSET Message]
  /\ AnyMessages \in [Link -> SUBSET Message]
  BY DEF DownMessages, AnyMessages

LEMMA PlainMessages ==
  /\ StartLine \in Message
  /\ StopLine \in Message
  /\ \A n \in Nat : Heartbeat(n) \in Message
  BY DEF StartLine, StopLine, Heartbeat, Message

\* Replacing one queue by an allowed one keeps all queues allowed.
LEMMA ReplaceOK ==
  ASSUME NEW D \in [Link -> SUBSET Message], NEW q, QueuesOK(q, D),
         NEW l \in Link, NEW s \in Seq(D[l])
  PROVE  QueuesOK([q EXCEPT ![l] = s], D)
<1>1. s \in Seq(Message)
  <2>1. D[l] \subseteq Message
    OBVIOUS
  <2>2. QED
    BY <2>1, SeqMonotonic
<1>2. QED
  BY <1>1 DEF QueuesOK

LEMMA CarryOK ==
  ASSUME NEW D \in [Link -> SUBSET Message], NEW q, QueuesOK(q, D),
         NEW l, NEW m, l \in Link /\ cable[l] => m \in D[l]
  PROVE  QueuesOK(Carry(q, l, m), D)
<1>1. CASE l \in Link /\ cable[l] /\ Len(q[l]) < LinkCap
  <2>1. Append(q[l], m) \in Seq(D[l])
    BY <1>1 DEF QueuesOK
  <2>2. QED
    BY <1>1, <2>1, ReplaceOK DEF Carry
<1>2. QED
  BY <1>1 DEF Carry

LEMMA ConsumeOK ==
  ASSUME NEW D \in [Link -> SUBSET Message], NEW q, QueuesOK(q, D),
         NEW l, NEW type, Waiting(q, l, type)
  PROVE  /\ l \in Link
         /\ Head(q[l]) \in D[l]
         /\ Head(q[l]).type = type
         /\ QueuesOK(Consume(q, l), D)
<1>1. l \in Link /\ q[l] \in Seq(D[l]) /\ q[l] # << >>
  BY DEF Waiting, QueuesOK
<1>2. Head(q[l]) \in D[l] /\ Tail(q[l]) \in Seq(D[l])
  BY <1>1
<1>3. QED
  BY <1>1, <1>2, ReplaceOK DEF Waiting, Consume

LEMMA FlushedOK ==
  ASSUME NEW D \in [Link -> SUBSET Message], NEW q, QueuesOK(q, D),
         NEW l, NEW r \in Flushed(q, l)
  PROVE  QueuesOK(r, D)
<1>1. CASE l \in Link
  <2>1. PICK k \in 1 .. Len(q[l]) + 1 : r = [q EXCEPT ![l] = SubSeq(q[l], k, Len(q[l]))]
    BY <1>1 DEF Flushed
  <2>2. q[l] \in Seq(D[l])
    BY <1>1 DEF QueuesOK
  <2>3. SubSeq(q[l], k, Len(q[l])) \in Seq(D[l])
    <3>1. Len(q[l]) \in Nat
      BY <2>2
    <3>2. \A n \in k .. Len(q[l]) : q[l][n] \in D[l]
      BY <2>2, <3>1
    <3>3. k \in Int /\ Len(q[l]) \in Int
      BY <3>1
    <3>4. QED
      BY <3>2, <3>3, SubSeqProperties, Zenon
  <2>4. QED
    BY <1>1, <2>1, <2>3, ReplaceOK
<1>2. CASE l \notin Link
  BY <1>2 DEF Flushed
<1>3. QED
  BY <1>1, <1>2

\* The queues going upstream may hold any message.
LEMMA UpOK ==
  ASSUME IInv
  PROVE  QueuesOK(up, AnyMessages)
  BY DEF IInv, TypeOK, QueuesOK, AnyMessages

\* The messages a module sends downstream are allowed on the link to its right.
LEMMA SentAllowed ==
  ASSUME NEW l \in Link
  PROVE  /\ StartLine \in DownMessages[l]
         /\ StopLine \in DownMessages[l]
         /\ \A n \in Nat : noises # 0 \/ n \in 1 .. l + 1
                            => Heartbeat(n) \in DownMessages[l]
  BY DEF StartLine, StopLine, Heartbeat, Message, DownMessages, Link

\* What the invariant says of a plausible heartbeat at the head of the
\* upstream port.
LEMMA HeartbeatHeard ==
  ASSUME IInv, NEW i \in Module, Waiting(down, i - 1, "hb"),
         Plausible(Head(down[i-1]).num)
  PROVE  /\ i - 1 \in Link
         /\ Head(down[i-1]).num \in Nat
         /\ noises = 0 => Head(down[i-1]).num \in 1 .. i
         /\ Head(down[i-1]).num < MAX_MODULES
         /\ QueuesOK(Consume(down, i - 1), DownMessages)
<1>1. /\ i - 1 \in Link
      /\ Head(down[i-1]) \in DownMessages[i-1]
      /\ Head(down[i-1]).type = "hb"
      /\ QueuesOK(Consume(down, i - 1), DownMessages)
  BY MessagesAllowed, ConsumeOK DEF IInv
<1>2. Head(down[i-1]).num \in Nat
  BY <1>1, MessagesAllowed DEF Message
<1>3. QED
  BY <1>1, <1>2, ChainAssumption DEF Plausible, DownMessages, Link, Module

-----------------------------------------------------------------------------
(* Steps of one module *)

\* The part of the invariant that is about one module.
ModuleOK(i) ==
  /\ on[i] \in BOOLEAN
  /\ isMaster[i] \in BOOLEAN
  /\ moduleChainIndex[i] \in Nat
  /\ numModulesInChain[i] \in Nat
  /\ sequenceRunning[i] \in BOOLEAN
  /\ currentSequenceMode[i] \in Mode
  /\ recording[i] \in BOOLEAN
  /\ noteShift[i] \in Nat
  /\ sentAge[i] \in 0 .. Interval
  /\ heardAge[i] \in 0 .. Timeout
  /\ replyAge[i] \in 0 .. Timeout
  /\ isMaster[i] => moduleChainIndex[i] = 0
  /\ noises = 0 /\ moduleChainIndex[i] = 0 => isMaster[i]
  /\ noises = 0 => moduleChainIndex[i] <= i
  /\ moduleChainIndex[i] < numModulesInChain[i]
  /\ numModulesInChain[i] <= MAX_MODULES
  /\ noteShift[i] = Shift(sequenceRunning[i], currentSequenceMode[i],
                          moduleChainIndex[i])
  /\ sequenceRunning[i] /\ ~isMaster[i] => currentSequenceMode[i] = "BROADCAST"
  /\ recording[i] => isMaster[i]

\* A step that leaves the state of every module but i alone.
OnlyModule(i) ==
  /\ noises' = noises
  /\ \A j \in Module \ {i} :
       /\ on'[j] = on[j]
       /\ isMaster'[j] = isMaster[j]
       /\ moduleChainIndex'[j] = moduleChainIndex[j]
       /\ numModulesInChain'[j] = numModulesInChain[j]
       /\ sequenceRunning'[j] = sequenceRunning[j]
       /\ currentSequenceMode'[j] = currentSequenceMode[j]
       /\ recording'[j] = recording[j]
       /\ noteShift'[j] = noteShift[j]

SharedOK ==
  /\ cable \in [Link -> BOOLEAN]
  /\ QueuesOK(down, DownMessages)
  /\ QueuesOK(up, AnyMessages)
  /\ upsets \in 0 .. MaxUpsets
  /\ commands \in 0 .. MaxCommands
  /\ noises \in 0 .. MaxNoise
  /\ noises <= upsets
  /\ recordings \in 0 .. MaxRecordings

Functions ==
  /\ on \in [Module -> BOOLEAN]
  /\ blocked \in [Module -> BOOLEAN]
  /\ isMaster \in [Module -> BOOLEAN]
  /\ moduleChainIndex \in [Module -> Nat]
  /\ numModulesInChain \in [Module -> Nat]
  /\ sequenceRunning \in [Module -> BOOLEAN]
  /\ currentSequenceMode \in [Module -> Mode]
  /\ recording \in [Module -> BOOLEAN]
  /\ noteShift \in [Module -> Nat]
  /\ sentAge \in [Module -> 0 .. Interval]
  /\ heardAge \in [Module -> 0 .. Timeout]
  /\ replyAge \in [Module -> 0 .. Timeout]

LEMMA Here ==
  ASSUME IInv, NEW i \in Module
  PROVE  ModuleOK(i) /\ Functions /\ SharedOK
<1>1. Functions
  BY DEF IInv, TypeOK, Functions
<1>2. SharedOK
  BY UpOK DEF IInv, TypeOK, SharedOK
<1>3. /\ isMaster[i] => moduleChainIndex[i] = 0
      /\ noises = 0 /\ moduleChainIndex[i] = 0 => isMaster[i]
      /\ noises = 0 => moduleChainIndex[i] <= i
      /\ moduleChainIndex[i] < numModulesInChain[i]
      /\ numModulesInChain[i] <= MAX_MODULES
      /\ noteShift[i] = Shift(sequenceRunning[i], currentSequenceMode[i],
                              moduleChainIndex[i])
      /\ sequenceRunning[i] /\ ~isMaster[i] => currentSequenceMode[i] = "BROADCAST"
      /\ recording[i] => isMaster[i]
  BY DEF IInv, MasterHasIndexZero, IndexWithinReach, AddressesInRange, NotesMatch,
         SlavesOnlyBroadcast, Broadcasting
<1>4. QED
  BY <1>1, <1>2, <1>3 DEF ModuleOK, Functions

LEMMA OneModule ==
  ASSUME IInv, NEW i \in Module, OnlyModule(i), ModuleOK(i)', Functions', SharedOK'
  PROVE  IInv'
<1>1. TypeOK'
  BY DEF TypeOK, Functions, SharedOK, QueuesOK
<1>2. MasterHasIndexZero'
  BY DEF IInv, OnlyModule, MasterHasIndexZero, ModuleOK
<1>3. AddressesInRange'
  BY DEF IInv, OnlyModule, AddressesInRange, ModuleOK
<1>4. NotesMatch'
  BY DEF IInv, OnlyModule, NotesMatch, ModuleOK
<1>5. SlavesOnlyBroadcast'
  BY DEF IInv, OnlyModule, SlavesOnlyBroadcast, Broadcasting, ModuleOK
<1>6. IndexWithinReach'
  BY DEF IInv, OnlyModule, IndexWithinReach, ModuleOK
<1>7. QED
  BY <1>1, <1>2, <1>3, <1>4, <1>5, <1>6 DEF IInv, SharedOK, DownMessages

\* stopSequence() leaves the octave the index asks for and sends at most an "x".
LEMMA Stopped ==
  ASSUME IInv, NEW i \in Module
  PROVE  /\ StoppedShift(i) = moduleChainIndex[i]
         /\ Silenced(i) \in [Module -> BOOLEAN]
         /\ \A j \in Module : Silenced(i)[j] = (j # i /\ sequenceRunning[j])
         /\ \A q : QueuesOK(q, DownMessages) =>
                     /\ QueuesOK(StopSent(i, q), DownMessages)
                     /\ QueuesOK(FinalLines(i, q), DownMessages)
<1>1. ModuleOK(i) /\ Functions
  BY Here
<1>2. StoppedShift(i) = moduleChainIndex[i]
  BY <1>1 DEF ModuleOK, StoppedShift, Shift, Broadcasting
<1>3. /\ Silenced(i) \in [Module -> BOOLEAN]
      /\ \A j \in Module : Silenced(i)[j] = (j # i /\ sequenceRunning[j])
  BY <1>1 DEF Functions, Silenced
<1>4. ASSUME NEW q, QueuesOK(q, DownMessages)
      PROVE  QueuesOK(StopSent(i, q), DownMessages)
  <2>1. i \in Link => StopLine \in DownMessages[i]
    BY SentAllowed
  <2>2. QED
    BY <1>4, <2>1, MessagesAllowed, CarryOK DEF StopSent, SendDown
<1>5. ASSUME NEW q, QueuesOK(q, DownMessages)
      PROVE  QueuesOK(FinalLines(i, q), DownMessages)
  <2>1. QueuesOK(SendDown(i, q, StopLine), DownMessages)
    BY <1>5, SentAllowed, MessagesAllowed, CarryOK DEF SendDown
  <2>2. QED
    BY <1>4, <1>5, <2>1 DEF FinalLines
<1>6. QED
  BY <1>2, <1>3, <1>4, <1>5

\* Every operation preserves the invariant.
LEMMA RefreshPreserves ==
  ASSUME IInv, NEW i \in Module, RefreshFromUpstream(i)
  PROVE  IInv'
<1>1. PICK num \in Nat :
        /\ noises = 0 => num \in 1 .. i
        /\ num < MAX_MODULES
        /\ QueuesOK(Consume(down, i - 1), DownMessages)
        /\ AcceptHeartbeat(i, num)
        /\ noteShift' = IF moduleChainIndex[i] = num THEN noteShift
                        ELSE [noteShift EXCEPT ![i] =
                                Shift(sequenceRunning[i], currentSequenceMode[i], num)]
        /\ down' = SendDown(i, Consume(down, i - 1), Heartbeat(num + 1))
        /\ up' = SendUp(i, up, Heartbeat(num))
  BY HeartbeatHeard DEF RefreshFromUpstream, power
<1>2. /\ num \in Nat /\ num + 1 \in Nat
      /\ noises = 0 => num # 0 /\ num <= i /\ num + 1 \in 1 .. i + 1
      /\ num < num + 1 /\ num + 1 <= MAX_MODULES
      /\ 0 \in 0 .. Timeout
  BY <1>1, ChainAssumption DEF Module
<1>3. QueuesOK(down', DownMessages)
  <2>1. i \in Link => Heartbeat(num + 1) \in DownMessages[i]
    BY <1>2, SentAllowed
  <2>2. QED
    BY <1>1, <2>1, MessagesAllowed, CarryOK DEF SendDown
<1>4. QueuesOK(up', AnyMessages)
  <2>1. i - 1 \in Link => Heartbeat(num) \in AnyMessages[i-1]
    BY <1>2, PlainMessages DEF AnyMessages
  <2>2. QED
    BY <1>1, <2>1, UpOK, MessagesAllowed, CarryOK DEF SendUp
<1>5. SharedOK'
  BY <1>3, <1>4, Here DEF RefreshFromUpstream, SharedOK, bounds, DownMessages, AnyMessages, power
<1>6. Functions /\ ModuleOK(i)
  BY Here
<1>7. OnlyModule(i)
  BY <1>1, <1>6 DEF RefreshFromUpstream, AcceptHeartbeat, Functions, OnlyModule, power, bounds
<1>8. Functions'
  BY <1>1, <1>2, <1>6 DEF RefreshFromUpstream, AcceptHeartbeat, Functions, Shift, power
<1>9. ModuleOK(i)'
  BY <1>1, <1>2, <1>6 DEF RefreshFromUpstream, AcceptHeartbeat, Functions, ModuleOK, Shift, power, bounds
<1>10. QED
  BY <1>5, <1>7, <1>8, <1>9, OneModule

LEMMA IgnoreUpstreamPreserves ==
  ASSUME IInv, NEW i \in Module, IgnoreUpstreamNoise(i)
  PROVE  IInv'
<1>1. QueuesOK(down', DownMessages)
  BY MessagesAllowed, ConsumeOK DEF IInv, IgnoreUpstreamNoise, power
<1>2. Functions /\ ModuleOK(i) /\ SharedOK
  BY Here
<1>3. SharedOK'
  BY <1>1, <1>2 DEF IgnoreUpstreamNoise, SharedOK, bounds, DownMessages, AnyMessages, power
<1>4. OnlyModule(i) /\ Functions' /\ ModuleOK(i)'
  BY <1>2 DEF IgnoreUpstreamNoise, role, playing, ages, OnlyModule, Functions, ModuleOK, power, bounds
<1>5. QED
  BY <1>3, <1>4, OneModule

LEMMA DemotePreserves ==
  ASSUME IInv, NEW i \in Module, DemoteToSlave(i)
  PROVE  IInv'
<1>1. PICK num \in Nat :
        /\ noises = 0 => num \in 1 .. i
        /\ num < MAX_MODULES
        /\ QueuesOK(Consume(down, i - 1), DownMessages)
        /\ AcceptHeartbeat(i, num)
        /\ noteShift' = [noteShift EXCEPT ![i] =
                           IF moduleChainIndex[i] = num THEN StoppedShift(i)
                           ELSE Shift(FALSE, currentSequenceMode[i], num)]
        /\ \E d \in Flushed(Consume(down, i - 1), i - 1) :
             down' = SendDown(i, FinalLines(i, d), Heartbeat(num + 1))
        /\ \E u \in Flushed(up, i) : up' = SendUp(i, u, Heartbeat(num))
  BY HeartbeatHeard DEF DemoteToSlave, power
<1>2. /\ num \in Nat /\ num + 1 \in Nat
      /\ noises = 0 => num # 0 /\ num <= i /\ num + 1 \in 1 .. i + 1
      /\ num < num + 1 /\ num + 1 <= MAX_MODULES
      /\ 0 \in 0 .. Timeout
  BY <1>1, ChainAssumption DEF Module
<1>3. QueuesOK(down', DownMessages)
  <2>1. PICK d : /\ d \in Flushed(Consume(down, i - 1), i - 1)
                 /\ down' = SendDown(i, FinalLines(i, d), Heartbeat(num + 1))
    BY <1>1
  <2>2. QueuesOK(FinalLines(i, d), DownMessages)
    BY <1>1, <2>1, MessagesAllowed, FlushedOK, Stopped
  <2>3. i \in Link => Heartbeat(num + 1) \in DownMessages[i]
    BY <1>2, SentAllowed
  <2>4. QED
    BY <2>1, <2>2, <2>3, MessagesAllowed, CarryOK DEF SendDown
<1>4. QueuesOK(up', AnyMessages)
  <2>1. PICK u : u \in Flushed(up, i) /\ up' = SendUp(i, u, Heartbeat(num))
    BY <1>1
  <2>2. QueuesOK(u, AnyMessages)
    BY <2>1, UpOK, MessagesAllowed, FlushedOK
  <2>3. i - 1 \in Link => Heartbeat(num) \in AnyMessages[i-1]
    BY <1>2, PlainMessages DEF AnyMessages
  <2>4. QED
    BY <2>1, <2>2, <2>3, MessagesAllowed, CarryOK DEF SendUp
<1>5. SharedOK'
  BY <1>3, <1>4, Here DEF DemoteToSlave, SharedOK, bounds, DownMessages, AnyMessages, power
<1>6. Functions /\ ModuleOK(i)
  BY Here
<1>7. /\ noteShift' = [noteShift EXCEPT ![i] = num]
      /\ sequenceRunning' \in [Module -> BOOLEAN]
      /\ \A j \in Module : sequenceRunning'[j] = (j # i /\ sequenceRunning[j])
  BY <1>1, Stopped DEF DemoteToSlave, Shift, power
<1>8. OnlyModule(i)
  BY <1>1, <1>6, <1>7 DEF DemoteToSlave, AcceptHeartbeat, Functions, OnlyModule, power, bounds
<1>9. Functions'
  <2>1. /\ moduleChainIndex' \in [Module -> Nat]
        /\ numModulesInChain' \in [Module -> Nat]
        /\ noteShift' \in [Module -> Nat]
        /\ heardAge' \in [Module -> 0 .. Timeout]
    BY <1>1, <1>2, <1>6, <1>7 DEF AcceptHeartbeat, Functions
  <2>2. QED
    BY <1>1, <1>6, <1>7, <2>1 DEF DemoteToSlave, AcceptHeartbeat, Functions, power
<1>10. ModuleOK(i)'
  BY <1>1, <1>2, <1>6, <1>7
     DEF DemoteToSlave, AcceptHeartbeat, Functions, ModuleOK, Shift, power, bounds
<1>11. QED
  BY <1>5, <1>8, <1>9, <1>10, OneModule

LEMMA BroadcastPreserves ==
  ASSUME IInv, NEW i \in Module, BroadcastFromUpstream(i)
  PROVE  IInv'
<1>1. QueuesOK(down', DownMessages)
  <2>1. QueuesOK(Consume(down, i - 1), DownMessages)
    BY MessagesAllowed, ConsumeOK DEF IInv, BroadcastFromUpstream, power
  <2>2. i \in Link => StartLine \in DownMessages[i]
    BY SentAllowed
  <2>3. QED
    BY <2>1, <2>2, MessagesAllowed, CarryOK DEF BroadcastFromUpstream, SendDown, power
<1>2. Functions /\ ModuleOK(i) /\ SharedOK
  BY Here
<1>3. SharedOK'
  BY <1>1, <1>2 DEF BroadcastFromUpstream, SharedOK, bounds, DownMessages, AnyMessages, power
<1>4. OnlyModule(i) /\ Functions'
  BY <1>2 DEF BroadcastFromUpstream, role, ages, OnlyModule, Functions, Mode, power, bounds
<1>5. ModuleOK(i)'
  BY <1>2 DEF BroadcastFromUpstream, role, ages, Functions, ModuleOK, Mode, Shift, power, bounds
<1>6. QED
  BY <1>3, <1>4, <1>5, OneModule

LEMMA StopFromUpstreamPreserves ==
  ASSUME IInv, NEW i \in Module, StopFromUpstream(i)
  PROVE  IInv'
<1>1. QueuesOK(down', DownMessages)
  <2>1. QueuesOK(Consume(down, i - 1), DownMessages)
    BY MessagesAllowed, ConsumeOK DEF IInv, StopFromUpstream, power
  <2>2. i \in Link => StopLine \in DownMessages[i]
    BY SentAllowed
  <2>3. QED
    BY <2>1, <2>2, MessagesAllowed, CarryOK DEF StopFromUpstream, SendDown, power
<1>2. Functions /\ ModuleOK(i) /\ SharedOK
  BY Here
<1>3. SharedOK'
  BY <1>1, <1>2 DEF StopFromUpstream, SharedOK, bounds, DownMessages, AnyMessages, power
<1>4. CASE Broadcasting(i)
  <2>1. /\ noteShift' = [noteShift EXCEPT ![i] = moduleChainIndex[i]]
        /\ sequenceRunning' \in [Module -> BOOLEAN]
        /\ \A j \in Module : sequenceRunning'[j] = (j # i /\ sequenceRunning[j])
    BY <1>4, Stopped DEF StopFromUpstream, power
  <2>2. OnlyModule(i) /\ Functions'
    BY <1>2, <2>1 DEF StopFromUpstream, role, ages, OnlyModule, Functions, ModuleOK, power, bounds
  <2>3. ModuleOK(i)'
    BY <1>2, <2>1 DEF StopFromUpstream, role, ages, Functions, ModuleOK, Shift, power, bounds
  <2>4. QED
    BY <1>3, <2>2, <2>3, OneModule
<1>5. CASE ~Broadcasting(i)
  <2>1. OnlyModule(i) /\ Functions' /\ ModuleOK(i)'
    BY <1>2, <1>5 DEF StopFromUpstream, role, ages, OnlyModule, Functions, ModuleOK, power, bounds
  <2>2. QED
    BY <1>3, <2>1, OneModule
<1>6. QED
  BY <1>4, <1>5

LEMMA IgnoreDownstreamPreserves ==
  ASSUME IInv, NEW i \in Module, IgnoreDownstreamNoise(i)
  PROVE  IInv'
<1>1. QueuesOK(up', AnyMessages)
  BY UpOK, MessagesAllowed, ConsumeOK DEF IgnoreDownstreamNoise, power
<1>2. Functions /\ ModuleOK(i) /\ SharedOK
  BY Here
<1>3. SharedOK'
  BY <1>1, <1>2 DEF IgnoreDownstreamNoise, SharedOK, bounds, DownMessages, AnyMessages, power
<1>4. OnlyModule(i) /\ Functions' /\ ModuleOK(i)'
  BY <1>2 DEF IgnoreDownstreamNoise, role, playing, ages, OnlyModule, Functions, ModuleOK, power, bounds
<1>5. QED
  BY <1>3, <1>4, OneModule

LEMMA ReplyPreserves ==
  ASSUME IInv, NEW i \in Module, ReplyFromDownstream(i)
  PROVE  IInv'
<1>1. PICK num \in Nat :
        /\ num < MAX_MODULES
        /\ QueuesOK(Consume(up, i), AnyMessages)
        /\ replyAge' = [replyAge EXCEPT ![i] = 0]
        /\ numModulesInChain' = [numModulesInChain EXCEPT ![i] =
             IF num + 1 > numModulesInChain[i] THEN num + 1 ELSE numModulesInChain[i]]
        /\ up' = IF isMaster[i] THEN Consume(up, i)
                                ELSE SendUp(i, Consume(up, i), Heartbeat(num))
  <2>1. /\ i \in Link
        /\ Head(up[i]) \in AnyMessages[i]
        /\ QueuesOK(Consume(up, i), AnyMessages)
    BY UpOK, MessagesAllowed, ConsumeOK DEF ReplyFromDownstream, power
  <2>2. Head(up[i]).num \in Nat
    BY <2>1 DEF AnyMessages, Message
  <2>3. QED
    BY <2>1, <2>2 DEF ReplyFromDownstream, Plausible, power
<1>2. QueuesOK(up', AnyMessages)
  <2>1. i - 1 \in Link => Heartbeat(num) \in AnyMessages[i-1]
    BY PlainMessages DEF AnyMessages
  <2>2. QED
    BY <1>1, <2>1, MessagesAllowed, CarryOK DEF SendUp
<1>3. Functions /\ ModuleOK(i) /\ SharedOK
  BY Here
<1>4. SharedOK'
  BY <1>2, <1>3 DEF ReplyFromDownstream, SharedOK, bounds, DownMessages, AnyMessages, power
<1>5. PICK n \in Nat : /\ numModulesInChain' = [numModulesInChain EXCEPT ![i] = n]
                       /\ moduleChainIndex[i] < n
                       /\ n <= MAX_MODULES
  <2>1. /\ moduleChainIndex[i] \in Nat
        /\ numModulesInChain[i] \in Nat
        /\ moduleChainIndex[i] < numModulesInChain[i]
        /\ numModulesInChain[i] <= MAX_MODULES
    BY <1>3 DEF ModuleOK
  <2>2. /\ num + 1 \in Nat
        /\ num + 1 <= MAX_MODULES
        /\ num + 1 > numModulesInChain[i] => moduleChainIndex[i] < num + 1
    BY <1>1, <2>1, ChainAssumption
  <2>3. QED
    BY <1>1, <2>1, <2>2
<1>6. 0 \in 0 .. Timeout
  BY ChainAssumption
<1>7. OnlyModule(i) /\ Functions'
  BY <1>1, <1>3, <1>5, <1>6 DEF ReplyFromDownstream, playing, OnlyModule, Functions, power, bounds
<1>8. ModuleOK(i)'
  BY <1>1, <1>3, <1>5, <1>6 DEF ReplyFromDownstream, playing, Functions, ModuleOK, power, bounds
<1>9. QED
  BY <1>4, <1>7, <1>8, OneModule

LEMMA PromotePreserves ==
  ASSUME IInv, NEW i \in Module, PromoteToMaster(i)
  PROVE  IInv'
<1>1. QueuesOK(down', DownMessages)
  <2>1. PICK d : d \in Flushed(down, i - 1) /\ down' = FinalLines(i, d)
    BY DEF PromoteToMaster, power
  <2>2. QED
    BY <2>1, MessagesAllowed, FlushedOK, Stopped DEF IInv
<1>2. QueuesOK(up', AnyMessages)
  BY UpOK, MessagesAllowed, FlushedOK DEF PromoteToMaster, power
<1>3. Functions /\ ModuleOK(i) /\ SharedOK
  BY Here
<1>4. SharedOK'
  BY <1>1, <1>2, <1>3 DEF PromoteToMaster, SharedOK, bounds, DownMessages, AnyMessages, power
<1>5. /\ sequenceRunning' \in [Module -> BOOLEAN]
      /\ \A j \in Module : sequenceRunning'[j] = (j # i /\ sequenceRunning[j])
  BY Stopped DEF PromoteToMaster, power
<1>6. 0 \in 0 .. Timeout /\ 0 \in 0 .. Interval /\ 0 <= i /\ 1 <= MAX_MODULES
  BY ChainAssumption DEF Module
<1>7. OnlyModule(i) /\ Functions'
  BY <1>3, <1>5, <1>6 DEF PromoteToMaster, OnlyModule, Functions, power, bounds
<1>8. ModuleOK(i)'
  BY <1>3, <1>5, <1>6 DEF PromoteToMaster, Functions, ModuleOK, Shift, power, bounds
<1>9. QED
  BY <1>4, <1>7, <1>8, OneModule

LEMMA CheckReplyPreserves ==
  ASSUME IInv, NEW i \in Module, CheckHeartbeatReply(i)
  PROVE  IInv'
<1>1. QueuesOK(down', DownMessages)
  BY Stopped DEF CheckHeartbeatReply, IInv, DownMessages, power
<1>2. Functions /\ ModuleOK(i) /\ SharedOK
  BY Here
<1>3. SharedOK'
  BY <1>1, <1>2 DEF CheckHeartbeatReply, SharedOK, bounds, DownMessages, AnyMessages, power
<1>4. PICK n \in Nat : /\ numModulesInChain' = [numModulesInChain EXCEPT ![i] = n]
                       /\ moduleChainIndex[i] < n
                       /\ n <= MAX_MODULES
  <2>1. /\ moduleChainIndex[i] \in Nat
        /\ numModulesInChain[i] \in Nat
        /\ numModulesInChain[i] <= MAX_MODULES
        /\ numModulesInChain[i] > moduleChainIndex[i] + 1
    BY <1>2 DEF ModuleOK, CheckHeartbeatReply, DownstreamLost, power, bounds
  <2>2. /\ moduleChainIndex[i] + 1 \in Nat
        /\ moduleChainIndex[i] < moduleChainIndex[i] + 1
        /\ moduleChainIndex[i] + 1 <= MAX_MODULES
    BY <2>1, ChainAssumption
  <2>3. QED
    BY <2>2 DEF CheckHeartbeatReply, power
<1>5. /\ noteShift' = [noteShift EXCEPT ![i] = moduleChainIndex[i]]
      /\ \A j \in Module : sequenceRunning'[j] = (j # i /\ sequenceRunning[j])
      /\ sequenceRunning' \in [Module -> BOOLEAN]
      \/ UNCHANGED <<noteShift, sequenceRunning>>
  BY Stopped DEF CheckHeartbeatReply, power
<1>6. OnlyModule(i) /\ Functions'
  BY <1>2, <1>4, <1>5 DEF CheckHeartbeatReply, ages, OnlyModule, Functions, ModuleOK, power, bounds
<1>7. ModuleOK(i)'
  BY <1>2, <1>4, <1>5 DEF CheckHeartbeatReply, ages, Functions, ModuleOK, Shift, power, bounds
<1>8. QED
  BY <1>3, <1>6, <1>7, OneModule

LEMMA SendHeartbeatPreserves ==
  ASSUME IInv, NEW i \in Module, SendHeartbeat(i)
  PROVE  IInv'
<1>1. Functions /\ ModuleOK(i) /\ SharedOK
  BY Here
<1>2. QueuesOK(down', DownMessages)
  <2>1. moduleChainIndex[i] + 1 \in 1 .. i + 1
    BY <1>1 DEF ModuleOK, SendHeartbeat, HeartbeatDue, Module, power, bounds
  <2>2. i \in Link => Heartbeat(moduleChainIndex[i] + 1) \in DownMessages[i]
    BY <2>1, SentAllowed
  <2>3. QED
    BY <2>2, MessagesAllowed, CarryOK DEF SendHeartbeat, SendDown, IInv, power
<1>3. SharedOK'
  BY <1>1, <1>2 DEF SendHeartbeat, SharedOK, bounds, DownMessages, AnyMessages, power
<1>4. 0 \in 0 .. Interval
  BY ChainAssumption
<1>5. OnlyModule(i) /\ Functions' /\ ModuleOK(i)'
  BY <1>1, <1>4 DEF SendHeartbeat, role, playing, OnlyModule, Functions, ModuleOK, power, bounds
<1>6. QED
  BY <1>3, <1>5, OneModule

LEMMA StartPreserves ==
  ASSUME IInv, NEW i \in Module, NEW mode \in Mode, StartSequence(i, mode)
  PROVE  IInv'
<1>1. Functions /\ ModuleOK(i) /\ SharedOK
  BY Here
<1>2. QueuesOK(down', DownMessages)
  <2>1. i \in Link => StartLine \in DownMessages[i]
    BY SentAllowed
  <2>2. QED
    BY <1>1, <2>1, MessagesAllowed, CarryOK DEF StartSequence, SendDown, SharedOK, power, bounds
<1>3. commands' \in 0 .. MaxCommands
  BY <1>1, ChainAssumption DEF StartSequence, SharedOK, power, bounds
<1>4. SharedOK'
  BY <1>1, <1>2, <1>3 DEF StartSequence, SharedOK, DownMessages, AnyMessages, power, bounds
<1>5. OnlyModule(i) /\ Functions'
  BY <1>1 DEF StartSequence, role, ages, OnlyModule, Functions, power, bounds
<1>6. ModuleOK(i)'
  BY <1>1 DEF StartSequence, role, ages, Functions, ModuleOK, Shift, power, bounds
<1>7. QED
  BY <1>4, <1>5, <1>6, OneModule

LEMMA StopPreserves ==
  ASSUME IInv, NEW i \in Module, StopSequence(i)
  PROVE  IInv'
<1>1. Functions /\ ModuleOK(i) /\ SharedOK
  BY Here
<1>2. QueuesOK(down', DownMessages)
  BY <1>1, Stopped DEF StopSequence, SharedOK, power, bounds
<1>3. SharedOK'
  BY <1>1, <1>2 DEF StopSequence, SharedOK, bounds, DownMessages, AnyMessages, power
<1>4. /\ noteShift' = [noteShift EXCEPT ![i] = moduleChainIndex[i]]
      /\ sequenceRunning' \in [Module -> BOOLEAN]
      /\ \A j \in Module : sequenceRunning'[j] = (j # i /\ sequenceRunning[j])
  BY Stopped DEF StopSequence, power
<1>5. OnlyModule(i) /\ Functions'
  BY <1>1, <1>4 DEF StopSequence, role, ages, OnlyModule, Functions, ModuleOK, power, bounds
<1>6. ModuleOK(i)'
  BY <1>1, <1>4 DEF StopSequence, role, ages, Functions, ModuleOK, Shift, power, bounds
<1>7. QED
  BY <1>3, <1>5, <1>6, OneModule

LEMMA RecordPreserves ==
  ASSUME IInv, NEW i \in Module, StartRecording(i) \/ StopRecording(i)
  PROVE  IInv'
<1>1. Functions /\ ModuleOK(i) /\ SharedOK
  BY Here
<1>2. QueuesOK(down', DownMessages)
  <2>1. i \in Link => StopLine \in DownMessages[i]
    BY SentAllowed
  <2>2. QED
    BY <1>1, <2>1, MessagesAllowed, CarryOK
       DEF StartRecording, StopRecording, SendDown, SharedOK, power, bounds
<1>3. recordings' \in 0 .. MaxRecordings
  BY <1>1, ChainAssumption DEF StartRecording, StopRecording, SharedOK, bounds, power
<1>4. SharedOK'
  BY <1>1, <1>2, <1>3
     DEF StartRecording, StopRecording, SharedOK, bounds, DownMessages, AnyMessages, power
<1>5. OnlyModule(i) /\ Functions' /\ ModuleOK(i)'
  BY <1>1 DEF StartRecording, StopRecording, role, ages, OnlyModule, Functions, ModuleOK, power, bounds
<1>6. QED
  BY <1>4, <1>5, OneModule

LEMMA PowerOffPreserves ==
  ASSUME IInv, NEW i \in Module, PowerOff(i)
  PROVE  IInv'
<1>1. Functions /\ ModuleOK(i) /\ SharedOK
  BY Here
<1>2. QueuesOK(down', DownMessages)
  BY <1>1, Stopped DEF PowerOff, SharedOK, power, Upset, bounds
<1>3. upsets' \in 0 .. MaxUpsets /\ upsets <= upsets'
  BY <1>1, ChainAssumption DEF PowerOff, SharedOK, power, Upset, bounds
<1>4. SharedOK'
  BY <1>1, <1>2, <1>3 DEF PowerOff, SharedOK, DownMessages, AnyMessages, power, Upset, bounds
<1>5. /\ noteShift' = [noteShift EXCEPT ![i] = moduleChainIndex[i]]
      /\ sequenceRunning' \in [Module -> BOOLEAN]
      /\ \A j \in Module : sequenceRunning'[j] = (j # i /\ sequenceRunning[j])
  BY Stopped DEF PowerOff, power, Upset
<1>6. OnlyModule(i) /\ Functions'
  BY <1>1, <1>5 DEF PowerOff, role, ages, OnlyModule, Functions, ModuleOK, power, Upset, bounds
<1>7. ModuleOK(i)'
  BY <1>1, <1>5 DEF PowerOff, role, ages, Functions, ModuleOK, Shift, power, Upset, bounds
<1>8. QED
  BY <1>4, <1>6, <1>7, OneModule

LEMMA PowerOnPreserves ==
  ASSUME IInv, NEW i \in Module, PowerOn(i)
  PROVE  IInv'
<1>1. Functions /\ ModuleOK(i) /\ SharedOK
  BY Here
<1>2. SharedOK'
  BY <1>1 DEF PowerOn, SharedOK, links, bounds, DownMessages, AnyMessages, power
<1>3. OnlyModule(i) /\ Functions' /\ ModuleOK(i)'
  BY <1>1 DEF PowerOn, role, playing, ages, OnlyModule, Functions, ModuleOK, power, bounds
<1>4. QED
  BY <1>2, <1>3, OneModule

LEMMA RebootPreserves ==
  ASSUME IInv, NEW i \in Module, Reboot(i)
  PROVE  IInv'
<1>1. Functions /\ ModuleOK(i) /\ SharedOK
  BY Here
<1>2. QueuesOK(down', DownMessages)
  BY <1>1, MessagesAllowed, FlushedOK DEF Reboot, SharedOK, power, Upset, bounds
<1>3. QueuesOK(up', AnyMessages)
  BY <1>1, MessagesAllowed, FlushedOK DEF Reboot, SharedOK, power, Upset, bounds
<1>4. upsets' \in 0 .. MaxUpsets /\ upsets <= upsets'
  BY <1>1, ChainAssumption DEF Reboot, SharedOK, power, Upset, bounds
<1>5. SharedOK'
  BY <1>1, <1>2, <1>3, <1>4 DEF Reboot, SharedOK, DownMessages, AnyMessages, power, Upset, bounds
<1>6. /\ sequenceRunning' \in [Module -> BOOLEAN]
      /\ \A j \in Module : sequenceRunning'[j] = (j # i /\ sequenceRunning[j])
  BY Stopped DEF Reboot, power, Upset
<1>7. /\ Interval \in 0 .. Interval /\ Timeout \in 0 .. Timeout
      /\ 0 <= i /\ 1 <= MAX_MODULES
  BY ChainAssumption DEF Module
<1>8. OnlyModule(i)
  BY <1>1, <1>6 DEF Reboot, OnlyModule, Functions, power, Upset, bounds
<1>9. Functions'
  BY <1>1, <1>6, <1>7 DEF Reboot, Functions, Mode, power, Upset
<1>10. ModuleOK(i)'
  BY <1>1, <1>6, <1>7 DEF Reboot, Functions, ModuleOK, Mode, Shift, power, Upset, bounds
<1>11. QED
  BY <1>5, <1>8, <1>9, <1>10, OneModule

\* Steps in which no module changes what it plays or its place in the chain.
LEMMA NoModule ==
  ASSUME IInv, UNCHANGED <<role, playing>>, noises' = 0 => noises = 0,
         Functions', SharedOK'
  PROVE  IInv'
<1>1. TypeOK'
  BY DEF TypeOK, Functions, SharedOK, QueuesOK
<1>2. (/\ MasterHasIndexZero /\ AddressesInRange /\ NotesMatch
       /\ SlavesOnlyBroadcast /\ IndexWithinReach)'
  BY DEF IInv, role, playing, MasterHasIndexZero, AddressesInRange, NotesMatch,
         SlavesOnlyBroadcast, Broadcasting, IndexWithinReach
<1>3. QED
  BY <1>1, <1>2 DEF IInv, SharedOK, DownMessages

\* Noise at a port of link l leaves queues that the invariant allows.
LEMMA NoiseOK ==
  ASSUME NEW l \in Link, NEW d, NEW u, QueuesOK(d, DownMessages), QueuesOK(u, AnyMessages),
         noises \in 0 .. MaxNoise, Noise(l, d, u)
  PROVE  /\ QueuesOK(down', DownMessages')
         /\ QueuesOK(up', AnyMessages)
         /\ noises' \in 0 .. MaxNoise
         /\ noises <= noises' /\ noises' <= noises + 1
         /\ noises' = 0 => noises = 0
<1>1. CASE down' = d /\ up' = u /\ UNCHANGED noises
  BY <1>1, ChainAssumption DEF DownMessages
<1>2. CASE ~(down' = d /\ up' = u /\ UNCHANGED noises)
  <2>1. PICK n \in 0 .. MAX_MODULES :
          \/ /\ down' = [d EXCEPT ![l] = Append(@, Heartbeat(n))]
             /\ up' = u
          \/ /\ down' = d
             /\ up' = [u EXCEPT ![l] = Append(@, Heartbeat(n))]
    BY <1>2 DEF Noise
  <2>2. noises < MaxNoise /\ noises' = noises + 1
    BY <1>2 DEF Noise
  <2>3. Heartbeat(n) \in Message
    BY PlainMessages, ChainAssumption
  <2>4. ASSUME NEW q \in [Link -> Seq(Message)]
        PROVE  [q EXCEPT ![l] = Append(@, Heartbeat(n))] \in [Link -> Seq(Message)]
    BY <2>3
  <2>5. down' \in [Link -> Seq(Message)] /\ up' \in [Link -> Seq(Message)]
    BY <2>1, <2>4 DEF QueuesOK
  <2>6. DownMessages' = AnyMessages
    <3>1. noises' # 0
      BY <2>2, ChainAssumption
    <3>2. QED
      BY <3>1 DEF DownMessages, AnyMessages
  <2>7. ASSUME NEW q \in [Link -> Seq(Message)] PROVE QueuesOK(q, AnyMessages)
    BY DEF QueuesOK, AnyMessages
  <2>8. QED
    BY <2>5, <2>6, <2>7, <2>2, ChainAssumption
<1>3. QED
  BY <1>1, <1>2

LEMMA PlugPreserves ==
  ASSUME IInv, NEW l \in Link, Plug(l)
  PROVE  IInv'
<1>1. Functions /\ SharedOK
  BY UpOK DEF IInv, TypeOK, Functions, SharedOK
<1>2. /\ QueuesOK(down', DownMessages')
      /\ QueuesOK(up', AnyMessages)
      /\ noises' \in 0 .. MaxNoise
      /\ noises <= noises' /\ noises' <= noises + 1
      /\ noises' = 0 => noises = 0
  BY <1>1, NoiseOK DEF Plug, SharedOK
<1>3. upsets' = upsets + 1 /\ upsets' \in 0 .. MaxUpsets
  BY <1>1, ChainAssumption DEF Plug, SharedOK, Upset
<1>4. SharedOK'
  BY <1>1, <1>2, <1>3, ChainAssumption DEF Plug, SharedOK, AnyMessages
<1>5. Functions'
  BY <1>1 DEF Plug, role, playing, ages, Functions, power
<1>6. QED
  BY <1>2, <1>4, <1>5, NoModule DEF Plug

\* A prefix of an allowed queue is allowed.
LEMMA PrefixOK ==
  ASSUME NEW S, NEW q \in Seq(S), NEW k \in 0 .. Len(q)
  PROVE  SubSeq(q, 1, k) \in Seq(S)
<1>1. Len(q) \in Nat /\ k \in Int /\ 1 \in Int
  OBVIOUS
<1>2. \A n \in 1 .. k : q[n] \in S
  BY <1>1
<1>3. QED
  BY <1>1, <1>2, SubSeqProperties, Zenon

LEMMA UnplugPreserves ==
  ASSUME IInv, NEW l \in Link, Unplug(l)
  PROVE  IInv'
<1>1. Functions /\ SharedOK
  BY UpOK DEF IInv, TypeOK, Functions, SharedOK
<1>2. PICK j \in 0 .. Len(down[l]), k \in 0 .. Len(up[l]) :
        Noise(l, [down EXCEPT ![l] = SubSeq(@, 1, j)], [up EXCEPT ![l] = SubSeq(@, 1, k)])
  BY DEF Unplug
<1>3. SubSeq(down[l], 1, j) \in Seq(DownMessages[l]) /\ SubSeq(up[l], 1, k) \in Seq(AnyMessages[l])
  BY <1>1, PrefixOK DEF SharedOK, QueuesOK
<1>4. /\ QueuesOK([down EXCEPT ![l] = SubSeq(@, 1, j)], DownMessages)
      /\ QueuesOK([up EXCEPT ![l] = SubSeq(@, 1, k)], AnyMessages)
  BY <1>1, <1>3, MessagesAllowed, ReplaceOK DEF SharedOK
<1>5. /\ QueuesOK(down', DownMessages')
      /\ QueuesOK(up', AnyMessages)
      /\ noises' \in 0 .. MaxNoise
      /\ noises <= noises' /\ noises' <= noises + 1
      /\ noises' = 0 => noises = 0
  BY <1>1, <1>2, <1>4, NoiseOK DEF SharedOK
<1>6. upsets' = upsets + 1 /\ upsets' \in 0 .. MaxUpsets
  BY <1>1, ChainAssumption DEF Unplug, SharedOK, Upset
<1>7. SharedOK'
  BY <1>1, <1>5, <1>6, ChainAssumption DEF Unplug, SharedOK, AnyMessages
<1>8. Functions'
  BY <1>1 DEF Unplug, role, playing, ages, Functions, power
<1>9. QED
  BY <1>5, <1>7, <1>8, NoModule DEF Unplug

LEMMA BlockPreserves ==
  ASSUME IInv, NEW i \in Module, Block(i) \/ Resume(i)
  PROVE  IInv'
<1>1. Functions /\ SharedOK
  BY UpOK DEF IInv, TypeOK, Functions, SharedOK
<1>2. /\ upsets' \in 0 .. MaxUpsets /\ upsets <= upsets'
      /\ noises' = noises /\ UNCHANGED <<role, playing>>
  BY <1>1, ChainAssumption DEF Block, Resume, Upset, SharedOK, bounds
<1>3. SharedOK'
  BY <1>1, <1>2, ChainAssumption
     DEF Block, Resume, SharedOK, links, bounds, DownMessages, AnyMessages
<1>4. Functions'
  BY <1>1 DEF Block, Resume, role, playing, ages, Functions
<1>5. QED
  BY <1>2, <1>3, <1>4, NoModule

LEMMA TickPreserves ==
  ASSUME IInv, Tick
  PROVE  IInv'
<1>1. Functions /\ SharedOK
  BY UpOK DEF IInv, TypeOK, Functions, SharedOK
<1>2. ASSUME NEW limit \in Nat, NEW age \in [Module -> 0 .. limit]
      PROVE  Older(age, limit) \in [Module -> 0 .. limit]
  BY DEF Older
<1>3. Functions'
  BY <1>1, <1>2, ChainAssumption DEF Tick, role, playing, Functions, power
<1>4. SharedOK'
  BY <1>1 DEF Tick, SharedOK, links, bounds, DownMessages, AnyMessages, power
<1>5. QED
  BY <1>3, <1>4, NoModule DEF Tick, power, bounds

LEMMA IdlePreserves ==
  ASSUME IInv, UNCHANGED vars
  PROVE  IInv'
<1>1. Functions /\ SharedOK
  BY UpOK DEF IInv, TypeOK, Functions, SharedOK
<1>2. Functions' /\ SharedOK'
  BY <1>1 DEF vars, role, playing, ages, links, bounds, Functions, SharedOK,
              DownMessages, AnyMessages, power
<1>3. QED
  BY <1>2, NoModule DEF vars, power, bounds

-----------------------------------------------------------------------------
(* The theorems *)

LEMMA InitOK == Init => IInv
<1> SUFFICES ASSUME Init PROVE IInv
  OBVIOUS
<1>1. \A S : << >> \in Seq(S)
  OBVIOUS
<1>2. TypeOK
  BY <1>1, ChainAssumption DEF Init, TypeOK, Mode
<1>3. QueuesOK(down, DownMessages)
  BY <1>1 DEF Init, QueuesOK
<1>4. /\ MasterHasIndexZero /\ AddressesInRange /\ NotesMatch
      /\ SlavesOnlyBroadcast /\ IndexWithinReach
  BY ChainAssumption DEF Init, Module, MasterHasIndexZero, AddressesInRange,
     NotesMatch, Shift, SlavesOnlyBroadcast, Broadcasting, IndexWithinReach
<1>5. noises <= upsets
  BY DEF Init
<1>6. QED
  BY <1>2, <1>3, <1>4, <1>5 DEF IInv

LEMMA NextOK == IInv /\ [Next]_vars => IInv'
<1> SUFFICES ASSUME IInv, [Next]_vars PROVE IInv'
  OBVIOUS
<1>1. ASSUME NEW i \in Module, Loop(i) PROVE IInv'
  BY <1>1, IgnoreUpstreamPreserves, RefreshPreserves, DemotePreserves,
     BroadcastPreserves, StopFromUpstreamPreserves, IgnoreDownstreamPreserves,
     ReplyPreserves, PromotePreserves, CheckReplyPreserves, SendHeartbeatPreserves, BlockPreserves
     DEF Loop
<1>2. ASSUME Environment PROVE IInv'
  BY <1>2, StartPreserves, StopPreserves, RecordPreserves, PowerOffPreserves, PowerOnPreserves,
     BlockPreserves, RebootPreserves, PlugPreserves, UnplugPreserves DEF Environment
<1>3. QED
  BY <1>1, <1>2, TickPreserves, IdlePreserves DEF Next

THEOREM Invariance == Spec => []IInv
  BY InitOK, NextOK, PTL DEF Spec

\* TypeOK holds of every reachable state, for every chain length and bound.
THEOREM TypeCorrect == Spec => []TypeOK
<1>1. IInv => TypeOK
  BY DEF IInv
<1>2. QED
  BY <1>1, Invariance, PTL

\* A master has index 0, whatever promoteToMaster(), demoteToSlave(), reboots, blocked loops
\* and cable noise do in whatever order; and until a cable has come with noise, no slave has.
\* A pair of bytes that reads as heartbeat 0 does make a slave with index 0.
THEOREM MastersAtZero == Spec => []MasterHasIndexZero
<1>1. IInv => MasterHasIndexZero
  BY DEF IInv
<1>2. QED
  BY <1>1, Invariance, PTL

\* A module's index lies below its module count and the count below MAX_MODULES, in
\* chains of any length: the plausibility checks on heartbeats and replies suffice
\* to keep key indices inside the arrays.
THEOREM AddressesStayInRange == Spec => []AddressesInRange
<1>1. IInv => AddressesInRange
  BY DEF IInv
<1>2. QED
  BY <1>1, Invariance, PTL

\* The octave configureNotes() last applied is the one index and broadcast ask for,
\* although several callers of stopSequence() and the handlers skip the call.
THEOREM OctavesMatch == Spec => []NotesMatch
<1>1. IInv => NotesMatch
  BY DEF IInv
<1>2. QED
  BY <1>1, Invariance, PTL

\* A slave whose sequenceRunning is set follows a broadcast.
THEOREM SlavesFollow == Spec => []SlavesOnlyBroadcast
<1>1. IInv => SlavesOnlyBroadcast
  BY DEF IInv
<1>2. QED
  BY <1>1, Invariance, PTL

\* Until a cable has come with noise, no module takes an index that its place in the row cannot
\* give it, in chains of any length and with any messages lost, flushed or delayed.
THEOREM IndicesWithinReach == Spec => []IndexWithinReach
<1>1. IInv => IndexWithinReach
  BY DEF IInv
<1>2. QED
  BY <1>1, Invariance, PTL

\* Whoever changes its role, by hearing a heartbeat, by missing them or by a reboot,
\* has stopped playing by the end of the same step.
THEOREM RoleChangesAreSilent == Spec => RoleChangeSilences
<1>1. ASSUME IInv, [Next]_vars, NEW i \in Module, isMaster'[i] # isMaster[i]
      PROVE  ~sequenceRunning'[i]
  <2>1. Functions
    BY <1>1, Here
  <2>2. \A j \in Module : \A k \in Module : Silenced(j)[k] = (k # j /\ sequenceRunning[k])
    BY <1>1, Stopped
  <2>3. ASSUME NEW j \in Module, DemoteToSlave(j) \/ PromoteToMaster(j) \/ Reboot(j)
        PROVE  ~sequenceRunning'[i]
    <3>1. j = i
      BY <1>1, <2>1, <2>3 DEF DemoteToSlave, PromoteToMaster, Reboot, Functions, power, Upset
    <3>2. sequenceRunning' = Silenced(j)
      BY <2>3 DEF DemoteToSlave, PromoteToMaster, Reboot, power, Upset
    <3>3. QED
      BY <2>2, <3>1, <3>2
  <2>4. ASSUME NEW j \in Module, Loop(j) PROVE ~sequenceRunning'[i]
    BY <1>1, <2>3, <2>4
       DEF Loop, IgnoreUpstreamNoise, RefreshFromUpstream, BroadcastFromUpstream,
           StopFromUpstream, IgnoreDownstreamNoise, ReplyFromDownstream,
           CheckHeartbeatReply, SendHeartbeat, role, power, Resume
  <2>5. ASSUME Environment PROVE ~sequenceRunning'[i]
    BY <1>1, <2>3, <2>5
       DEF Environment, StartSequence, StopSequence, StartRecording, StopRecording,
           PowerOff, PowerOn, Plug, Unplug, role, power, Upset, Block
  <2>6. UNCHANGED role => FALSE
    BY <1>1 DEF role
  <2>7. QED
    BY <1>1, <2>4, <2>5, <2>6 DEF Next, Tick, vars, power
<1>2. IInv /\ [Next]_vars =>
        [\A i \in Module : isMaster'[i] # isMaster[i] => ~sequenceRunning'[i]]_vars
  BY <1>1
<1>3. QED
  BY <1>2, Invariance, PTL DEF Spec, RoleChangeSilences

-----------------------------------------------------------------------------
(***************************************************************************)
(* NoSpuriousPromotion.  Until an upset, a module that MAX_MODULES         *)
(* allows a place in its chain is offered that place: no heartbeat has     *)
(* come further than from the gap at the head of the chain.  If it is a    *)
(* slave, it heard a heartbeat no earlier than its neighbour sent or       *)
(* heard one, or one is waiting for it; and between two ticks nothing      *)
(* waits.                                                                  *)
(***************************************************************************)
Gap(h) == h = 0 \/ ~cable[h - 1]

\* Counted from the head of its chain, module i is not beyond the longest chain.
Near(i) == \E h \in 0 .. i : Gap(h) /\ i - h < MAX_MODULES

NearMessages ==
  [l \in Link |-> {m \in Message : m.type = "hb" =>
                     cable[l] /\ \A h \in 0 .. l : Gap(h) => m.num <= l + 1 - h}]

Pending(q, l) == \E n \in 1 .. Len(q[l]) : q[l][n].type = "hb"

\* Ticks since module i last passed a heartbeat on.
Source(i) == IF isMaster[i] THEN sentAge[i] ELSE heardAge[i]

Heeded(i) ==
  ~isMaster[i] /\ Near(i) =>
    /\ i - 1 \in Link /\ cable[i - 1]
    /\ heardAge[i] <= Interval
    /\ heardAge[i] <= Source(i - 1) \/ Pending(down, i - 1)

Placed(i) == \A h \in 0 .. i : Gap(h) => moduleChainIndex[i] <= i - h

Steady ==
  /\ QueuesOK(down, NearMessages)
  /\ \A i \in Module : Running(i) /\ Placed(i) /\ Heeded(i)

SteadyInv == upsets = 0 => Steady

\* A link whose receiver's buffer is full holds a heartbeat: lines alone do not fill it.
Roomy == upsets = 0 => \A l \in Link : Len(down[l]) >= LinkCap => Pending(down, l)

LEMMA SameGaps ==
  ASSUME UNCHANGED cable
  PROVE  /\ NearMessages' = NearMessages
         /\ \A i \in Module : (Near(i)' <=> Near(i)) /\ \A h \in 0 .. i : Gap(h)' <=> Gap(h)
  BY DEF NearMessages, Near, Gap

LEMMA NearAllowed == NearMessages \in [Link -> SUBSET Message]
  BY DEF NearMessages

\* A heartbeat from which a module takes its place is one that its chain can offer.
LEMMA HeadOffer ==
  ASSUME QueuesOK(down, NearMessages), NEW i \in Module, Waiting(down, i - 1, "hb")
  PROVE  /\ i - 1 \in Link /\ cable[i - 1]
         /\ Head(down[i-1]).num \in Nat
         /\ \A h \in 0 .. i : Gap(h) => Head(down[i-1]).num <= i - h
         /\ QueuesOK(Consume(down, i - 1), NearMessages)
<1>1. /\ i - 1 \in Link /\ Head(down[i-1]) \in NearMessages[i-1]
      /\ Head(down[i-1]).type = "hb" /\ QueuesOK(Consume(down, i - 1), NearMessages)
  BY NearAllowed, ConsumeOK
<1>2. /\ cable[i-1] /\ Head(down[i-1]).num \in Nat
      /\ \A h \in 0 .. i - 1 : Gap(h) => Head(down[i-1]).num <= (i - 1) + 1 - h
  BY <1>1 DEF NearMessages, Message
<1>3. ASSUME NEW h \in 0 .. i, Gap(h) PROVE h \in 0 .. i - 1
  BY <1>1, <1>2, <1>3 DEF Gap, Link, Module
<1>4. i \in Int
  BY DEF Module
<1> QED BY <1>1, <1>2, <1>3, <1>4

LEMMA NearOffer ==
  ASSUME IInv, Steady, NEW i \in Module, Waiting(down, i - 1, "hb")
  PROVE  /\ i - 1 \in Link /\ cable[i - 1]
         /\ Head(down[i-1]).num \in Nat
         /\ \A h \in 0 .. i : Gap(h) => Head(down[i-1]).num <= i - h
         /\ QueuesOK(Consume(down, i - 1), NearMessages)
  BY HeadOffer DEF Steady

LEMMA StopAllowed ==
  ASSUME NEW l \in Link
  PROVE  StopLine \in NearMessages[l] /\ StartLine \in NearMessages[l]
  BY PlainMessages DEF NearMessages, StopLine, StartLine

\* What becomes of a waiting heartbeat when queues change.
LEMMA PendingCarry ==
  ASSUME NEW q \in [Link -> Seq(Message)], NEW k, NEW m \in Message, NEW l \in Link,
         Pending(q, l)
  PROVE  Pending(Carry(q, k, m), l)
<1>1. CASE k \in Link /\ l = k /\ Carry(q, k, m) # q
  <2>1. Carry(q, k, m)[l] = Append(q[l], m)
    BY <1>1 DEF Carry
  <2>2. q[l] \in Seq(Message)
    OBVIOUS
  <2> QED BY <2>1, <2>2 DEF Pending
<1>2. CASE ~(k \in Link /\ l = k /\ Carry(q, k, m) # q)
  <2>1. Carry(q, k, m)[l] = q[l]
    BY <1>2 DEF Carry
  <2> QED BY <2>1 DEF Pending
<1> QED BY <1>1, <1>2

LEMMA PendingConsume ==
  ASSUME NEW q \in [Link -> Seq(Message)], NEW k, NEW type, Waiting(q, k, type),
         NEW l \in Link, Pending(q, l), l # k \/ type # "hb"
  PROVE  Pending(Consume(q, k), l)
<1>1. k \in Link /\ q[k] # << >> /\ Head(q[k]).type = type /\ q[k] \in Seq(Message)
  BY DEF Waiting
<1>2. CASE l # k
  BY <1>1, <1>2 DEF Consume, Pending
<1>3. CASE l = k
  <2>1. PICK n \in 1 .. Len(q[k]) : q[k][n].type = "hb"
    BY <1>3 DEF Pending
  <2>2. n # 1 /\ Head(q[k]) = q[k][1]
    BY <1>1, <1>3, <2>1
  <2>3. /\ Len(Tail(q[k])) = Len(q[k]) - 1
        /\ n - 1 \in 1 .. Len(q[k]) - 1
        /\ Tail(q[k])[n - 1] = q[k][n]
    BY <1>1, <2>1, <2>2
  <2>4. Consume(q, k)[l] = Tail(q[k])
    BY <1>1, <1>3 DEF Consume
  <2> QED BY <2>1, <2>3, <2>4 DEF Pending
<1> QED BY <1>2, <1>3

\* A heartbeat that is sent waits at the other end, or the link is full.
LEMMA PendingSent ==
  ASSUME NEW q \in [Link -> Seq(Message)], NEW l \in Link, cable[l], NEW n \in Nat
  PROVE  Pending(Carry(q, l, Heartbeat(n)), l) \/ Len(Carry(q, l, Heartbeat(n))[l]) >= LinkCap
<1>1. q[l] \in Seq(Message) /\ Heartbeat(n).type = "hb" /\ Len(q[l]) \in Nat /\ LinkCap \in Nat
  BY ChainAssumption DEF Heartbeat
<1>2. CASE Len(q[l]) < LinkCap
  <2> DEFINE m == Heartbeat(n)
  <2>1. Carry(q, l, m)[l] = Append(q[l], m)
    BY <1>2 DEF Carry
  <2>2. m \in Message /\ m.type = "hb"
    BY <1>1, PlainMessages
  <2> HIDE DEF m
  <2>3. Len(Append(q[l], m)) = Len(q[l]) + 1 /\ Append(q[l], m)[Len(q[l]) + 1] = m
    BY <1>1, <2>2
  <2>4. Pending(Carry(q, l, m), l)
    BY <1>1, <2>1, <2>2, <2>3 DEF Pending
  <2> QED BY <2>4 DEF m
<1>3. CASE ~(Len(q[l]) < LinkCap)
  BY <1>1, <1>3 DEF Carry
<1> QED BY <1>2, <1>3

LEMMA FlushedElsewhere ==
  ASSUME NEW q \in [Link -> Seq(Message)], NEW k, NEW r \in Flushed(q, k)
  PROVE  \A l \in Link \ {k} : r[l] = q[l]
<1>1. CASE k \in Link
  <2>1. PICK n \in 1 .. Len(q[k]) + 1 : r = [q EXCEPT ![k] = SubSeq(q[k], n, Len(q[k]))]
    BY <1>1 DEF Flushed
  <2> QED BY <2>1
<1>2. CASE k \notin Link
  BY <1>2 DEF Flushed
<1> QED BY <1>1, <1>2

\* A line leaves the waiting heartbeats alone.
LEMMA LineNear ==
  ASSUME NEW i, NEW r, QueuesOK(r, NearMessages), NEW m \in {StartLine, StopLine}
  PROVE  /\ QueuesOK(SendDown(i, r, m), NearMessages)
         /\ \A l \in Link : Pending(r, l) => Pending(SendDown(i, r, m), l)
<1>1. QueuesOK(SendDown(i, r, m), NearMessages)
  BY StopAllowed, NearAllowed, CarryOK DEF SendDown
<1>2. r \in [Link -> Seq(Message)] /\ m \in Message
  BY PlainMessages DEF QueuesOK
<1> QED BY <1>1, <1>2, PendingCarry DEF SendDown

\* The lines a module sends when it stops.
LEMMA StoppedNear ==
  ASSUME NEW i \in Module, NEW q, QueuesOK(q, NearMessages)
  PROVE  /\ QueuesOK(StopSent(i, q), NearMessages) /\ QueuesOK(FinalLines(i, q), NearMessages)
         /\ \A l \in Link : Pending(q, l) => Pending(StopSent(i, q), l) /\ Pending(FinalLines(i, q), l)
<1>1. ASSUME NEW r, QueuesOK(r, NearMessages)
      PROVE  /\ QueuesOK(SendDown(i, r, StopLine), NearMessages)
             /\ \A l \in Link : Pending(r, l) => Pending(SendDown(i, r, StopLine), l)
  BY <1>1, LineNear
<1>2. ASSUME NEW r, QueuesOK(r, NearMessages)
      PROVE  /\ QueuesOK(StopSent(i, r), NearMessages)
             /\ \A l \in Link : Pending(r, l) => Pending(StopSent(i, r), l)
  BY <1>1, <1>2 DEF StopSent
<1> DEFINE last == IF recording[i] THEN SendDown(i, q, StopLine) ELSE q
<1>3. QueuesOK(last, NearMessages) /\ \A l \in Link : Pending(q, l) => Pending(last, l)
  BY <1>1
<1>4. FinalLines(i, q) = StopSent(i, last)
  BY DEF FinalLines
<1> HIDE DEF last
<1> QED BY <1>2, <1>3, <1>4

\* A step that leaves roles, places and ages alone and takes no heartbeat away from a module
\* that is in reach.
LEMMA QuietStep ==
  ASSUME IInv, Steady, UNCHANGED <<power, isMaster, moduleChainIndex, heardAge, sentAge, cable>>,
         QueuesOK(down', NearMessages),
         \A j \in Module : j - 1 \in Link /\ Near(j) /\ Pending(down, j - 1) => Pending(down', j - 1)
  PROVE  Steady'
<1>1. QueuesOK(down, NearMessages)'
  BY SameGaps DEF QueuesOK
<1>2. ASSUME NEW j \in Module PROVE Running(j)' /\ Placed(j)' /\ Heeded(j)'
  <2>1. Running(j)' /\ Placed(j) /\ Heeded(j)
    BY DEF Steady, Running, power
  <2>2. (Near(j)' <=> Near(j)) /\ \A h \in 0 .. j : Gap(h)' <=> Gap(h)
    BY SameGaps
  <2>3. Placed(j)'
    BY <2>1, <2>2 DEF Placed
  <2>4. Heeded(j)'
    BY <2>1, <2>2 DEF Heeded, Source
  <2> QED BY <2>1, <2>3, <2>4
<1> QED BY <1>1, <1>2 DEF Steady

\* A step of module i, which hears or sends a heartbeat, or is out of reach, as the others
\* see it.
LEMMA OthersHeed ==
  ASSUME IInv, IInv', Steady, NEW i \in Module, cable' = cable,
         \A j \in Module \ {i} : /\ isMaster'[j] = isMaster[j] /\ heardAge'[j] = heardAge[j]
                                 /\ sentAge'[j] = sentAge[j]
         ,
         \A l \in Link \ {i - 1} : Pending(down, l) => Pending(down', l),
         i \in Link /\ cable[i] /\ Near(i + 1) => Pending(down', i)
  PROVE  \A j \in Module \ {i} : Heeded(j)'
<1> SUFFICES ASSUME NEW j \in Module, j # i, ~isMaster'[j], Near(j)'
             PROVE  /\ j - 1 \in Link /\ cable[j - 1] /\ heardAge'[j] <= Interval
                    /\ heardAge'[j] <= Source(j - 1)' \/ Pending(down', j - 1)
  BY DEF Heeded
<1>1. Near(j)
  BY SameGaps
<1>2. /\ j - 1 \in Link /\ cable[j - 1] /\ heardAge[j] <= Interval
      /\ heardAge[j] <= Source(j - 1) \/ Pending(down, j - 1)
  BY <1>1 DEF Steady, Heeded
<1>3. i \in Int /\ j \in Int /\ i \in 0 .. N - 1 /\ j \in 0 .. N - 1
  BY ChainAssumption DEF Module
<1>4. CASE j = i + 1
  <2>1. j - 1 = i
    BY <1>3, <1>4
  <2>2. Pending(down', i)
    BY <1>1, <1>2, <1>4, <2>1
  <2> QED BY <1>2, <2>1, <2>2
<1>5. CASE j # i + 1
  <2>1. j - 1 # i /\ j - 1 # i - 1 /\ j - 1 \in Module
    BY <1>2, <1>3, <1>5, ChainAssumption DEF Link, Module
  <2>2. Source(j - 1)' = Source(j - 1)
    BY <2>1 DEF Source
  <2>3. Pending(down, j - 1) => Pending(down', j - 1)
    BY <1>2, <2>1
  <2> QED BY <1>2, <2>2, <2>3
<1> QED BY <1>4, <1>5

LEMMA PlacedOthers ==
  ASSUME Steady, NEW i \in Module, cable' = cable,
         \A j \in Module \ {i} : moduleChainIndex'[j] = moduleChainIndex[j]
  PROVE  \A j \in Module \ {i} : Placed(j)'
  BY SameGaps DEF Steady, Placed

\* Module i takes its place from a heartbeat and passes one on.
LEMMA HearStep ==
  ASSUME IInv, IInv', Steady, NEW i \in Module, NEW num \in Nat, cable' = cable, power' = power,
         i - 1 \in Link, cable[i - 1], \A h \in 0 .. i : Gap(h) => num <= i - h,
         heardAge' = [heardAge EXCEPT ![i] = 0], sentAge' = sentAge,
         moduleChainIndex' = [moduleChainIndex EXCEPT ![i] = num],
         isMaster' = isMaster \/ isMaster' = [isMaster EXCEPT ![i] = FALSE], ~isMaster'[i],
         QueuesOK(down', NearMessages),
         \A l \in Link \ {i - 1} : Pending(down, l) => Pending(down', l),
         i \in Link /\ cable[i] => Pending(down', i)
  PROVE  Steady'
<1>1. Functions /\ ModuleOK(i)
  BY Here
<1>2. /\ \A j \in Module \ {i} : Heeded(j)'
      /\ \A j \in Module \ {i} : Placed(j)'
  <2>1. \A j \in Module \ {i} :
          /\ isMaster'[j] = isMaster[j] /\ heardAge'[j] = heardAge[j] /\ sentAge'[j] = sentAge[j]
          /\ moduleChainIndex'[j] = moduleChainIndex[j]
    BY <1>1 DEF Functions
  <2> QED BY <2>1, OthersHeed, PlacedOthers
<1>3. Placed(i)'
  <2>1. moduleChainIndex'[i] = num
    BY <1>1 DEF Functions
  <2>2. \A h \in 0 .. i : Gap(h)' <=> Gap(h)
    BY SameGaps
  <2> QED BY <2>1, <2>2 DEF Placed
<1>4. Heeded(i)'
  <2>1. heardAge'[i] = 0
    BY <1>1 DEF Functions
  <2>2. i - 1 \in Module
    BY ChainAssumption DEF Link, Module
  <2>3. sentAge'[i-1] \in Nat /\ heardAge'[i-1] \in Nat
    BY <2>2 DEF IInv, TypeOK
  <2>4. 0 <= Source(i - 1)'
    BY <2>3 DEF Source
  <2>5. 0 <= Interval
    BY ChainAssumption
  <2> QED BY <2>1, <2>4, <2>5 DEF Heeded
<1>5. QueuesOK(down, NearMessages)'
  BY SameGaps DEF QueuesOK
<1>6. \A j \in Module : Running(j)'
  BY DEF Steady, Running, power
<1> QED BY <1>2, <1>3, <1>4, <1>5, <1>6 DEF Steady

LEMMA RefreshSteady ==
  ASSUME IInv, IInv', Steady, upsets' = 0, Roomy', NEW i \in Module, RefreshFromUpstream(i)
  PROVE  Steady'
<1> DEFINE num == Head(down[i-1]).num
           d == Consume(down, i - 1)
<1>1. /\ i - 1 \in Link /\ cable[i - 1] /\ num \in Nat
      /\ \A h \in 0 .. i : Gap(h) => num <= i - h
      /\ QueuesOK(d, NearMessages)
  BY NearOffer DEF RefreshFromUpstream, power
<1>2. /\ ~isMaster[i] /\ isMaster' = isMaster /\ power' = power /\ cable' = cable
      /\ heardAge' = [heardAge EXCEPT ![i] = 0] /\ sentAge' = sentAge
      /\ moduleChainIndex' = [moduleChainIndex EXCEPT ![i] = num]
      /\ down' = Carry(d, i, Heartbeat(num + 1))
      /\ Waiting(down, i - 1, "hb")
  BY DEF RefreshFromUpstream, AcceptHeartbeat, SendDown, power
<1>3. down \in [Link -> Seq(Message)] /\ d \in [Link -> Seq(Message)]
  BY <1>1 DEF IInv, TypeOK, QueuesOK
<1>4. Heartbeat(num + 1) \in Message /\ num + 1 \in Nat
  BY <1>1, PlainMessages
<1> HIDE DEF d, num
<1>5. i \in Link /\ cable[i] => Heartbeat(num + 1) \in NearMessages[i]
  BY <1>1, <1>4 DEF NearMessages, Heartbeat, Link
<1>6. QueuesOK(down', NearMessages)
  BY <1>1, <1>2, <1>5, NearAllowed, CarryOK
<1>7. \A l \in Link \ {i - 1} : Pending(down, l) => Pending(down', l)
  BY <1>2, <1>3, <1>4, PendingConsume, PendingCarry DEF d
<1>8. i \in Link /\ cable[i] => Pending(down', i)
  BY <1>2, <1>3, <1>4, PendingSent DEF Roomy
<1> QED BY <1>1, <1>2, <1>6, <1>7, <1>8, HearStep

LEMMA DemoteSteady ==
  ASSUME IInv, IInv', Steady, upsets' = 0, Roomy', NEW i \in Module, DemoteToSlave(i)
  PROVE  Steady'
<1> DEFINE num == Head(down[i-1]).num
           c == Consume(down, i - 1)
<1>1. /\ i - 1 \in Link /\ cable[i - 1] /\ num \in Nat
      /\ \A h \in 0 .. i : Gap(h) => num <= i - h
      /\ QueuesOK(c, NearMessages)
  BY NearOffer DEF DemoteToSlave, power
<1>2. PICK d \in Flushed(c, i - 1) : down' = SendDown(i, FinalLines(i, d), Heartbeat(num + 1))
  BY DEF DemoteToSlave, power
<1>3. /\ isMaster' = [isMaster EXCEPT ![i] = FALSE] /\ power' = power /\ cable' = cable
      /\ heardAge' = [heardAge EXCEPT ![i] = 0] /\ sentAge' = sentAge
      /\ moduleChainIndex' = [moduleChainIndex EXCEPT ![i] = num]
      /\ Waiting(down, i - 1, "hb")
  BY DEF DemoteToSlave, AcceptHeartbeat, power
<1>4. ~isMaster'[i]
  BY <1>3 DEF IInv, TypeOK
<1> HIDE DEF c, num
<1>5. QueuesOK(d, NearMessages)
  BY <1>1, NearAllowed, FlushedOK
<1> DEFINE f == FinalLines(i, d)
<1>6. QueuesOK(f, NearMessages) /\ \A l \in Link : Pending(d, l) => Pending(f, l)
  BY <1>5, StoppedNear
<1>7. down' = Carry(f, i, Heartbeat(num + 1))
  BY <1>2 DEF SendDown
<1> HIDE DEF f
<1>8. /\ down \in [Link -> Seq(Message)] /\ c \in [Link -> Seq(Message)]
      /\ d \in [Link -> Seq(Message)] /\ f \in [Link -> Seq(Message)]
  BY <1>1, <1>5, <1>6 DEF IInv, TypeOK, QueuesOK
<1>9. Heartbeat(num + 1) \in Message /\ num + 1 \in Nat
  BY <1>1, PlainMessages
<1>10. i \in Link /\ cable[i] => Heartbeat(num + 1) \in NearMessages[i]
  BY <1>1, <1>9 DEF NearMessages, Heartbeat, Link
<1>11. QueuesOK(down', NearMessages)
  BY <1>6, <1>7, <1>10, NearAllowed, CarryOK
<1>12. ASSUME NEW l \in Link \ {i - 1}, Pending(down, l) PROVE Pending(down', l)
  <2>1. Pending(c, l)
    BY <1>3, <1>8, <1>12, PendingConsume DEF c
  <2>2. d[l] = c[l]
    <3>1. c \in [Link -> Seq(Message)] /\ d \in Flushed(c, i - 1)
      BY <1>2, <1>8
    <3>2. \A k \in Link \ {i - 1} : d[k] = c[k]
      BY ONLY <3>1, FlushedElsewhere
    <3> QED BY <1>12, <3>2
  <2>3. Pending(d, l)
    BY <2>1, <2>2 DEF Pending
  <2> QED BY <1>6, <1>7, <1>8, <1>9, <2>3, PendingCarry
<1>13. i \in Link /\ cable[i] => Pending(down', i)
  BY <1>7, <1>8, <1>9, PendingSent DEF Roomy
<1> QED BY <1>1, <1>3, <1>4, <1>11, <1>12, <1>13, HearStep

\* A master sends its heartbeat, or a module out of reach promotes itself.
LEMMA SendHeartbeatSteady ==
  ASSUME IInv, IInv', Steady, upsets' = 0, Roomy', NEW i \in Module, SendHeartbeat(i)
  PROVE  Steady'
<1>1. /\ isMaster[i] /\ isMaster' = isMaster /\ power' = power /\ cable' = cable
      /\ heardAge' = heardAge /\ sentAge' = [sentAge EXCEPT ![i] = 0]
      /\ moduleChainIndex' = moduleChainIndex
      /\ down' = Carry(down, i, Heartbeat(moduleChainIndex[i] + 1))
  BY DEF SendHeartbeat, HeartbeatDue, SendDown, role, power
<1>2. /\ down \in [Link -> Seq(Message)] /\ sentAge \in [Module -> 0 .. Interval]
      /\ moduleChainIndex[i] \in Nat
      /\ QueuesOK(down, NearMessages)
  BY DEF IInv, TypeOK, Steady
<1> DEFINE n == moduleChainIndex[i] + 1
<1>3. n \in Nat /\ Heartbeat(n) \in Message
  BY <1>2, PlainMessages
<1>4. i \in Link /\ cable[i] => Heartbeat(n) \in NearMessages[i]
  <2>1. \A h \in 0 .. i : Gap(h) => n <= i + 1 - h
    BY <1>2 DEF Steady, Placed, Module
  <2> QED BY <1>3, <2>1 DEF NearMessages, Heartbeat
<1> HIDE DEF n
<1>5. QueuesOK(down', NearMessages)
  BY <1>1, <1>2, <1>4, NearAllowed, CarryOK DEF n
<1>6. \A l \in Link : Pending(down, l) => Pending(down', l)
  BY <1>1, <1>2, <1>3, PendingCarry DEF n
<1>7. i \in Link /\ cable[i] => Pending(down', i)
  BY <1>1, <1>2, <1>3, PendingSent DEF Roomy, n
<1>8. \A j \in Module \ {i} : Heeded(j)'
  <2>1. \A j \in Module \ {i} : sentAge'[j] = sentAge[j]
    BY <1>1, <1>2
  <2> QED BY <1>1, <1>6, <1>7, <2>1, OthersHeed
<1>9. Heeded(i)'
  BY <1>1 DEF Heeded
<1>10. \A j \in Module : Placed(j)'
  BY <1>1, SameGaps DEF Steady, Placed
<1>11. QueuesOK(down, NearMessages)'
  BY <1>1, <1>5, SameGaps DEF QueuesOK
<1>12. \A j \in Module : Running(j)'
  BY <1>1 DEF Steady, Running, power
<1> QED BY <1>1, <1>8, <1>9, <1>10, <1>11, <1>12 DEF Steady

\* Only a module for which the chain has no place loses its upstream neighbour.
LEMMA LostOutOfReach ==
  ASSUME IInv, Steady, Interval < Timeout, NEW i \in Module, UpstreamLost(i)
  PROVE  ~Near(i)
<1>1. heardAge[i] \in 0 .. Timeout /\ heardAge[i] >= Timeout /\ ~isMaster[i]
  BY DEF UpstreamLost, IInv, TypeOK
<1>2. Interval \in Nat /\ Timeout \in Nat
  BY ChainAssumption
<1> QED BY <1>1, <1>2 DEF Steady, Heeded

LEMMA PromoteSteady ==
  ASSUME IInv, IInv', Steady, Interval < Timeout, NEW i \in Module, PromoteToMaster(i)
  PROVE  Steady'
<1>1. ~Near(i)
  BY LostOutOfReach DEF PromoteToMaster, power
<1>2. PICK d \in Flushed(down, i - 1) : down' = FinalLines(i, d)
  BY DEF PromoteToMaster, power
<1>3. /\ isMaster' = [isMaster EXCEPT ![i] = TRUE] /\ power' = power /\ cable' = cable
      /\ heardAge' = heardAge /\ sentAge' = [sentAge EXCEPT ![i] = 0]
      /\ moduleChainIndex' = [moduleChainIndex EXCEPT ![i] = 0]
  BY DEF PromoteToMaster, power
<1>4. Functions /\ ModuleOK(i)
  BY Here
<1>5. QueuesOK(down, NearMessages) /\ down \in [Link -> Seq(Message)]
  BY DEF Steady, IInv, TypeOK
<1>6. QueuesOK(d, NearMessages)
  BY <1>5, NearAllowed, FlushedOK
<1>7. QueuesOK(down', NearMessages) /\ \A l \in Link : Pending(d, l) => Pending(down', l)
  BY <1>2, <1>6, StoppedNear
<1>8. \A l \in Link \ {i - 1} : Pending(down, l) => Pending(down', l)
  BY <1>5, <1>7, FlushedElsewhere DEF Pending
<1>9. ASSUME cable[i], Near(i + 1) PROVE FALSE
  <2>1. i \in Nat /\ MAX_MODULES \in Nat
    BY ChainAssumption DEF Module
  <2>2. PICK h \in 0 .. i + 1 : Gap(h) /\ i + 1 - h < MAX_MODULES
    BY <1>9, <2>1 DEF Near
  <2>3. h # i + 1
    BY <1>9, <2>1, <2>2 DEF Gap
  <2>4. h \in 0 .. i /\ i - h < MAX_MODULES
    BY <2>1, <2>2, <2>3
  <2> QED BY <1>1, <2>2, <2>4 DEF Near
<1>10. /\ \A j \in Module \ {i} : Heeded(j)'
       /\ \A j \in Module \ {i} : Placed(j)'
  <2>1. \A j \in Module \ {i} :
          /\ isMaster'[j] = isMaster[j] /\ heardAge'[j] = heardAge[j] /\ sentAge'[j] = sentAge[j]
          /\ moduleChainIndex'[j] = moduleChainIndex[j]
    BY <1>3, <1>4 DEF Functions
  <2> QED BY <1>3, <1>8, <1>9, <2>1, OthersHeed, PlacedOthers
<1>11. Heeded(i)' /\ Placed(i)'
  <2>1. isMaster'[i] /\ moduleChainIndex'[i] = 0 /\ i \in Nat
    BY <1>3, <1>4 DEF Functions, Module
  <2> QED BY <2>1 DEF Heeded, Placed
<1>12. QueuesOK(down, NearMessages)'
  BY <1>3, <1>7, SameGaps DEF QueuesOK
<1>13. \A j \in Module : Running(j)'
  BY <1>3 DEF Steady, Running, power
<1> QED BY <1>3, <1>10, <1>11, <1>12, <1>13 DEF Steady

\* The noise, the lines and the replies that a module handles.
LEMMA QuietLoop ==
  ASSUME IInv, Steady, NEW i \in Module,
         \/ IgnoreUpstreamNoise(i)
         \/ BroadcastFromUpstream(i)
         \/ StopFromUpstream(i)
         \/ IgnoreDownstreamNoise(i)
         \/ ReplyFromDownstream(i)
         \/ CheckHeartbeatReply(i)
  PROVE  Steady'
<1>1. QueuesOK(down, NearMessages) /\ down \in [Link -> Seq(Message)]
  BY DEF Steady, IInv, TypeOK
<1> SUFFICES /\ UNCHANGED <<power, isMaster, moduleChainIndex, heardAge, sentAge, cable>>
             /\ QueuesOK(down', NearMessages)
             /\ \A j \in Module : j - 1 \in Link /\ Near(j) /\ Pending(down, j - 1)
                                    => Pending(down', j - 1)
  BY QuietStep
<1>2. CASE IgnoreUpstreamNoise(i)
  <2>1. /\ UNCHANGED <<power, isMaster, moduleChainIndex, heardAge, sentAge, cable>>
        /\ down' = Consume(down, i - 1) /\ Waiting(down, i - 1, "hb")
        /\ ~(Head(down[i-1]).num < MAX_MODULES)
    BY <1>2 DEF IgnoreUpstreamNoise, role, ages, Plausible, power
  <2>2. QueuesOK(down', NearMessages)
    BY <2>1, NearOffer
  <2>3. ~Near(i)
    <3>1. /\ Head(down[i-1]).num \in Nat
          /\ \A h \in 0 .. i : Gap(h) => Head(down[i-1]).num <= i - h
      BY <2>1, NearOffer
    <3>2. MAX_MODULES \in Nat /\ i \in Nat
      BY ChainAssumption DEF Module
    <3> QED BY <2>1, <3>1, <3>2 DEF Near
  <2>4. ASSUME NEW j \in Module, j - 1 \in Link, Near(j), Pending(down, j - 1)
        PROVE  Pending(down', j - 1)
    <3>1. j - 1 # i - 1
      BY <2>3, <2>4 DEF Module
    <3> QED BY <1>1, <2>1, <2>4, <3>1, PendingConsume
  <2> QED BY <2>1, <2>2, <2>4
<1>3. CASE BroadcastFromUpstream(i) \/ StopFromUpstream(i)
  <2>1. PICK m \in {StartLine, StopLine} : \E type \in {"b", "x"} :
          /\ down' = SendDown(i, Consume(down, i - 1), m) /\ Waiting(down, i - 1, type)
    BY <1>3 DEF BroadcastFromUpstream, StopFromUpstream, power
  <2>2. PICK type \in {"b", "x"} :
          /\ down' = SendDown(i, Consume(down, i - 1), m) /\ Waiting(down, i - 1, type)
    BY <2>1
  <2>3. UNCHANGED <<power, isMaster, moduleChainIndex, heardAge, sentAge, cable>>
    BY <1>3 DEF BroadcastFromUpstream, StopFromUpstream, role, ages, power
  <2> DEFINE c == Consume(down, i - 1)
  <2>4. QueuesOK(c, NearMessages)
    BY <1>1, <2>2, NearAllowed, ConsumeOK
  <2>5. \A l \in Link : Pending(down, l) => Pending(c, l)
    BY <1>1, <2>2, PendingConsume
  <2>6. down' = SendDown(i, c, m)
    BY <2>2
  <2> HIDE DEF c
  <2> QED BY <2>3, <2>4, <2>5, <2>6, LineNear
<1>4. CASE IgnoreDownstreamNoise(i) \/ ReplyFromDownstream(i)
  BY <1>1, <1>4 DEF IgnoreDownstreamNoise, ReplyFromDownstream, role, ages, power
<1>5. CASE CheckHeartbeatReply(i)
  <2>1. /\ UNCHANGED <<power, isMaster, moduleChainIndex, heardAge, sentAge, cable>>
        /\ down' = down \/ down' = StopSent(i, down)
    BY <1>5 DEF CheckHeartbeatReply, ages, power
  <2> QED BY <1>1, <2>1, StoppedNear
<1> QED BY <1>2, <1>3, <1>4, <1>5

\* What users and the controller do until something upsets the chain.
LEMMA QuietUsers ==
  ASSUME IInv, Steady, upsets' = 0, Environment \/ UNCHANGED vars
  PROVE  Steady'
<1>1. QueuesOK(down, NearMessages) /\ down \in [Link -> Seq(Message)]
  BY DEF Steady, IInv, TypeOK
<1>2. upsets \in Nat /\ \A j \in Module : Running(j)
  BY ChainAssumption DEF Steady, IInv, TypeOK
<1> SUFFICES /\ UNCHANGED <<power, isMaster, moduleChainIndex, heardAge, sentAge, cable>>
             /\ QueuesOK(down', NearMessages)
             /\ \A l \in Link : Pending(down, l) => Pending(down', l)
  BY QuietStep
<1>3. ASSUME NEW i \in Module, NEW mode \in Mode, StartSequence(i, mode)
      PROVE  /\ UNCHANGED <<power, isMaster, moduleChainIndex, heardAge, sentAge, cable>>
             /\ QueuesOK(down', NearMessages)
             /\ \A l \in Link : Pending(down, l) => Pending(down', l)
  <2>1. /\ UNCHANGED <<power, isMaster, moduleChainIndex, heardAge, sentAge, cable>>
        /\ down' = down \/ down' = SendDown(i, down, StartLine)
    BY <1>3 DEF StartSequence, role, ages, power
  <2> QED BY <1>1, <2>1, LineNear
<1>4. ASSUME NEW i \in Module, StopSequence(i) \/ StartRecording(i) \/ StopRecording(i)
      PROVE  /\ UNCHANGED <<power, isMaster, moduleChainIndex, heardAge, sentAge, cable>>
             /\ QueuesOK(down', NearMessages)
             /\ \A l \in Link : Pending(down, l) => Pending(down', l)
  <2>1. /\ UNCHANGED <<power, isMaster, moduleChainIndex, heardAge, sentAge, cable>>
        /\ down' = StopSent(i, down) \/ down' = SendDown(i, down, StopLine)
    BY <1>4 DEF StopSequence, StartRecording, StopRecording, role, ages, power
  <2> QED BY <1>1, <2>1, StoppedNear, LineNear
<1>5. ASSUME NEW i \in Module, PowerOff(i) \/ PowerOn(i) \/ Reboot(i) \/ Block(i)
      PROVE  FALSE
  BY <1>2, <1>5 DEF PowerOff, PowerOn, Reboot, Block, Running, power, Upset
<1>6. ASSUME NEW l \in Link, Plug(l) \/ Unplug(l) PROVE FALSE
  BY <1>2, <1>6 DEF Plug, Unplug, power, Upset
<1>7. CASE UNCHANGED vars
  BY <1>1, <1>7 DEF vars, role, ages, links, power
<1> QED BY <1>3, <1>4, <1>5, <1>6, <1>7 DEF Environment

LEMMA Least ==
  ASSUME NEW T \in SUBSET Nat, T # {}
  PROVE  \E n \in T : \A m \in T : n <= m
<1> DEFINE R == OpToRel(<, Nat)
<1>1. PICK n \in T : \A m \in T : ~(<<m, n>> \in R)
  BY NatLessThanWellFounded, WFMin
<1>2. \A m \in T : m < n => <<m, n>> \in R
  BY DEF OpToRel
<1> HIDE DEF R
<1>3. \A m \in T : ~(m < n)
  BY <1>1, <1>2
<1>4. n \in Nat /\ \A m \in T : m \in Nat
  OBVIOUS
<1> QED BY <1>3, <1>4

\* Time passes when every queue is empty: a slave in reach heard a heartbeat after its
\* neighbour passed one on, and so on up to the master, whose next one is not due yet.
LEMMA TickSteady ==
  ASSUME IInv, IInv', Steady, Tick
  PROVE  Steady'
<1>1. /\ UNCHANGED <<power, isMaster, moduleChainIndex, cable, down>>
      /\ sentAge' = Older(sentAge, Interval) /\ heardAge' = Older(heardAge, Timeout)
      /\ \A i \in Module : ~Busy(i)
  BY DEF Tick, role, links, power
<1>2. /\ Interval \in Nat /\ Timeout \in Nat
      /\ sentAge \in [Module -> 0 .. Interval] /\ heardAge \in [Module -> 0 .. Timeout]
  BY ChainAssumption DEF IInv, TypeOK
<1>3. \A j \in Module : isMaster[j] => sentAge[j] < Interval
  BY <1>1, <1>2 DEF Steady, Busy, HeartbeatDue
<1>4. ASSUME NEW j \in Module, ~isMaster[j], Near(j)
      PROVE  /\ j - 1 \in Link /\ j - 1 \in Module /\ cable[j - 1]
             /\ heardAge[j] <= Interval /\ heardAge[j] <= Source(j - 1) /\ Near(j - 1)
  <2>1. /\ j - 1 \in Link /\ cable[j - 1] /\ heardAge[j] <= Interval
        /\ heardAge[j] <= Source(j - 1) \/ Pending(down, j - 1)
    BY <1>4 DEF Steady, Heeded
  <2>2. ~Pending(down, j - 1)
    <3>1. down[j-1] = << >>
      BY <1>1, <2>1 DEF Busy, Steady
    <3> QED BY <3>1 DEF Pending
  <2>3. j - 1 \in Module
    BY <2>1, ChainAssumption DEF Link, Module
  <2>4. Near(j - 1)
    <3>1. j \in Nat /\ MAX_MODULES \in Nat
      BY ChainAssumption DEF Module
    <3>2. PICK h \in 0 .. j : Gap(h) /\ j - h < MAX_MODULES
      BY <1>4 DEF Near
    <3>3. h # j
      BY <2>1, <2>3, <3>2 DEF Gap, Module
    <3>4. h \in 0 .. j - 1 /\ (j - 1) - h < MAX_MODULES
      BY <3>1, <3>2, <3>3
    <3> QED BY <3>2, <3>4 DEF Near
  <2> QED BY <2>1, <2>2, <2>3, <2>4
<1>5. ASSUME NEW j \in Module, ~isMaster[j], Near(j) PROVE heardAge[j] < Interval
  <2> DEFINE T == {k \in Module : ~isMaster[k] /\ Near(k) /\ heardAge[k] >= Interval}
  <2>1. T \in SUBSET Nat
    BY DEF Module
  <2>2. ASSUME T # {} PROVE FALSE
    <3>1. PICK k \in T : \A n \in T : k <= n
      <4> HIDE DEF T
      <4> QED BY <2>1, <2>2, Least
    <3>2. /\ k - 1 \in Module /\ heardAge[k] <= Source(k - 1) /\ Near(k - 1)
          /\ heardAge[k] >= Interval /\ heardAge[k] \in Int /\ heardAge[k - 1] \in Int
          /\ sentAge[k - 1] \in Int /\ k \in Int
      BY <1>2, <1>4 DEF Module
    <3>3. ~isMaster[k - 1]
      BY <1>2, <1>3, <3>2 DEF Source
    <3>4. heardAge[k - 1] >= Interval
      BY <1>2, <3>2, <3>3 DEF Source
    <3>5. k - 1 \in T
      BY <3>2, <3>3, <3>4
    <3> QED BY <3>1, <3>2, <3>5
  <2>3. heardAge[j] \in Int
    BY <1>2
  <2> QED BY <1>2, <1>5, <2>2, <2>3
<1>6. ASSUME NEW j \in Module PROVE Heeded(j)'
  <2> SUFFICES ASSUME ~isMaster[j], Near(j)
               PROVE  /\ j - 1 \in Link /\ cable[j - 1] /\ heardAge'[j] <= Interval
                      /\ heardAge'[j] <= Source(j - 1)'
    BY <1>1, SameGaps DEF Heeded
  <2>1. /\ j - 1 \in Link /\ j - 1 \in Module /\ cable[j - 1]
        /\ heardAge[j] <= Source(j - 1) /\ heardAge[j] < Interval
    BY <1>4, <1>5
  <2>2. /\ heardAge[j] \in Int /\ heardAge[j-1] \in 0 .. Timeout /\ sentAge[j-1] \in 0 .. Interval
        /\ heardAge[j] \in 0 .. Timeout
    BY <1>2, <2>1
  <2>3. heardAge'[j] = IF heardAge[j] < Timeout THEN heardAge[j] + 1 ELSE Timeout
    BY <1>1 DEF Older
  <2>4. heardAge'[j-1] = IF heardAge[j-1] < Timeout THEN heardAge[j-1] + 1 ELSE Timeout
    BY <1>1, <2>1 DEF Older
  <2>5. isMaster[j-1] => sentAge'[j-1] = sentAge[j-1] + 1
    BY <1>1, <1>3, <2>1 DEF Older
  <2>6. heardAge'[j] <= Interval
    BY <1>2, <2>1, <2>2, <2>3
  <2>7. heardAge'[j] <= Source(j - 1)'
    <3>1. CASE isMaster[j-1]
      BY <1>1, <1>2, <2>1, <2>2, <2>3, <2>5, <3>1 DEF Source
    <3>2. CASE ~isMaster[j-1]
      BY <1>1, <1>2, <2>1, <2>2, <2>3, <2>4, <3>2 DEF Source
    <3> QED BY <3>1, <3>2
  <2> QED BY <2>1, <2>6, <2>7
<1>7. \A j \in Module : Running(j)' /\ Placed(j)'
  BY <1>1, SameGaps DEF Steady, Placed, Running, power
<1>8. QueuesOK(down, NearMessages)'
  BY <1>1, SameGaps DEF QueuesOK, Steady
<1> QED BY <1>6, <1>7, <1>8 DEF Steady

LEMMA SteadyInit == Init => SteadyInv
<1> SUFFICES ASSUME Init PROVE Steady
  BY DEF SteadyInv
<1>1. \A l \in Link : << >> \in Seq(NearMessages[l])
  BY NearAllowed
<1>2. QueuesOK(down, NearMessages)
  BY <1>1 DEF Init, QueuesOK
<1>3. ASSUME NEW i \in Module PROVE Running(i) /\ Placed(i) /\ Heeded(i)
  BY DEF Init, Placed, Heeded, Module, Running
<1> QED BY <1>2, <1>3 DEF Steady

LEMMA MovesGrow ==
  ASSUME IInv, [Next]_vars, upsets' = 0
  PROVE  upsets = 0
<1>1. upsets \in Nat
  BY ChainAssumption DEF IInv, TypeOK
<1>2. upsets' = upsets \/ upsets' = upsets + 1
  BY DEF Next, Loop, IgnoreUpstreamNoise, RefreshFromUpstream, DemoteToSlave,
         BroadcastFromUpstream, StopFromUpstream, IgnoreDownstreamNoise, ReplyFromDownstream,
         PromoteToMaster, CheckHeartbeatReply, SendHeartbeat, Environment, StartSequence,
         StopSequence, StartRecording, StopRecording, PowerOff, PowerOn, Reboot, Plug, Unplug,
         Tick, bounds, vars, power, Upset, Resume, Block
<1> QED BY <1>1, <1>2

LEMMA RecordingsGrow ==
  ASSUME IInv, [Next]_vars, recordings' = 0
  PROVE  recordings = 0
<1>1. recordings \in Nat
  BY ChainAssumption DEF IInv, TypeOK
<1>2. recordings' = recordings \/ recordings' = recordings + 1
  BY DEF Next, Loop, IgnoreUpstreamNoise, RefreshFromUpstream, DemoteToSlave,
         BroadcastFromUpstream, StopFromUpstream, IgnoreDownstreamNoise, ReplyFromDownstream,
         PromoteToMaster, CheckHeartbeatReply, SendHeartbeat, Environment, StartSequence,
         StopSequence, StartRecording, StopRecording, PowerOff, PowerOn, Reboot, Plug, Unplug,
         Tick, bounds, vars, power, Upset, Resume, Block
<1> QED BY <1>1, <1>2

LEMMA SteadyNext ==
  ASSUME IInv, IInv', SteadyInv, Roomy', Interval < Timeout, [Next]_vars
  PROVE  SteadyInv'
<1> SUFFICES ASSUME upsets' = 0 PROVE Steady'
  BY DEF SteadyInv
<1>1. Steady
  BY MovesGrow DEF SteadyInv
<1>2. ASSUME NEW i \in Module, Loop(i) PROVE Steady'
  <2>1. ~Resume(i)
    BY <1>1 DEF Steady, Running, Resume
  <2> QED BY <1>1, <1>2, <2>1, QuietLoop, RefreshSteady, DemoteSteady, SendHeartbeatSteady,
             PromoteSteady DEF Loop
<1>3. CASE Environment \/ UNCHANGED vars
  BY <1>1, <1>3, QuietUsers
<1>4. CASE Tick
  BY <1>1, <1>4, TickSteady
<1> QED BY <1>2, <1>3, <1>4 DEF Next

\* Where all modules are on, the leftmost one of a chain has no cable on its left.
LEMMA LeftmostGap ==
  ASSUME NEW i \in Module, \A j \in Module : Running(j)
  PROVE  Leftmost(i) \in 0 .. i /\ Gap(Leftmost(i))
<1>1. i \in Nat /\ i < N /\ N \in Nat
  BY ChainAssumption DEF Module
<1> DEFINE T == {n \in 0 .. i : i - n = 0 \/ ~Linked(i - n - 1)}
<1>2. PICK n \in T : \A m \in T : n <= m
  <2>1. T \in SUBSET Nat /\ i \in T
    BY <1>1
  <2> HIDE DEF T
  <2> QED BY <2>1, Least
<1>3. \E h \in 0 .. i : /\ h = 0 \/ ~Linked(h - 1)
                        /\ \A l \in h .. i - 1 : Linked(l)
  <2>1. i - n \in 0 .. i /\ (i - n = 0 \/ ~Linked((i - n) - 1))
    BY <1>1, <1>2
  <2>2. ASSUME NEW l \in i - n .. i - 1 PROVE Linked(l)
    <3>1. i - l - 1 \in 0 .. i /\ i - l - 1 < n /\ l \in Int /\ n \in Int
      BY <1>1, <1>2
    <3>2. i - l - 1 \notin T
      <4>1. \A m \in T : n <= m
        BY <1>2
      <4> HIDE DEF T
      <4> QED BY <3>1, <4>1
    <3>3. i - (i - l - 1) - 1 = l
      BY <1>1, <3>1
    <3> QED BY <3>1, <3>2, <3>3
  <2> QED BY <2>1, <2>2
<1> HIDE DEF T
<1>4. /\ Leftmost(i) \in 0 .. i
      /\ Leftmost(i) = 0 \/ ~Linked(Leftmost(i) - 1)
  BY <1>3 DEF Leftmost
<1>5. Leftmost(i) # 0 => Leftmost(i) - 1 \in Module
  BY <1>1, <1>4 DEF Module
<1> QED BY <1>4, <1>5 DEF Linked, Gap, Running

\* Until something upsets the chain, a slave within MAX_MODULES of the head of its chain stays
\* a slave, whatever is played, recorded and stopped meanwhile, if the timeout is longer than
\* the heartbeat interval and lines alone never fill a receive buffer.  A loop that blocks for
\* more than a tick is an upset: where webSocket.loop() does, slaves do promote themselves.
THEOREM NoPromotionAtRest ==
  ASSUME Interval < Timeout
  PROVE  Spec /\ []Roomy => NoSpuriousPromotion
<1>1. ASSUME IInv, SteadyInv, [Next]_vars, upsets' = 0, NEW i \in Module,
             isMaster'[i], ~isMaster[i]
      PROVE  i - Leftmost(i) >= MAX_MODULES
  <2>1. Steady /\ upsets = 0
    BY <1>1, MovesGrow DEF SteadyInv
  <2>2. isMaster \in [Module -> BOOLEAN]
    BY <1>1 DEF IInv, TypeOK
  <2>3. PromoteToMaster(i)
    <3>1. ASSUME NEW j \in Module, Loop(j) PROVE PromoteToMaster(i)
      BY <1>1, <2>2, <3>1
         DEF Loop, IgnoreUpstreamNoise, RefreshFromUpstream, DemoteToSlave,
             BroadcastFromUpstream, StopFromUpstream, IgnoreDownstreamNoise,
             ReplyFromDownstream, PromoteToMaster, CheckHeartbeatReply, SendHeartbeat, role, power, Resume
    <3>2. ASSUME Environment PROVE FALSE
      BY <1>1, <2>1, <3>2
         DEF Environment, StartSequence, StopSequence, StartRecording, StopRecording,
             PowerOff, PowerOn, Reboot, Plug, Unplug, role, power, Upset, Block
    <3>3. UNCHANGED role => FALSE
      BY <1>1 DEF role
    <3> QED BY <1>1, <3>1, <3>2, <3>3 DEF Next, Tick, vars, power
  <2>4. ~Near(i)
    BY <1>1, <2>1, <2>3, LostOutOfReach DEF PromoteToMaster, power
  <2>5. Leftmost(i) \in 0 .. i /\ Gap(Leftmost(i))
    BY <2>1, LeftmostGap DEF Steady
  <2>6. i \in Int /\ MAX_MODULES \in Int
    BY ChainAssumption DEF Module
  <2> QED BY <2>4, <2>5, <2>6 DEF Near
<1>2. IInv /\ SteadyInv /\ [Next]_vars =>
        [upsets' = 0 => \A i \in Module :
           isMaster'[i] => isMaster[i] \/ i - Leftmost(i) >= MAX_MODULES]_vars
  BY <1>1
<1>3. IInv /\ IInv' /\ SteadyInv /\ Roomy' /\ [Next]_vars => SteadyInv'
  BY SteadyNext
<1>4. QED
  BY <1>2, <1>3, SteadyInit, Invariance, PTL DEF Spec, NoSpuriousPromotion

-----------------------------------------------------------------------------
(***************************************************************************)
(* The safety half of RolesConverge.  Until something upsets it, indices   *)
(* within reach of the head of a chain only grow, and the heartbeats on    *)
(* the way to a module offer it ever higher places, none below its own and *)
(* none beyond the one after its neighbour.  A module that has reached its *)
(* place therefore keeps it.                                               *)
(***************************************************************************)
InOrder(s, lo, hi) ==
  \A n \in 1 .. Len(s) : s[n].type = "hb" =>
    /\ lo <= s[n].num /\ s[n].num <= hi
    /\ \A k \in n .. Len(s) : s[k].type = "hb" => s[n].num <= s[k].num

\* The queues q suit the indices x.
Suits(q, x) ==
  \A l \in Link : cable[l] /\ Near(l + 1) =>
    /\ x[l + 1] <= x[l] + 1
    /\ InOrder(q[l], x[l + 1], x[l] + 1)

Orderly == upsets = 0 => Suits(down, moduleChainIndex)

\* Until something upsets the chain, the index of a module within reach never falls and never passes the
\* module's place.
PlacesGrow ==
  [][upsets' = 0 => \A i \in Module : i - Leftmost(i) < MAX_MODULES =>
       moduleChainIndex[i] <= moduleChainIndex'[i] /\ moduleChainIndex'[i] <= i - Leftmost(i)]_vars

LEMMA OrderWiden ==
  ASSUME NEW s \in Seq(Message), NEW lo \in Int, NEW hi \in Int, InOrder(s, lo, hi),
         NEW low \in Int, NEW high \in Int, low <= lo, hi <= high
  PROVE  InOrder(s, low, high)
<1>1. \A m \in Message : m.num \in Int
  BY DEF Message
<1>2. \A n \in 1 .. Len(s) : s[n] \in Message
  OBVIOUS
<1>3. \A n \in 1 .. Len(s) : s[n].num \in Int
  BY <1>1, <1>2
<1> QED BY <1>3 DEF InOrder

LEMMA OrderAppend ==
  ASSUME NEW s \in Seq(Message), NEW lo \in Int, NEW hi \in Int, InOrder(s, lo, hi),
         lo <= hi, NEW m \in Message, m.type = "hb" => m.num = hi
  PROVE  InOrder(Append(s, m), lo, hi)
<1> DEFINE t == Append(s, m)
<1>1. /\ Len(s) \in Nat /\ Len(t) = Len(s) + 1 /\ t[Len(s) + 1] = m
      /\ \A n \in 1 .. Len(s) : t[n] = s[n]
  OBVIOUS
<1> HIDE DEF t
<1>2. SUFFICES ASSUME NEW n \in 1 .. Len(t), t[n].type = "hb"
               PROVE  /\ lo <= t[n].num /\ t[n].num <= hi
                      /\ \A k \in n .. Len(t) : t[k].type = "hb" => t[n].num <= t[k].num
  BY DEF InOrder, t
<1>3. CASE n = Len(s) + 1
  BY <1>1, <1>2, <1>3
<1>4. CASE n # Len(s) + 1
  <2>1. n \in 1 .. Len(s) /\ t[n] = s[n] /\ s[n].type = "hb"
    BY <1>1, <1>2, <1>4
  <2>2. /\ lo <= s[n].num /\ s[n].num <= hi
        /\ \A k \in n .. Len(s) : s[k].type = "hb" => s[n].num <= s[k].num
    BY <2>1 DEF InOrder
  <2>3. ASSUME NEW k \in n .. Len(t), t[k].type = "hb" PROVE s[n].num <= t[k].num
    <3>1. CASE k = Len(s) + 1
      BY <1>1, <2>2, <2>3, <3>1
    <3>2. CASE k # Len(s) + 1
      BY <1>1, <2>1, <2>2, <2>3, <3>2
    <3> QED BY <3>1, <3>2
  <2> QED BY <2>1, <2>2, <2>3
<1> QED BY <1>3, <1>4

LEMMA OrderRest ==
  ASSUME NEW s \in Seq(Message), NEW lo, NEW hi, InOrder(s, lo, hi),
         NEW k \in 1 .. Len(s) + 1
  PROVE  /\ InOrder(SubSeq(s, k, Len(s)), lo, hi)
         /\ k = 2 /\ s # << >> /\ Head(s).type = "hb" => InOrder(SubSeq(s, k, Len(s)), Head(s).num, hi)
<1> DEFINE t == SubSeq(s, k, Len(s))
<1>1. /\ Len(s) \in Nat /\ Len(t) = Len(s) - k + 1
      /\ \A n \in 1 .. Len(t) : t[n] = s[n + k - 1] /\ n + k - 1 \in 1 .. Len(s)
  OBVIOUS
<1> HIDE DEF t
<1>2. ASSUME NEW n \in 1 .. Len(t), t[n].type = "hb"
      PROVE  /\ lo <= t[n].num /\ t[n].num <= hi
             /\ \A j \in n .. Len(t) : t[j].type = "hb" => t[n].num <= t[j].num
             /\ k = 2 /\ s # << >> /\ Head(s).type = "hb" => Head(s).num <= t[n].num
  <2>1. n + k - 1 \in 1 .. Len(s) /\ t[n] = s[n + k - 1]
    BY <1>1
  <2>2. /\ lo <= t[n].num /\ t[n].num <= hi
        /\ \A j \in n + k - 1 .. Len(s) : s[j].type = "hb" => t[n].num <= s[j].num
    BY <1>2, <2>1 DEF InOrder
  <2>3. ASSUME NEW j \in n .. Len(t), t[j].type = "hb" PROVE t[n].num <= t[j].num
    <3>1. j \in 1 .. Len(t) /\ t[j] = s[j + k - 1] /\ j + k - 1 \in n + k - 1 .. Len(s)
      BY <1>1
    <3> QED BY <2>2, <2>3, <3>1
  <2>4. ASSUME k = 2, s # << >>, Head(s).type = "hb" PROVE Head(s).num <= t[n].num
    <3>1. Head(s) = s[1] /\ 1 \in 1 .. Len(s) /\ n + k - 1 \in 1 .. Len(s)
      BY <2>1, <2>4
    <3> QED BY <1>2, <2>1, <2>4, <3>1 DEF InOrder
  <2> QED BY <2>2, <2>3, <2>4
<1>3. InOrder(t, lo, hi)
  BY <1>2 DEF InOrder
<1>4. k = 2 /\ s # << >> /\ Head(s).type = "hb" => InOrder(t, Head(s).num, hi)
  BY <1>2 DEF InOrder
<1> QED BY <1>3, <1>4 DEF t

LEMMA NearBefore ==
  ASSUME NEW i \in Module, i - 1 \in Link, cable[i - 1], Near(i)
  PROVE  i - 1 \in Module /\ Near(i - 1)
<1>1. i \in Nat /\ i - 1 \in Module /\ MAX_MODULES \in Nat
  BY ChainAssumption DEF Module, Link
<1>2. PICK h \in 0 .. i : Gap(h) /\ i - h < MAX_MODULES
  BY DEF Near
<1>3. h # i
  BY <1>1, <1>2 DEF Gap, Module
<1>4. h \in 0 .. i - 1 /\ (i - 1) - h < MAX_MODULES
  BY <1>1, <1>2, <1>3
<1> QED BY <1>1, <1>2, <1>4 DEF Near

LEMMA SuitsConsumed ==
  ASSUME NEW q \in [Link -> Seq(Message)], NEW x, Suits(q, x), NEW k, NEW type,
         Waiting(q, k, type)
  PROVE  Suits(Consume(q, k), x)
<1>1. k \in Link /\ q[k] \in Seq(Message) /\ q[k] # << >>
  BY DEF Waiting
<1>2. Tail(q[k]) = SubSeq(q[k], 2, Len(q[k])) /\ 2 \in 1 .. Len(q[k]) + 1
  BY <1>1
<1>3. \A l \in Link : Consume(q, k)[l] = IF l = k THEN Tail(q[k]) ELSE q[l]
  BY DEF Consume
<1> QED BY <1>1, <1>2, <1>3, OrderRest DEF Suits

LEMMA SuitsFlushed ==
  ASSUME NEW q \in [Link -> Seq(Message)], NEW x, Suits(q, x), NEW k, NEW r \in Flushed(q, k)
  PROVE  Suits(r, x)
<1>1. CASE k \in Link
  <2>1. PICK n \in 1 .. Len(q[k]) + 1 : r = [q EXCEPT ![k] = SubSeq(q[k], n, Len(q[k]))]
    BY <1>1 DEF Flushed
  <2>2. \A l \in Link : r[l] = IF l = k THEN SubSeq(q[k], n, Len(q[k])) ELSE q[l]
    BY <2>1
  <2>3. q[k] \in Seq(Message)
    BY <1>1
  <2> QED BY <2>2, <2>3, OrderRest DEF Suits
<1>2. CASE k \notin Link
  BY <1>2 DEF Flushed
<1> QED BY <1>1, <1>2

\* A module sends lines and, as heartbeat, the place after its own.
LEMMA SuitsSent ==
  ASSUME NEW q \in [Link -> Seq(Message)], NEW x \in [Module -> Nat], Suits(q, x),
         NEW i \in Module, NEW m \in Message, m.type = "hb" => m.num = x[i] + 1
  PROVE  Suits(SendDown(i, q, m), x)
<1> SUFFICES ASSUME NEW l \in Link, cable[l], Near(l + 1)
             PROVE  /\ x[l + 1] <= x[l] + 1
                    /\ InOrder(SendDown(i, q, m)[l], x[l + 1], x[l] + 1)
  BY DEF Suits
<1>1. x[l + 1] <= x[l] + 1 /\ InOrder(q[l], x[l + 1], x[l] + 1)
  BY DEF Suits
<1>2. l \in Module /\ l + 1 \in Module
  BY ChainAssumption DEF Link, Module
<1>3. x[l + 1] \in Int /\ x[l] + 1 \in Int /\ q[l] \in Seq(Message)
  BY <1>2
<1>4. SendDown(i, q, m)[l] = q[l] \/ (l = i /\ SendDown(i, q, m)[l] = Append(q[l], m))
  BY DEF SendDown, Carry
<1>5. l = i => InOrder(Append(q[l], m), x[l + 1], x[l] + 1)
  BY <1>1, <1>3, OrderAppend
<1> QED BY <1>1, <1>4, <1>5

LEMMA SuitsStopped ==
  ASSUME NEW q, QueuesOK(q, NearMessages), NEW x \in [Module -> Nat], Suits(q, x),
         NEW i \in Module
  PROVE  Suits(StopSent(i, q), x) /\ Suits(FinalLines(i, q), x)
<1>1. ASSUME NEW r, QueuesOK(r, NearMessages), Suits(r, x)
      PROVE  /\ Suits(SendDown(i, r, StopLine), x)
             /\ QueuesOK(SendDown(i, r, StopLine), NearMessages)
  <2>1. r \in [Link -> Seq(Message)] /\ StopLine \in Message /\ StopLine.type # "hb"
    BY <1>1, PlainMessages DEF QueuesOK, StopLine
  <2> QED BY <1>1, <2>1, SuitsSent, LineNear
<1>2. ASSUME NEW r, QueuesOK(r, NearMessages), Suits(r, x) PROVE Suits(StopSent(i, r), x)
  BY <1>1, <1>2 DEF StopSent
<1> DEFINE last == IF recording[i] THEN SendDown(i, q, StopLine) ELSE q
<1>3. QueuesOK(last, NearMessages) /\ Suits(last, x)
  BY <1>1
<1>4. FinalLines(i, q) = StopSent(i, last)
  BY DEF FinalLines
<1> HIDE DEF last
<1> QED BY <1>2, <1>3, <1>4

\* Module i takes the place that a heartbeat offers: not one below its own.
LEMMA SuitsHeard ==
  ASSUME IInv, Steady, Suits(down, moduleChainIndex), NEW i \in Module,
         Waiting(down, i - 1, "hb"), NEW num, num = Head(down[i-1]).num
  PROVE  /\ Near(i) => moduleChainIndex[i] <= num
         /\ Suits(Consume(down, i - 1), [moduleChainIndex EXCEPT ![i] = num])
<1> DEFINE x == moduleChainIndex
           y == [moduleChainIndex EXCEPT ![i] = num]
           c == Consume(down, i - 1)
<1>1. /\ i - 1 \in Link /\ cable[i - 1] /\ num \in Nat
  BY NearOffer
<1>2. /\ down[i-1] \in Seq(Message) /\ down[i-1] # << >> /\ Head(down[i-1]).type = "hb"
      /\ down \in [Link -> Seq(Message)] /\ x \in [Module -> Nat]
  BY <1>1 DEF IInv, TypeOK, Waiting
<1>3. /\ i \in Int /\ i - 1 \in Module /\ (i - 1) + 1 = i
  BY <1>1, ChainAssumption DEF Link, Module
<1>4. ASSUME Near(i)
      PROVE  /\ x[i] <= num /\ num <= x[i-1] + 1
             /\ InOrder(Tail(down[i-1]), num, x[i-1] + 1)
  <2>1. InOrder(down[i-1], x[i], x[i-1] + 1)
    BY <1>1, <1>3, <1>4 DEF Suits
  <2>2. 1 \in 1 .. Len(down[i-1]) /\ down[i-1][1] = Head(down[i-1])
    BY <1>2
  <2>3. x[i] <= num /\ num <= x[i-1] + 1
    BY <1>2, <2>1, <2>2 DEF InOrder
  <2>4. Tail(down[i-1]) = SubSeq(down[i-1], 2, Len(down[i-1])) /\ 2 \in 1 .. Len(down[i-1]) + 1
    BY <1>2
  <2>5. InOrder(SubSeq(down[i-1], 2, Len(down[i-1])), Head(down[i-1]).num, x[i-1] + 1)
    BY <1>2, <2>1, <2>4, OrderRest
  <2> QED BY <2>3, <2>4, <2>5
<1>5. ASSUME NEW l \in Link, cable[l], Near(l + 1)
      PROVE  y[l + 1] <= y[l] + 1 /\ InOrder(c[l], y[l + 1], y[l] + 1)
  <2>1. l \in Module /\ l + 1 \in Module /\ l \in Int /\ (l + 1) - 1 = l
    BY ChainAssumption DEF Link, Module
  <2>2. x[l + 1] <= x[l] + 1 /\ InOrder(down[l], x[l + 1], x[l] + 1)
    BY <1>5 DEF Suits
  <2>3. CASE l = i - 1
    <3>1. y[l + 1] = num /\ y[l] = x[i-1] /\ c[l] = Tail(down[i-1]) /\ Near(i)
      BY <1>1, <1>2, <1>3, <1>5, <2>1, <2>3 DEF Consume
    <3> QED BY <1>4, <2>3, <3>1
  <2>4. CASE l = i
    <3>1. y[l + 1] = x[l + 1] /\ y[l] = num /\ c[l] = down[l]
      BY <1>1, <1>2, <1>3, <2>1, <2>4 DEF Consume
    <3>2. Near(i)
      BY <1>5, <2>1, <2>4, NearBefore
    <3>3. /\ x[i] <= num /\ x[i] \in Int /\ x[l + 1] \in Int /\ num \in Int
          /\ down[l] \in Seq(Message)
      BY <1>1, <1>2, <1>4, <2>1, <3>2
    <3>4. x[l + 1] <= num + 1 /\ x[i] + 1 <= num + 1 /\ num + 1 \in Int /\ x[i] + 1 \in Int
      BY <2>2, <2>4, <3>3
    <3>5. InOrder(down[l], x[l + 1], num + 1)
      BY <2>2, <2>4, <3>3, <3>4, OrderWiden
    <3> QED BY <3>1, <3>4, <3>5
  <2>5. CASE l # i - 1 /\ l # i
    <3>1. y[l + 1] = x[l + 1] /\ y[l] = x[l] /\ c[l] = down[l]
      BY <1>1, <1>2, <1>3, <2>1, <2>5 DEF Consume
    <3> QED BY <2>2, <3>1
  <2> QED BY <2>3, <2>4, <2>5
<1> QED BY <1>4, <1>5 DEF Suits

LEMMA SuitsNext ==
  ASSUME cable' = cable, Suits(down', moduleChainIndex')
  PROVE  Orderly'
<1>1. ASSUME NEW l \in Link PROVE Near(l + 1)' <=> Near(l + 1)
  BY DEF Near, Gap
<1> QED BY <1>1 DEF Orderly, Suits

\* One step of a module: what it hears, keeps or loses.
LEMMA OrderlyLoop ==
  ASSUME IInv, Steady, upsets = 0, Orderly, Interval < Timeout, NEW i \in Module, Loop(i)
  PROVE  /\ Orderly'
         /\ \A j \in Module : Near(j) => moduleChainIndex[j] <= moduleChainIndex'[j]
<1> DEFINE x == moduleChainIndex
<1>1. /\ Suits(down, x) /\ QueuesOK(down, NearMessages)
      /\ down \in [Link -> Seq(Message)] /\ x \in [Module -> Nat]
  BY DEF Orderly, Steady, IInv, TypeOK
<1>2. ASSUME NEW q \in [Link -> Seq(Message)], NEW m \in {StartLine, StopLine}, Suits(q, x)
      PROVE  Suits(SendDown(i, q, m), x)
  <2>1. m \in Message /\ m.type # "hb"
    BY PlainMessages DEF StartLine, StopLine
  <2> QED BY <1>1, <1>2, <2>1, SuitsSent
<1>3. ASSUME cable' = cable, moduleChainIndex' = x, Suits(down', x)
      PROVE  /\ Orderly'
             /\ \A j \in Module : Near(j) => moduleChainIndex[j] <= moduleChainIndex'[j]
  BY <1>1, <1>3, SuitsNext
<1>4. CASE IgnoreUpstreamNoise(i)
  <2>1. /\ cable' = cable /\ moduleChainIndex' = x /\ Waiting(down, i - 1, "hb")
        /\ down' = Consume(down, i - 1)
    BY <1>4 DEF IgnoreUpstreamNoise, role, power
  <2> QED BY <1>1, <1>3, <2>1, SuitsConsumed
<1>5. CASE BroadcastFromUpstream(i) \/ StopFromUpstream(i)
  <2>1. PICK m \in {StartLine, StopLine}, type \in {"b", "x"} :
          down' = SendDown(i, Consume(down, i - 1), m) /\ Waiting(down, i - 1, type)
    BY <1>5 DEF BroadcastFromUpstream, StopFromUpstream, power
  <2>2. cable' = cable /\ moduleChainIndex' = x
    BY <1>5 DEF BroadcastFromUpstream, StopFromUpstream, role, power
  <2>3. Consume(down, i - 1) \in [Link -> Seq(Message)] /\ Suits(Consume(down, i - 1), x)
    <3>1. QueuesOK(Consume(down, i - 1), NearMessages)
      BY <1>1, <2>1, NearAllowed, ConsumeOK
    <3> QED BY <1>1, <2>1, <3>1, SuitsConsumed DEF QueuesOK
  <2> QED BY <1>2, <1>3, <2>1, <2>2, <2>3
<1>6. CASE IgnoreDownstreamNoise(i) \/ ReplyFromDownstream(i)
  BY <1>1, <1>3, <1>6 DEF IgnoreDownstreamNoise, ReplyFromDownstream, role, power
<1>7. CASE CheckHeartbeatReply(i)
  <2>1. cable' = cable /\ moduleChainIndex' = x /\ (down' = down \/ down' = StopSent(i, down))
    BY <1>7 DEF CheckHeartbeatReply, power
  <2> QED BY <1>1, <1>3, <2>1, SuitsStopped
<1>8. CASE SendHeartbeat(i)
  <2> DEFINE m == Heartbeat(x[i] + 1)
  <2>1. cable' = cable /\ moduleChainIndex' = x /\ down' = SendDown(i, down, m)
    BY <1>8 DEF SendHeartbeat, role, power
  <2>2. m \in Message /\ m.num = x[i] + 1
    BY <1>1, PlainMessages DEF Heartbeat
  <2> HIDE DEF m
  <2> QED BY <1>1, <1>3, <2>1, <2>2, SuitsSent
<1>9. CASE RefreshFromUpstream(i) \/ DemoteToSlave(i)
  <2> DEFINE num == Head(down[i-1]).num
             y == [moduleChainIndex EXCEPT ![i] = num]
             c == Consume(down, i - 1)
             m == Heartbeat(num + 1)
  <2>1. /\ cable' = cable /\ moduleChainIndex' = y /\ Waiting(down, i - 1, "hb")
        /\ \/ down' = SendDown(i, c, m)
           \/ \E d \in Flushed(c, i - 1) : down' = SendDown(i, FinalLines(i, d), m)
    BY <1>9 DEF RefreshFromUpstream, DemoteToSlave, AcceptHeartbeat, power
  <2>2. /\ QueuesOK(c, NearMessages) /\ num \in Nat
        /\ Near(i) => x[i] <= num
        /\ Suits(c, y)
    BY <1>1, <2>1, NearOffer, SuitsHeard
  <2>3. y \in [Module -> Nat] /\ \A j \in Module : y[j] = IF j = i THEN num ELSE x[j]
    BY <1>1, <2>2
  <2>4. m \in Message /\ m.num = y[i] + 1
    BY <2>2, <2>3, PlainMessages DEF Heartbeat
  <2> HIDE DEF c, y, m, num
  <2>5. ASSUME NEW q, QueuesOK(q, NearMessages), Suits(q, y) PROVE Suits(SendDown(i, q, m), y)
    <3>1. q \in [Link -> Seq(Message)]
      BY <2>5 DEF QueuesOK
    <3> QED BY <2>3, <2>4, <2>5, <3>1, SuitsSent
  <2>6. Suits(down', y)
    <3>1. CASE down' = SendDown(i, c, m)
      BY <2>2, <2>5, <3>1
    <3>2. CASE \E d \in Flushed(c, i - 1) : down' = SendDown(i, FinalLines(i, d), m)
      <4>1. PICK d \in Flushed(c, i - 1) : down' = SendDown(i, FinalLines(i, d), m)
        BY <3>2
      <4>2. c \in [Link -> Seq(Message)] /\ d \in Flushed(c, i - 1)
        BY <2>2, <4>1 DEF QueuesOK
      <4>3. QueuesOK(d, NearMessages) /\ Suits(d, y)
        BY <2>2, <4>2, NearAllowed, FlushedOK, SuitsFlushed
      <4>4. QueuesOK(FinalLines(i, d), NearMessages) /\ Suits(FinalLines(i, d), y)
        BY <2>3, <4>3, StoppedNear, SuitsStopped
      <4> QED BY <2>5, <4>1, <4>4
    <3> QED BY <2>1, <3>1, <3>2
  <2> QED BY <1>1, <2>1, <2>2, <2>3, <2>6, SuitsNext
<1>10. CASE PromoteToMaster(i)
  <2> DEFINE y == [moduleChainIndex EXCEPT ![i] = 0]
  <2>1. ~Near(i)
    BY <1>10, LostOutOfReach DEF PromoteToMaster, power
  <2>2. PICK d \in Flushed(down, i - 1) : down' = FinalLines(i, d)
    BY <1>10 DEF PromoteToMaster, power
  <2>3. cable' = cable /\ moduleChainIndex' = y
    BY <1>10 DEF PromoteToMaster, power
  <2>4. QueuesOK(d, NearMessages) /\ Suits(d, x)
    BY <1>1, NearAllowed, FlushedOK, SuitsFlushed
  <2>5. Suits(down', x)
    BY <1>1, <2>2, <2>4, SuitsStopped
  <2>6. \A j \in Module : j # i => y[j] = x[j]
    BY <1>1
  <2> HIDE DEF y
  <2>7. ASSUME NEW l \in Link, cable[l], Near(l + 1)
        PROVE  y[l + 1] <= y[l] + 1 /\ InOrder(down'[l], y[l + 1], y[l] + 1)
    <3>1. l \in Module /\ l + 1 \in Module /\ (l + 1) - 1 = l
      BY ChainAssumption DEF Link, Module
    <3>2. l + 1 # i /\ l # i
      BY <2>1, <2>7, <3>1, NearBefore
    <3> QED BY <2>5, <2>6, <2>7, <3>1, <3>2 DEF Suits
  <2>8. Suits(down', y)
    BY <2>7 DEF Suits
  <2>9. Orderly'
    BY <2>3, <2>8, SuitsNext
  <2> QED BY <1>1, <2>1, <2>3, <2>6, <2>9
<1>11. ~Resume(i)
  BY DEF Steady, Running, Resume
<1> QED BY <1>4, <1>5, <1>6, <1>7, <1>8, <1>9, <1>10, <1>11 DEF Loop

LEMMA OrderlyUsers ==
  ASSUME IInv, Steady, upsets' = 0, upsets = 0, Orderly, Environment \/ Tick \/ UNCHANGED vars
  PROVE  Orderly' /\ cable' = cable /\ moduleChainIndex' = moduleChainIndex
<1>1. /\ Suits(down, moduleChainIndex) /\ QueuesOK(down, NearMessages)
      /\ down \in [Link -> Seq(Message)] /\ moduleChainIndex \in [Module -> Nat]
      /\ \A i \in Module : Running(i)
  BY DEF Orderly, Steady, IInv, TypeOK
<1>2. SUFFICES /\ cable' = cable /\ moduleChainIndex' = moduleChainIndex
               /\ Suits(down', moduleChainIndex)
  BY SuitsNext
<1>3. \A m \in {StartLine, StopLine} : m \in Message /\ m.type # "hb"
  BY PlainMessages DEF StartLine, StopLine
<1>4. ASSUME NEW i \in Module,
             \/ \E mode \in Mode : StartSequence(i, mode)
             \/ StopSequence(i) \/ StartRecording(i) \/ StopRecording(i)
      PROVE  /\ cable' = cable /\ moduleChainIndex' = moduleChainIndex
             /\ Suits(down', moduleChainIndex)
  <2>1. /\ cable' = cable /\ moduleChainIndex' = moduleChainIndex
        /\ \/ down' = down
           \/ down' = StopSent(i, down)
           \/ \E m \in {StartLine, StopLine} : down' = SendDown(i, down, m)
    BY <1>4 DEF StartSequence, StopSequence, StartRecording, StopRecording, role, power
  <2> QED BY <1>1, <1>3, <2>1, SuitsSent, SuitsStopped
<1>5. ASSUME NEW i \in Module, PowerOff(i) \/ PowerOn(i) \/ Reboot(i) \/ Block(i)
      PROVE  FALSE
  BY <1>1, <1>5 DEF PowerOff, PowerOn, Reboot, Block, Running, power, Upset
<1>6. ASSUME NEW l \in Link, Plug(l) \/ Unplug(l) PROVE FALSE
  BY <1>6 DEF Plug, Unplug, power, Upset
<1>7. CASE Tick \/ UNCHANGED vars
  BY <1>1, <1>7 DEF Tick, vars, role, links, power
<1> QED BY <1>4, <1>5, <1>6, <1>7 DEF Environment

\* Until something upsets the chain, the index of a module within reach of its head never
\* falls and never passes the number of modules before it: a module that has taken its place
\* in the chain keeps it.
THEOREM PlacesOnlyGrow ==
  ASSUME Interval < Timeout
  PROVE  Spec /\ []Roomy => PlacesGrow
<1>1. Init => Orderly
  <2> SUFFICES ASSUME Init PROVE Suits(down, moduleChainIndex)
    BY DEF Orderly
  <2>1. ASSUME NEW l \in Link
        PROVE  /\ moduleChainIndex[l + 1] = 0 /\ moduleChainIndex[l] = 0 /\ down[l] = << >>
    <3>1. l \in Module /\ l + 1 \in Module
      BY ChainAssumption DEF Link, Module
    <3> QED BY <3>1 DEF Init
  <2> QED BY <2>1 DEF Suits, InOrder
<1>2. ASSUME IInv, IInv', SteadyInv, SteadyInv', Orderly, [Next]_vars, upsets' = 0
      PROVE  /\ Orderly'
             /\ \A i \in Module : i - Leftmost(i) < MAX_MODULES =>
                  /\ moduleChainIndex[i] <= moduleChainIndex'[i]
                  /\ moduleChainIndex'[i] <= i - Leftmost(i)
  <2>1. upsets = 0 /\ Steady /\ Steady'
    BY <1>2, MovesGrow DEF SteadyInv
  <2>2. moduleChainIndex \in [Module -> Nat]
    BY <1>2 DEF IInv, TypeOK
  <2>3. ASSUME NEW j \in Module, Loop(j)
        PROVE  /\ Orderly' /\ cable' = cable
               /\ \A i \in Module : Near(i) => moduleChainIndex[i] <= moduleChainIndex'[i]
    <3>1. cable' = cable
      BY <2>3 DEF Loop, IgnoreUpstreamNoise, RefreshFromUpstream, DemoteToSlave,
                  BroadcastFromUpstream, StopFromUpstream, IgnoreDownstreamNoise,
                  ReplyFromDownstream, PromoteToMaster, CheckHeartbeatReply, SendHeartbeat, power, Resume
    <3> QED BY <1>2, <2>1, <2>3, <3>1, OrderlyLoop
  <2>4. /\ Orderly' /\ cable' = cable
        /\ \A i \in Module : Near(i) => moduleChainIndex[i] <= moduleChainIndex'[i]
    <3>1. ASSUME Environment \/ Tick \/ UNCHANGED vars
          PROVE  /\ Orderly' /\ cable' = cable
                 /\ \A i \in Module : Near(i) => moduleChainIndex[i] <= moduleChainIndex'[i]
      BY <1>2, <2>1, <2>2, <3>1, OrderlyUsers
    <3> QED BY <1>2, <2>3, <3>1 DEF Next
  <2>5. ASSUME NEW i \in Module, i - Leftmost(i) < MAX_MODULES
        PROVE  /\ Near(i) /\ moduleChainIndex'[i] <= i - Leftmost(i)
    <3>1. Leftmost(i) \in 0 .. i /\ Gap(Leftmost(i))
      BY <2>1, LeftmostGap DEF Steady
    <3>2. \A h \in 0 .. i : Gap(h) => moduleChainIndex'[i] <= i - h
      BY <2>1, <2>4, SameGaps DEF Steady, Placed
    <3> QED BY <2>5, <3>1, <3>2 DEF Near
  <2> QED BY <2>4, <2>5
<1>3. IInv /\ IInv' /\ SteadyInv /\ SteadyInv' /\ Orderly /\ [Next]_vars => Orderly'
  BY <1>2 DEF Orderly
<1>4. IInv /\ IInv' /\ SteadyInv /\ SteadyInv' /\ Orderly /\ [Next]_vars =>
        [upsets' = 0 => \A i \in Module : i - Leftmost(i) < MAX_MODULES =>
           moduleChainIndex[i] <= moduleChainIndex'[i] /\ moduleChainIndex'[i] <= i - Leftmost(i)]_vars
  BY <1>2
<1>5. IInv /\ IInv' /\ SteadyInv /\ Roomy' /\ [Next]_vars => SteadyInv'
  BY SteadyNext
<1>6. QED
  BY <1>1, <1>3, <1>4, <1>5, SteadyInit, Invariance, PTL DEF Spec, PlacesGrow

-----------------------------------------------------------------------------
(***************************************************************************)
(* The safety half of CountsExact.  Until something upsets the chain, no   *)
(* module counts more modules than lie between the gap on its left and the *)
(* gap on its right, and no reply tells of more, whatever the timers and   *)
(* the size of the buffers.                                                *)
(***************************************************************************)
End(e) == e = N - 1 \/ ~cable[e]

ReplyMessages ==
  [l \in Link |-> {m \in Message : m.type = "hb" =>
     cable[l] /\ \A h \in 0 .. l, e \in l + 1 .. N - 1 : Gap(h) /\ End(e) => m.num <= e - h}]

Counted(i) ==
  \A h \in 0 .. i, e \in i .. N - 1 : Gap(h) /\ End(e) => numModulesInChain[i] <= e - h + 1

Laid ==
  /\ QueuesOK(down, NearMessages)
  /\ QueuesOK(up, ReplyMessages)
  /\ \A i \in Module : Running(i) /\ Placed(i) /\ Counted(i)

LaidInv == upsets = 0 => Laid

HeadsCountTheirChain ==
  upsets = 0 => \A i \in Module : i = Leftmost(i) => numModulesInChain[i] <= ChainSize(i)

LEMMA SameEnds ==
  ASSUME UNCHANGED cable
  PROVE  /\ ReplyMessages' = ReplyMessages /\ NearMessages' = NearMessages
         /\ \A h : (Gap(h)' <=> Gap(h)) /\ (End(h)' <=> End(h))
  BY DEF ReplyMessages, NearMessages, Gap, End

LEMMA RepliesAllowed == ReplyMessages \in [Link -> SUBSET Message]
  BY DEF ReplyMessages

\* A step of module i that gives it an index and a count its chain can have.
LEMMA LaidStep ==
  ASSUME IInv, Laid, cable' = cable, power' = power, NEW i \in Module,
         QueuesOK(down', NearMessages), QueuesOK(up', ReplyMessages),
         \A j \in Module \ {i} : /\ moduleChainIndex'[j] = moduleChainIndex[j]
                                 /\ numModulesInChain'[j] = numModulesInChain[j]
         ,
         \A h \in 0 .. i : Gap(h) => moduleChainIndex'[i] <= i - h,
         \A h \in 0 .. i, e \in i .. N - 1 : Gap(h) /\ End(e) => numModulesInChain'[i] <= e - h + 1
  PROVE  Laid'
<1>1. ASSUME NEW j \in Module PROVE Running(j)' /\ Placed(j)' /\ Counted(j)'
  <2>1. Running(j)' /\ Placed(j) /\ Counted(j)
    BY DEF Laid, Running, power
  <2>2. CASE j = i
    BY <2>1, <2>2, SameEnds DEF Placed, Counted
  <2>3. CASE j # i
    BY <2>1, <2>3, SameEnds DEF Placed, Counted
  <2> QED BY <2>2, <2>3
<1>2. QueuesOK(down, NearMessages)' /\ QueuesOK(up, ReplyMessages)'
  BY SameEnds DEF QueuesOK
<1> QED BY <1>1, <1>2 DEF Laid

\* Module i takes its place from a heartbeat, passes it on and replies.
LEMMA LaidHear ==
  ASSUME IInv, Laid, NEW i \in Module, RefreshFromUpstream(i) \/ DemoteToSlave(i)
  PROVE  Laid'
<1> DEFINE num == Head(down[i-1]).num
           c == Consume(down, i - 1)
<1>1. /\ i - 1 \in Link /\ cable[i - 1] /\ num \in Nat
      /\ \A h \in 0 .. i : Gap(h) => num <= i - h
      /\ QueuesOK(c, NearMessages)
  BY HeadOffer DEF RefreshFromUpstream, DemoteToSlave, Laid, power
<1>2. /\ cable' = cable /\ power' = power
      /\ moduleChainIndex' = [moduleChainIndex EXCEPT ![i] = num]
      /\ numModulesInChain' = [numModulesInChain EXCEPT ![i] = num + 1]
      /\ \/ down' = SendDown(i, c, Heartbeat(num + 1))
         \/ \E d \in Flushed(c, i - 1) : down' = SendDown(i, FinalLines(i, d), Heartbeat(num + 1))
      /\ \/ up' = SendUp(i, up, Heartbeat(num))
         \/ \E u \in Flushed(up, i) : up' = SendUp(i, u, Heartbeat(num))
  BY DEF RefreshFromUpstream, DemoteToSlave, AcceptHeartbeat, power
<1>3. /\ i \in Nat /\ i \in 0 .. N - 1 /\ N \in Nat
      /\ moduleChainIndex \in [Module -> Nat] /\ numModulesInChain \in [Module -> Nat]
  <2>1. i \in Nat /\ i \in 0 .. N - 1 /\ N \in Nat
    BY ChainAssumption DEF Module
  <2> QED BY <2>1 DEF IInv, TypeOK
<1> HIDE DEF num, c
<1>4. Heartbeat(num) \in Message /\ Heartbeat(num + 1) \in Message /\ num + 1 \in Nat
  BY <1>1, PlainMessages
<1>5. i \in Link /\ cable[i] => Heartbeat(num + 1) \in NearMessages[i]
  BY <1>1, <1>4 DEF NearMessages, Heartbeat, Link
<1>6. Heartbeat(num) \in ReplyMessages[i - 1]
  <2>1. ASSUME NEW h \in 0 .. i - 1, NEW e \in i .. N - 1, Gap(h)
        PROVE  num <= e - h
    BY <1>1, <1>3, <2>1
  <2>2. (i - 1) + 1 = i
    BY <1>3
  <2> QED BY <1>1, <1>4, <2>1, <2>2 DEF ReplyMessages, Heartbeat
<1>7. ASSUME NEW q, QueuesOK(q, NearMessages)
      PROVE  QueuesOK(SendDown(i, q, Heartbeat(num + 1)), NearMessages)
  BY <1>5, <1>7, NearAllowed, CarryOK DEF SendDown
<1>8. ASSUME NEW u, QueuesOK(u, ReplyMessages)
      PROVE  QueuesOK(SendUp(i, u, Heartbeat(num)), ReplyMessages)
  BY <1>6, <1>8, RepliesAllowed, CarryOK DEF SendUp
<1>9. QueuesOK(down', NearMessages)
  <2>1. ASSUME NEW d \in Flushed(c, i - 1) PROVE QueuesOK(FinalLines(i, d), NearMessages)
    BY <1>1, NearAllowed, FlushedOK, StoppedNear
  <2> QED BY <1>1, <1>2, <1>7, <2>1
<1>10. QueuesOK(up', ReplyMessages)
  <2>1. QueuesOK(up, ReplyMessages) /\ \A u \in Flushed(up, i) : QueuesOK(u, ReplyMessages)
    BY RepliesAllowed, FlushedOK DEF Laid
  <2> QED BY <1>2, <1>8, <2>1
<1>11. ASSUME NEW h \in 0 .. i, NEW e \in i .. N - 1, Gap(h) PROVE num + 1 <= e - h + 1
  BY <1>1, <1>3, <1>11
<1> QED BY <1>1, <1>2, <1>3, <1>9, <1>10, <1>11, LaidStep

\* What a reply tells module i holds of all modules to its left, and it can pass it on.
LEMMA LaidReply ==
  ASSUME IInv, Laid, NEW i \in Module, IgnoreDownstreamNoise(i) \/ ReplyFromDownstream(i)
  PROVE  Laid'
<1> DEFINE num == Head(up[i]).num
           c == Consume(up, i)
<1>1. /\ QueuesOK(down, NearMessages) /\ QueuesOK(up, ReplyMessages)
      /\ Placed(i) /\ Counted(i)
  BY DEF Laid
<1>2. /\ Waiting(up, i, "hb")
      /\ cable' = cable /\ power' = power /\ down' = down /\ moduleChainIndex' = moduleChainIndex
      /\ \/ numModulesInChain' = numModulesInChain
         \/ numModulesInChain' = [numModulesInChain EXCEPT ![i] = num + 1]
      /\ up' = c \/ up' = SendUp(i, c, Heartbeat(num))
  <2>1. CASE IgnoreDownstreamNoise(i)
    BY <2>1 DEF IgnoreDownstreamNoise, role, power
  <2>2. CASE ReplyFromDownstream(i)
    <3>1. numModulesInChain \in [Module -> Nat]
      BY DEF IInv, TypeOK
    <3>2. \/ numModulesInChain' = [numModulesInChain EXCEPT ![i] = num + 1]
          \/ numModulesInChain' = [numModulesInChain EXCEPT ![i] = numModulesInChain[i]]
      BY <2>2 DEF ReplyFromDownstream, power
    <3>3. [numModulesInChain EXCEPT ![i] = numModulesInChain[i]] = numModulesInChain
      BY <3>1
    <3> QED BY <2>2, <3>2, <3>3 DEF ReplyFromDownstream, power
  <2> QED BY <2>1, <2>2
<1>3. /\ i \in Nat /\ i \in 0 .. N - 1 /\ N \in Nat
      /\ moduleChainIndex \in [Module -> Nat] /\ numModulesInChain \in [Module -> Nat]
  <2>1. i \in Nat /\ i \in 0 .. N - 1 /\ N \in Nat
    BY ChainAssumption DEF Module
  <2> QED BY <2>1 DEF IInv, TypeOK
<1>4. /\ i \in Link /\ Head(up[i]) \in ReplyMessages[i] /\ Head(up[i]).type = "hb"
      /\ QueuesOK(c, ReplyMessages)
  BY <1>1, <1>2, RepliesAllowed, ConsumeOK
<1>5. /\ cable[i] /\ num \in Nat
      /\ \A h \in 0 .. i, e \in i + 1 .. N - 1 : Gap(h) /\ End(e) => num <= e - h
  BY <1>4 DEF ReplyMessages, Message
<1> HIDE DEF num, c
<1>6. ASSUME NEW h \in 0 .. i, NEW e \in i .. N - 1, Gap(h), End(e) PROVE num <= e - h
  <2>1. e # i
    BY <1>3, <1>4, <1>5, <1>6 DEF End, Link
  <2>2. e \in i + 1 .. N - 1
    BY <1>3, <2>1
  <2> QED BY <1>5, <1>6, <2>2
<1>7. i - 1 \in Link /\ cable[i - 1] => Heartbeat(num) \in ReplyMessages[i - 1]
  <2>1. (i - 1) + 1 = i /\ 0 .. i - 1 \subseteq 0 .. i
    BY <1>3
  <2>2. Heartbeat(num) \in Message
    BY <1>5, PlainMessages
  <2> QED BY <1>6, <2>1, <2>2 DEF ReplyMessages, Heartbeat
<1>8. QueuesOK(up', ReplyMessages)
  BY <1>2, <1>4, <1>7, RepliesAllowed, CarryOK DEF SendUp
<1>9. ASSUME NEW h \in 0 .. i, NEW e \in i .. N - 1, Gap(h), End(e)
      PROVE  numModulesInChain'[i] <= e - h + 1
  <2>1. numModulesInChain[i] <= e - h + 1
    BY <1>1, <1>9 DEF Counted
  <2>2. num + 1 <= e - h + 1
    BY <1>3, <1>5, <1>6, <1>9
  <2> QED BY <1>2, <1>3, <2>1, <2>2
<1>10. \A j \in Module \ {i} : numModulesInChain'[j] = numModulesInChain[j]
  BY <1>2, <1>3
<1>11. \A h \in 0 .. i : Gap(h) => moduleChainIndex'[i] <= i - h
  BY <1>1, <1>2 DEF Placed
<1> QED BY <1>1, <1>2, <1>8, <1>9, <1>10, <1>11, LaidStep

\* A module that finds itself alone, or without a module before it.
LEMMA LaidAlone ==
  ASSUME IInv, Laid, NEW i \in Module, CheckHeartbeatReply(i) \/ PromoteToMaster(i)
  PROVE  Laid'
<1>1. /\ QueuesOK(down, NearMessages) /\ QueuesOK(up, ReplyMessages)
      /\ Placed(i)
  BY DEF Laid
<1>2. /\ i \in Nat /\ i \in 0 .. N - 1 /\ N \in Nat
      /\ moduleChainIndex \in [Module -> Nat] /\ numModulesInChain \in [Module -> Nat]
  <2>1. i \in Nat /\ i \in 0 .. N - 1 /\ N \in Nat
    BY ChainAssumption DEF Module
  <2> QED BY <2>1 DEF IInv, TypeOK
<1>3. CASE CheckHeartbeatReply(i)
  <2>1. /\ cable' = cable /\ power' = power /\ up' = up /\ moduleChainIndex' = moduleChainIndex
        /\ numModulesInChain' = [numModulesInChain EXCEPT ![i] = moduleChainIndex[i] + 1]
        /\ down' = down \/ down' = StopSent(i, down)
    BY <1>3 DEF CheckHeartbeatReply, power
  <2>2. QueuesOK(down', NearMessages)
    BY <1>1, <2>1, StoppedNear
  <2>3. ASSUME NEW h \in 0 .. i, NEW e \in i .. N - 1, Gap(h)
        PROVE  numModulesInChain'[i] <= e - h + 1
    <3>1. moduleChainIndex[i] <= i - h /\ moduleChainIndex[i] \in Nat
      BY <1>1, <1>2, <2>3 DEF Placed
    <3>2. numModulesInChain'[i] = moduleChainIndex[i] + 1
      BY <1>2, <2>1
    <3> QED BY <1>2, <3>1, <3>2
  <2>4. \A j \in Module \ {i} : numModulesInChain'[j] = numModulesInChain[j]
    BY <1>2, <2>1
  <2>5. \A h \in 0 .. i : Gap(h) => moduleChainIndex'[i] <= i - h
    BY <1>1, <2>1 DEF Placed
  <2> QED BY <1>1, <2>1, <2>2, <2>3, <2>4, <2>5, LaidStep
<1>4. CASE PromoteToMaster(i)
  <2>1. /\ cable' = cable /\ power' = power
        /\ moduleChainIndex' = [moduleChainIndex EXCEPT ![i] = 0]
        /\ numModulesInChain' = [numModulesInChain EXCEPT ![i] = 1]
        /\ up' \in Flushed(up, i)
    BY <1>4 DEF PromoteToMaster, power
  <2>2. PICK d \in Flushed(down, i - 1) : down' = FinalLines(i, d)
    BY <1>4 DEF PromoteToMaster, power
  <2>3. QueuesOK(down', NearMessages)
    BY <1>1, <2>2, NearAllowed, FlushedOK, StoppedNear
  <2>4. QueuesOK(up', ReplyMessages)
    BY <1>1, <2>1, RepliesAllowed, FlushedOK
  <2>5. /\ \A h \in 0 .. i : moduleChainIndex'[i] <= i - h
        /\ \A h \in 0 .. i, e \in i .. N - 1 : numModulesInChain'[i] <= e - h + 1
    BY <1>2, <2>1
  <2>6. \A j \in Module \ {i} : /\ moduleChainIndex'[j] = moduleChainIndex[j]
                                /\ numModulesInChain'[j] = numModulesInChain[j]
    BY <1>2, <2>1
  <2> QED BY <2>1, <2>3, <2>4, <2>5, <2>6, LaidStep
<1> QED BY <1>3, <1>4

\* Steps that leave indices, counts and replies alone.
LEMMA LaidQuiet ==
  ASSUME Laid, cable' = cable, power' = power, up' = up, UNCHANGED <<moduleChainIndex, numModulesInChain>>,
         QueuesOK(down', NearMessages)
  PROVE  Laid'
<1>1. \A j \in Module : Running(j)' /\ Placed(j)' /\ Counted(j)'
  BY SameEnds DEF Laid, Placed, Counted, Running, power
<1>2. QueuesOK(down, NearMessages)' /\ QueuesOK(up, ReplyMessages)'
  BY SameEnds DEF QueuesOK, Laid
<1> QED BY <1>1, <1>2 DEF Laid

LEMMA LaidNext ==
  ASSUME IInv, LaidInv, [Next]_vars
  PROVE  LaidInv'
<1> SUFFICES ASSUME upsets' = 0 PROVE Laid'
  BY DEF LaidInv
<1>1. /\ Laid /\ upsets \in Nat /\ upsets = 0
      /\ QueuesOK(down, NearMessages) /\ \A j \in Module : Running(j)
      /\ moduleChainIndex \in [Module -> Nat]
  BY MovesGrow DEF LaidInv, Laid, IInv, TypeOK
<1>2. ASSUME NEW i \in Module, Loop(i) PROVE Laid'
  <2>1. CASE IgnoreUpstreamNoise(i)
    <3>1. QueuesOK(down', NearMessages)
      BY <1>1, <2>1, HeadOffer DEF IgnoreUpstreamNoise, power
    <3> QED BY <1>1, <2>1, <3>1, LaidQuiet DEF IgnoreUpstreamNoise, role, power
  <2>2. CASE BroadcastFromUpstream(i) \/ StopFromUpstream(i)
    <3>1. PICK m \in {StartLine, StopLine}, type \in {"b", "x"} :
            down' = SendDown(i, Consume(down, i - 1), m) /\ Waiting(down, i - 1, type)
      BY <2>2 DEF BroadcastFromUpstream, StopFromUpstream, power
    <3>2. QueuesOK(Consume(down, i - 1), NearMessages)
      BY <1>1, <3>1, NearAllowed, ConsumeOK
    <3>3. QueuesOK(down', NearMessages)
      BY <3>1, <3>2, LineNear
    <3> QED BY <1>1, <2>2, <3>3, LaidQuiet DEF BroadcastFromUpstream, StopFromUpstream, role, power
  <2>3. CASE SendHeartbeat(i)
    <3> DEFINE n == moduleChainIndex[i] + 1
    <3>1. n \in Nat /\ Heartbeat(n) \in Message
      BY <1>1, PlainMessages
    <3>2. i \in Link /\ cable[i] => Heartbeat(n) \in NearMessages[i]
      <4>1. \A h \in 0 .. i : Gap(h) => n <= i + 1 - h
        BY <1>1 DEF Laid, Placed, Module
      <4> QED BY <3>1, <4>1 DEF NearMessages, Heartbeat
    <3>3. down' = Carry(down, i, Heartbeat(n))
      BY <2>3 DEF SendHeartbeat, SendDown, power
    <3> HIDE DEF n
    <3>4. QueuesOK(down', NearMessages)
      BY <1>1, <3>2, <3>3, NearAllowed, CarryOK
    <3> QED BY <1>1, <2>3, <3>4, LaidQuiet DEF SendHeartbeat, role, power
  <2>4. ~Resume(i)
    BY <1>1 DEF Running, Resume
  <2> QED BY <1>1, <1>2, <2>1, <2>2, <2>3, <2>4, LaidHear, LaidReply, LaidAlone DEF Loop
<1>3. CASE Environment
  <2>1. ASSUME NEW i \in Module,
               \/ \E mode \in Mode : StartSequence(i, mode)
               \/ StopSequence(i) \/ StartRecording(i) \/ StopRecording(i)
        PROVE  Laid'
    <3>1. /\ cable' = cable /\ power' = power /\ up' = up
          /\ UNCHANGED <<moduleChainIndex, numModulesInChain>>
          /\ \/ down' = down
             \/ down' = StopSent(i, down)
             \/ \E m \in {StartLine, StopLine} : down' = SendDown(i, down, m)
      BY <2>1 DEF StartSequence, StopSequence, StartRecording, StopRecording, role, power
    <3>2. QueuesOK(down', NearMessages)
      BY <1>1, <3>1, StoppedNear, LineNear
    <3> QED BY <1>1, <3>1, <3>2, LaidQuiet
  <2>2. ASSUME NEW i \in Module, PowerOff(i) \/ PowerOn(i) \/ Reboot(i) \/ Block(i)
      PROVE  FALSE
    BY <1>1, <2>2 DEF PowerOff, PowerOn, Reboot, Block, Running, power, Upset
  <2>3. ASSUME NEW l \in Link, Plug(l) \/ Unplug(l) PROVE FALSE
    BY <1>1, <2>3 DEF Plug, Unplug, power, Upset
  <2> QED BY <1>3, <2>1, <2>2, <2>3 DEF Environment
<1>4. CASE Tick \/ UNCHANGED vars
  BY <1>1, <1>4, LaidQuiet DEF Tick, vars, role, links, power
<1> QED BY <1>2, <1>3, <1>4 DEF Next

\* Until something upsets the chain, its first module never counts more modules than follow it,
\* nor more than MAX_MODULES: what LEDs and sequences are laid out for is there.
THEOREM NoneOvercounted == Spec => []HeadsCountTheirChain
<1>1. Init => LaidInv
  <2> SUFFICES ASSUME Init PROVE Laid
    BY DEF LaidInv
  <2>1. \A l \in Link : << >> \in Seq(NearMessages[l]) /\ << >> \in Seq(ReplyMessages[l])
    BY NearAllowed, RepliesAllowed
  <2>2. QueuesOK(down, NearMessages) /\ QueuesOK(up, ReplyMessages)
    BY <2>1 DEF Init, QueuesOK
  <2>3. ASSUME NEW i \in Module PROVE Running(i) /\ Placed(i) /\ Counted(i)
    BY ChainAssumption DEF Init, Placed, Counted, Module, Running
  <2> QED BY <2>2, <2>3 DEF Laid
<1>2. IInv /\ LaidInv => HeadsCountTheirChain
  <2> SUFFICES ASSUME IInv, Laid, NEW i \in Module, i = Leftmost(i)
               PROVE  numModulesInChain[i] <= ChainSize(i)
    BY DEF LaidInv, HeadsCountTheirChain
  <2>1. i \in Nat /\ N \in Nat /\ i <= N - 1 /\ MAX_MODULES \in Nat
    BY ChainAssumption DEF Module
  <2>2. Gap(i) /\ Counted(i) /\ \A j \in Module : Running(j)
    BY LeftmostGap DEF Laid
  <2> DEFINE Last(j) == /\ \A l \in i .. j - 1 : cable[l] /\ on[l+1]
                        /\ j = N - 1 \/ ~(cable[j] /\ on[j+1])
  <2>3. \E j \in i .. N - 1 : Last(j)
    <3> DEFINE T == {j \in i .. N - 1 : j = N - 1 \/ ~(cable[j] /\ on[j+1])}
    <3>1. PICK j \in T : \A k \in T : j <= k
      <4>1. T \in SUBSET Nat /\ N - 1 \in T
        BY <2>1
      <4> HIDE DEF T
      <4> QED BY <4>1, Least
    <3>2. ASSUME NEW l \in i .. j - 1 PROVE cable[l] /\ on[l+1]
      <4>1. l \in i .. N - 1 /\ l # N - 1 /\ ~(j <= l)
        BY <2>1, <3>1
      <4> QED BY <3>1, <4>1
    <3> QED BY <3>1, <3>2
  <2> DEFINE last == CHOOSE j \in i .. N - 1 : Last(j)
  <2>4. last \in i .. N - 1 /\ Last(last)
    BY <2>3
  <2>5. ChainSize(i) = IF last - i + 1 < MAX_MODULES THEN last - i + 1 ELSE MAX_MODULES
    BY DEF ChainSize
  <2> HIDE DEF last
  <2>6. End(last)
    <3>1. last # N - 1 => last + 1 \in Module
      BY <2>1, <2>4 DEF Module
    <3> QED BY <2>2, <2>4, <3>1 DEF End, Running
  <2>7. numModulesInChain[i] <= last - i + 1
    BY <2>1, <2>2, <2>4, <2>6 DEF Counted
  <2>8. numModulesInChain[i] <= MAX_MODULES
    BY DEF IInv, AddressesInRange
  <2> QED BY <2>5, <2>7, <2>8
<1>3. IInv /\ LaidInv /\ [Next]_vars => LaidInv'
  BY LaidNext
<1>4. QED
  BY <1>1, <1>2, <1>3, Invariance, PTL DEF Spec

-----------------------------------------------------------------------------
(***************************************************************************)
(* The safety half of BroadcastAgrees.  In an assembled chain whose        *)
(* cables rest, the lines on the way to a module, read in order, bring it  *)
(* to the mode of its neighbour: what travels is always what the receiver  *)
(* lacks.  So when no line is left, all modules are in the mode of the     *)
(* first.                                                                  *)
(***************************************************************************)
\* Whether a module broadcasts when it has read s, if it does so now: b.
AfterReading(s, b) ==
  \/ \E n \in 1 .. Len(s) : s[n].type = "b" /\ \A k \in n + 1 .. Len(s) : s[k].type = "hb"
  \/ b /\ \A n \in 1 .. Len(s) : s[n].type = "hb"

Led == \A i \in Module : ~recording[i] /\ (isMaster[i] <=> i = 0)

Follows ==
  /\ Led
  /\ \A l \in Link : cable[l] /\ (AfterReading(down[l], Broadcasting(l + 1)) <=> Broadcasting(l))

FollowsInv == upsets = 0 /\ recordings = 0 => Steady /\ Follows

\* No link is full: no line is lost.
Spare == upsets = 0 => \A l \in Link : Len(down[l]) < LinkCap

\* Until then, once only heartbeats are on the way downstream all modules broadcast
\* or none does.
AgreeWhenRead ==
  upsets = 0 /\ recordings = 0
  /\ (\A l \in Link : \A n \in 1 .. Len(down[l]) : down[l][n].type = "hb")
    => \A i \in Module : Broadcasting(i) = Broadcasting(0)

LEMMA ReadAppend ==
  ASSUME NEW s \in Seq(Message), NEW m \in Message, NEW b
  PROVE  AfterReading(Append(s, m), b) <=> (m.type = "b" \/ (m.type = "hb" /\ AfterReading(s, b)))
<1> DEFINE t == Append(s, m)
<1>1. /\ Len(s) \in Nat /\ Len(t) = Len(s) + 1 /\ t[Len(s) + 1] = m
      /\ \A n \in 1 .. Len(s) : t[n] = s[n]
  OBVIOUS
<1> HIDE DEF t
<1>2. CASE m.type = "b"
  <2>1. Len(t) \in 1 .. Len(t) /\ t[Len(t)].type = "b" /\ Len(t) + 1 .. Len(t) = {}
    BY <1>1, <1>2
  <2>2. AfterReading(t, b)
    BY <2>1 DEF AfterReading
  <2> QED BY <1>2, <2>2 DEF t
<1>3. CASE m.type # "b"
  <2>1. ASSUME AfterReading(t, b) PROVE m.type = "hb" /\ AfterReading(s, b)
    <3>1. CASE \E n \in 1 .. Len(t) : t[n].type = "b" /\ \A k \in n + 1 .. Len(t) : t[k].type = "hb"
      <4>1. PICK n \in 1 .. Len(t) : t[n].type = "b" /\ \A k \in n + 1 .. Len(t) : t[k].type = "hb"
        BY <3>1
      <4>2. n # Len(s) + 1
        BY <1>1, <1>3, <4>1
      <4>3. n \in 1 .. Len(s) /\ Len(t) \in n + 1 .. Len(t) /\ t[n] = s[n]
        BY <1>1, <4>2
      <4>4. m.type = "hb"
        BY <1>1, <4>1, <4>3
      <4>5. \A k \in n + 1 .. Len(s) : k \in n + 1 .. Len(t) /\ t[k] = s[k]
        BY <1>1
      <4> QED BY <4>1, <4>3, <4>4, <4>5 DEF AfterReading
    <3>2. CASE b /\ \A n \in 1 .. Len(t) : t[n].type = "hb"
      <4>1. m.type = "hb" /\ \A n \in 1 .. Len(s) : s[n].type = "hb"
        BY <1>1, <3>2
      <4> QED BY <3>2, <4>1 DEF AfterReading
    <3> QED BY <2>1, <3>1, <3>2 DEF AfterReading
  <2>2. ASSUME m.type = "hb", AfterReading(s, b) PROVE AfterReading(t, b)
    <3>1. CASE \E n \in 1 .. Len(s) : s[n].type = "b" /\ \A k \in n + 1 .. Len(s) : s[k].type = "hb"
      <4>1. PICK n \in 1 .. Len(s) : s[n].type = "b" /\ \A k \in n + 1 .. Len(s) : s[k].type = "hb"
        BY <3>1
      <4>2. ASSUME NEW k \in n + 1 .. Len(t) PROVE t[k].type = "hb"
        <5>1. CASE k = Len(s) + 1
          BY <1>1, <2>2, <5>1
        <5>2. CASE k # Len(s) + 1
          BY <1>1, <4>1, <5>2
        <5> QED BY <5>1, <5>2
      <4>3. n \in 1 .. Len(t) /\ t[n].type = "b"
        BY <1>1, <4>1
      <4> QED BY <4>2, <4>3 DEF AfterReading
    <3>2. CASE b /\ \A n \in 1 .. Len(s) : s[n].type = "hb"
      <4>1. ASSUME NEW n \in 1 .. Len(t) PROVE t[n].type = "hb"
        <5>1. CASE n = Len(s) + 1
          BY <1>1, <2>2, <5>1
        <5>2. CASE n # Len(s) + 1
          BY <1>1, <3>2, <5>2
        <5> QED BY <5>1, <5>2
      <4> QED BY <3>2, <4>1 DEF AfterReading
    <3> QED BY <2>2, <3>1, <3>2 DEF AfterReading
  <2> QED BY <1>3, <2>1, <2>2 DEF t
<1> QED BY <1>2, <1>3

LEMMA ReadHead ==
  ASSUME NEW s \in Seq(Message), s # << >>, NEW b
  PROVE  AfterReading(s, b) <=>
           AfterReading(Tail(s), Head(s).type = "b" \/ (Head(s).type = "hb" /\ b))
<1> DEFINE t == Tail(s)
           c == Head(s).type = "b" \/ (Head(s).type = "hb" /\ b)
<1>1. /\ Len(s) \in Nat \ {0} /\ Len(t) = Len(s) - 1 /\ Head(s) = s[1]
      /\ \A n \in 1 .. Len(t) : t[n] = s[n + 1]
  OBVIOUS
<1> HIDE DEF t
<1>2. ASSUME AfterReading(s, b) PROVE AfterReading(t, c)
  <2>1. CASE \E n \in 1 .. Len(s) : s[n].type = "b" /\ \A k \in n + 1 .. Len(s) : s[k].type = "hb"
    <3>1. PICK n \in 1 .. Len(s) : s[n].type = "b" /\ \A k \in n + 1 .. Len(s) : s[k].type = "hb"
      BY <2>1
    <3>2. CASE n = 1
      <4>1. \A k \in 1 .. Len(t) : k + 1 \in n + 1 .. Len(s)
        BY <1>1, <3>2
      <4>2. \A k \in 1 .. Len(t) : t[k].type = "hb"
        BY <1>1, <3>1, <4>1
      <4> QED BY <1>1, <3>1, <3>2, <4>2 DEF AfterReading
    <3>3. CASE n # 1
      <4>1. n - 1 \in 1 .. Len(t) /\ t[n - 1] = s[n]
        BY <1>1, <3>3
      <4>2. \A k \in (n - 1) + 1 .. Len(t) : k \in 1 .. Len(t) /\ k + 1 \in n + 1 .. Len(s)
        BY <1>1, <3>3
      <4>3. \A k \in (n - 1) + 1 .. Len(t) : t[k].type = "hb"
        BY <1>1, <3>1, <4>2
      <4> QED BY <3>1, <4>1, <4>3 DEF AfterReading
    <3> QED BY <3>2, <3>3
  <2>2. CASE b /\ \A n \in 1 .. Len(s) : s[n].type = "hb"
    <3>1. 1 \in 1 .. Len(s) /\ \A n \in 1 .. Len(t) : n + 1 \in 1 .. Len(s)
      BY <1>1
    <3>2. Head(s).type = "hb" /\ \A n \in 1 .. Len(t) : t[n].type = "hb"
      BY <1>1, <2>2, <3>1
    <3> QED BY <2>2, <3>2 DEF AfterReading
  <2> QED BY <1>2, <2>1, <2>2 DEF AfterReading
<1>3. ASSUME AfterReading(t, c) PROVE AfterReading(s, b)
  <2>1. CASE \E n \in 1 .. Len(t) : t[n].type = "b" /\ \A k \in n + 1 .. Len(t) : t[k].type = "hb"
    <3>1. PICK n \in 1 .. Len(t) : t[n].type = "b" /\ \A k \in n + 1 .. Len(t) : t[k].type = "hb"
      BY <2>1
    <3>2. n + 1 \in 1 .. Len(s) /\ s[n + 1].type = "b"
      BY <1>1, <3>1
    <3>3. ASSUME NEW k \in (n + 1) + 1 .. Len(s) PROVE s[k].type = "hb"
      <4>1. k - 1 \in n + 1 .. Len(t) /\ k - 1 \in 1 .. Len(t) /\ (k - 1) + 1 = k
        BY <1>1
      <4> QED BY <1>1, <3>1, <4>1
    <3> QED BY <3>2, <3>3 DEF AfterReading
  <2>2. CASE c /\ \A n \in 1 .. Len(t) : t[n].type = "hb"
    <3>1. ASSUME NEW k \in 2 .. Len(s) PROVE s[k].type = "hb"
      <4>1. k - 1 \in 1 .. Len(t) /\ (k - 1) + 1 = k
        BY <1>1
      <4> QED BY <1>1, <2>2, <4>1
    <3>2. 1 \in 1 .. Len(s) /\ 1 + 1 = 2
      BY <1>1
    <3>3. CASE Head(s).type = "b"
      BY <1>1, <3>1, <3>2, <3>3 DEF AfterReading
    <3>4. CASE Head(s).type = "hb" /\ b
      <4>1. \A k \in 1 .. Len(s) : k = 1 \/ k \in 2 .. Len(s)
        BY <1>1
      <4>2. \A k \in 1 .. Len(s) : s[k].type = "hb"
        BY <1>1, <3>1, <3>4, <4>1
      <4> QED BY <3>4, <4>2 DEF AfterReading
    <3> QED BY <2>2, <3>3, <3>4
  <2> QED BY <1>3, <2>1, <2>2 DEF AfterReading
<1> QED BY <1>2, <1>3 DEF t

\* Heartbeats change nothing.
LEMMA BeatsAside ==
  ASSUME NEW q \in [Link -> Seq(Message)], NEW l \in Link, NEW b, NEW k
  PROVE  /\ \A n \in Nat : AfterReading(Carry(q, k, Heartbeat(n))[l], b) <=> AfterReading(q[l], b)
         /\ Waiting(q, k, "hb") => (AfterReading(Consume(q, k)[l], b) <=> AfterReading(q[l], b))
<1>1. ASSUME NEW n \in Nat
      PROVE  AfterReading(Carry(q, k, Heartbeat(n))[l], b) <=> AfterReading(q[l], b)
  <2> DEFINE m == Heartbeat(n)
  <2>1. m \in Message /\ m.type = "hb"
    BY PlainMessages DEF Heartbeat
  <2> HIDE DEF m
  <2>2. q[l] \in Seq(Message)
    OBVIOUS
  <2>3. Carry(q, k, m)[l] = q[l] \/ Carry(q, k, m)[l] = Append(q[l], m)
    BY DEF Carry
  <2>4. AfterReading(Append(q[l], m), b) <=> AfterReading(q[l], b)
    BY <2>1, <2>2, ReadAppend
  <2>5. AfterReading(Carry(q, k, m)[l], b) <=> AfterReading(q[l], b)
    BY <2>3, <2>4
  <2> QED BY <2>5 DEF m
<1>2. ASSUME Waiting(q, k, "hb")
      PROVE  AfterReading(Consume(q, k)[l], b) <=> AfterReading(q[l], b)
  <2>1. CASE l # k
    <3>1. Consume(q, k)[l] = q[l]
      BY <2>1 DEF Consume
    <3> QED BY <3>1
  <2>2. CASE l = k
    <3>1. /\ q[l] \in Seq(Message) /\ q[l] # << >> /\ Head(q[l]).type = "hb"
          /\ Consume(q, k)[l] = Tail(q[l])
      BY <1>2, <2>2 DEF Waiting, Consume
    <3>2. AfterReading(q[l], b) <=> AfterReading(Tail(q[l]), Head(q[l]).type = "b" \/ (Head(q[l]).type = "hb" /\ b))
      BY <3>1, ReadHead
    <3>3. AfterReading(Tail(q[l]), Head(q[l]).type = "b" \/ (Head(q[l]).type = "hb" /\ b))
            <=> AfterReading(Tail(q[l]), b)
      BY <3>1 DEF AfterReading
    <3> QED BY <3>1, <3>2, <3>3
  <2> QED BY <2>1, <2>2
<1> QED BY <1>1, <1>2

LEMMA QuietFollows ==
  ASSUME Follows, UNCHANGED <<cable, isMaster, sequenceRunning, currentSequenceMode, recording>>,
         \A l \in Link : \A b : AfterReading(down'[l], b) <=> AfterReading(down[l], b)
  PROVE  Follows'
<1>1. ASSUME NEW l \in Link
      PROVE  cable'[l] /\ (AfterReading(down'[l], Broadcasting(l + 1)') <=> Broadcasting(l)')
  <2>1. Broadcasting(l + 1)' = Broadcasting(l + 1) /\ Broadcasting(l)' = Broadcasting(l)
    BY DEF Broadcasting
  <2>2. cable[l] /\ (AfterReading(down[l], Broadcasting(l + 1)) <=> Broadcasting(l))
    BY DEF Follows
  <2> QED BY <2>1, <2>2
<1>2. Led'
  BY DEF Follows, Led
<1> QED BY <1>1, <1>2 DEF Follows, AfterReading

\* Module i takes a mode and writes the line that says so.
LEMMA LineFollows ==
  ASSUME IInv, Follows, Spare, upsets = 0, NEW i \in Module, NEW q \in [Link -> Seq(Message)],
         \A l \in Link \ {i - 1} : q[l] = down[l],
         NEW new \in BOOLEAN,
         i - 1 \in Link => (AfterReading(q[i - 1], new) <=> Broadcasting(i - 1)),
         down' = SendDown(i, q, IF new THEN StartLine ELSE StopLine),
         cable' = cable, Led',
         Broadcasting(i)' <=> new,
         \A j \in Module \ {i} : Broadcasting(j)' <=> Broadcasting(j)
  PROVE  Follows'
<1> DEFINE m == IF new THEN StartLine ELSE StopLine
<1>1. m \in Message /\ (m.type = "b" <=> new) /\ m.type # "hb"
  BY PlainMessages DEF StartLine, StopLine
<1>2. down' = Carry(q, i, m)
  BY DEF SendDown
<1> HIDE DEF m
<1>3. ASSUME NEW l \in Link
      PROVE  AfterReading(down'[l], Broadcasting(l + 1)') <=> Broadcasting(l)'
  <2>1. l \in Module /\ l + 1 \in Module /\ l \in Int /\ i \in Int /\ l # l + 1
    BY ChainAssumption DEF Link, Module
  <2>2. cable[l] /\ (AfterReading(down[l], Broadcasting(l + 1)) <=> Broadcasting(l))
    BY DEF Follows
  <2>3. CASE l = i
    <3>1. q[l] = down[l] /\ Len(down[l]) < LinkCap
      BY <2>1, <2>3 DEF Spare
    <3>2. down'[l] = Append(q[l], m) /\ q[l] \in Seq(Message)
      BY <1>2, <2>2, <2>3, <3>1 DEF Carry
    <3>3. AfterReading(Append(q[l], m), Broadcasting(l + 1)') <=> new
      BY <1>1, <3>2, ReadAppend
    <3> QED BY <2>3, <3>2, <3>3
  <2>4. CASE l = i - 1
    <3>1. down'[l] = q[l]
      BY <1>2, <2>1, <2>4 DEF Carry
    <3>2. l + 1 = i /\ l # i /\ (Broadcasting(l + 1)' <=> new) /\ (Broadcasting(l)' <=> Broadcasting(l))
      BY <2>1, <2>4
    <3>3. AfterReading(q[l], Broadcasting(l + 1)') <=> AfterReading(q[l], new)
      BY <3>2 DEF AfterReading
    <3> QED BY <2>4, <3>1, <3>2, <3>3
  <2>5. CASE l # i /\ l # i - 1
    <3>1. down'[l] = down[l]
      BY <1>2, <2>5 DEF Carry
    <3>2. l + 1 # i
      BY <2>1, <2>5
    <3>3. (Broadcasting(l + 1)' <=> Broadcasting(l + 1)) /\ (Broadcasting(l)' <=> Broadcasting(l))
      BY <2>1, <2>5, <3>2
    <3>4. AfterReading(down[l], Broadcasting(l + 1)') <=> AfterReading(down[l], Broadcasting(l + 1))
      BY <3>3 DEF AfterReading
    <3> QED BY <2>2, <3>1, <3>3, <3>4
  <2> QED BY <2>3, <2>4, <2>5
<1>4. \A l \in Link : cable'[l]
  BY DEF Follows
<1> QED BY <1>3, <1>4 DEF Follows, AfterReading

LEMMA FollowsLoop ==
  ASSUME IInv, Steady, Follows, Spare, upsets = 0, Interval < Timeout, N <= MAX_MODULES,
         NEW i \in Module, Loop(i)
  PROVE  Follows'
<1>1. /\ down \in [Link -> Seq(Message)]
      /\ sequenceRunning \in [Module -> BOOLEAN] /\ currentSequenceMode \in [Module -> Mode]
      /\ moduleChainIndex \in [Module -> Nat] /\ isMaster \in [Module -> BOOLEAN]
      /\ recording \in [Module -> BOOLEAN]
      /\ Led
  BY DEF IInv, TypeOK, Follows
<1>2. \A k \in Module : Silenced(i)[k] <=> (k # i /\ sequenceRunning[k])
  BY <1>1 DEF Silenced
<1>3. CASE IgnoreUpstreamNoise(i)
  <2>1. /\ UNCHANGED <<cable, isMaster, sequenceRunning, currentSequenceMode, recording>>
        /\ down' = Consume(down, i - 1) /\ Waiting(down, i - 1, "hb")
    BY <1>3 DEF IgnoreUpstreamNoise, role, playing, power
  <2> QED BY <1>1, <2>1, BeatsAside, QuietFollows
<1>4. CASE RefreshFromUpstream(i)
  <2> DEFINE c == Consume(down, i - 1)
             n == Head(down[i-1]).num + 1
  <2>1. /\ UNCHANGED <<cable, isMaster, sequenceRunning, currentSequenceMode, recording>>
        /\ down' = Carry(c, i, Heartbeat(n)) /\ Waiting(down, i - 1, "hb")
    BY <1>4 DEF RefreshFromUpstream, SendDown, power
  <2>2. n \in Nat /\ c \in [Link -> Seq(Message)]
    BY <2>1, NearOffer DEF QueuesOK
  <2>3. \A l \in Link : \A b : AfterReading(c[l], b) <=> AfterReading(down[l], b)
    BY <1>1, <2>1, BeatsAside
  <2> HIDE DEF c, n
  <2>4. \A l \in Link : \A b : AfterReading(down'[l], b) <=> AfterReading(c[l], b)
    BY <2>1, <2>2, BeatsAside
  <2> QED BY <2>1, <2>3, <2>4, QuietFollows
<1>5. CASE DemoteToSlave(i)
  <2>1. i = 0 /\ i - 1 \in Link
    BY <1>1, <1>5 DEF DemoteToSlave, Led, Waiting, power
  <2> QED BY <2>1 DEF Link
<1>6. CASE BroadcastFromUpstream(i) \/ StopFromUpstream(i)
  <2> DEFINE new == BroadcastFromUpstream(i)
             c == Consume(down, i - 1)
             type == IF new THEN "b" ELSE "x"
  <2>1. /\ Waiting(down, i - 1, type) /\ cable' = cable
        /\ isMaster' = isMaster /\ recording' = recording
        /\ down' = SendDown(i, c, IF new THEN StartLine ELSE StopLine)
    BY <1>6 DEF BroadcastFromUpstream, StopFromUpstream, role, power
  <2>2. (Broadcasting(i)' <=> new) /\ \A j \in Module \ {i} : Broadcasting(j)' <=> Broadcasting(j)
    <3>1. CASE BroadcastFromUpstream(i)
      <4>1. /\ sequenceRunning' = [sequenceRunning EXCEPT ![i] = TRUE]
            /\ currentSequenceMode' = [currentSequenceMode EXCEPT ![i] = "BROADCAST"]
        BY <3>1 DEF BroadcastFromUpstream, power
      <4> QED BY <1>1, <3>1, <4>1 DEF Broadcasting
    <3>2. CASE ~BroadcastFromUpstream(i)
      <4>1. /\ currentSequenceMode' = currentSequenceMode
            /\ \/ Broadcasting(i) /\ sequenceRunning' = Silenced(i)
               \/ ~Broadcasting(i) /\ sequenceRunning' = sequenceRunning
        BY <1>6, <3>2 DEF StopFromUpstream, power
      <4> QED BY <1>1, <1>2, <3>2, <4>1 DEF Broadcasting
    <3> QED BY <3>1, <3>2
  <2>3. /\ i - 1 \in Link /\ down[i-1] \in Seq(Message) /\ down[i-1] # << >>
        /\ Head(down[i-1]).type = type /\ (type = "b" <=> new) /\ type # "hb"
        /\ c[i-1] = Tail(down[i-1]) /\ \A l \in Link \ {i - 1} : c[l] = down[l]
    BY <1>1, <2>1 DEF Waiting, Consume
  <2>4. new \in BOOLEAN /\ c \in [Link -> Seq(Message)]
    BY <1>1, <2>3 DEF Consume, BroadcastFromUpstream, power
  <2>5. Led'
    BY <1>1, <2>1 DEF Led
  <2> HIDE DEF c, new, type
  <2>6. AfterReading(c[i-1], new) <=> Broadcasting(i - 1)
    <3>1. AfterReading(down[i-1], Broadcasting(i)) <=> Broadcasting(i - 1)
      <4>1. (i - 1) + 1 = i
        BY DEF Module
      <4> QED BY <2>3, <4>1 DEF Follows
    <3>2. AfterReading(down[i-1], Broadcasting(i))
            <=> AfterReading(Tail(down[i-1]), Head(down[i-1]).type = "b"
                                              \/ (Head(down[i-1]).type = "hb" /\ Broadcasting(i)))
      BY <2>3, ReadHead
    <3>3. AfterReading(Tail(down[i-1]), Head(down[i-1]).type = "b"
                                        \/ (Head(down[i-1]).type = "hb" /\ Broadcasting(i)))
            <=> AfterReading(Tail(down[i-1]), new)
      BY <2>3 DEF AfterReading
    <3> QED BY <2>3, <3>1, <3>2, <3>3
  <2> QED BY <2>1, <2>2, <2>3, <2>4, <2>5, <2>6, LineFollows
<1>7. CASE IgnoreDownstreamNoise(i) \/ ReplyFromDownstream(i)
  BY <1>7, QuietFollows DEF IgnoreDownstreamNoise, ReplyFromDownstream, role, playing, power
<1>8. CASE PromoteToMaster(i)
  <2>1. ~Near(i)
    BY <1>8, LostOutOfReach DEF PromoteToMaster, power
  <2>2. 0 \in 0 .. i /\ i - 0 < MAX_MODULES
    BY ChainAssumption DEF Module
  <2> QED BY <2>1, <2>2 DEF Near, Gap
<1>9. CASE CheckHeartbeatReply(i)
  <2>1. CASE isMaster[i] /\ Broadcasting(i) /\ moduleChainIndex[i] = 0
    <3>1. /\ sequenceRunning' = Silenced(i) /\ currentSequenceMode' = currentSequenceMode
          /\ down' = SendDown(i, down, IF FALSE THEN StartLine ELSE StopLine)
          /\ UNCHANGED <<cable, isMaster, recording>>
      BY <1>9, <2>1 DEF CheckHeartbeatReply, StopSent, Broadcasting, power
    <3>2. (Broadcasting(i)' <=> FALSE) /\ \A j \in Module \ {i} : Broadcasting(j)' <=> Broadcasting(j)
      BY <1>1, <1>2, <3>1 DEF Broadcasting
    <3>3. i - 1 \notin Link
      BY <1>1, <2>1 DEF Led, Link
    <3>4. Led'
      BY <1>1, <3>1 DEF Led
    <3> QED BY <1>1, <3>1, <3>2, <3>3, <3>4, LineFollows
  <2>2. CASE ~(isMaster[i] /\ Broadcasting(i) /\ moduleChainIndex[i] = 0)
    BY <1>9, <2>2, QuietFollows DEF CheckHeartbeatReply, power
  <2> QED BY <2>1, <2>2
<1>10. CASE SendHeartbeat(i)
  <2> DEFINE n == moduleChainIndex[i] + 1
  <2>1. /\ UNCHANGED <<cable, isMaster, sequenceRunning, currentSequenceMode, recording>>
        /\ down' = Carry(down, i, Heartbeat(n))
    BY <1>10 DEF SendHeartbeat, SendDown, role, playing, power
  <2>2. n \in Nat
    BY <1>1
  <2> HIDE DEF n
  <2> QED BY <1>1, <2>1, <2>2, BeatsAside, QuietFollows
<1>11. ~Resume(i)
  BY DEF Steady, Running, Resume
<1> QED BY <1>3, <1>4, <1>5, <1>6, <1>7, <1>8, <1>9, <1>10, <1>11 DEF Loop

LEMMA FollowsUsers ==
  ASSUME IInv, Steady, Follows, Spare, upsets = 0, upsets' = 0,
         recordings = 0, recordings' = 0,
         Environment \/ Tick \/ UNCHANGED vars
  PROVE  Follows'
<1>1. /\ down \in [Link -> Seq(Message)]
      /\ sequenceRunning \in [Module -> BOOLEAN] /\ currentSequenceMode \in [Module -> Mode]
      /\ Led /\ \A j \in Module : Running(j)
  BY DEF IInv, TypeOK, Follows, Steady
<1>2. ASSUME NEW i \in Module, NEW mode \in Mode, StartSequence(i, mode) PROVE Follows'
  <2>1. /\ ~sequenceRunning[i] /\ UNCHANGED <<cable, isMaster, recording>> /\ i = 0
        /\ sequenceRunning' = [sequenceRunning EXCEPT ![i] = TRUE]
        /\ currentSequenceMode' = [currentSequenceMode EXCEPT ![i] = mode]
        /\ down' = IF mode = "BROADCAST" THEN SendDown(i, down, StartLine) ELSE down
    BY <1>1, <1>2 DEF StartSequence, role, Led, power
  <2>2. /\ Broadcasting(i)' <=> mode = "BROADCAST"
        /\ ~Broadcasting(i)
        /\ \A j \in Module \ {i} : Broadcasting(j)' <=> Broadcasting(j)
    BY <1>1, <2>1 DEF Broadcasting
  <2>3. Led' /\ i - 1 \notin Link
    BY <1>1, <2>1 DEF Led, Link
  <2>4. CASE mode = "BROADCAST"
    <3>1. down' = SendDown(i, down, IF TRUE THEN StartLine ELSE StopLine)
      BY <2>1, <2>4
    <3> QED BY <1>1, <2>1, <2>2, <2>3, <2>4, <3>1, LineFollows
  <2>5. CASE mode # "BROADCAST"
    <3>1. \A j \in Module : Broadcasting(j)' <=> Broadcasting(j)
      BY <2>2, <2>5
    <3>2. ASSUME NEW l \in Link
          PROVE  cable'[l] /\ (AfterReading(down'[l], Broadcasting(l + 1)') <=> Broadcasting(l)')
      <4>1. l \in Module /\ l + 1 \in Module
        BY ChainAssumption DEF Link, Module
      <4>2. AfterReading(down'[l], Broadcasting(l + 1)') <=> AfterReading(down[l], Broadcasting(l + 1))
        BY <2>1, <2>5, <3>1, <4>1 DEF AfterReading
      <4> QED BY <2>1, <3>1, <4>1, <4>2 DEF Follows
    <3> QED BY <2>3, <3>2 DEF Follows, AfterReading
  <2> QED BY <2>4, <2>5
<1>3. ASSUME NEW i \in Module, StopSequence(i) PROVE Follows'
  <2>1. /\ sequenceRunning' = Silenced(i) /\ currentSequenceMode' = currentSequenceMode
        /\ down' = SendDown(i, down, IF FALSE THEN StartLine ELSE StopLine)
        /\ UNCHANGED <<cable, isMaster, recording>> /\ i = 0
    BY <1>1, <1>3 DEF StopSequence, StopSent, role, Led, power
  <2>2. (Broadcasting(i)' <=> FALSE) /\ \A j \in Module \ {i} : Broadcasting(j)' <=> Broadcasting(j)
    BY <1>1, <2>1 DEF Broadcasting, Silenced
  <2>3. Led' /\ i - 1 \notin Link
    BY <1>1, <2>1 DEF Led, Link
  <2> QED BY <1>1, <2>1, <2>2, <2>3, LineFollows
<1>4. ASSUME NEW i \in Module, StartRecording(i) \/ StopRecording(i) PROVE FALSE
  BY <1>1, <1>4 DEF StartRecording, StopRecording, Led, power
<1>5. ASSUME NEW i \in Module, PowerOff(i) \/ PowerOn(i) \/ Reboot(i) \/ Block(i)
      PROVE  FALSE
  BY <1>1, <1>5 DEF PowerOff, PowerOn, Reboot, Block, Running, power, Upset
<1>6. ASSUME NEW l \in Link, Plug(l) \/ Unplug(l) PROVE FALSE
  BY <1>6 DEF Plug, Unplug, power, Upset
<1>7. CASE Tick \/ UNCHANGED vars
  BY <1>7, QuietFollows DEF Tick, vars, role, playing, links, power
<1> QED BY <1>2, <1>3, <1>4, <1>5, <1>6, <1>7 DEF Environment

LEMMA AssembledOK ==
  ASSUME Assembled, N <= MAX_MODULES
  PROVE  IInv /\ Steady /\ Follows
<1>1. /\ N \in Nat \ {0} /\ MAX_MODULES \in Nat /\ Interval \in Nat /\ Timeout \in Nat
      /\ MaxUpsets \in Nat /\ MaxNoise \in Nat /\ MaxCommands \in Nat /\ MaxRecordings \in Nat
  BY ChainAssumption
<1>2. /\ \A l \in Link : << >> \in Seq(DownMessages[l]) /\ << >> \in Seq(NearMessages[l])
      /\ << >> \in Seq(Message)
  BY MessagesAllowed, NearAllowed
<1>3. QueuesOK(down, DownMessages) /\ QueuesOK(down, NearMessages)
  BY <1>2 DEF Assembled, QueuesOK
<1>4. TypeOK
  BY <1>1, <1>2 DEF Assembled, TypeOK, Mode, Module
<1>5. /\ MasterHasIndexZero /\ AddressesInRange /\ NotesMatch
      /\ SlavesOnlyBroadcast /\ IndexWithinReach
  <2>1. ASSUME NEW i \in Module
        PROVE  /\ isMaster[i] <=> i = 0
               /\ moduleChainIndex[i] = i /\ numModulesInChain[i] = N /\ noteShift[i] = i
               /\ ~sequenceRunning[i] /\ ~recording[i]
    BY DEF Assembled
  <2>2. \A i \in Module : i \in Nat /\ i < N /\ N <= MAX_MODULES /\ i <= i
    BY <1>1 DEF Module
  <2>3. MasterHasIndexZero /\ IndexWithinReach
    BY <2>1, <2>2 DEF MasterHasIndexZero, IndexWithinReach
  <2>4. AddressesInRange
    BY <2>1, <2>2 DEF AddressesInRange
  <2>5. NotesMatch /\ SlavesOnlyBroadcast
    BY <2>1 DEF NotesMatch, Shift, SlavesOnlyBroadcast
  <2> QED BY <2>3, <2>4, <2>5
<1>6. ASSUME NEW i \in Module PROVE Running(i) /\ Placed(i) /\ Heeded(i)
  <2>1. /\ i \in Nat /\ i \in 0 .. N - 1 /\ Running(i) /\ moduleChainIndex[i] = i
        /\ \A l \in Link : cable[l]
    BY <1>1 DEF Assembled, Module, Running
  <2>2. Placed(i)
    BY <1>1, <2>1 DEF Placed, Gap, Link
  <2>3. ASSUME ~isMaster[i]
        PROVE  i - 1 \in Link /\ heardAge[i] = 0 /\ 0 <= Source(i - 1)
    <3>1. i # 0 /\ i - 1 \in Link /\ i - 1 \in Module
      <4>1. i # 0
        BY <2>3 DEF Assembled
      <4> QED BY <1>1, <2>1, <4>1 DEF Link, Module
    <3>2. heardAge[i] = 0 /\ 0 <= heardAge[i-1] /\ 0 <= sentAge[i-1]
      BY <1>1, <2>1, <3>1 DEF Assembled
    <3> QED BY <3>1, <3>2 DEF Source
  <2> QED BY <1>1, <2>1, <2>2, <2>3 DEF Heeded
<1>7. Follows
  <2>1. ASSUME NEW l \in Link
        PROVE  cable[l] /\ ~Broadcasting(l) /\ ~Broadcasting(l + 1) /\ down[l] = << >>
    <3>1. l \in Module /\ l + 1 \in Module
      BY <1>1 DEF Link, Module
    <3> QED BY <3>1 DEF Assembled, Broadcasting
  <2>2. Led
    BY DEF Led, Assembled
  <2> QED BY <2>1, <2>2 DEF Follows, AfterReading
<1>8. noises <= upsets
  BY DEF Assembled
<1> QED BY <1>3, <1>4, <1>5, <1>6, <1>7, <1>8 DEF IInv, Steady

\* In an assembled chain no longer than MAX_MODULES, until something upsets it or somebody
\* records, whatever sequences are started and stopped: when every b and x line has been read,
\* all modules broadcast or none does (handleCommandsFromUpstream() passes on what it obeys, in
\* order).  A recording breaks this: the flash of its start ends with an x line of its own.
THEOREM BroadcastAgreesWhenRead ==
  ASSUME Interval < Timeout, N <= MAX_MODULES
  PROVE  AssembledSpec /\ []Spare => []AgreeWhenRead
<1> DEFINE Inv == IInv /\ FollowsInv
<1>1. Assembled => Inv
  BY AssembledOK DEF FollowsInv
<1>2. ASSUME Inv, Spare, Spare', [Next]_vars PROVE Inv'
  <2>1. IInv'
    BY <1>2, NextOK
  <2>2. ASSUME upsets' = 0, recordings' = 0 PROVE Steady' /\ Follows'
    <3>0. upsets = 0 /\ recordings = 0
      BY <1>2, <2>2, MovesGrow, RecordingsGrow
    <3>1. upsets = 0 /\ recordings = 0 /\ Steady /\ Follows
      BY <1>2, <3>0 DEF FollowsInv
    <3>2. Roomy'
      <4>1. \A l \in Link : Len(down'[l]) \in Nat /\ LinkCap \in Nat
        BY <2>1, ChainAssumption DEF IInv, TypeOK
      <4> QED BY <1>2, <2>2, <4>1 DEF Spare, Roomy
    <3>3. Steady'
      BY <1>2, <2>1, <2>2, <3>1, <3>2, SteadyNext DEF SteadyInv
    <3>4. Follows'
      BY <1>2, <2>2, <3>1, FollowsLoop, FollowsUsers DEF Next
    <3> QED BY <3>3, <3>4
  <2> QED BY <2>1, <2>2 DEF FollowsInv
<1>3. Inv => AgreeWhenRead
  <2> SUFFICES ASSUME FollowsInv, upsets = 0, recordings = 0, Follows, NEW i \in Module,
                      \A l \in Link : \A n \in 1 .. Len(down[l]) : down[l][n].type = "hb"
               PROVE  Broadcasting(i) <=> Broadcasting(0)
    BY DEF FollowsInv, AgreeWhenRead, Broadcasting
  <2>1. ASSUME NEW l \in Link PROVE Broadcasting(l + 1) <=> Broadcasting(l)
    BY DEF Follows, AfterReading
  <2> DEFINE T == {j \in Module : ~(Broadcasting(j) <=> Broadcasting(0))}
  <2>2. ASSUME T # {} PROVE FALSE
    <3>1. PICK j \in T : \A k \in T : j <= k
      <4>1. T \in SUBSET Nat
        BY DEF Module
      <4> HIDE DEF T
      <4> QED BY <2>2, <4>1, Least
    <3>2. j # 0 /\ j - 1 \in Link /\ j - 1 \in Module /\ (j - 1) + 1 = j /\ ~(j <= j - 1)
      BY <3>1, ChainAssumption DEF Link, Module
    <3>3. Broadcasting(j) <=> Broadcasting(j - 1)
      BY <2>1, <3>2
    <3>4. j - 1 \in T
      BY <3>1, <3>2, <3>3
    <3> QED BY <3>1, <3>2, <3>4
  <2> QED BY <2>2
<1> HIDE DEF Inv
<1>4. Inv /\ Spare /\ Spare' /\ [Next]_vars => Inv'
  BY <1>2
<1>5. QED
  BY <1>1, <1>3, <1>4, PTL DEF AssembledSpec

=============================================================================
