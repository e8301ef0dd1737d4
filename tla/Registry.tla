------------------------------ MODULE Registry -------------------------------
(***************************************************************************)
(* The controller's map of modules.  A module is known by its address: the *)
(* IP address it connects from, or the path of the USB port it hangs on.   *)
(* Connections of one address (WebSockets, or openings of the port) are    *)
(* numbered in the order in which the controller accepts them; the         *)
(* controller learns that one is dead when its socket closes, which may be *)
(* after the module has come back on the next one.                         *)
(***************************************************************************)
EXTENDS Integers, Sequences

CONSTANTS
  Wifi, Usb,       \* addresses of modules
  StaleAfter,      \* MODULE_STALE_TIMEOUT_MS in clean-up intervals
  MaxConnections,  \* bound: connections per address
  MaxGreetings     \* bound: HELLO and BYE lines per address beyond the first HELLO

ASSUME RegistryAssumption ==
  /\ Wifi \cap Usb = {}
  /\ StaleAfter \in Nat
  /\ MaxConnections \in Nat
  /\ MaxGreetings \in Nat

Address == Wifi \cup Usb
Connection == 1 .. MaxConnections

\* What a module says that the controller acts upon: greetings, and answers to an upload.
FromModule == {"HELLO", "BYE", "ACK begin", "ACK end", "ERR"}

VARIABLES
  modules,        \* per address: the entry, or NoEntry
  moduleCounter,  \* labels given so far
  accepted,       \* per address: connections accepted so far
  socket,         \* per connection: readyState
  peer,           \* per address: the connection the module itself uses, 0 for none
  up,             \* per connection: lines from the module, oldest first
  greetings,      \* per address: HELLO and BYE lines sent
  robbed          \* per address: the entry lost a younger connection when an older closed

registry == <<modules, moduleCounter>>
network  == <<accepted, socket, peer>>

NoEntry == [connected |-> FALSE, ws |-> 0, age |-> 0, label |-> 0]
Known(a) == modules[a] # NoEntry
Listed(a) == modules[a].connected

-----------------------------------------------------------------------------
(* The registry's operations *)

\* getModuleLabel(): an entry that is still in the map lends its label to the new one.
LabelFor_Latest(a) == IF Known(a) THEN moduleCounter ELSE moduleCounter + 1
LabelFor(a) == IF Known(a) THEN modules[a].label ELSE moduleCounter + 1

SocketFor_Former(a, k) == IF modules[a].ws # 0 THEN modules[a].ws ELSE k
SocketFor(a, k) == k

Register(a, k) ==
  /\ modules' = [modules EXCEPT ![a] = [connected |-> TRUE, ws |-> SocketFor(a, k),
                                        age |-> 0, label |-> LabelFor(a)]]
  /\ moduleCounter' = IF Known(a) THEN moduleCounter ELSE moduleCounter + 1

\* touchModule(), with other changes to the entry.
Touched(e) == [e EXCEPT !.age = 0]

\* unregisterModule() looks at the address only, not at the connection that closed.
Unregistered_Half(e) == IF e = NoEntry THEN e ELSE [e EXCEPT !.ws = 0]
Unregistered(e) == IF e = NoEntry THEN e ELSE [e EXCEPT !.ws = 0, !.connected = FALSE]

Open(a, k) == k # 0 /\ socket[a][k] = "open"

\* sendToModule() has a connection to send on.
Reachable(a) == Listed(a) /\ Open(a, modules[a].ws)

\* The connection a HELLO gives to an address whose entry is gone: the open port, or
\* none.
OpenPort(a) == IF a \in Usb /\ Open(a, accepted[a]) THEN accepted[a] ELSE 0

-----------------------------------------------------------------------------
(* Connections *)

\* A module connects over WiFi, or the discovery finds and opens its port; the module
\* introduces itself.
Connect(a) ==
  LET k == accepted[a] + 1 IN
  /\ accepted[a] < MaxConnections
  /\ peer[a] = 0
  /\ a \in Usb => OpenPort(a) = 0
  /\ accepted' = [accepted EXCEPT ![a] = k]
  /\ socket' = [socket EXCEPT ![a][k] = "open"]
  /\ peer' = [peer EXCEPT ![a] = k]
  /\ up' = [up EXCEPT ![a][k] = << "HELLO" >>]
  /\ robbed' = [robbed EXCEPT ![a] = FALSE]
  /\ Register(a, k)
  /\ UNCHANGED greetings

\* A module loses power or WiFi, or its cable is pulled: the socket lives on for now.
Vanish(a) ==
  /\ peer[a] # 0
  /\ peer' = [peer EXCEPT ![a] = 0]
  /\ UNCHANGED <<registry, accepted, socket, up, greetings, robbed>>

\* POST /api/disconnect for a module on WiFi.
Disconnect(a) ==
  /\ a \in Wifi
  /\ Open(a, modules[a].ws)
  /\ socket' = [socket EXCEPT ![a][modules[a].ws] = "closing"]
  /\ UNCHANGED <<registry, accepted, peer, up, greetings, robbed>>

\* The 'close' (or 'error') handler of a socket or port: the module has gone, or the
\* controller has asked for it.  What the socket had not delivered is lost.
Closed(a, k) ==
  /\ \/ socket[a][k] = "open" /\ (peer[a] # k \/ a \in Usb)
     \/ socket[a][k] = "closing"
  /\ socket' = [socket EXCEPT ![a][k] = "closed"]
  /\ peer' = [peer EXCEPT ![a] = IF @ = k THEN 0 ELSE @]
  /\ up' = [up EXCEPT ![a][k] = << >>]
  /\ robbed' = [robbed EXCEPT ![a] = @ \/ modules[a].ws > k]
  /\ modules' = [modules EXCEPT ![a] = Unregistered(@)]
  /\ UNCHANGED <<moduleCounter, accepted, greetings>>

-----------------------------------------------------------------------------
(* Lines from modules *)

\* A module tells of a new chain length, or over USB of a change of its role.
Greet(a) ==
  /\ peer[a] # 0
  /\ greetings[a] < MaxGreetings
  /\ greetings' = [greetings EXCEPT ![a] = @ + 1]
  /\ \E line \in {"HELLO"} \cup (IF a \in Usb THEN {"BYE"} ELSE {}) :
       up' = [up EXCEPT ![a][peer[a]] = Append(@, line)]
  /\ UNCHANGED <<registry, network, robbed>>

\* A line is handled while its socket is not yet closed; lines of two sockets are handled
\* in any order.
Arrives(a, k, kind) ==
  /\ up[a][k] # << >>
  /\ Head(up[a][k]) = kind
  /\ up' = [up EXCEPT ![a][k] = Tail(@)]

HearHello(a, k) ==
  /\ Arrives(a, k, "HELLO")
  /\ IF Known(a)
       THEN /\ modules' = [modules EXCEPT ![a] = Touched([@ EXCEPT !.connected = TRUE])]
            /\ UNCHANGED moduleCounter
       ELSE Register(a, OpenPort(a))
  /\ UNCHANGED <<network, greetings, robbed>>

HearBye(a, k) ==
  /\ Arrives(a, k, "BYE")
  /\ modules' = [modules EXCEPT ![a] = IF Known(a)
                                         THEN Touched([@ EXCEPT !.connected = FALSE])
                                         ELSE @]
  /\ UNCHANGED <<moduleCounter, network, greetings, robbed>>

\* A pong answers the ping that the clean-up sends on open sockets.
Pong(a) ==
  /\ a \in Wifi
  /\ Reachable(a) /\ modules[a].ws = peer[a]
  /\ modules[a].age > 0
  /\ modules' = [modules EXCEPT ![a] = Touched(@)]
  /\ UNCHANGED <<moduleCounter, network, up, greetings, robbed>>

-----------------------------------------------------------------------------
(* cleanupStaleModules(), once per interval *)

SocketGone(a, e) == ~Open(a, e.ws)

Cleaned(a, e) ==
  CASE e = NoEntry -> e
    [] e # NoEntry /\ ~e.connected -> IF e.age > StaleAfter THEN NoEntry ELSE e
    [] e.connected /\ a \in Usb -> e
    [] e.connected /\ a \in Wifi -> IF SocketGone(a, e) THEN Unregistered(e) ELSE e

Older(e) == IF e # NoEntry /\ e.age <= StaleAfter THEN [e EXCEPT !.age = @ + 1] ELSE e

CleanUp ==
  /\ modules' = [a \in Address |-> Cleaned(a, Older(modules[a]))]
  /\ UNCHANGED <<moduleCounter, network, up, greetings, robbed>>

-----------------------------------------------------------------------------
RegistryInit ==
  /\ modules = [a \in Address |-> NoEntry]
  /\ moduleCounter = 0
  /\ accepted = [a \in Address |-> 0]
  /\ socket = [a \in Address |-> [k \in Connection |-> "none"]]
  /\ peer = [a \in Address |-> 0]
  /\ up = [a \in Address |-> [k \in Connection |-> << >>]]
  /\ greetings = [a \in Address |-> 0]
  /\ robbed = [a \in Address |-> FALSE]

HearLine(a) == \E k \in Connection : HearHello(a, k) \/ HearBye(a, k)

\* What happens to one address without the registry's timer.
RegistryStep(a) ==
  \/ Connect(a) \/ Vanish(a) \/ Disconnect(a)
  \/ \E k \in Connection : Closed(a, k)
  \/ Greet(a) \/ HearLine(a) \/ Pong(a)

registryVars == <<registry, network, up, greetings, robbed>>

RegistryNext == CleanUp \/ \E a \in Address : RegistryStep(a)

\* Timers fire, what has arrived is read, and TCP or USB tells the controller in the
\* end that a module has gone; nothing makes a module connect, speak or answer.
RegistrySpec ==
  RegistryInit /\ [][RegistryNext]_registryVars
    /\ WF_registryVars(CleanUp)
    /\ \A a \in Address :
         /\ WF_registryVars(HearLine(a))
         /\ WF_registryVars(\E k \in Connection : peer[a] # k /\ Closed(a, k))

-----------------------------------------------------------------------------
(* Properties *)

\* Every variable holds what its declaration says; only an address without an entry is
\* without a label.
RegistryTypeOK ==
  /\ modules \in [Address -> [connected : BOOLEAN, ws : 0 .. MaxConnections,
                              age : 0 .. StaleAfter + 1, label : 0 .. moduleCounter]]
  /\ \A a \in Address : modules[a].label = 0 => ~Known(a)
  /\ moduleCounter \in Nat
  /\ accepted \in [Address -> 0 .. MaxConnections]
  /\ socket \in [Address -> [Connection -> {"none", "open", "closing", "closed"}]]
  /\ peer \in [Address -> 0 .. MaxConnections]
  /\ up \in [Address -> [Connection -> Seq(FromModule)]]
  /\ greetings \in [Address -> 0 .. MaxGreetings]
  /\ robbed \in [Address -> BOOLEAN]

\* No two modules carry the same label, however entries come, go and come back: the
\* user tells modules apart by it.
LabelsUnique ==
  \A a, b \in Address : Known(a) /\ Known(b) /\ a # b => modules[a].label # modules[b].label

\* A module on WiFi that has a connection is listed with it, unless an older
\* connection of the same address closed after it had come back.
LiveListed ==
  \A a \in Wifi : peer[a] # 0 /\ Open(a, peer[a]) /\ ~robbed[a]
    => Listed(a) /\ modules[a].ws = peer[a]

\* A module on USB is listed only with its open port, through BYE, clean-up and return.
SerialSound == \A a \in Usb : Listed(a) => Reachable(a)

\* A module that has gone for good does not stay listed, whichever of its sockets
\* closes when and whatever it said last.
GoneUnlisted == <>[](\A a \in Address : Listed(a) => peer[a] # 0)
=============================================================================
