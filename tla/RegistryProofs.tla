--------------------------- MODULE RegistryProofs ----------------------------
(***************************************************************************)
(* Safety of Registry for any number of modules, connections and lines.    *)
(*                                                                         *)
(* The invariant has a global part, the types and the uniqueness of        *)
(* labels, and a part for each address, which only that address's own      *)
(* actions and the clean-up can disturb.                                   *)
(***************************************************************************)
EXTENDS Registry, SequenceTheorems, TLAPS

Entry == [connected : BOOLEAN, ws : 0 .. MaxConnections,
          age : 0 .. StaleAfter + 1, label : 0 .. moduleCounter]

EntriesOK ==
  /\ modules \in [Address -> Entry]
  /\ \A a \in Address : modules[a].label = 0 => ~Known(a)
  /\ moduleCounter \in Nat

NetworkOK ==
  /\ accepted \in [Address -> 0 .. MaxConnections]
  /\ socket \in [Address -> [Connection -> {"none", "open", "closing", "closed"}]]
  /\ peer \in [Address -> 0 .. MaxConnections]

LinesOK ==
  /\ up \in [Address -> [Connection -> Seq(FromModule)]]
  /\ greetings \in [Address -> 0 .. MaxGreetings]
  /\ robbed \in [Address -> BOOLEAN]

\* Connections are used in the order of their numbers.
NumberedOK(a) ==
  /\ \A k \in Connection : k > accepted[a] => socket[a][k] = "none" /\ up[a][k] = << >>
  /\ peer[a] # 0 => peer[a] = accepted[a]

\* A module on WiFi never says BYE, so nothing but a closed socket unlists it.
WifiOK(a) ==
  /\ \A k \in Connection : \A i \in DOMAIN up[a][k] : up[a][k][i] # "BYE"
  /\ peer[a] # 0 /\ Open(a, peer[a]) /\ ~robbed[a] => Listed(a) /\ modules[a].ws = peer[a]

\* A port is opened again only once it has closed, and what it had not delivered is lost
\* with it: a line that is heard comes from the port that the entry knows.
UsbOK(a) ==
  /\ \A k \in Connection : /\ socket[a][k] = "open" => k = accepted[a]
                           /\ socket[a][k] # "closing"
  /\ \A k \in Connection : up[a][k] # << >> => socket[a][k] = "open"
  /\ peer[a] # 0 => Open(a, peer[a])
  /\ Known(a) /\ Open(a, accepted[a]) => modules[a].ws = accepted[a]
  /\ Listed(a) => Reachable(a)

AddressOK(a) ==
  /\ NumberedOK(a)
  /\ a \in Wifi => WifiOK(a)
  /\ a \in Usb => UsbOK(a)

TypesOK == EntriesOK /\ NetworkOK /\ LinesOK

IInv == TypesOK /\ LabelsUnique /\ \A a \in Address : AddressOK(a)

-----------------------------------------------------------------------------
\* What a change of one connection of one address does.
LEMMA Updating ==
  ASSUME NEW S, NEW f \in [Address -> [Connection -> S]], NEW a \in Address,
         NEW k \in Connection, NEW s \in S, NEW g, g = [f EXCEPT ![a][k] = s]
  PROVE  /\ g \in [Address -> [Connection -> S]]
         /\ \A j \in Connection : g[a][j] = IF j = k THEN s ELSE f[a][j]
         /\ \A b \in Address \ {a} : g[b] = f[b]
OBVIOUS

-----------------------------------------------------------------------------
(* Entries *)

LEMMA KnownByLabel ==
  ASSUME EntriesOK, NEW a \in Address
  PROVE  /\ Known(a) <=> modules[a].label # 0
         /\ Listed(a) => Known(a)
BY DEF EntriesOK, Known, Listed, NoEntry

\* What registering does to the entries, and that it gives no label a second time.
LEMMA Registering ==
  ASSUME EntriesOK, LabelsUnique, NEW a \in Address, NEW k \in 0 .. MaxConnections,
         Register(a, k)
  PROVE  /\ EntriesOK' /\ LabelsUnique'
         /\ Listed(a)' /\ modules'[a].ws = k
         /\ \A b \in Address \ {a} : modules'[b] = modules[b]
<1> DEFINE label == LabelFor(a)
<1>1. /\ label \in 1 .. moduleCounter'
      /\ moduleCounter' \in Nat /\ moduleCounter <= moduleCounter'
      /\ \A b \in Address \ {a} : modules[b].label # 0 => modules[b].label # label
  BY KnownByLabel DEF EntriesOK, Entry, Register, LabelFor, LabelsUnique
<1>2. modules' = [modules EXCEPT ![a] = [connected |-> TRUE, ws |-> k, age |-> 0,
                                         label |-> label]]
  BY DEF Register, SocketFor
<1> HIDE DEF label
<1>3. /\ modules'[a] = [connected |-> TRUE, ws |-> k, age |-> 0, label |-> label]
      /\ \A b \in Address \ {a} : modules'[b] = modules[b]
  BY <1>2 DEF EntriesOK
<1>4. EntriesOK'
  <2>1. [connected |-> TRUE, ws |-> k, age |-> 0, label |-> label] \in Entry'
    BY <1>1, RegistryAssumption DEF Entry
  <2>2. \A b \in Address : modules[b] \in Entry'
    BY <1>1 DEF EntriesOK, Entry
  <2>3. modules' \in [Address -> Entry']
    BY <1>2, <2>1, <2>2 DEF EntriesOK
  <2>4. \A b \in Address : modules'[b].label = 0 => modules'[b] = NoEntry
    BY <1>1, <1>3 DEF EntriesOK, Known
  <2>5. QED
    BY <1>1, <2>3, <2>4 DEF EntriesOK, Known
<1>5. LabelsUnique'
  <2>1. SUFFICES ASSUME NEW b \in Address, NEW c \in Address, Known(b)', Known(c)', b # c
                 PROVE  modules'[b].label # modules'[c].label
    BY DEF LabelsUnique
  <2>2. CASE b = a
    BY <1>1, <1>3, <2>1, <2>2, KnownByLabel DEF Known
  <2>3. CASE c = a
    BY <1>1, <1>3, <2>1, <2>3, KnownByLabel DEF Known
  <2>4. CASE b # a /\ c # a
    BY <1>3, <2>1, <2>4 DEF LabelsUnique, Known
  <2>5. QED
    BY <2>2, <2>3, <2>4
<1>6. QED
  BY <1>3, <1>4, <1>5 DEF Listed

\* Changes that keep or drop entries keep their labels apart.
LEMMA Relisting ==
  ASSUME EntriesOK, LabelsUnique, UNCHANGED moduleCounter,
         modules' \in [Address -> Entry],
         \A a \in Address : \/ modules'[a] = NoEntry
                            \/ Known(a) /\ modules'[a].label = modules[a].label
  PROVE  EntriesOK' /\ LabelsUnique'
<1>1. Entry' = Entry
  BY DEF Entry
<1>2. \A a \in Address : Known(a)' => Known(a) /\ modules'[a].label = modules[a].label
  BY DEF Known
<1>3. EntriesOK'
  BY <1>1, <1>2, KnownByLabel DEF EntriesOK
<1>4. LabelsUnique'
  BY <1>2 DEF LabelsUnique
<1>5. QED
  BY <1>3, <1>4

\* The part of one address.
LEMMA Untouched ==
  ASSUME NEW a \in Address, AddressOK(a),
         modules'[a] = modules[a], accepted'[a] = accepted[a], socket'[a] = socket[a],
         peer'[a] = peer[a], up'[a] = up[a], robbed'[a] = robbed[a]
  PROVE  AddressOK(a)'
BY DEF AddressOK, NumberedOK, WifiOK, UsbOK, Known, Listed, Open, Reachable

\* A step of one address preserves the invariant if it preserves the types, the labels
\* and that address's part.
LEMMA OneAddress ==
  ASSUME IInv, NEW a \in Address, TypesOK', LabelsUnique', AddressOK(a)',
         \A b \in Address \ {a} :
           /\ modules'[b] = modules[b] /\ accepted'[b] = accepted[b]
           /\ socket'[b] = socket[b] /\ peer'[b] = peer[b]
           /\ up'[b] = up[b] /\ robbed'[b] = robbed[b]
  PROVE  IInv'
<1>1. ASSUME NEW b \in Address PROVE AddressOK(b)'
  <2>1. CASE b = a
    BY <2>1
  <2>2. CASE b # a
    BY <2>2, Untouched DEF IInv
  <2>3. QED
    BY <2>1, <2>2
<1>2. Address' = Address
  OBVIOUS
<1>3. QED
  BY <1>1, <1>2 DEF IInv

-----------------------------------------------------------------------------
(* Connections *)

LEMMA Connecting ==
  ASSUME IInv, NEW a \in Address, Connect(a)
  PROVE  IInv'
<1> DEFINE k == accepted[a] + 1
<1>1. /\ k \in Connection /\ k \in 0 .. MaxConnections /\ k # 0
      /\ accepted[a] \in 0 .. MaxConnections
  BY RegistryAssumption DEF IInv, TypesOK, NetworkOK, Connect, Connection
<1>2. /\ Register(a, k)
      /\ accepted' = [accepted EXCEPT ![a] = k]
      /\ socket' = [socket EXCEPT ![a][k] = "open"]
      /\ peer' = [peer EXCEPT ![a] = k]
      /\ up' = [up EXCEPT ![a][k] = << "HELLO" >>]
      /\ robbed' = [robbed EXCEPT ![a] = FALSE]
      /\ greetings' = greetings
      /\ peer[a] = 0 /\ (a \in Usb => OpenPort(a) = 0)
  BY DEF Connect
<1> HIDE DEF k
<1>3. /\ EntriesOK' /\ LabelsUnique'
      /\ Listed(a)' /\ modules'[a].ws = k
      /\ \A b \in Address \ {a} : modules'[b] = modules[b]
  BY <1>1, <1>2, Registering DEF IInv, TypesOK
<1>4. NetworkOK'
  BY <1>1, <1>2 DEF IInv, TypesOK, NetworkOK
<1>5. LinesOK'
  <2>1. << "HELLO" >> \in Seq(FromModule)
    <3>1. "HELLO" \in FromModule
      BY DEF FromModule
    <3>2. QED
      BY <3>1
  <2>2. up' \in [Address -> [Connection -> Seq(FromModule)]]
    BY <1>1, <1>2, <2>1, Updating DEF IInv, TypesOK, LinesOK
  <2>3. QED
    BY <1>2, <2>2 DEF IInv, TypesOK, LinesOK
<1>6. /\ accepted'[a] = k /\ peer'[a] = k /\ robbed'[a] = FALSE
      /\ \A j \in Connection : /\ socket'[a][j] = IF j = k THEN "open" ELSE socket[a][j]
                               /\ up'[a][j] = IF j = k THEN << "HELLO" >> ELSE up[a][j]
  BY <1>1, <1>2 DEF IInv, TypesOK, NetworkOK, LinesOK
<1>7. NumberedOK(a)'
  BY <1>1, <1>6 DEF k, IInv, AddressOK, NumberedOK, Connection
<1>8. a \in Wifi => WifiOK(a)'
  BY <1>3, <1>6 DEF IInv, AddressOK, WifiOK
<1>9. ASSUME a \in Usb PROVE UsbOK(a)'
  <2>1. \A j \in Connection : socket[a][j] # "open"
    <3>1. ~Open(a, accepted[a]) \/ accepted[a] = 0
      BY <1>2, <1>9 DEF OpenPort
    <3>2. QED
      BY <1>9, <3>1 DEF IInv, AddressOK, UsbOK, Open, Connection
  <2>2. \A j \in Connection : up[a][j] = << >>
    BY <1>9, <2>1 DEF IInv, AddressOK, UsbOK
  <2>3. k # 0 /\ socket'[a][k] = "open"
    BY <1>1, <1>6
  <2>4. QED
    BY <1>3, <1>6, <1>9, <2>1, <2>2, <2>3 DEF IInv, AddressOK, UsbOK, Reachable, Open
<1>10. AddressOK(a)'
  BY <1>7, <1>8, <1>9 DEF AddressOK
<1>11. \A b \in Address \ {a} :
         /\ modules'[b] = modules[b] /\ accepted'[b] = accepted[b]
         /\ socket'[b] = socket[b] /\ peer'[b] = peer[b]
         /\ up'[b] = up[b] /\ robbed'[b] = robbed[b]
  BY <1>2, <1>3 DEF IInv, TypesOK, NetworkOK, LinesOK
<1>12. QED
  BY <1>3, <1>4, <1>5, <1>10, <1>11, OneAddress DEF TypesOK

LEMMA Vanishing ==
  ASSUME IInv, NEW a \in Address, Vanish(a)
  PROVE  IInv'
<1>1. TypesOK' /\ LabelsUnique'
  BY RegistryAssumption DEF IInv, TypesOK, EntriesOK, Entry, NetworkOK, LinesOK, LabelsUnique,
     Known, Vanish, registry
<1>2. peer'[a] = 0
  BY DEF IInv, TypesOK, NetworkOK, Vanish
<1>3. AddressOK(a)'
  BY <1>2 DEF IInv, AddressOK, NumberedOK, WifiOK, UsbOK, Known, Listed, Open, Reachable,
     Vanish, registry
<1>4. QED
  BY <1>1, <1>3, OneAddress DEF IInv, TypesOK, NetworkOK, Vanish, registry

LEMMA Disconnecting ==
  ASSUME IInv, NEW a \in Address, Disconnect(a)
  PROVE  IInv'
<1> DEFINE k == modules[a].ws
<1>1. /\ a \in Wifi /\ a \notin Usb
      /\ k \in Connection /\ socket[a][k] = "open"
      /\ socket' = [socket EXCEPT ![a][k] = "closing"]
      /\ UNCHANGED <<modules, moduleCounter, accepted, peer, up, greetings, robbed>>
  BY RegistryAssumption
     DEF IInv, TypesOK, EntriesOK, Entry, Disconnect, Open, Connection, registry
<1> HIDE DEF k
<1>2. TypesOK' /\ LabelsUnique'
  BY <1>1 DEF IInv, TypesOK, EntriesOK, Entry, NetworkOK, LinesOK, LabelsUnique, Known
<1>3. \A j \in Connection : socket'[a][j] = IF j = k THEN "closing" ELSE socket[a][j]
  BY <1>1 DEF IInv, TypesOK, NetworkOK
<1>4. NumberedOK(a)'
  BY <1>1, <1>3 DEF IInv, AddressOK, NumberedOK
<1>5. WifiOK(a)'
  <2>1. Open(a, peer[a])' => Open(a, peer[a])
    BY <1>1, <1>3 DEF IInv, TypesOK, NetworkOK, Open, Connection
  <2>2. QED
    BY <1>1, <2>1 DEF IInv, AddressOK, WifiOK, Listed
<1>6. AddressOK(a)'
  BY <1>1, <1>4, <1>5 DEF AddressOK
<1>7. QED
  BY <1>1, <1>2, <1>6, OneAddress DEF IInv, TypesOK, NetworkOK

LEMMA Closing ==
  ASSUME IInv, NEW a \in Address, NEW k \in Connection, Closed(a, k)
  PROVE  IInv'
<1>1. /\ socket[a][k] \in {"open", "closing"}
      /\ socket[a][k] = "open" /\ a \in Wifi => peer[a] # k
      /\ socket' = [socket EXCEPT ![a][k] = "closed"]
      /\ peer' = [peer EXCEPT ![a] = IF @ = k THEN 0 ELSE @]
      /\ up' = [up EXCEPT ![a][k] = << >>]
      /\ robbed' = [robbed EXCEPT ![a] = @ \/ modules[a].ws > k]
      /\ modules' = [modules EXCEPT ![a] = Unregistered(@)]
      /\ UNCHANGED <<moduleCounter, accepted, greetings>>
  BY RegistryAssumption DEF Closed, Address
<1>2. EntriesOK' /\ LabelsUnique'
  <2>1. Unregistered(modules[a]) \in Entry
    <3>1. modules[a] \in Entry /\ 0 \in 0 .. MaxConnections
      BY RegistryAssumption DEF IInv, TypesOK, EntriesOK
    <3>2. QED
      BY <3>1 DEF Entry, Unregistered
  <2>2. Known(a) => Unregistered(modules[a]).label = modules[a].label
    BY DEF IInv, TypesOK, EntriesOK, Entry, Unregistered
  <2>3. ~Known(a) => Unregistered(modules[a]) = NoEntry
    BY DEF Unregistered, Known
  <2>4. QED
    BY <1>1, <2>1, <2>2, <2>3, Relisting DEF IInv, TypesOK, EntriesOK, Known
<1>3. NetworkOK'
  <2>1. socket' \in [Address -> [Connection -> {"none", "open", "closing", "closed"}]]
    BY <1>1, Updating DEF IInv, TypesOK, NetworkOK
  <2>2. peer' \in [Address -> 0 .. MaxConnections]
    BY <1>1, RegistryAssumption DEF IInv, TypesOK, NetworkOK
  <2>3. QED
    BY <1>1, <2>1, <2>2 DEF IInv, TypesOK, NetworkOK
<1>4. LinesOK'
  <2>1. up' \in [Address -> [Connection -> Seq(FromModule)]]
    <3>1. << >> \in Seq(FromModule)
      OBVIOUS
    <3>2. QED
      BY <1>1, <3>1, Updating DEF IInv, TypesOK, LinesOK
  <2>2. robbed' \in [Address -> BOOLEAN]
    <3>1. (robbed[a] \/ modules[a].ws > k) \in BOOLEAN
      OBVIOUS
    <3>2. QED
      BY <1>1, <3>1 DEF IInv, TypesOK, LinesOK
  <2>3. QED
    BY <1>1, <2>1, <2>2 DEF IInv, TypesOK, LinesOK
<1>5. /\ accepted'[a] = accepted[a]
      /\ peer'[a] = IF peer[a] = k THEN 0 ELSE peer[a]
      /\ robbed'[a] = (robbed[a] \/ modules[a].ws > k)
      /\ modules'[a] = Unregistered(modules[a])
      /\ \A j \in Connection : /\ socket'[a][j] = IF j = k THEN "closed" ELSE socket[a][j]
                               /\ up'[a][j] = IF j = k THEN << >> ELSE up[a][j]
  BY <1>1 DEF IInv, TypesOK, EntriesOK, NetworkOK, LinesOK
<1>6. NumberedOK(a)'
  BY <1>1, <1>5 DEF IInv, AddressOK, NumberedOK
<1>7. ~modules'[a].connected
  BY <1>5 DEF IInv, TypesOK, EntriesOK, Entry, Unregistered, NoEntry
<1>8. ASSUME a \in Wifi PROVE WifiOK(a)'
  <2>1. \A j \in Connection : \A i \in DOMAIN up'[a][j] : up'[a][j][i] # "BYE"
    BY <1>5, <1>8 DEF IInv, AddressOK, WifiOK
  <2>2. ASSUME peer'[a] # 0, Open(a, peer[a])', ~robbed'[a] PROVE FALSE
    <3>1. /\ peer[a] = peer'[a] /\ peer[a] # 0 /\ peer[a] # k /\ peer[a] = accepted[a]
          /\ ~robbed[a] /\ ~(modules[a].ws > k)
      <4>1. peer[a] = peer'[a] /\ peer[a] # 0 /\ peer[a] # k
        BY <1>5, <2>2 DEF Connection
      <4>2. peer[a] = accepted[a]
        BY <4>1 DEF IInv, AddressOK, NumberedOK
      <4>3. ~robbed[a] /\ ~(modules[a].ws > k)
        BY <1>5, <2>2
      <4>4. QED
        BY <4>1, <4>2, <4>3
    <3>2. Open(a, peer[a])
      <4>1. peer[a] \in Connection
        BY <3>1 DEF IInv, TypesOK, NetworkOK, Connection
      <4>2. socket'[a][peer[a]] = "open"
        BY <2>2, <3>1 DEF Open
      <4>3. QED
        BY <1>5, <3>1, <4>1, <4>2 DEF Open
    <3>3. modules[a].ws = peer[a]
      BY <1>8, <3>1, <3>2 DEF IInv, AddressOK, WifiOK
    <3>4. k <= accepted[a] /\ k # accepted[a]
      <4>1. accepted[a] \in Nat /\ k \in Nat /\ socket[a][k] # "none"
        BY <1>1, RegistryAssumption DEF IInv, TypesOK, NetworkOK, Connection
      <4>2. ~(k > accepted[a])
        BY <4>1 DEF IInv, AddressOK, NumberedOK
      <4>3. QED
        BY <3>1, <4>1, <4>2
    <3>5. QED
      BY <3>1, <3>3, <3>4 DEF IInv, TypesOK, NetworkOK, Connection
  <2>3. QED
    BY <2>1, <2>2 DEF WifiOK
<1>9. ASSUME a \in Usb PROVE UsbOK(a)'
  <2>1. \A j \in Connection : socket'[a][j] # "open"
    BY <1>1, <1>5, <1>9 DEF IInv, AddressOK, UsbOK
  <2>2. \A j \in Connection : up'[a][j] = << >> /\ socket'[a][j] # "closing"
    BY <1>1, <1>5, <1>9 DEF IInv, AddressOK, UsbOK
  <2>3. accepted'[a] # 0 => accepted'[a] \in Connection
    BY <1>3, RegistryAssumption DEF NetworkOK, Connection
  <2>4. peer'[a] = 0
    BY <1>1, <1>5, <1>9 DEF IInv, AddressOK, UsbOK, NumberedOK, Open
  <2>5. QED
    BY <1>7, <2>1, <2>2, <2>3, <2>4 DEF UsbOK, Open, Listed
<1>10. AddressOK(a)'
  BY <1>6, <1>8, <1>9 DEF AddressOK
<1>11. \A b \in Address \ {a} :
         /\ modules'[b] = modules[b] /\ accepted'[b] = accepted[b]
         /\ socket'[b] = socket[b] /\ peer'[b] = peer[b]
         /\ up'[b] = up[b] /\ robbed'[b] = robbed[b]
  BY <1>1 DEF IInv, TypesOK, EntriesOK, NetworkOK, LinesOK
<1>12. QED
  BY <1>2, <1>3, <1>4, <1>10, <1>11, OneAddress DEF TypesOK

-----------------------------------------------------------------------------
(* Lines *)

\* A module says something: over USB its port is open, and only over USB it says BYE.
LEMMA Speaking ==
  ASSUME IInv, NEW a \in Address, NEW line \in FromModule, line = "BYE" => a \in Usb,
         peer[a] # 0, up' = [up EXCEPT ![a][peer[a]] = Append(@, line)],
         UNCHANGED <<registry, network, robbed>>,
         greetings' \in [Address -> 0 .. MaxGreetings]
  PROVE  IInv'
<1> DEFINE k == peer[a]
<1>2. /\ k \in Connection
      /\ UNCHANGED <<modules, moduleCounter, accepted, socket, peer, robbed>>
  BY RegistryAssumption DEF IInv, TypesOK, NetworkOK, Connection, registry, network
<1>1. up' = [up EXCEPT ![a][k] = Append(@, line)]
  OBVIOUS
<1> HIDE DEF k
<1>3. EntriesOK' /\ NetworkOK' /\ LabelsUnique'
  BY <1>2 DEF IInv, TypesOK, EntriesOK, Entry, NetworkOK, LabelsUnique, Known
<1>4. up' = [up EXCEPT ![a][k] = Append(@, line)] /\ up[a][k] \in Seq(FromModule)
  BY <1>1, <1>2 DEF k, IInv, TypesOK, LinesOK
<1>5. LinesOK'
  <2>1. line \in FromModule
    OBVIOUS
  <2>2. up' \in [Address -> [Connection -> Seq(FromModule)]]
    <3>1. Append(up[a][k], line) \in Seq(FromModule)
      BY <1>4, <2>1
    <3> DEFINE said == Append(up[a][k], line)
    <3>2. up \in [Address -> [Connection -> Seq(FromModule)]] /\ up' = [up EXCEPT ![a][k] = said]
      BY <1>4 DEF IInv, TypesOK, LinesOK
    <3> HIDE DEF said
    <3>3. said \in Seq(FromModule)
      BY <3>1 DEF said
    <3>4. [up EXCEPT ![a][k] = said] \in [Address -> [Connection -> Seq(FromModule)]]
      BY <1>2, <3>2, <3>3
    <3>5. QED
      BY <3>2, <3>4
  <2>3. QED
    BY <1>2, <2>2 DEF IInv, TypesOK, LinesOK
<1>6. \A j \in Connection : up'[a][j] = IF j = k THEN Append(up[a][k], line) ELSE up[a][j]
  BY <1>2, <1>4 DEF IInv, TypesOK, LinesOK
<1>7. NumberedOK(a)'
  <2>1. k = accepted[a] /\ ~(k > accepted[a])
    BY <1>2 DEF k, IInv, AddressOK, NumberedOK, Connection
  <2>2. QED
    BY <1>2, <1>6, <2>1 DEF IInv, AddressOK, NumberedOK
<1>8. ASSUME a \in Wifi PROVE WifiOK(a)'
  <2>1. line # "BYE"
    BY <1>8, RegistryAssumption
  <2>2. \A i \in DOMAIN Append(up[a][k], line) : Append(up[a][k], line)[i] # "BYE"
    BY <1>2, <1>4, <1>8, <2>1 DEF IInv, AddressOK, WifiOK
  <2>3. \A j \in Connection : \A i \in DOMAIN up'[a][j] : up'[a][j][i] # "BYE"
    <3>1. \A j \in Connection : \A i \in DOMAIN up[a][j] : up[a][j][i] # "BYE"
      BY <1>8 DEF IInv, AddressOK, WifiOK
    <3>2. ASSUME NEW j \in Connection
          PROVE  \A i \in DOMAIN up'[a][j] : up'[a][j][i] # "BYE"
      <4>1. CASE j = k
        <5>1. up'[a][j] = Append(up[a][k], line)
          BY <1>6, <4>1
        <5>2. QED
          BY <2>2, <5>1
      <4>2. CASE j # k
        <5>1. up'[a][j] = up[a][j]
          BY <1>6, <4>2
        <5>2. QED
          BY <3>1, <5>1
      <4>3. QED
        BY <4>1, <4>2
    <3>3. QED
      BY <3>2
  <2>4. QED
    BY <1>2, <1>8, <2>3 DEF IInv, AddressOK, WifiOK, Open, Listed
<1>9. ASSUME a \in Usb PROVE UsbOK(a)'
  <2>1. socket[a][k] = "open"
    BY <1>2, <1>9 DEF k, IInv, AddressOK, UsbOK, Open, Connection
  <2>2. \A j \in Connection : up'[a][j] # << >> => socket'[a][j] = "open"
    BY <1>2, <1>6, <1>9, <2>1 DEF IInv, AddressOK, UsbOK
  <2>3. QED
    BY <1>2, <1>9, <2>2 DEF IInv, AddressOK, UsbOK, Open, Reachable, Listed, Known
<1>10. QED
  BY <1>2, <1>3, <1>4, <1>5, <1>7, <1>8, <1>9, OneAddress
     DEF AddressOK, IInv, TypesOK, LinesOK

LEMMA Greeting ==
  ASSUME IInv, NEW a \in Address, Greet(a)
  PROVE  IInv'
<1>1. PICK line \in {"HELLO", "BYE"} :
        /\ line = "BYE" => a \in Usb
        /\ up' = [up EXCEPT ![a][peer[a]] = Append(@, line)]
  BY DEF Greet
<1>2. greetings' \in [Address -> 0 .. MaxGreetings]
  BY RegistryAssumption DEF Greet, IInv, TypesOK, LinesOK
<1>3. line \in FromModule
  BY DEF FromModule
<1>4. QED
  BY <1>1, <1>2, <1>3, Speaking DEF Greet

\* Reading a line from a module on USB shows that its port is open, and no line from a
\* module on WiFi is a BYE.
LEMMA Arriving ==
  ASSUME IInv, NEW a \in Address, NEW k \in Connection, NEW line, Arrives(a, k, line),
         UNCHANGED <<network, greetings, robbed>>
  PROVE  /\ NetworkOK' /\ LinesOK' /\ NumberedOK(a)'
         /\ a \in Wifi => /\ line # "BYE"
                          /\ \A j \in Connection : \A i \in DOMAIN up'[a][j] : up'[a][j][i] # "BYE"
         /\ a \in Usb => /\ Open(a, accepted[a])
                         /\ \A j \in Connection : up'[a][j] # << >> => socket[a][j] = "open"
         /\ \A b \in Address \ {a} : up'[b] = up[b]
<1>1. /\ up[a][k] # << >> /\ Head(up[a][k]) = line
      /\ up' = [up EXCEPT ![a][k] = Tail(up[a][k])]
      /\ UNCHANGED <<accepted, socket, peer, greetings, robbed>>
      /\ up \in [Address -> [Connection -> Seq(FromModule)]]
      /\ up[a][k] \in Seq(FromModule)
  BY DEF Arrives, network, IInv, TypesOK, LinesOK
<1>2. Tail(up[a][k]) \in Seq(FromModule)
  BY <1>1
<1>3. /\ up' \in [Address -> [Connection -> Seq(FromModule)]]
      /\ \A j \in Connection : up'[a][j] = IF j = k THEN Tail(up[a][k]) ELSE up[a][j]
      /\ \A b \in Address \ {a} : up'[b] = up[b]
  BY <1>1, <1>2, Updating
<1>4. NetworkOK' /\ LinesOK'
  BY <1>1, <1>3 DEF IInv, TypesOK, NetworkOK, LinesOK
<1>5. NumberedOK(a)'
  BY <1>1, <1>3 DEF IInv, AddressOK, NumberedOK
<1>6. ASSUME a \in Wifi
      PROVE  /\ line # "BYE"
             /\ \A j \in Connection : \A i \in DOMAIN up'[a][j] : up'[a][j][i] # "BYE"
  <2>1. \A i \in DOMAIN up[a][k] : up[a][k][i] # "BYE"
    BY <1>6 DEF IInv, AddressOK, WifiOK
  <2>2. line # "BYE" /\ \A i \in DOMAIN Tail(up[a][k]) : Tail(up[a][k])[i] # "BYE"
    BY <1>1, <2>1
  <2>3. ASSUME NEW j \in Connection, NEW i \in DOMAIN up'[a][j]
        PROVE  up'[a][j][i] # "BYE"
    <3>1. CASE j = k
      BY <1>3, <2>2, <2>3, <3>1
    <3>2. CASE j # k
      BY <1>3, <1>6, <2>3, <3>2 DEF IInv, AddressOK, WifiOK
    <3>3. QED
      BY <3>1, <3>2
  <2>4. QED
    BY <2>2, <2>3
<1>7. ASSUME a \in Usb
      PROVE  /\ Open(a, accepted[a])
             /\ \A j \in Connection : up'[a][j] # << >> => socket[a][j] = "open"
  <2>1. \A j \in Connection : /\ up[a][j] # << >> => socket[a][j] = "open"
                              /\ socket[a][j] = "open" => j = accepted[a]
    BY <1>7 DEF IInv, AddressOK, UsbOK
  <2>2. socket[a][k] = "open" /\ k = accepted[a]
    BY <1>1, <2>1
  <2>3. k # 0
    BY RegistryAssumption DEF Connection
  <2>4. ASSUME NEW j \in Connection, up'[a][j] # << >> PROVE socket[a][j] = "open"
    <3>1. CASE j = k
      BY <2>2, <3>1
    <3>2. CASE j # k
      BY <1>3, <2>1, <2>4, <3>2
    <3>3. QED
      BY <3>1, <3>2
  <2>5. QED
    BY <2>2, <2>3, <2>4 DEF Open
<1>8. QED
  BY <1>3, <1>4, <1>5, <1>6, <1>7

LEMMA HearingHello ==
  ASSUME IInv, NEW a \in Address, NEW k \in Connection, HearHello(a, k)
  PROVE  IInv'
<1>1. Arrives(a, k, "HELLO") /\ UNCHANGED <<network, greetings, robbed>>
  BY DEF HearHello
<1>2. /\ NetworkOK' /\ LinesOK' /\ NumberedOK(a)'
      /\ a \in Wifi => \A j \in Connection : \A i \in DOMAIN up'[a][j] : up'[a][j][i] # "BYE"
      /\ a \in Usb => /\ Open(a, accepted[a])
                      /\ \A j \in Connection : up'[a][j] # << >> => socket[a][j] = "open"
      /\ \A b \in Address \ {a} : up'[b] = up[b]
  BY <1>1, Arriving
<1>3. UNCHANGED <<accepted, socket, peer, robbed>>
  BY <1>1 DEF network
<1>4. CASE Known(a)
  <2> DEFINE e == Touched([modules[a] EXCEPT !.connected = TRUE])
  <2>1. modules' = [modules EXCEPT ![a] = e] /\ UNCHANGED moduleCounter
    BY <1>4 DEF HearHello
  <2>2. /\ e \in Entry /\ e.label = modules[a].label /\ e.ws = modules[a].ws
        /\ e.connected
    <3>1. modules[a] \in Entry /\ 0 \in 0 .. StaleAfter + 1
      BY RegistryAssumption DEF IInv, TypesOK, EntriesOK
    <3>2. QED
      BY <3>1 DEF Entry, Touched
  <2> HIDE DEF e
  <2>3. EntriesOK' /\ LabelsUnique'
    BY <1>4, <2>1, <2>2, Relisting DEF IInv, TypesOK, EntriesOK, Known
  <2>4. modules'[a] = e /\ \A b \in Address \ {a} : modules'[b] = modules[b]
    BY <2>1 DEF IInv, TypesOK, EntriesOK
  <2>5. a \in Wifi => WifiOK(a)'
    BY <1>2, <1>3, <2>2, <2>4 DEF IInv, AddressOK, WifiOK, Open, Listed
  <2>6. a \in Usb => UsbOK(a)'
    BY <1>2, <1>3, <1>4, <2>2, <2>4 DEF IInv, AddressOK, UsbOK, Open, Listed, Reachable
  <2>7. QED
    BY <1>2, <1>3, <2>3, <2>4, <2>5, <2>6, OneAddress DEF TypesOK, AddressOK
<1>5. CASE ~Known(a)
  <2>1. Register(a, OpenPort(a))
    BY <1>5 DEF HearHello
  <2>2. /\ OpenPort(a) \in 0 .. MaxConnections
        /\ a \in Usb => OpenPort(a) = accepted[a]
    BY <1>2, RegistryAssumption DEF OpenPort, IInv, TypesOK, NetworkOK
  <2>3. /\ EntriesOK' /\ LabelsUnique'
        /\ Listed(a)' /\ modules'[a].ws = OpenPort(a)
        /\ \A b \in Address \ {a} : modules'[b] = modules[b]
    BY <2>1, <2>2, Registering DEF IInv, TypesOK
  <2>4. ASSUME a \in Wifi PROVE WifiOK(a)'
    <3>1. ~(peer[a] # 0 /\ Open(a, peer[a]) /\ ~robbed[a])
      BY <1>5, <2>4, KnownByLabel DEF IInv, TypesOK, AddressOK, WifiOK
    <3>2. QED
      BY <1>2, <1>3, <2>4, <3>1 DEF WifiOK, Open
  <2>5. ASSUME a \in Usb PROVE UsbOK(a)'
    BY <1>2, <1>3, <2>2, <2>3, <2>5 DEF IInv, AddressOK, UsbOK, Open, Reachable
  <2>6. QED
    BY <1>2, <1>3, <2>3, <2>4, <2>5, OneAddress DEF TypesOK, AddressOK
<1>6. QED
  BY <1>4, <1>5

LEMMA HearingBye ==
  ASSUME IInv, NEW a \in Address, NEW k \in Connection, HearBye(a, k)
  PROVE  IInv'
<1>1. Arrives(a, k, "BYE") /\ UNCHANGED <<network, greetings, robbed, moduleCounter>>
  BY DEF HearBye
<1>2. /\ NetworkOK' /\ LinesOK' /\ NumberedOK(a)'
      /\ a \notin Wifi
      /\ a \in Usb => \A j \in Connection : up'[a][j] # << >> => socket[a][j] = "open"
      /\ \A b \in Address \ {a} : up'[b] = up[b]
  BY <1>1, Arriving
<1>3. UNCHANGED <<accepted, socket, peer, robbed>>
  BY <1>1 DEF network
<1> DEFINE e == IF Known(a) THEN Touched([modules[a] EXCEPT !.connected = FALSE])
                            ELSE modules[a]
<1>4. modules' = [modules EXCEPT ![a] = e]
  BY DEF HearBye
<1>5. /\ e \in Entry /\ e.label = modules[a].label /\ e.ws = modules[a].ws
      /\ ~e.connected /\ (~Known(a) => e = NoEntry)
  <2>1. modules[a] \in Entry /\ 0 \in 0 .. StaleAfter + 1
    BY RegistryAssumption DEF IInv, TypesOK, EntriesOK
  <2>2. CASE Known(a)
    BY <2>1, <2>2 DEF Entry, Touched
  <2>3. CASE ~Known(a)
    BY <2>1, <2>3 DEF Known, NoEntry
  <2>4. QED
    BY <2>2, <2>3
<1> HIDE DEF e
<1>6. EntriesOK' /\ LabelsUnique'
  BY <1>1, <1>4, <1>5, Relisting DEF IInv, TypesOK, EntriesOK, Known
<1>7. modules'[a] = e /\ \A b \in Address \ {a} : modules'[b] = modules[b]
  BY <1>4 DEF IInv, TypesOK, EntriesOK
<1>8. a \in Usb => UsbOK(a)'
  BY <1>2, <1>3, <1>5, <1>7 DEF IInv, AddressOK, UsbOK, Open, Listed, Known
<1>9. QED
  BY <1>2, <1>3, <1>6, <1>7, <1>8, OneAddress DEF TypesOK, AddressOK

LEMMA Ponging ==
  ASSUME IInv, NEW a \in Address, Pong(a)
  PROVE  IInv'
<1>1. /\ a \in Wifi /\ a \notin Usb /\ Listed(a)
      /\ modules' = [modules EXCEPT ![a] = Touched(modules[a])]
      /\ UNCHANGED <<moduleCounter, accepted, socket, peer, up, greetings, robbed>>
  BY RegistryAssumption DEF Pong, network, Reachable
<1>2. /\ Touched(modules[a]) \in Entry
      /\ Touched(modules[a]).label = modules[a].label
      /\ Touched(modules[a]).ws = modules[a].ws
      /\ Touched(modules[a]).connected = modules[a].connected
  BY RegistryAssumption DEF IInv, TypesOK, EntriesOK, Entry, Touched
<1>3. Known(a)
  BY <1>1, KnownByLabel DEF IInv, TypesOK
<1>4. EntriesOK' /\ LabelsUnique'
  BY <1>1, <1>2, <1>3, Relisting DEF IInv, TypesOK, EntriesOK, Known
<1>5. /\ modules'[a] = Touched(modules[a])
      /\ \A b \in Address \ {a} : modules'[b] = modules[b]
  BY <1>1 DEF IInv, TypesOK, EntriesOK
<1>6. AddressOK(a)'
  BY <1>1, <1>2, <1>5 DEF IInv, AddressOK, NumberedOK, WifiOK, Open, Listed
<1>7. QED
  BY <1>1, <1>4, <1>5, <1>6, OneAddress DEF IInv, TypesOK, NetworkOK, LinesOK

-----------------------------------------------------------------------------
(* The clean-up *)

\* What the clean-up makes of an entry: it is the old one but for its age, has lost its
\* socket and is not listed, or is dropped; and a listed USB module is left alone, as is
\* one whose socket is open.
LEMMA CleaningOne ==
  ASSUME IInv, NEW a \in Address
  PROVE  LET e == modules[a]
             f == Cleaned(a, Older(e))
         IN /\ f \in Entry
            /\ f = NoEntry \/ (Known(a) /\ f.label = e.label)
            /\ f.connected => e.connected /\ f.ws = e.ws
            /\ f # NoEntry /\ a \in Usb => f.ws = e.ws
            /\ e.connected /\ (a \in Usb \/ Open(a, e.ws)) => f.connected
<1> DEFINE e == modules[a]
           o == Older(e)
           f == Cleaned(a, o)
<1>1. e \in Entry /\ NoEntry \in Entry
  BY RegistryAssumption DEF IInv, TypesOK, EntriesOK, Entry, NoEntry
<1>2. /\ o \in Entry /\ o.label = e.label /\ o.ws = e.ws /\ o.connected = e.connected
      /\ e = NoEntry => o = NoEntry
      /\ e # NoEntry => o.label # 0
  <2>1. CASE e # NoEntry /\ e.age <= StaleAfter
    <3>1. o = [e EXCEPT !.age = @ + 1] /\ e.age + 1 \in 0 .. StaleAfter + 1
      BY <1>1, <2>1, RegistryAssumption DEF Older, Entry
    <3>2. e.label # 0
      BY <2>1, KnownByLabel DEF IInv, TypesOK, Known
    <3>3. QED
      BY <1>1, <2>1, <3>1, <3>2 DEF Entry
  <2>2. CASE ~(e # NoEntry /\ e.age <= StaleAfter)
    BY <1>1, <2>2, KnownByLabel DEF Older, IInv, TypesOK, Known
  <2>3. QED
    BY <2>1, <2>2
<1>3. o = NoEntry <=> e = NoEntry
  BY <1>2 DEF NoEntry
<1> HIDE DEF e, o
<1>4. /\ f \in {o, NoEntry, Unregistered(o)}
      /\ a \in Usb => f \in {o, NoEntry}
      /\ o.connected /\ (a \in Usb \/ Open(a, o.ws)) => f = o
  <2>1. CASE o = NoEntry
    BY <2>1 DEF Cleaned, NoEntry
  <2>2. CASE o # NoEntry /\ ~o.connected
    BY <2>2 DEF Cleaned
  <2>3. CASE o # NoEntry /\ o.connected /\ a \in Usb
    <3>1. a \notin Wifi
      BY <2>3, RegistryAssumption
    <3>2. f = o
      BY <2>3, <3>1 DEF Cleaned
    <3>3. QED
      BY <3>2
  <2>4. CASE o # NoEntry /\ o.connected /\ a \in Wifi
    <3>1. a \notin Usb
      BY <2>4, RegistryAssumption
    <3>2. f = IF SocketGone(a, o) THEN Unregistered(o) ELSE o
      BY <2>4, <3>1 DEF Cleaned
    <3>3. QED
      BY <3>1, <3>2 DEF SocketGone
  <2>5. QED
    BY <1>1, <1>2, <2>1, <2>2, <2>3, <2>4 DEF Address, Entry
<1>5. /\ Unregistered(o) \in Entry /\ ~Unregistered(o).connected
      /\ Unregistered(o).label = o.label
      /\ o = NoEntry => Unregistered(o) = NoEntry
  <2>1. 0 \in 0 .. MaxConnections
    BY RegistryAssumption
  <2>2. CASE o = NoEntry
    BY <1>2, <2>2 DEF Unregistered, NoEntry
  <2>3. CASE o # NoEntry
    <3>1. Unregistered(o) = [o EXCEPT !.ws = 0, !.connected = FALSE]
      BY <2>3 DEF Unregistered
    <3>2. QED
      BY <1>2, <2>1, <2>3, <3>1 DEF Entry
  <2>4. QED
    BY <2>2, <2>3
<1>6. ~NoEntry.connected
  BY DEF NoEntry
<1>7. /\ f \in Entry
      /\ f = NoEntry \/ (e # NoEntry /\ f.label = e.label)
      /\ f.connected => e.connected /\ f.ws = e.ws
      /\ f # NoEntry /\ a \in Usb => f.ws = e.ws
      /\ e.connected /\ (a \in Usb \/ Open(a, e.ws)) => f.connected
  <2> HIDE DEF f
  <2>1. CASE f = o
    BY <1>1, <1>2, <1>3, <1>4, <2>1
  <2>2. CASE f = NoEntry
    BY <1>1, <1>2, <1>3, <1>4, <1>6, <2>2
  <2>3. CASE f = Unregistered(o) /\ f # o /\ f # NoEntry
    BY <1>2, <1>3, <1>4, <1>5, <2>3
  <2>4. QED
    BY <1>4, <2>1, <2>2, <2>3
<1>8. QED
  BY <1>7 DEF e, o, f, Known

LEMMA Cleaning ==
  ASSUME IInv, CleanUp
  PROVE  IInv'
<1>1. UNCHANGED <<moduleCounter, accepted, socket, peer, up, greetings, robbed>>
  BY DEF CleanUp, network
<1>2. \A a \in Address : modules'[a] = Cleaned(a, Older(modules[a]))
  BY DEF CleanUp
<1>3. ASSUME NEW a \in Address
      PROVE  /\ modules'[a] \in Entry
             /\ modules'[a] = NoEntry \/ (Known(a) /\ modules'[a].label = modules[a].label)
             /\ Listed(a)' => Listed(a) /\ modules'[a].ws = modules[a].ws
             /\ Known(a)' /\ a \in Usb => modules'[a].ws = modules[a].ws
             /\ Listed(a) /\ (a \in Usb \/ Open(a, modules[a].ws)) => Listed(a)'
  BY <1>2, CleaningOne DEF Listed, Known
<1>4. modules' \in [Address -> Entry]
  <2>1. modules' = [a \in Address |-> modules'[a]]
    BY <1>2 DEF CleanUp
  <2>2. QED
    BY <1>3, <2>1
<1>5. EntriesOK' /\ LabelsUnique'
  BY <1>1, <1>3, <1>4, Relisting DEF IInv, TypesOK
<1>6. NetworkOK' /\ LinesOK'
  BY <1>1 DEF IInv, TypesOK, NetworkOK, LinesOK
<1>7. ASSUME NEW a \in Address PROVE AddressOK(a)'
  <2>1. NumberedOK(a)'
    BY <1>1 DEF IInv, AddressOK, NumberedOK
  <2>2. a \in Wifi => WifiOK(a)'
    BY <1>1, <1>3 DEF IInv, AddressOK, WifiOK, Open
  <2>3. a \in Usb => UsbOK(a)'
    BY <1>1, <1>3, KnownByLabel DEF IInv, TypesOK, AddressOK, UsbOK, Open, Reachable, Known
  <2>4. QED
    BY <2>1, <2>2, <2>3 DEF AddressOK
<1>8. QED
  BY <1>5, <1>6, <1>7 DEF IInv, TypesOK

-----------------------------------------------------------------------------
(* Theorems *)

LEMMA Initially == RegistryInit => IInv
<1> SUFFICES ASSUME RegistryInit PROVE IInv
  OBVIOUS
<1>1. EntriesOK /\ LabelsUnique
  BY RegistryAssumption DEF RegistryInit, EntriesOK, Entry, NoEntry, Known, LabelsUnique
<1>2. NetworkOK /\ LinesOK
  BY RegistryAssumption DEF RegistryInit, NetworkOK, LinesOK
<1>3. ASSUME NEW a \in Address PROVE AddressOK(a)
  BY DEF RegistryInit, AddressOK, NumberedOK, WifiOK, UsbOK, Open, Reachable, Listed, Known,
     NoEntry
<1>4. QED
  BY <1>1, <1>2, <1>3 DEF IInv, TypesOK

LEMMA NextOK == IInv /\ [RegistryNext]_registryVars => IInv'
<1> SUFFICES ASSUME IInv, [RegistryNext]_registryVars PROVE IInv'
  OBVIOUS
<1>1. ASSUME NEW a \in Address, RegistryStep(a) PROVE IInv'
  BY <1>1, Connecting, Vanishing, Disconnecting, Closing, Greeting, HearingHello,
     HearingBye, Ponging DEF RegistryStep, HearLine
<1>2. ASSUME UNCHANGED registryVars PROVE IInv'
  <2>1. TypesOK' /\ LabelsUnique'
    BY <1>2 DEF IInv, TypesOK, EntriesOK, Entry, NetworkOK, LinesOK, LabelsUnique, Known,
       registryVars, registry, network
  <2>2. \A a \in Address : AddressOK(a)'
    BY <1>2, Untouched DEF IInv, registryVars, registry, network
  <2>3. QED
    BY <2>1, <2>2 DEF IInv
<1>3. QED
  BY <1>1, <1>2, Cleaning DEF RegistryNext

\* The inductive invariant of the registry, for any number of modules.
THEOREM Invariance == RegistrySpec => []IInv
<1>1. QED
  BY Initially, NextOK, PTL DEF RegistrySpec

\* Every variable of the registry keeps its type; an entry always has a label.
THEOREM TypeCorrect == RegistrySpec => []RegistryTypeOK
<1>1. IInv => RegistryTypeOK
  BY DEF IInv, TypesOK, EntriesOK, Entry, NetworkOK, LinesOK, RegistryTypeOK
<1>2. QED
  BY <1>1, Invariance, PTL

\* However many modules come, go, are cleaned up and come back, no two have the label by
\* which the user tells them apart.
THEOREM LabelsStayUnique == RegistrySpec => []LabelsUnique
<1>1. IInv => LabelsUnique
  BY DEF IInv
<1>2. QED
  BY <1>1, Invariance, PTL

\* A module on WiFi that has a connection can be reached through it, unless an older
\* connection closed after the module had come back.
THEOREM LiveStayListed == RegistrySpec => []LiveListed
<1>1. IInv => LiveListed
  BY DEF IInv, AddressOK, WifiOK, LiveListed, Address
<1>2. QED
  BY <1>1, Invariance, PTL

\* A module on USB that is listed can be reached.
THEOREM SerialStaysSound == RegistrySpec => []SerialSound
<1>1. IInv => SerialSound
  BY DEF IInv, AddressOK, UsbOK, SerialSound, Address
<1>2. QED
  BY <1>1, Invariance, PTL
=============================================================================
