----------------------------- MODULE LineFramer ------------------------------
(***************************************************************************)
(* How a module cuts the bytes of a serial port into lines.  The two chain *)
(* ports have the same framer, with two-byte heartbeats between the lines; *)
(* the USB port has one without heartbeats, behind a look at the first     *)
(* waiting byte that may switch the module off and on.  `wire` holds bytes *)
(* that are on their way, `rx` those in the UART's buffer: a poll may find *)
(* any part of a line.                                                     *)
(***************************************************************************)
EXTENDS Integers, SequencesExt

CONSTANTS
  Port,             \* the kinds of port to look at, "chain" or "usb"
  SERIAL_BUF_SIZE,  \* bytes in a line buffer, terminator included
  Texts,            \* the lines a sender may send, without their newline
  MaxLines,         \* bound: lines sent
  MaxBeats,         \* bound: heartbeats sent
  MaxFaults,        \* bound: bytes lost or made up by a bad contact
  MaxFlips          \* bound: power button presses and role changes

Char == {"o", "k"}    \* the letter that toggles the power, any other letter

ASSUME FramerAssumption ==
  /\ Port \subseteq {"chain", "usb"}
  /\ SERIAL_BUF_SIZE \in Nat \ {0, 1}
  /\ Texts \subseteq Seq(Char) \ {<< >>}
  /\ MaxLines \in Nat /\ MaxBeats \in Nat /\ MaxFaults \in Nat /\ MaxFlips \in Nat

VARIABLES
  port,       \* the port looked at
  on,
  isMaster,
  polling,    \* inside the reading loop of handleUsbSerialCommands()
  wire,       \* bytes written by the sender and not yet received
  rx,         \* bytes received and not yet read
  line,       \* upstreamSerialBuf, downstreamSerialBuf or serialBuf up to its position
  overflow,   \* upstreamSerialBufOverflow and its like
  sent,       \* the lines sent so far
  heard,      \* the lines handed on so far, as the bytes they were made of
  beatsSent, beatsHeard,
  faults, flips

vars == <<port, on, isMaster, polling, wire, rx, line, overflow, sent, heard,
          beatsSent, beatsHeard, faults, flips>>
framer == <<line, overflow, heard, beatsHeard>>
sender == <<sent, beatsSent>>

\* A byte of a line remembers the number of its line.
Newline == [kind |-> "newline", of |-> 0]
Beat    == [kind |-> "beat", of |-> 0]     \* CHAIN_HEARTBEAT_BYTE
Index   == [kind |-> "index", of |-> 0]    \* the chain index behind it, not printable
Letter  == [kind : Char, of : 1 .. MaxLines]
Byte    == Letter \cup {Newline, Beat, Index}

Bytes(text, n) == [i \in DOMAIN text |-> [kind |-> text[i], of |-> n]]

-----------------------------------------------------------------------------
(* The other end, and the wire *)

Send(text) ==
  /\ Len(sent) < MaxLines
  /\ sent' = Append(sent, text)
  /\ wire' = wire \o Bytes(text, Len(sent) + 1) \o << Newline >>
  /\ UNCHANGED <<port, on, isMaster, polling, rx, framer, beatsSent, faults, flips>>

SendBeat ==
  /\ port = "chain"
  /\ beatsSent < MaxBeats
  /\ beatsSent' = beatsSent + 1
  /\ wire' = wire \o << Beat, Index >>
  /\ UNCHANGED <<port, on, isMaster, polling, rx, framer, sent, faults, flips>>

Deliver ==
  /\ wire # << >>
  /\ rx' = Append(rx, Head(wire))
  /\ wire' = Tail(wire)
  /\ UNCHANGED <<port, on, isMaster, polling, framer, sender, faults, flips>>

\* A bad contact loses a byte or makes one up.
Lose ==
  /\ faults < MaxFaults
  /\ faults' = faults + 1
  /\ wire # << >>
  /\ wire' = Tail(wire)
  /\ UNCHANGED <<port, on, isMaster, polling, rx, framer, sender, flips>>

Noise ==
  /\ faults < MaxFaults
  /\ faults' = faults + 1
  /\ \E b \in {Newline, Beat, Index} : rx' = Append(rx, b)
  /\ UNCHANGED <<port, on, isMaster, polling, wire, framer, sender, flips>>

-----------------------------------------------------------------------------
(* The framer *)

Printable(b) == b.kind \in Char

\* The chain ports skip what is not printable before a line begins.  That
\* includes the newline that would end the discarding of an overlong line.
Skipped_Always(b) == port = "chain" /\ ~Printable(b)
Skipped(b) == port = "chain" /\ line = << >> /\ ~Printable(b)

Fits_OneMore(n) == n < SERIAL_BUF_SIZE
Fits(n) == n < SERIAL_BUF_SIZE - 1

\* The bytes up to the next newline belong to an overlong line.
Discarding_Never == FALSE
Discarding == overflow

\* There is nothing to hand on at this newline.
Dropped == overflow \/ line = << >>

\* One byte through the framer.
Frame(b) ==
  \/ Skipped(b) /\ UNCHANGED <<line, overflow, heard>>
  \/ /\ ~Skipped(b) /\ b = Newline
     /\ heard' = IF Dropped THEN heard ELSE Append(heard, line)
     /\ line' = << >>
     /\ overflow' = FALSE
  \/ /\ ~Skipped(b) /\ b # Newline /\ Discarding
     /\ UNCHANGED <<line, overflow, heard>>
  \/ /\ ~Skipped(b) /\ b # Newline /\ ~Discarding
     /\ line' = IF Fits(Len(line)) THEN Append(line, b) ELSE << >>
     /\ overflow' = ~Fits(Len(line))
     /\ UNCHANGED heard

\* A heartbeat is taken out wherever it comes, once both bytes are there.
AtBeat_BetweenLines == Head(rx) = Beat /\ ~overflow
AtBeat == Head(rx) = Beat

HearBeat ==
  /\ port = "chain" /\ on
  /\ Len(rx) >= 2 /\ AtBeat
  /\ rx' = Tail(Tail(rx))
  /\ beatsHeard' = IF rx[2] = Index THEN beatsHeard + 1 ELSE beatsHeard
  /\ UNCHANGED <<port, on, isMaster, polling, wire, line, overflow, heard, sender,
                 faults, flips>>

ReadChain ==
  /\ port = "chain" /\ on
  /\ rx # << >> /\ ~AtBeat
  /\ Frame(Head(rx))
  /\ rx' = Tail(rx)
  /\ UNCHANGED <<port, on, isMaster, polling, wire, beatsHeard, sender, faults, flips>>

\* An 'o' that is the first waiting byte when a poll begins, whatever it is part of.
TogglePower ==
  /\ port = "usb" /\ isMaster
  /\ ~polling
  /\ rx # << >> /\ Head(rx).kind = "o"
  /\ on' = ~on
  /\ rx' = Tail(rx)
  /\ UNCHANGED <<port, isMaster, polling, wire, framer, sender, faults, flips>>

\* The loop goes on while bytes are available.
ReadUsb ==
  /\ port = "usb" /\ isMaster /\ on
  /\ rx # << >> /\ (polling \/ Head(rx).kind # "o")
  /\ Frame(Head(rx))
  /\ rx' = Tail(rx)
  /\ polling' = (Len(rx) > 1)
  /\ UNCHANGED <<port, on, isMaster, wire, beatsHeard, sender, faults, flips>>

\* A slave throws away what comes over USB.
DrainUsb ==
  /\ port = "usb" /\ ~isMaster
  /\ rx # << >>
  /\ rx' = Tail(rx)
  /\ UNCHANGED <<port, on, isMaster, polling, wire, framer, sender, faults, flips>>

-----------------------------------------------------------------------------
(* Role changes and the power button *)

\* A role change empties the chain ports, as far as bytes have arrived, and their
\* line buffers; it leaves the buffer of the USB port alone.
ChangeRole_KeepLine ==
  /\ on /\ ~polling
  /\ flips < MaxFlips
  /\ flips' = flips + 1
  /\ isMaster' = ~isMaster
  /\ IF port = "chain"
       THEN rx' = << >> /\ overflow' = FALSE /\ UNCHANGED line
       ELSE UNCHANGED <<rx, line, overflow>>
  /\ UNCHANGED <<port, on, polling, wire, heard, beatsHeard, sender, faults>>
ChangeRole ==
  /\ on /\ ~polling
  /\ flips < MaxFlips
  /\ flips' = flips + 1
  /\ isMaster' = ~isMaster
  /\ IF port = "chain"
       THEN rx' = << >> /\ line' = << >> /\ overflow' = FALSE
       ELSE UNCHANGED <<rx, line, overflow>>
  /\ UNCHANGED <<port, on, polling, wire, heard, beatsHeard, sender, faults>>

PressPower ==
  /\ ~polling
  /\ flips < MaxFlips
  /\ flips' = flips + 1
  /\ on' = ~on
  /\ UNCHANGED <<port, isMaster, polling, wire, rx, framer, sender, faults>>

-----------------------------------------------------------------------------
Init ==
  /\ port \in Port
  /\ on = TRUE
  /\ isMaster \in (IF port = "usb" THEN {TRUE} ELSE BOOLEAN)
  /\ polling = FALSE
  /\ wire = << >> /\ rx = << >>
  /\ line = << >> /\ overflow = FALSE
  /\ sent = << >> /\ heard = << >>
  /\ beatsSent = 0 /\ beatsHeard = 0
  /\ faults = 0 /\ flips = 0

Poll == HearBeat \/ ReadChain \/ TogglePower \/ ReadUsb \/ DrainUsb

Next ==
  \/ \E text \in Texts : Send(text)
  \/ SendBeat
  \/ Deliver \/ Lose \/ Noise
  \/ Poll
  \/ ChangeRole \/ PressPower

\* Bytes arrive, and loop() polls for ever.
Spec == Init /\ [][Next]_vars /\ WF_vars(Deliver) /\ WF_vars(Poll)

-----------------------------------------------------------------------------
(* Properties *)

\* Every variable holds what its declaration says.  The line and its terminator fit the
\* buffer, also when the line ends just there, and nothing is kept of a line that is
\* being discarded.
TypeOK ==
  /\ port \in {"chain", "usb"}
  /\ on \in BOOLEAN /\ isMaster \in BOOLEAN /\ polling \in BOOLEAN
  /\ wire \in Seq(Byte) /\ rx \in Seq(Byte)
  /\ line \in Seq(Byte) /\ Len(line) < SERIAL_BUF_SIZE
  /\ overflow \in BOOLEAN /\ (overflow => line = << >>)
  /\ sent \in Seq(Texts) /\ heard \in Seq(Seq(Byte) \ {<< >>})
  /\ beatsSent \in Nat /\ beatsHeard \in Nat /\ faults \in Nat /\ flips \in Nat

\* What a framer should make of the lines sent: all of them, the overlong ones left out.
Short(text) == Len(text) < SERIAL_BUF_SIZE
ShortLines[n \in Nat] ==
  IF n = 0 THEN << >>
  ELSE IF Short(sent[n]) THEN Append(ShortLines[n - 1], Bytes(sent[n], n))
                         ELSE ShortLines[n - 1]
Due == ShortLines[Len(sent)]

\* An 'o' in a line from USB may be taken for the command.
TakenForCommand == port = "usb" /\ \E n \in DOMAIN sent : \E i \in DOMAIN sent[n] : sent[n][i] = "o"

\* As long as no byte is lost, no button pressed and no role changed, every line is
\* handed on as it was sent, once and in order, in whatever pieces it arrives and
\* whatever heartbeats lie between: an overlong line does not reach the commands,
\* not even in part.
Quiet == faults = 0 /\ flips = 0 /\ ~TakenForCommand
WholeLines == Quiet => IsPrefix(heard, Due)

\* ... and in the end none is kept back: on a USB port whatever was sent, on a chain port
\* as long as no line was too long (the poll of a port reads until it is empty).
AllHeard ==
  <>[](Quiet /\ (port = "chain" => \A n \in DOMAIN sent : Short(sent[n])) => heard = Due)

\* "If this line overflowed, just clear the flag and move on" (communication.ino:114): the
\* lines behind an overlong one are handed on like any others, on a chain port too.
HearsOn == <>[](Quiet => heard = Due)

\* No command is put together from two lines, also when a role change empties the
\* ports between them.
NoMixture ==
  port = "chain" /\ faults = 0
    => \A n \in DOMAIN heard : \A i, j \in DOMAIN heard[n] : heard[n][i].of = heard[n][j].of

\* Heartbeats get through partial, overlong and discarded lines.
BeatsGetThrough ==
  faults = 0 /\ flips = 0 /\ wire = << >> /\ rx = << >> => beatsHeard = beatsSent

\* A byte that is lost or made up costs at most two lines: its own and, when it is a
\* newline or takes the place of one, the next.
Missed == {n \in DOMAIN sent : Short(sent[n]) /\ ~\E i \in DOMAIN heard : heard[i] = Bytes(sent[n], n)}
DamageContained ==
  wire = << >> /\ rx = << >> /\ flips = 0 /\ ~overflow /\ ~TakenForCommand
    => Cardinality(Missed) <= 2 * faults
=============================================================================
