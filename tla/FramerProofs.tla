---------------------------- MODULE FramerProofs -----------------------------
(***************************************************************************)
(* Safety of LineFramer for lines and buffers of any length: its types,    *)
(* with the bound of the line buffer, NoMixture, WholeLines,               *)
(* BeatsGetThrough and DamageContained.  For NoMixture, what a chain port  *)
(* has yet to read is a stream in which a letter is followed by a letter   *)
(* of the same line or by a newline, however much of its beginning a role  *)
(* change takes away; and it goes on where the line buffer ends.  For the  *)
(* others the unread bytes are a way, byte by byte, from where the port is *)
(* in the sender's lines and heartbeats to where the sender is; a fault    *)
(* lets the way jump inside one line.                                      *)
(***************************************************************************)
EXTENDS LineFramer, FiniteSetTheorems, SequenceTheorems, WellFoundedInduction, TLAPS

Stream == rx \o wire

Follows(b, c) == c = Newline \/ (Printable(c) /\ c.of = b.of)

Unbroken(s) ==
  \A i \in 1 .. Len(s) : Printable(s[i]) => i < Len(s) /\ Follows(s[i], s[i + 1])

OneLine(s) == \A i, j \in 1 .. Len(s) : s[i].of = s[j].of

\* The line buffer is the beginning of a line that the stream goes on with.
Begun ==
  line # << >> =>
    /\ OneLine(line)
    /\ Stream # << >>
    /\ Follows(line[1], Stream[1])

Unmixed == Unbroken(Stream) /\ Begun /\ \A n \in 1 .. Len(heard) : OneLine(heard[n])

IInv == TypeOK /\ (port = "chain" /\ faults = 0 => Unmixed)

-----------------------------------------------------------------------------
(* Types *)

LEMMA BytesOfLine ==
  ASSUME NEW text \in Texts, NEW n \in 1 .. MaxLines
  PROVE  /\ Bytes(text, n) \in Seq(Byte)
         /\ Len(Bytes(text, n)) = Len(text) /\ Len(text) \in Nat \ {0}
         /\ \A i \in 1 .. Len(text) : /\ Printable(Bytes(text, n)[i])
                                      /\ Bytes(text, n)[i].of = n
<1>1. text \in Seq(Char) /\ text # << >>
  BY FramerAssumption
<1>2. \A i \in 1 .. Len(text) : [kind |-> text[i], of |-> n] \in Byte
  BY <1>1 DEF Byte, Letter
<1>3. Bytes(text, n) = [i \in 1 .. Len(text) |-> [kind |-> text[i], of |-> n]]
  BY <1>1 DEF Bytes
<1>4. QED
  BY <1>1, <1>2, <1>3 DEF Printable

LEMMA Marks == Newline \in Byte /\ Beat \in Byte /\ Index \in Byte
BY DEF Byte

LEMMA NotPrintable == ~Printable(Newline) /\ ~Printable(Beat) /\ ~Printable(Index)
BY DEF Printable, Newline, Beat, Index, Char

LEMMA LongerThanOne ==
  ASSUME NEW s \in Seq(Byte), Len(s) >= 2
  PROVE  s # << >> /\ Tail(s) # << >>
<1>1. s # << >> /\ Len(Tail(s)) = Len(s) - 1
  OBVIOUS
<1>2. Len(Tail(s)) # 0
  BY <1>1
<1>3. ASSUME NEW t, t = << >> PROVE Len(t) = 0
  BY <1>3, EmptySeq
<1>4. QED
  BY <1>1, <1>2, <1>3

LEMMA EmptyFits == << >> \in Seq(Byte) /\ Len(<< >>) < SERIAL_BUF_SIZE
<1>1. Len(<< >>) = 0 /\ << >> \in Seq(Byte)
  OBVIOUS
<1>2. QED
  BY <1>1, FramerAssumption

LEMMA TypesInit == Init => TypeOK
<1> SUFFICES ASSUME Init PROVE TypeOK
  OBVIOUS
<1>1. port \in {"chain", "usb"} /\ isMaster \in BOOLEAN
  BY FramerAssumption DEF Init
<1>2. sent \in Seq(Texts) /\ heard \in Seq(Seq(Byte) \ {<< >>})
  BY DEF Init
<1>3. QED
  BY <1>1, <1>2, EmptyFits DEF Init, TypeOK

\* One byte through the framer keeps the types of the framer.
LEMMA TypesFrame ==
  ASSUME TypeOK, NEW b \in Byte, Frame(b)
  PROVE  /\ line' \in Seq(Byte) /\ Len(line') < SERIAL_BUF_SIZE
         /\ overflow' \in BOOLEAN /\ (overflow' => line' = << >>)
         /\ heard' \in Seq(Seq(Byte) \ {<< >>})
<1>1. CASE Skipped(b) /\ UNCHANGED <<line, overflow, heard>>
  BY <1>1 DEF TypeOK
<1>2. CASE b = Newline /\ heard' = (IF Dropped THEN heard ELSE Append(heard, line))
           /\ line' = << >> /\ overflow' = FALSE
  <2>1. ~Dropped => line \in Seq(Byte) \ {<< >>}
    BY DEF Dropped, TypeOK
  <2>2. heard' \in Seq(Seq(Byte) \ {<< >>})
    BY <1>2, <2>1 DEF TypeOK
  <2>3. QED
    BY <1>2, <2>2, EmptyFits
<1>3. CASE b # Newline /\ Discarding /\ UNCHANGED <<line, overflow, heard>>
  BY <1>3 DEF TypeOK
<1>4. CASE ~Discarding /\ line' = (IF Fits(Len(line)) THEN Append(line, b) ELSE << >>)
           /\ overflow' = ~Fits(Len(line)) /\ UNCHANGED heard
  <2>1. CASE Fits(Len(line))
    <3>1. Append(line, b) \in Seq(Byte) /\ Len(Append(line, b)) = Len(line) + 1
      BY DEF TypeOK
    <3>2. Len(line) \in Nat /\ Len(line) < SERIAL_BUF_SIZE - 1
      BY <2>1 DEF Fits, TypeOK
    <3>3. line' = Append(line, b) /\ overflow' = FALSE /\ heard' = heard
      BY <1>4, <2>1
    <3>4. Len(line') < SERIAL_BUF_SIZE
      BY <3>1, <3>2, <3>3, FramerAssumption
    <3>5. heard' \in Seq(Seq(Byte) \ {<< >>})
      BY <3>3 DEF TypeOK
    <3>6. QED
      BY <3>1, <3>3, <3>4, <3>5
  <2>2. CASE ~Fits(Len(line))
    BY <1>4, <2>2, EmptyFits DEF TypeOK
  <2>3. QED
    BY <2>1, <2>2
<1>5. QED
  BY <1>1, <1>2, <1>3, <1>4 DEF Frame

LEMMA TypesNext == TypeOK /\ [Next]_vars => TypeOK'
<1> SUFFICES ASSUME TypeOK, [Next]_vars PROVE TypeOK'
  OBVIOUS
<1>1. ASSUME NEW text \in Texts, Send(text) PROVE TypeOK'
  <2>1. Len(sent) + 1 \in 1 .. MaxLines
    BY <1>1, FramerAssumption DEF Send, TypeOK
  <2>2. wire' \in Seq(Byte) /\ sent' \in Seq(Texts)
    BY <1>1, <2>1, BytesOfLine, Marks DEF Send, TypeOK
  <2>3. QED
    BY <1>1, <2>2 DEF Send, TypeOK, framer
<1>2. CASE SendBeat
  <2>1. wire' \in Seq(Byte)
    BY <1>2, Marks DEF SendBeat, TypeOK
  <2>2. QED
    BY <1>2, <2>1 DEF SendBeat, TypeOK, framer
<1>3. CASE Deliver \/ Lose
  <2>1. wire # << >> => Head(wire) \in Byte /\ Tail(wire) \in Seq(Byte)
    BY DEF TypeOK
  <2>2. wire' \in Seq(Byte)
    BY <1>3, <2>1 DEF Deliver, Lose
  <2>3. rx' \in Seq(Byte)
    <3>1. CASE Deliver
      BY <2>1, <3>1 DEF Deliver, TypeOK
    <3>2. CASE Lose
      BY <3>2 DEF Lose, TypeOK
    <3>3. QED
      BY <1>3, <3>1, <3>2
  <2>4. faults' \in Nat
    BY <1>3 DEF Deliver, Lose, TypeOK
  <2>5. UNCHANGED <<port, on, isMaster, polling, framer, sent, beatsSent, flips>>
    BY <1>3 DEF Deliver, Lose, sender
  <2>6. QED
    BY <2>2, <2>3, <2>4, <2>5 DEF TypeOK, framer
<1>4. CASE Noise
  BY <1>4, Marks DEF Noise, TypeOK, framer, sender
<1>5. CASE HearBeat
  <2>1. Tail(rx) \in Seq(Byte) /\ Tail(rx) # << >>
    <3>1. rx \in Seq(Byte) /\ Len(rx) >= 2
      BY <1>5 DEF HearBeat, TypeOK
    <3>2. QED
      BY <3>1, LongerThanOne
  <2>2. rx' \in Seq(Byte) /\ beatsHeard' \in Nat
    BY <1>5, <2>1 DEF HearBeat, TypeOK
  <2>3. QED
    BY <1>5, <2>2 DEF HearBeat, TypeOK, sender
<1>6. CASE ReadChain
  <2>1. Frame(Head(rx)) /\ Head(rx) \in Byte /\ rx' \in Seq(Byte)
    BY <1>6 DEF ReadChain, TypeOK
  <2>2. QED
    BY <1>6, <2>1, TypesFrame DEF ReadChain, TypeOK, sender
<1>7. CASE TogglePower \/ DrainUsb
  <2>1. rx \in Seq(Byte) /\ rx # << >> /\ rx' = Tail(rx)
    BY <1>7 DEF TogglePower, DrainUsb, TypeOK
  <2>2. rx' \in Seq(Byte)
    BY <2>1
  <2>3. on' \in BOOLEAN
    BY <1>7 DEF TogglePower, DrainUsb, TypeOK
  <2>4. QED
    BY <1>7, <2>2, <2>3 DEF TogglePower, DrainUsb, TypeOK, framer, sender
<1>8. CASE ReadUsb
  <2>1. Frame(Head(rx)) /\ Head(rx) \in Byte /\ rx' \in Seq(Byte)
    BY <1>8 DEF ReadUsb, TypeOK
  <2>2. QED
    BY <1>8, <2>1, TypesFrame DEF ReadUsb, TypeOK, sender
<1>9. CASE ChangeRole
  <2>1. /\ rx' \in Seq(Byte) /\ line' \in Seq(Byte) /\ Len(line') < SERIAL_BUF_SIZE
        /\ overflow' \in BOOLEAN /\ (overflow' => line' = << >>)
    BY <1>9, EmptyFits DEF ChangeRole, TypeOK
  <2>2. QED
    BY <1>9, <2>1 DEF ChangeRole, TypeOK, sender
<1>10. CASE PressPower
  BY <1>10 DEF PressPower, TypeOK, framer, sender
<1>11. CASE UNCHANGED vars
  BY <1>11 DEF vars, TypeOK
<1>12. QED
  BY <1>1, <1>2, <1>3, <1>4, <1>5, <1>6, <1>7, <1>8, <1>9, <1>10, <1>11 DEF Next, Poll

\* Every variable keeps its type; whatever arrives, a line and its terminator fit the
\* buffer, and of an overlong line nothing is kept.
THEOREM TypeCorrect == Spec => []TypeOK
<1>1. QED
  BY TypesInit, TypesNext, PTL DEF Spec

-----------------------------------------------------------------------------
(* Streams *)

LEMMA Shorter ==
  ASSUME NEW s \in Seq(Byte), s # << >>, Unbroken(s)
  PROVE  Unbroken(Tail(s))
<1>1. Len(Tail(s)) = Len(s) - 1 /\ \A i \in 1 .. Len(s) - 1 : Tail(s)[i] = s[i + 1]
  OBVIOUS
<1>2. QED
  BY <1>1 DEF Unbroken

\* What is written last keeps a stream unbroken if it is unbroken itself.
LEMMA Longer ==
  ASSUME NEW s \in Seq(Byte), NEW t \in Seq(Byte), Unbroken(s), Unbroken(t)
  PROVE  Unbroken(s \o t)
<1>1. /\ Len(s \o t) = Len(s) + Len(t)
      /\ \A i \in 1 .. Len(s) : (s \o t)[i] = s[i]
      /\ \A i \in 1 .. Len(t) : (s \o t)[Len(s) + i] = t[i]
      /\ Len(s) \in Nat /\ Len(t) \in Nat
  OBVIOUS
<1>2. ASSUME NEW i \in 1 .. Len(s \o t), Printable((s \o t)[i])
      PROVE  i < Len(s \o t) /\ Follows((s \o t)[i], (s \o t)[i + 1])
  <2>1. CASE i <= Len(s)
    <3>1. Printable(s[i])
      BY <1>1, <1>2, <2>1
    <3>2. i < Len(s) /\ Follows(s[i], s[i + 1])
      BY <1>2, <2>1, <3>1 DEF Unbroken
    <3>3. QED
      BY <1>1, <2>1, <3>2
  <2>2. CASE i > Len(s)
    <3>1. PICK j \in 1 .. Len(t) : i = Len(s) + j
      <4>1. i - Len(s) \in 1 .. Len(t) /\ i = Len(s) + (i - Len(s))
        BY <1>1, <1>2, <2>2
      <4>2. QED
        BY <4>1
    <3>2. Printable(t[j])
      BY <1>1, <1>2, <3>1
    <3>3. j < Len(t) /\ Follows(t[j], t[j + 1])
      BY <3>1, <3>2 DEF Unbroken
    <3>4. (s \o t)[i + 1] = t[j + 1]
      <4>1. j + 1 \in 1 .. Len(t) /\ i + 1 = Len(s) + (j + 1)
        BY <1>1, <3>1, <3>3
      <4>2. QED
        BY <1>1, <4>1
    <3>5. QED
      BY <1>1, <3>1, <3>3, <3>4
  <2>3. QED
    BY <1>1, <2>1, <2>2
<1>3. QED
  BY <1>2 DEF Unbroken

LEMMA BeatUnbroken == << Beat, Index >> \in Seq(Byte) /\ Unbroken(<< Beat, Index >>)
<1>1. Len(<< Beat, Index >>) = 2 /\ << Beat, Index >> \in Seq(Byte)
  BY Marks
<1>2. \A i \in 1 .. 2 : ~Printable(<< Beat, Index >>[i])
  BY NotPrintable
<1>3. QED
  BY <1>1, <1>2 DEF Unbroken

LEMMA Written ==
  ASSUME NEW text \in Texts, NEW n \in 1 .. MaxLines
  PROVE  Unbroken(Bytes(text, n) \o << Newline >>)
<1> DEFINE b == Bytes(text, n)
           s == b \o << Newline >>
<1>1. /\ b \in Seq(Byte) /\ Len(b) \in Nat
      /\ \A i \in 1 .. Len(b) : Printable(b[i]) /\ b[i].of = n
  BY BytesOfLine
<1> HIDE DEF b
<1>2. /\ Len(s) = Len(b) + 1 /\ s[Len(b) + 1] = Newline
      /\ \A i \in 1 .. Len(b) : s[i] = b[i]
  BY <1>1, Marks
<1> HIDE DEF s
<1>3. Unbroken(s)
  <2>1. ASSUME NEW i \in 1 .. Len(s), Printable(s[i])
        PROVE  i < Len(s) /\ Follows(s[i], s[i + 1])
    <3>1. i # Len(b) + 1
      BY <1>2, <2>1, NotPrintable
    <3>2. i \in 1 .. Len(b)
      BY <1>1, <1>2, <2>1, <3>1
    <3>3. CASE i = Len(b)
      BY <1>1, <1>2, <3>2, <3>3 DEF Follows
    <3>4. CASE i < Len(b)
      <4>1. i + 1 \in 1 .. Len(b)
        BY <1>1, <3>2, <3>4
      <4>2. QED
        BY <1>1, <1>2, <3>2, <3>4, <4>1 DEF Follows
    <3>5. QED
      BY <1>1, <3>2, <3>3, <3>4
  <2>2. QED
    BY <2>1 DEF Unbroken
<1>4. QED
  BY <1>3 DEF s, b

-----------------------------------------------------------------------------
(* The framer on a stream *)

\* Reading the next byte of the stream.
LEMMA Reading ==
  ASSUME TypeOK, TypeOK', Unmixed, port = "chain", Stream # << >>,
         Stream' = Tail(Stream), Stream \in Seq(Byte), Frame(Head(Stream))
  PROVE  Unmixed'
<1> DEFINE b == Stream[1]
<1>1. /\ b = Head(Stream) /\ b \in Byte /\ Len(Stream) \in Nat \ {0}
      /\ Len(Tail(Stream)) = Len(Stream) - 1
      /\ \A i \in 1 .. Len(Stream) - 1 : Tail(Stream)[i] = Stream[i + 1]
  OBVIOUS
<1>2. Unbroken(Stream')
  BY Shorter DEF Unmixed
<1>3. CASE Skipped(b) /\ UNCHANGED <<line, overflow, heard>>
  BY <1>2, <1>3 DEF Unmixed, Begun, Skipped
<1>4. CASE b # Newline /\ Discarding /\ UNCHANGED <<line, overflow, heard>>
  BY <1>2, <1>4 DEF Unmixed, Begun, Discarding, TypeOK
<1>5. CASE b = Newline /\ heard' = (IF Dropped THEN heard ELSE Append(heard, line))
           /\ line' = << >>
  <2>1. ~Dropped => OneLine(line)
    BY DEF Dropped, Unmixed, Begun
  <2>2. heard \in Seq(Seq(Byte) \ {<< >>})
    BY DEF TypeOK
  <2>3. \A n \in 1 .. Len(heard') : OneLine(heard'[n])
    <3>1. CASE Dropped
      BY <1>5, <3>1 DEF Unmixed
    <3>2. CASE ~Dropped
      <4>1. /\ heard' = Append(heard, line) /\ Len(heard') = Len(heard) + 1
            /\ heard'[Len(heard) + 1] = line
            /\ \A n \in 1 .. Len(heard) : heard'[n] = heard[n]
        BY <1>5, <2>2, <3>2
      <4>2. ASSUME NEW n \in 1 .. Len(heard') PROVE OneLine(heard'[n])
        <5>1. n \in 1 .. Len(heard) \/ n = Len(heard) + 1
          BY <2>2, <4>1
        <5>2. QED
          BY <2>1, <3>2, <4>1, <5>1 DEF Unmixed
      <4>3. QED
        BY <4>2
    <3>3. QED
      BY <3>1, <3>2
  <2>4. QED
    BY <1>2, <1>5, <2>3 DEF Unmixed, Begun
<1>6. CASE b # Newline /\ ~Skipped(b) /\ UNCHANGED heard
           /\ line' = IF Fits(Len(line)) THEN Append(line, b) ELSE << >>
  <2>1. CASE ~Fits(Len(line))
    BY <1>2, <1>6, <2>1 DEF Unmixed, Begun
  <2>2. CASE Fits(Len(line))
    <3>1. line \in Seq(Byte) /\ line' = Append(line, b)
      BY <1>6, <2>2 DEF TypeOK
    <3>2. /\ Len(line') = Len(line) + 1 /\ line'[Len(line) + 1] = b
          /\ \A i \in 1 .. Len(line) : line'[i] = line[i]
          /\ Len(line) \in Nat
      BY <1>1, <3>1
    <3>3. line # << >> => 1 \in 1 .. Len(line) /\ b.of = line[1].of
      BY <1>6, <3>1 DEF Unmixed, Begun, Follows
    <3>4. Printable(b)
      BY <1>6 DEF Skipped, Unmixed, Begun, Follows
    <3>5. \A i \in 1 .. Len(line') : line'[i].of = b.of
      <4>1. ASSUME NEW i \in 1 .. Len(line') PROVE line'[i].of = b.of
        <5>1. CASE i = Len(line) + 1
          BY <3>2, <5>1
        <5>2. CASE i # Len(line) + 1
          <6>1. i \in 1 .. Len(line) /\ 1 \in 1 .. Len(line) /\ line # << >>
            BY <3>1, <3>2, <4>1, <5>2
          <6>2. line[i].of = line[1].of
            BY <6>1 DEF Unmixed, Begun, OneLine
          <6>3. QED
            BY <3>2, <3>3, <6>1, <6>2
        <5>3. QED
          BY <5>1, <5>2
      <4>2. QED
        BY <4>1
    <3>6. OneLine(line')
      BY <3>5 DEF OneLine
    <3>7. 1 < Len(Stream) /\ Follows(b, Stream[2])
      BY <1>1, <3>4 DEF Unmixed, Unbroken
    <3>8. Stream' # << >> /\ Stream'[1] = Stream[2]
      <4>1. Len(Stream') > 0 /\ 1 \in 1 .. Len(Stream) - 1 /\ 1 + 1 = 2
        BY <1>1, <3>7
      <4>2. Stream' # << >>
        <5>1. Tail(Stream) \in Seq(Byte)
          BY <1>1
        <5>2. Len(Tail(Stream)) # 0
          BY <1>1, <3>7
        <5>3. QED
          BY <5>1, <5>2, EmptySeq
      <4>3. Tail(Stream)[1] = Stream[1 + 1]
        BY <1>1, <4>1
      <4>4. QED
        BY <4>1, <4>2, <4>3
    <3>9. line'[1].of = b.of
      BY <3>2, <3>5
    <3>10. Follows(line'[1], Stream'[1])
      BY <3>7, <3>8, <3>9 DEF Follows
    <3>11. QED
      BY <1>2, <1>6, <3>6, <3>8, <3>10 DEF Unmixed, Begun
  <2>3. QED
    BY <2>1, <2>2
<1>7. QED
  BY <1>1, <1>3, <1>4, <1>5, <1>6 DEF Frame

LEMMA Streaming == ASSUME TypeOK PROVE Stream \in Seq(Byte)
BY DEF TypeOK, Stream

LEMMA Rest ==
  ASSUME NEW s \in Seq(Byte), s # << >>, NEW t \in Seq(Byte)
  PROVE  /\ Head(s \o t) = Head(s) /\ s \o t # << >> /\ Tail(s) \in Seq(Byte)
         /\ Tail(s) \o t = Tail(s \o t)
OBVIOUS

\* What reading a byte or two does to the stream.
LEMMA Consuming ==
  ASSUME TypeOK, rx # << >>
  PROVE  /\ Head(Stream) = Head(rx) /\ Stream # << >>
         /\ Tail(rx) \o wire = Tail(Stream)
         /\ Len(rx) >= 2 => /\ Tail(Stream) # << >>
                            /\ Tail(Tail(rx)) \o wire = Tail(Tail(Stream))
<1>1. rx \in Seq(Byte) /\ wire \in Seq(Byte)
  BY DEF TypeOK
<1>2. /\ Head(Stream) = Head(rx) /\ Stream # << >>
      /\ Tail(rx) \in Seq(Byte) /\ Tail(rx) \o wire = Tail(Stream)
  BY <1>1, Rest DEF Stream
<1>3. ASSUME Len(rx) >= 2
      PROVE  Tail(Stream) # << >> /\ Tail(Tail(rx)) \o wire = Tail(Tail(Stream))
  <2>1. Tail(rx) # << >>
    BY <1>1, <1>3, LongerThanOne
  <2>2. Tail(Tail(rx)) \o wire = Tail(Tail(rx) \o wire) /\ Tail(rx) \o wire # << >>
    BY <1>1, <1>2, <2>1, Rest
  <2>3. QED
    BY <1>2, <2>2
<1>4. QED
  BY <1>2, <1>3

-----------------------------------------------------------------------------
(* NoMixture *)

LEMMA NoneMixed == IInv => NoMixture
<1> SUFFICES ASSUME IInv, port = "chain", faults = 0, NEW n \in DOMAIN heard,
                    NEW i \in DOMAIN heard[n], NEW j \in DOMAIN heard[n]
             PROVE  heard[n][i].of = heard[n][j].of
  BY DEF NoMixture
<1>1. n \in 1 .. Len(heard) /\ heard[n] \in Seq(Byte)
  BY DEF IInv, TypeOK
<1>2. OneLine(heard[n])
  BY <1>1 DEF IInv, Unmixed
<1>3. i \in 1 .. Len(heard[n]) /\ j \in 1 .. Len(heard[n])
  BY <1>1
<1>4. QED
  BY <1>2, <1>3 DEF OneLine

LEMMA UnmixedInit == Init => Unmixed
<1> SUFFICES ASSUME Init PROVE Unmixed
  OBVIOUS
<1>1. Stream = << >> /\ heard = << >> /\ line = << >>
  BY DEF Init, Stream
<1>2. QED
  BY <1>1 DEF Unmixed, Unbroken, Begun

LEMMA Regrouped ==
  ASSUME NEW r \in Seq(Byte), NEW s \in Seq(Byte), NEW t \in Seq(Byte)
  PROVE  s \o t \in Seq(Byte) /\ r \o s \o t = r \o (s \o t)
OBVIOUS

\* A byte that is received stays where it is in the stream.
LEMMA Moved ==
  ASSUME NEW r \in Seq(Byte), NEW w \in Seq(Byte), w # << >>
  PROVE  Append(r, Head(w)) \o Tail(w) = r \o w
<1>1. Head(w) \in Byte /\ Tail(w) \in Seq(Byte) /\ w = << Head(w) >> \o Tail(w)
  OBVIOUS
<1>2. Append(r, Head(w)) = r \o << Head(w) >>
  BY <1>1
<1>3. << Head(w) >> \in Seq(Byte)
  BY <1>1
<1>4. QED
  BY <1>1, <1>2, <1>3, Regrouped

\* What is written goes to the end of the stream.
LEMMA Writing ==
  ASSUME TypeOK, Unmixed, NEW s \in Seq(Byte), Unbroken(s), wire' = wire \o s,
         UNCHANGED <<rx, line, heard>>
  PROVE  Unmixed'
<1>1. Stream \in Seq(Byte) /\ Stream' = Stream \o s
  <2>1. rx \in Seq(Byte) /\ wire \in Seq(Byte)
    BY DEF TypeOK
  <2>2. rx' \o wire' = rx \o wire \o s
    BY <2>1, Regrouped
  <2>3. QED
    BY <2>2, Streaming DEF Stream
<1>2. Unbroken(Stream')
  BY <1>1, Longer DEF Unmixed
<1>3. Stream # << >> => Stream' # << >> /\ Stream'[1] = Stream[1]
  BY <1>1
<1>4. QED
  BY <1>2, <1>3 DEF Unmixed, Begun

\* A role change loses what has arrived, and the beginning of the line.
LEMMA Flushing ==
  ASSUME TypeOK, Unmixed, rx' = << >>, line' = << >>, UNCHANGED <<wire, heard>>
  PROVE  Unmixed'
<1>1. Stream' = wire /\ Unbroken(wire)
  <2>1. /\ rx \in Seq(Byte) /\ wire \in Seq(Byte) /\ Len(rx) \in Nat /\ Len(wire) \in Nat
        /\ Len(Stream) = Len(rx) + Len(wire)
        /\ \A i \in 1 .. Len(wire) : Stream[Len(rx) + i] = wire[i]
    BY DEF TypeOK, Stream
  <2>2. ASSUME NEW i \in 1 .. Len(wire), Printable(wire[i])
        PROVE  i < Len(wire) /\ Follows(wire[i], wire[i + 1])
    <3>1. /\ Len(rx) + i \in 1 .. Len(Stream)
          /\ Printable(Stream[Len(rx) + i])
      BY <2>1, <2>2
    <3>2. /\ Len(rx) + i < Len(Stream)
          /\ Follows(Stream[Len(rx) + i], Stream[(Len(rx) + i) + 1])
      BY <3>1 DEF Unmixed, Unbroken
    <3>3. i < Len(wire) /\ i + 1 \in 1 .. Len(wire) /\ (Len(rx) + i) + 1 = Len(rx) + (i + 1)
      BY <2>1, <3>2
    <3>4. QED
      BY <2>1, <3>2, <3>3
  <2>3. QED
    BY <2>1, <2>2 DEF Unbroken, Stream
<1>2. QED
  BY <1>1 DEF Unmixed, Begun

LEMMA UnmixedNext ==
  ASSUME IInv, TypeOK', [Next]_vars, port' = "chain", faults' = 0
  PROVE  Unmixed'
<1>1. port = "chain" /\ TypeOK
  BY DEF IInv, Next, vars, Send, SendBeat, Deliver, Lose, Noise, Poll, HearBeat, ReadChain,
     TogglePower, ReadUsb, DrainUsb, ChangeRole, PressPower
<1>2. faults = 0 /\ ~Lose /\ ~Noise
  <2>1. ~Lose /\ ~Noise
    BY <1>1 DEF Lose, Noise, TypeOK
  <2>2. QED
    BY <2>1 DEF Next, vars, Send, SendBeat, Deliver, Poll, HearBeat, ReadChain,
       TogglePower, ReadUsb, DrainUsb, ChangeRole, PressPower
<1>3. Unmixed
  BY <1>1, <1>2 DEF IInv
<1>4. ASSUME NEW text \in Texts, Send(text) PROVE Unmixed'
  <2>1. Len(sent) + 1 \in 1 .. MaxLines
    BY <1>1, <1>4, FramerAssumption DEF Send, TypeOK
  <2> DEFINE b == Bytes(text, Len(sent) + 1)
  <2>2. wire \in Seq(Byte) /\ b \in Seq(Byte) /\ << Newline >> \in Seq(Byte)
    BY <1>1, <2>1, BytesOfLine, Marks DEF TypeOK
  <2>3. Unbroken(b \o << Newline >>)
    BY <2>1, Written
  <2>4. wire' = wire \o b \o << Newline >> /\ UNCHANGED <<rx, line, heard>>
    BY <1>4 DEF Send, framer
  <2> HIDE DEF b
  <2>5. b \o << Newline >> \in Seq(Byte) /\ wire' = wire \o (b \o << Newline >>)
    BY <2>2, <2>4, Regrouped
  <2>6. QED
    BY <1>1, <1>3, <2>3, <2>4, <2>5, Writing
<1>5. CASE SendBeat
  BY <1>1, <1>3, <1>5, BeatUnbroken, Writing DEF SendBeat, framer
<1>6. CASE Deliver
  <2>1. rx' = Append(rx, Head(wire)) /\ wire' = Tail(wire) /\ wire # << >>
    BY <1>6 DEF Deliver
  <2>2. rx \in Seq(Byte) /\ wire \in Seq(Byte)
    BY <1>1 DEF TypeOK
  <2>3. Stream' = Stream
    BY <2>1, <2>2, Moved DEF Stream
  <2>4. QED
    BY <1>3, <1>6, <2>3 DEF Deliver, framer, Unmixed, Begun
<1>7. CASE HearBeat
  <2>1. /\ rx # << >> /\ Head(rx) = Beat /\ Len(rx) >= 2
        /\ Stream' = Tail(Tail(rx)) \o wire /\ UNCHANGED <<line, heard>>
    BY <1>1, <1>7 DEF HearBeat, AtBeat, TypeOK, Stream
  <2>2. /\ Stream # << >> /\ Head(Stream) = Beat /\ Tail(Stream) # << >>
        /\ Stream' = Tail(Tail(Stream)) /\ Stream \in Seq(Byte)
    BY <1>1, <2>1, Consuming, Streaming
  <2>3. Unbroken(Stream')
    <3>1. Tail(Stream) \in Seq(Byte) /\ Unbroken(Tail(Stream))
      BY <1>3, <2>2, Shorter DEF Unmixed
    <3>2. QED
      BY <2>2, <3>1, Shorter
  <2>4. line = << >>
    <3>1. Stream[1] = Beat /\ Beat # Newline
      BY <2>2 DEF Beat, Newline
    <3>2. QED
      BY <1>3, <3>1, NotPrintable DEF Unmixed, Begun, Follows
  <2>5. QED
    BY <1>3, <2>1, <2>3, <2>4 DEF Unmixed, Begun
<1>8. CASE ReadChain
  <2>1. /\ rx # << >> /\ Frame(Head(rx)) /\ Stream' = Tail(rx) \o wire
    BY <1>8 DEF ReadChain, Stream
  <2>2. /\ Stream # << >> /\ Frame(Head(Stream)) /\ Stream' = Tail(Stream)
        /\ Stream \in Seq(Byte)
    BY <1>1, <2>1, Consuming, Streaming
  <2>3. QED
    BY <1>1, <1>3, <2>2, Reading
<1>9. CASE ChangeRole
  BY <1>1, <1>3, <1>9, Flushing DEF ChangeRole
<1>10. CASE PressPower \/ UNCHANGED vars
  BY <1>3, <1>10 DEF PressPower, vars, framer, Unmixed, Begun, Stream
<1>11. QED
  BY <1>1, <1>2, <1>4, <1>5, <1>6, <1>7, <1>8, <1>9, <1>10
     DEF Next, Poll, TogglePower, ReadUsb, DrainUsb

\* No command that a chain port hands on is put together from two lines, also when role
\* changes empty the ports in between, as long as no byte is lost or made up.
THEOREM LinesUnmixed == Spec => []NoMixture
<1>1. Init => IInv
  BY TypesInit, UnmixedInit DEF IInv
<1>2. IInv /\ [Next]_vars => IInv'
  BY TypesNext, UnmixedNext DEF IInv
<1>3. QED
  BY <1>1, <1>2, NoneMixed, PTL DEF Spec

-----------------------------------------------------------------------------
(* Induction and recursion on numbers, with sets for what holds of them *)

LEMMA Least ==
  ASSUME NEW T \in SUBSET Nat, T # {}
  PROVE  \E n \in T : \A m \in T : n <= m
<1> DEFINE R == OpToRel(<, Nat)
<1>1. PICK n \in T : \A m \in T : ~(<<m, n>> \in R)
  BY NatLessThanWellFounded, WFMin
<1>2. \A m \in T : m < n => <<m, n>> \in R
  BY DEF OpToRel
<1> HIDE DEF R
<1>3. \A m \in T : ~(m < n)
  BY <1>1, <1>2
<1>4. n \in Nat /\ \A m \in T : m \in Nat
  OBVIOUS
<1>5. QED
  BY <1>3, <1>4

LEMMA Induction ==
  ASSUME NEW T \in SUBSET Nat, 0 \in T, \A n \in T : n + 1 \in T
  PROVE  \A n \in Nat : n \in T
<1>1. SUFFICES ASSUME Nat \ T # {} PROVE FALSE
  OBVIOUS
<1>2. PICK n \in Nat \ T : \A m \in Nat \ T : n <= m
  <2> DEFINE U == Nat \ T
  <2>1. U \in SUBSET Nat /\ U # {}
    BY <1>1
  <2> HIDE DEF U
  <2>2. \E n \in U : \A m \in U : n <= m
    BY <2>1, Least
  <2>3. QED
    BY <2>2 DEF U
<1>3. n - 1 \in Nat /\ n = (n - 1) + 1 /\ ~(n <= n - 1)
  BY <1>2
<1>4. n - 1 \in T
  BY <1>2, <1>3
<1>5. QED
  BY <1>2, <1>3, <1>4

\* What a line adds to the short lines before it.
WithLine(text, n, lines) == IF Short(text) THEN Append(lines, Bytes(text, n)) ELSE lines

\* The beginning of ShortLines, and that there is such a function.
UpToLine(g, n) == g = [i \in 0 .. n |-> IF i = 0 THEN << >> ELSE WithLine(sent[i], i, g[i - 1])]

LEMMA BeginningExists == \A n \in Nat : \E g : UpToLine(g, n)
<1> DEFINE T == {n \in Nat : \E g : UpToLine(g, n)}
<1>1. 0 \in T
  <2>1. UpToLine([i \in 0 .. 0 |-> << >>], 0)
    BY DEF UpToLine
  <2>2. QED
    BY <2>1
<1>2. ASSUME NEW n \in T PROVE n + 1 \in T
  <2>1. n \in Nat /\ n + 1 \in Nat
    OBVIOUS
  <2>2. PICK g : UpToLine(g, n)
    OBVIOUS
  <2> DEFINE h == [i \in 0 .. n + 1 |-> IF i = n + 1 THEN WithLine(sent[n + 1], n + 1, g[n]) ELSE g[i]]
  <2>3. \A i \in 0 .. n : g[i] = IF i = 0 THEN << >> ELSE WithLine(sent[i], i, g[i - 1])
    BY <2>2 DEF UpToLine
  <2>4. ASSUME NEW i \in 0 .. n + 1
        PROVE  h[i] = IF i = 0 THEN << >> ELSE WithLine(sent[i], i, h[i - 1])
    <3>1. CASE i = n + 1
      <4>1. i - 1 \in 0 .. n + 1 /\ i - 1 = n /\ i # 0 /\ n # n + 1
        BY <2>1, <3>1
      <4>2. QED
        BY <3>1, <4>1
    <3>2. CASE i = 0
      BY <2>1, <2>3, <3>2
    <3>3. CASE i \in 1 .. n
      <4>1. i - 1 \in 0 .. n + 1 /\ i - 1 # n + 1 /\ i # n + 1 /\ i # 0 /\ i \in 0 .. n
        BY <2>1, <3>3
      <4>2. QED
        BY <2>3, <4>1
    <3>4. QED
      BY <2>1, <3>1, <3>2, <3>3
  <2>5. UpToLine(h, n + 1)
    <3>1. h = [i \in 0 .. n + 1 |-> h[i]]
      OBVIOUS
    <3> HIDE DEF h
    <3>2. QED
      BY <2>4, <3>1 DEF UpToLine
  <2>6. QED
    BY <2>1, <2>5
<1> HIDE DEF T
<1>3. \A n \in Nat : n \in T
  <2>1. T \in SUBSET Nat
    BY DEF T
  <2>2. QED
    BY <1>1, <1>2, <2>1, Induction
<1>4. QED
  BY <1>3 DEF T

LEMMA BeginningsAgree ==
  ASSUME NEW n \in Nat, NEW g, NEW h, UpToLine(g, n), UpToLine(h, n + 1)
  PROVE  \A i \in 0 .. n : h[i] = g[i]
<1> DEFINE T == {i \in Nat : i <= n => h[i] = g[i]}
<1>1. \A i \in 0 .. n : g[i] = IF i = 0 THEN << >> ELSE WithLine(sent[i], i, g[i - 1])
  BY DEF UpToLine
<1>2. \A i \in 0 .. n : h[i] = IF i = 0 THEN << >> ELSE WithLine(sent[i], i, h[i - 1])
  <2>1. \A i \in 0 .. n + 1 : h[i] = IF i = 0 THEN << >> ELSE WithLine(sent[i], i, h[i - 1])
    BY DEF UpToLine
  <2>2. \A i \in 0 .. n : i \in 0 .. n + 1
    OBVIOUS
  <2>3. QED
    BY <2>1, <2>2
<1>3. 0 \in T
  BY <1>1, <1>2
<1>4. ASSUME NEW i \in T PROVE i + 1 \in T
  <2>1. i \in Nat /\ i + 1 \in Nat
    OBVIOUS
  <2>2. CASE i + 1 <= n
    <3>1. i + 1 \in 0 .. n /\ i + 1 # 0 /\ (i + 1) - 1 = i /\ i <= n
      BY <2>1, <2>2
    <3>2. g[i + 1] = WithLine(sent[i + 1], i + 1, g[i]) /\ h[i + 1] = WithLine(sent[i + 1], i + 1, h[i]) /\ h[i] = g[i]
      BY <1>1, <1>2, <3>1
    <3>3. QED
      BY <2>1, <3>2
  <2>3. CASE ~(i + 1 <= n)
    BY <2>1, <2>3
  <2>4. QED
    BY <2>2, <2>3
<1> HIDE DEF T
<1>5. \A i \in Nat : i \in T
  <2>1. T \in SUBSET Nat
    BY DEF T
  <2>2. QED
    BY <1>3, <1>4, <2>1, Induction
<1>6. \A i \in 0 .. n : i \in Nat /\ i <= n
  OBVIOUS
<1>7. QED
  BY <1>5, <1>6 DEF T

LEMMA ShortLinesSteps ==
  /\ ShortLines[0] = << >>
  /\ \A n \in Nat : ShortLines[n + 1] = WithLine(sent[n + 1], n + 1, ShortLines[n])
<1> DEFINE G(n) == CHOOSE g : UpToLine(g, n)
           f == [n \in Nat |-> G(n)[n]]
           Defines(g) == g = [n \in Nat |-> IF n = 0 THEN << >> ELSE WithLine(sent[n], n, g[n - 1])]
<1>1. \A n \in Nat : UpToLine(G(n), n)
  BY BeginningExists
<1> HIDE DEF G
<1>2. \A n \in Nat : G(n)[n] = IF n = 0 THEN << >> ELSE WithLine(sent[n], n, G(n)[n - 1])
  <2>1. \A n \in Nat : n \in 0 .. n
    OBVIOUS
  <2>2. \A n \in Nat : \A g : UpToLine(g, n)
          => g[n] = IF n = 0 THEN << >> ELSE WithLine(sent[n], n, g[n - 1])
    BY <2>1 DEF UpToLine
  <2>3. QED
    BY <1>1, <2>2
<1>3. ASSUME NEW n \in Nat, n # 0 PROVE G(n)[n - 1] = f[n - 1]
  <2>1. n - 1 \in Nat /\ (n - 1) + 1 = n /\ n - 1 \in 0 .. n - 1
    BY <1>3
  <2>2. UpToLine(G(n), (n - 1) + 1) /\ UpToLine(G(n - 1), n - 1)
    BY <1>1, <2>1
  <2>3. G(n)[n - 1] = G(n - 1)[n - 1]
    BY <2>1, <2>2, BeginningsAgree
  <2>4. QED
    BY <2>1, <2>3
<1>4. \A n \in Nat : f[n] = IF n = 0 THEN << >> ELSE WithLine(sent[n], n, f[n - 1])
  BY <1>2, <1>3
<1>5. Defines(f)
  <2>1. f = [n \in Nat |-> f[n]]
    OBVIOUS
  <2> HIDE DEF f
  <2>2. QED
    BY <1>4, <2>1
<1>6. ShortLines = CHOOSE g : Defines(g)
  BY DEF ShortLines, WithLine
<1> HIDE DEF f
<1>7. Defines(ShortLines)
  BY <1>5, <1>6
<1>8. \A n \in Nat : ShortLines[n] = IF n = 0 THEN << >> ELSE WithLine(sent[n], n, ShortLines[n - 1])
  BY <1>7
<1>9. \A n \in Nat : n + 1 \in Nat /\ n + 1 # 0 /\ (n + 1) - 1 = n
  OBVIOUS
<1>10. QED
  BY <1>8, <1>9

-----------------------------------------------------------------------------
(* The way of the sender through the stream *)

\* Where the sender was when it wrote a byte: the lines it had done, the letters of the
\* next one, the heartbeats, and whether it was between the two bytes of one.
Place == [done : Nat, part : Nat, beats : Nat, half : BOOLEAN]
Spot(d, i, b) == [done |-> d, part |-> i, beats |-> b, half |-> FALSE]

AtLetter(lines, p) == ~p.half /\ p.done < Len(lines) /\ p.part < Len(lines[p.done + 1])
AtEnd(lines, p) == ~p.half /\ p.done < Len(lines) /\ p.part = Len(lines[p.done + 1])

\* From place p a byte b leads to place q.
Leads(pt, lines, p, b, q) ==
  \/ /\ AtLetter(lines, p)
     /\ b = [kind |-> lines[p.done + 1][p.part + 1], of |-> p.done + 1]
     /\ q.done = p.done /\ q.part = p.part + 1 /\ q.beats = p.beats /\ ~q.half
  \/ /\ AtEnd(lines, p)
     /\ b = Newline
     /\ q.done = p.done + 1 /\ q.part = 0 /\ q.beats = p.beats /\ ~q.half
  \/ /\ ~p.half /\ p.part = 0 /\ pt = "chain"
     /\ b = Beat
     /\ q.done = p.done /\ q.part = 0 /\ q.beats = p.beats /\ q.half
  \/ /\ p.half
     /\ b = Index
     /\ q.done = p.done /\ q.part = p.part /\ q.beats = p.beats + 1 /\ ~q.half

\* The bytes s lead from p to q, by way of the places of at.
By(at, pt, lines, p, s, q) ==
  /\ at \in [1 .. Len(s) + 1 -> Place]
  /\ at[1] = p /\ at[Len(s) + 1] = q
  /\ \A i \in 1 .. Len(s) : Leads(pt, lines, at[i], s[i], at[i + 1])
Way(pt, lines, p, s, q) == \E at : By(at, pt, lines, p, s, q)

LEMMA NoWay ==
  ASSUME NEW pt, NEW lines, NEW p \in Place, NEW s \in Seq(Byte), s = << >>, NEW q
  PROVE  Way(pt, lines, p, s, q) <=> p = q
<1>1. Len(s) = 0 /\ 1 .. Len(s) + 1 = {1}
  OBVIOUS
<1>2. ASSUME Way(pt, lines, p, s, q) PROVE p = q
  BY <1>1, <1>2 DEF Way, By
<1>3. ASSUME p = q PROVE Way(pt, lines, p, s, q)
  <2> DEFINE at == [i \in {1} |-> p]
  <2>1. By(at, pt, lines, p, s, q)
    BY <1>1, <1>3 DEF By
  <2>2. QED
    BY <2>1 DEF Way
<1>4. QED
  BY <1>2, <1>3

LEMMA OneByte ==
  ASSUME NEW pt, NEW lines, NEW p \in Place, NEW b \in Byte, NEW q \in Place,
         Leads(pt, lines, p, b, q)
  PROVE  Way(pt, lines, p, << b >>, q)
<1> DEFINE at == [i \in 1 .. 2 |-> IF i = 1 THEN p ELSE q]
           s == << b >>
<1>1. s \in Seq(Byte) /\ Len(s) = 1 /\ s[1] = b /\ at \in [1 .. 2 -> Place]
  OBVIOUS
<1>2. at[1] = p /\ at[2] = q
  OBVIOUS
<1> HIDE DEF at, s
<1>3. Len(s) + 1 = 2 /\ \A i \in 1 .. Len(s) : i = 1
  BY <1>1
<1>4. By(at, pt, lines, p, s, q)
  BY <1>1, <1>2, <1>3 DEF By
<1>5. QED
  BY <1>4 DEF Way, s

LEMMA WayOn ==
  ASSUME NEW pt, NEW lines, NEW p, NEW s \in Seq(Byte), NEW q, NEW t \in Seq(Byte), NEW r,
         Way(pt, lines, p, s, q), Way(pt, lines, q, t, r)
  PROVE  Way(pt, lines, p, s \o t, r)
<1>1. PICK at : By(at, pt, lines, p, s, q)
  BY DEF Way
<1>2. PICK bt : By(bt, pt, lines, q, t, r)
  BY DEF Way
<1> DEFINE n == Len(s)
           m == Len(t)
           u == s \o t
           ct == [i \in 1 .. n + m + 1 |-> IF i <= n THEN at[i] ELSE bt[i - n]]
<1>3. /\ n \in Nat /\ m \in Nat /\ Len(u) = n + m
      /\ \A i \in 1 .. n : u[i] = s[i]
      /\ \A i \in 1 .. n + m : i > n => i - n \in 1 .. m /\ u[i] = t[i - n]
  OBVIOUS
<1>4. /\ at \in [1 .. n + 1 -> Place] /\ at[1] = p /\ at[n + 1] = q
      /\ \A i \in 1 .. n : Leads(pt, lines, at[i], s[i], at[i + 1])
  BY <1>1 DEF By
<1>5. /\ bt \in [1 .. m + 1 -> Place] /\ bt[1] = q /\ bt[m + 1] = r
      /\ \A i \in 1 .. m : Leads(pt, lines, bt[i], t[i], bt[i + 1])
  BY <1>2 DEF By
<1> HIDE DEF n, m, u
<1>6. /\ \A i \in 1 .. n + 1 : ct[i] = at[i]
      /\ \A i \in 1 .. n + m + 1 : i > n => i - n \in 1 .. m + 1 /\ ct[i] = bt[i - n]
  <2>1. ASSUME NEW i \in 1 .. n + 1 PROVE ct[i] = at[i]
    <3>1. i \in 1 .. n + m + 1 /\ (i <= n \/ i = n + 1) /\ ~(n + 1 <= n) /\ (n + 1) - n = 1
      BY <1>3
    <3>2. QED
      BY <1>4, <1>5, <3>1
  <2>2. ASSUME NEW i \in 1 .. n + m + 1, i > n PROVE i - n \in 1 .. m + 1 /\ ct[i] = bt[i - n]
    BY <1>3, <2>2
  <2>3. QED
    BY <2>1, <2>2
<1>7. ct \in [1 .. n + m + 1 -> Place]
  <2>1. ASSUME NEW i \in 1 .. n + m + 1 PROVE ct[i] \in Place
    <3>1. CASE i <= n
      <4>1. i \in 1 .. n + 1
        BY <1>3, <3>1
      <4>2. QED
        BY <1>4, <1>6, <4>1
    <3>2. CASE i > n
      BY <1>5, <1>6, <3>2
    <3>3. QED
      BY <1>3, <3>1, <3>2
  <2>2. ct = [i \in 1 .. n + m + 1 |-> ct[i]]
    OBVIOUS
  <2> HIDE DEF ct
  <2>3. QED
    BY <2>1, <2>2
<1>8. ct[1] = p /\ ct[n + m + 1] = r
  <2>1. 1 \in 1 .. n + 1 /\ n + m + 1 \in 1 .. n + m + 1 /\ n + m + 1 > n /\ (n + m + 1) - n = m + 1
    BY <1>3
  <2>2. QED
    BY <1>4, <1>5, <1>6, <2>1
<1> HIDE DEF ct
<1>9. ASSUME NEW i \in 1 .. n + m PROVE Leads(pt, lines, ct[i], u[i], ct[i + 1])
  <2>1. CASE i <= n
    <3>1. i \in 1 .. n /\ i \in 1 .. n + 1 /\ i + 1 \in 1 .. n + 1
      BY <1>3, <2>1
    <3>2. QED
      BY <1>3, <1>4, <1>6, <3>1
  <2>2. CASE i > n
    <3>1. /\ i - n \in 1 .. m /\ i \in 1 .. n + m + 1 /\ i + 1 \in 1 .. n + m + 1 /\ i + 1 > n
          /\ (i + 1) - n = (i - n) + 1
      BY <1>3, <2>2
    <3>2. u[i] = t[i - n] /\ ct[i] = bt[i - n] /\ ct[i + 1] = bt[(i - n) + 1]
      BY <1>3, <1>6, <2>2, <3>1
    <3>3. QED
      BY <1>5, <3>1, <3>2
  <2>3. QED
    BY <1>3, <2>1, <2>2
<1>10. By(ct, pt, lines, p, u, r)
  BY <1>3, <1>7, <1>8, <1>9 DEF By
<1>11. QED
  BY <1>10 DEF Way, u

LEMMA FirstByte ==
  ASSUME NEW pt, NEW lines, NEW p, NEW s \in Seq(Byte), s # << >>, NEW q,
         Way(pt, lines, p, s, q)
  PROVE  \E m \in Place : Leads(pt, lines, p, Head(s), m) /\ Way(pt, lines, m, Tail(s), q)
<1>1. PICK at : By(at, pt, lines, p, s, q)
  BY DEF Way
<1> DEFINE n == Len(s)
           t == Tail(s)
           bt == [i \in 1 .. n |-> at[i + 1]]
<1>2. /\ n \in Nat \ {0} /\ Len(t) = n - 1 /\ Head(s) = s[1]
      /\ \A i \in 1 .. n - 1 : t[i] = s[i + 1]
  OBVIOUS
<1>3. /\ at \in [1 .. n + 1 -> Place] /\ at[1] = p /\ at[n + 1] = q
      /\ \A i \in 1 .. n : Leads(pt, lines, at[i], s[i], at[i + 1])
  BY <1>1 DEF By
<1> HIDE DEF n, t
<1>4. bt \in [1 .. n -> Place] /\ bt[1] = at[2] /\ bt[n] = q
  BY <1>2, <1>3
<1>5. ASSUME NEW i \in 1 .. n - 1 PROVE Leads(pt, lines, bt[i], t[i], bt[i + 1])
  <2>1. i \in 1 .. n /\ i + 1 \in 1 .. n
    BY <1>2
  <2>2. QED
    BY <1>2, <1>3, <2>1
<1>6. By(bt, pt, lines, at[2], t, q)
  <2>1. Len(t) + 1 = n
    BY <1>2
  <2> HIDE DEF bt
  <2>2. QED
    BY <1>2, <1>4, <1>5, <2>1 DEF By
<1>7. at[2] \in Place /\ Leads(pt, lines, p, s[1], at[2])
  <2>1. 1 \in 1 .. n /\ 2 \in 1 .. n + 1
    BY <1>2
  <2>2. QED
    BY <1>3, <2>1
<1>8. QED
  BY <1>2, <1>6, <1>7 DEF Way, t

LEMMA Spots ==
  ASSUME NEW d \in Nat, NEW i \in Nat, NEW b \in Nat
  PROVE  /\ Spot(d, i, b) \in Place
         /\ Spot(d, i, b).done = d /\ Spot(d, i, b).part = i
         /\ Spot(d, i, b).beats = b /\ ~Spot(d, i, b).half
BY DEF Spot, Place

\* The way through a line.
LEMMA LineWay ==
  ASSUME NEW pt, NEW lines \in Seq(Texts), NEW n \in 1 .. MaxLines, n \in 1 .. Len(lines),
         NEW beats \in Nat
  PROVE  Way(pt, lines, Spot(n - 1, 0, beats), Bytes(lines[n], n) \o << Newline >>, Spot(n, 0, beats))
<1> DEFINE text == lines[n]
           k == Len(text)
           s == Bytes(text, n)
           P(i) == Spot(n - 1, i, beats)
           end == Spot(n, 0, beats)
           at == [i \in 1 .. k + 1 |-> P(i - 1)]
<1>1. /\ text \in Texts /\ k \in Nat /\ s \in Seq(Byte) /\ Len(s) = k
      /\ \A i \in 1 .. k : s[i] = [kind |-> text[i], of |-> n]
  <2>1. text \in Texts
    OBVIOUS
  <2>2. text \in Seq(Char)
    BY <2>1, FramerAssumption
  <2>3. QED
    BY <2>1, <2>2, BytesOfLine DEF Bytes
<1>2. \A i \in Nat : /\ P(i) \in Place
                     /\ P(i).done = n - 1 /\ P(i).part = i /\ P(i).beats = beats /\ ~P(i).half
  BY Spots
<1>3. end \in Place /\ end.done = n /\ end.part = 0 /\ end.beats = beats /\ ~end.half
  BY Spots
<1>4. n - 1 < Len(lines) /\ (n - 1) + 1 = n
  OBVIOUS
<1> HIDE DEF text, k, s, P, end
<1>5. ASSUME NEW i \in 1 .. k PROVE Leads(pt, lines, P(i - 1), s[i], P(i))
  <2>1. i - 1 \in Nat /\ i \in Nat /\ i - 1 < k /\ (i - 1) + 1 = i
    BY <1>1
  <2> DEFINE p == P(i - 1)
             q == P(i)
  <2>2. /\ p.done = n - 1 /\ p.part = i - 1 /\ p.beats = beats /\ ~p.half
        /\ q.done = n - 1 /\ q.part = i /\ q.beats = beats /\ ~q.half
    BY <1>2, <2>1
  <2> HIDE DEF p, q
  <2>3. lines[p.done + 1] = text /\ p.done + 1 = n /\ p.part + 1 = i
    BY <1>4, <2>1, <2>2 DEF text
  <2>4. AtLetter(lines, p)
    BY <1>4, <2>1, <2>2, <2>3 DEF AtLetter, k
  <2>5. s[i] = [kind |-> lines[p.done + 1][p.part + 1], of |-> p.done + 1]
    BY <1>1, <2>3
  <2>6. Leads(pt, lines, p, s[i], q)
    BY <2>1, <2>2, <2>4, <2>5 DEF Leads
  <2>7. QED
    BY <2>6 DEF p, q
<1>6. Leads(pt, lines, P(k), Newline, end)
  <2> DEFINE p == P(k)
  <2>1. p.done = n - 1 /\ p.part = k /\ p.beats = beats /\ ~p.half
    BY <1>1, <1>2
  <2> HIDE DEF p
  <2>2. lines[p.done + 1] = text /\ p.done + 1 = n
    BY <1>4, <2>1 DEF text
  <2>3. AtEnd(lines, p)
    BY <1>4, <2>1, <2>2 DEF AtEnd, k
  <2>4. Leads(pt, lines, p, Newline, end)
    BY <1>3, <2>1, <2>2, <2>3 DEF Leads
  <2>5. QED
    BY <2>4 DEF p
<1>7. Way(pt, lines, P(0), s, P(k))
  <2>1. at \in [1 .. k + 1 -> Place]
    BY <1>1, <1>2
  <2>2. at[1] = P(0) /\ at[k + 1] = P(k)
    BY <1>1
  <2>3. \A i \in 1 .. k : at[i] = P(i - 1) /\ at[i + 1] = P(i)
    BY <1>1
  <2> HIDE DEF at
  <2>4. By(at, pt, lines, P(0), s, P(k))
    BY <1>1, <1>5, <2>1, <2>2, <2>3 DEF By
  <2>5. QED
    BY <2>4 DEF Way
<1>8. Way(pt, lines, P(k), << Newline >>, end)
  BY <1>1, <1>2, <1>3, <1>6, OneByte, Marks
<1>9. Way(pt, lines, P(0), s \o << Newline >>, end)
  <2>1. << Newline >> \in Seq(Byte)
    BY Marks
  <2>2. QED
    BY <1>1, <1>7, <1>8, <2>1, WayOn
<1>10. QED
  BY <1>9 DEF P, end, s, text

\* Lines that are sent later do not change the way so far.
LEMMA SameWay ==
  ASSUME NEW pt, NEW lines, NEW more, NEW p, NEW s, NEW q, Len(lines) \in Nat,
         Len(more) = Len(lines) + 1, \A i \in 1 .. Len(lines) : more[i] = lines[i],
         Way(pt, lines, p, s, q)
  PROVE  Way(pt, more, p, s, q)
<1>1. PICK at : By(at, pt, lines, p, s, q)
  BY DEF Way
<1>2. ASSUME NEW i \in 1 .. Len(s) PROVE Leads(pt, more, at[i], s[i], at[i + 1])
  <2>1. at[i].done \in Nat /\ Leads(pt, lines, at[i], s[i], at[i + 1])
    BY <1>1 DEF By, Place
  <2>2. ASSUME NEW k \in Nat, k < Len(lines)
        PROVE  k < Len(more) /\ more[k + 1] = lines[k + 1]
    BY <2>2
  <2>3. QED
    BY <2>1, <2>2 DEF Leads, AtLetter, AtEnd
<1>3. QED
  BY <1>1, <1>2 DEF By, Way

-----------------------------------------------------------------------------
(* The way of the reader *)

AllShort(n) == \A i \in 1 .. n : Short(sent[i])
Given(n) == heard = [i \in 1 .. n |-> Bytes(sent[i], i)]

\* The reader has come to p.  A chain port with an overlong line behind it has handed on
\* the lines before that one.
ReadTo(p) ==
  /\ ~p.half /\ p.beats = beatsHeard
  /\ p.done <= Len(sent) /\ (p.part # 0 => p.done < Len(sent))
  /\ ~overflow =>
       /\ Len(line) = p.part
       /\ \A i \in 1 .. p.part : line[i] = [kind |-> sent[p.done + 1][i], of |-> p.done + 1]
  /\ port = "usb" =>
       /\ heard = ShortLines[p.done]
       /\ overflow => p.done < Len(sent) /\ ~Short(sent[p.done + 1])
  /\ port = "chain" =>
       \E n \in 0 .. p.done : /\ AllShort(n) /\ Given(n)
                              /\ ~overflow => n = p.done
                              /\ overflow => n < Len(sent) /\ ~Short(sent[n + 1])

\* From there the stream leads to where the sender is now.
Traced ==
  \E p \in Place : ReadTo(p) /\ Way(port, sent, p, Stream, Spot(Len(sent), 0, beatsSent))

TracedInv ==
  /\ port = "usb" => beatsSent = 0 /\ beatsHeard = 0 /\ (flips = 0 => isMaster)
  /\ faults = 0 /\ flips = 0 /\ ~TakenForCommand => Traced

LEMMA ShortLinesKept ==
  ASSUME Len(sent) \in Nat, \A i \in 1 .. Len(sent) : sent'[i] = sent[i]
  PROVE  \A n \in 0 .. Len(sent) : ShortLines'[n] = ShortLines[n]
<1> DEFINE L == Len(sent)
           T == {n \in Nat : n <= L => ShortLines'[n] = ShortLines[n]}
<1>1. /\ ShortLines'[0] = << >>
      /\ \A n \in Nat : ShortLines'[n + 1] = WithLine(sent'[n + 1], n + 1, ShortLines'[n])
  <2>1. (/\ ShortLines[0] = << >>
         /\ \A n \in Nat : ShortLines[n + 1] = WithLine(sent[n + 1], n + 1, ShortLines[n]))'
    BY ShortLinesSteps, PTL
  <2>2. QED
    BY <2>1 DEF WithLine, Short
<1>2. 0 \in T
  BY <1>1, ShortLinesSteps
<1>3. ASSUME NEW n \in T PROVE n + 1 \in T
  <2>1. n \in Nat /\ n + 1 \in Nat
    OBVIOUS
  <2>2. CASE n + 1 <= L
    <3>1. n <= L /\ n + 1 \in 1 .. L
      BY <2>1, <2>2
    <3>2. ShortLines'[n] = ShortLines[n] /\ sent'[n + 1] = sent[n + 1]
      BY <3>1
    <3>3. ShortLines'[n + 1] = ShortLines[n + 1]
      BY <1>1, <2>1, <3>2, ShortLinesSteps
    <3>4. QED
      BY <2>1, <3>3
  <2>3. QED
    BY <2>1, <2>2
<1> HIDE DEF T
<1>4. \A n \in Nat : n \in T
  <2>1. T \in SUBSET Nat
    BY DEF T
  <2>2. QED
    BY <1>2, <1>3, <2>1, Induction
<1>5. \A n \in 0 .. Len(sent) : n \in Nat /\ n <= L
  OBVIOUS
<1>6. QED
  BY <1>4, <1>5 DEF T

LEMMA LetterOf ==
  ASSUME NEW lines \in Seq(Texts), NEW p \in Place, AtLetter(lines, p)
  PROVE  LET b == [kind |-> lines[p.done + 1][p.part + 1], of |-> p.done + 1] IN
         Printable(b) /\ b # Newline /\ b # Beat /\ b # Index
<1>1. p.done + 1 \in 1 .. Len(lines) /\ p.part \in Nat
  BY DEF AtLetter, Place
<1>2. lines[p.done + 1] \in Seq(Char)
  BY <1>1, FramerAssumption
<1>3. lines[p.done + 1][p.part + 1] \in Char
  BY <1>1, <1>2 DEF AtLetter
<1>4. QED
  BY <1>3, NotPrintable DEF Printable

LEMMA ReadLetter ==
  ASSUME TypeOK, NEW p \in Place, NEW q \in Place, ReadTo(p), AtLetter(sent, p), NEW b,
         b = [kind |-> sent[p.done + 1][p.part + 1], of |-> p.done + 1],
         q.done = p.done, q.part = p.part + 1, q.beats = p.beats, ~q.half, Frame(b),
         sent' = sent, port' = port, beatsHeard' = beatsHeard
  PROVE  ReadTo(q)'
<1>1. Printable(b) /\ b # Newline
  BY LetterOf DEF TypeOK
<1>2. /\ p.done \in Nat /\ p.part \in Nat /\ Len(sent) \in Nat
      /\ p.done < Len(sent) /\ p.part < Len(sent[p.done + 1])
  BY DEF TypeOK, Place, AtLetter
<1>3. /\ ~q.half /\ q.beats = beatsHeard' /\ q.done <= Len(sent')
      /\ q.part # 0 => q.done < Len(sent')
      /\ ShortLines'[p.done] = ShortLines[p.done]
  BY <1>2, ShortLinesKept DEF ReadTo
<1>4. CASE overflow /\ UNCHANGED <<line, overflow, heard>>
  BY <1>3, <1>4 DEF ReadTo, AllShort, Given
<1>5. CASE ~overflow /\ Fits(Len(line)) /\ line' = Append(line, b) /\ overflow' = FALSE
           /\ heard' = heard
  <2>1. line \in Seq(Byte) /\ Len(line) = p.part
    BY <1>5 DEF ReadTo, TypeOK
  <2>2. /\ Len(line') = q.part /\ line'[p.part + 1] = b
        /\ \A i \in 1 .. p.part : line'[i] = line[i]
    BY <1>5, <2>1
  <2>3. ASSUME NEW i \in 1 .. q.part
        PROVE  line'[i] = [kind |-> sent'[q.done + 1][i], of |-> q.done + 1]
    <3>1. i \in 1 .. p.part \/ i = p.part + 1
      BY <1>2
    <3>2. i \in 1 .. p.part => line[i] = [kind |-> sent[p.done + 1][i], of |-> p.done + 1]
      BY <1>5 DEF ReadTo
    <3>3. QED
      BY <2>2, <3>1, <3>2
  <2>4. QED
    BY <1>3, <1>5, <2>2, <2>3 DEF ReadTo, AllShort, Given
<1>6. CASE ~overflow /\ ~Fits(Len(line)) /\ overflow' = TRUE /\ heard' = heard
  <2>1. ~Short(sent[p.done + 1])
    <3>1. Len(line) = p.part /\ Len(sent[p.done + 1]) \in Nat
      <4>1. sent[p.done + 1] \in Seq(Char)
        BY <1>2, FramerAssumption DEF TypeOK
      <4>2. QED
        BY <1>6, <4>1 DEF ReadTo
    <3>2. QED
      BY <1>2, <1>6, <3>1, FramerAssumption DEF Fits, Short
  <2>2. port = "chain" => p.done \in 0 .. p.done /\ AllShort(p.done) /\ Given(p.done)
    BY <1>2, <1>6 DEF ReadTo
  <2>3. QED
    BY <1>2, <1>3, <1>6, <2>1, <2>2 DEF ReadTo, AllShort, Given, Short
<1>7. QED
  BY <1>1, <1>4, <1>5, <1>6 DEF Frame, Skipped, Discarding

LEMMA NextGiven ==
  ASSUME TypeOK, NEW n \in Nat, Given(n), sent' = sent,
         heard' = Append(heard, Bytes(sent[n + 1], n + 1))
  PROVE  Given(n + 1)'
<1> DEFINE S == {Bytes(sent[i], i) : i \in 1 .. n + 1}
           B(i) == Bytes(sent[i], i)
<1>1. \A i \in 1 .. n + 1 : B(i) \in S
  OBVIOUS
<1>2. heard = [i \in 1 .. n |-> B(i)] /\ heard' = Append(heard, B(n + 1))
  BY DEF Given
<1> HIDE DEF S, B
<1>3. heard' = [i \in 1 .. n + 1 |-> B(i)]
  <2>1. heard \in Seq(S) /\ Len(heard) = n
    BY <1>1, <1>2
  <2>2. B(n + 1) \in S
    BY <1>1
  <2>3. /\ heard' \in Seq(S) /\ Len(heard') = n + 1 /\ heard'[n + 1] = B(n + 1)
        /\ \A i \in 1 .. n : heard'[i] = heard[i]
    BY <1>2, <2>1, <2>2
  <2>4. \A i \in 1 .. n + 1 : heard'[i] = B(i)
    <3>1. \A i \in 1 .. n + 1 : i \in 1 .. n \/ i = n + 1
      OBVIOUS
    <3>2. QED
      BY <1>2, <2>3, <3>1
  <2>5. QED
    BY <2>3, <2>4
<1>4. QED
  BY <1>3 DEF Given, B, Bytes

LEMMA ReadNewline ==
  ASSUME TypeOK, NEW p \in Place, NEW q \in Place, ReadTo(p), AtEnd(sent, p), Frame(Newline),
         q.done = p.done + 1, q.part = 0, q.beats = p.beats, ~q.half,
         sent' = sent, port' = port, beatsHeard' = beatsHeard
  PROVE  ReadTo(q)'
<1> DEFINE d == p.done
<1>1. /\ d \in Nat /\ p.part \in Nat /\ Len(sent) \in Nat /\ d < Len(sent)
      /\ d + 1 \in 1 .. Len(sent) /\ sent \in Seq(Texts) /\ p.part = Len(sent[d + 1])
  BY DEF TypeOK, Place, AtEnd
<1>2. sent[d + 1] \in Seq(Char) /\ p.part # 0
  <2>1. sent[d + 1] \in Seq(Char) /\ sent[d + 1] # << >>
    BY <1>1, FramerAssumption
  <2>2. QED
    BY <1>1, <2>1
<1>3. /\ ~q.half /\ q.beats = beatsHeard' /\ q.done <= Len(sent')
      /\ q.part # 0 => q.done < Len(sent')
      /\ ShortLines'[d] = ShortLines[d] /\ ShortLines'[d + 1] = ShortLines[d + 1]
  BY <1>1, ShortLinesKept DEF ReadTo
<1>4. ShortLines[d + 1] = WithLine(sent[d + 1], d + 1, ShortLines[d])
  BY <1>1, ShortLinesSteps
<1>5. CASE overflow
  <2>1. line = << >> /\ ~Printable(Newline)
    BY <1>5, NotPrintable DEF TypeOK
  <2>2. CASE port = "chain"
    <3>1. UNCHANGED <<line, overflow, heard>>
      BY <2>1, <2>2 DEF Frame, Skipped
    <3>2. PICK n \in 0 .. d : AllShort(n) /\ Given(n) /\ n < Len(sent) /\ ~Short(sent[n + 1])
      BY <1>5, <2>2 DEF ReadTo
    <3>3. n \in 0 .. q.done
      BY <1>1
    <3>4. QED
      BY <1>3, <1>5, <2>2, <3>1, <3>2, <3>3 DEF ReadTo, AllShort, Given, Short
  <2>3. CASE port = "usb"
    <3>1. line' = << >> /\ overflow' = FALSE /\ heard' = heard
      BY <1>5, <2>3 DEF Frame, Skipped, Dropped
    <3>2. heard = ShortLines[d] /\ ~Short(sent[d + 1])
      BY <1>5, <2>3 DEF ReadTo
    <3>3. heard' = ShortLines'[d + 1]
      BY <1>3, <1>4, <3>1, <3>2 DEF WithLine
    <3>4. Len(line') = q.part /\ 1 .. q.part = {}
      BY <3>1
    <3>5. QED
      BY <1>3, <2>3, <3>1, <3>3, <3>4 DEF ReadTo
  <2>4. QED
    BY <2>2, <2>3 DEF TypeOK
<1>6. CASE ~overflow
  <2> DEFINE B == Bytes(sent[d + 1], d + 1)
  <2>1. line \in Seq(Byte) /\ Len(line) = p.part /\ Len(line) < SERIAL_BUF_SIZE
        /\ \A i \in 1 .. p.part : line[i] = [kind |-> sent[d + 1][i], of |-> d + 1]
    BY <1>6 DEF ReadTo, TypeOK
  <2>2. B = [i \in 1 .. p.part |-> [kind |-> sent[d + 1][i], of |-> d + 1]]
    BY <1>1, <1>2 DEF Bytes
  <2>3. line = B
    <3>1. line = [i \in 1 .. p.part |-> line[i]]
      BY <2>1
    <3> HIDE DEF B
    <3>2. QED
      BY <2>1, <2>2, <3>1
  <2>4. line # << >>
    BY <1>2, <2>1
  <2>5. Short(sent[d + 1])
    BY <1>1, <2>1 DEF Short
  <2>6. line' = << >> /\ overflow' = FALSE /\ heard' = Append(heard, B)
    <3>1. ~Skipped(Newline) /\ ~Dropped
      BY <1>6, <2>4 DEF Skipped, Dropped
    <3> HIDE DEF B
    <3>2. QED
      BY <2>3, <3>1 DEF Frame
  <2>7. Len(line') = q.part /\ 1 .. q.part = {}
    BY <2>6
  <2>8. port = "usb" => heard' = ShortLines'[q.done]
    <3>1. port = "usb" => heard = ShortLines[d]
      BY DEF ReadTo
    <3> HIDE DEF B
    <3>2. QED
      BY <1>3, <1>4, <2>5, <2>6, <3>1 DEF WithLine, B
  <2>9. port = "chain" => AllShort(d + 1)' /\ Given(d + 1)'
    <3>1. port = "chain" => AllShort(d) /\ Given(d)
      BY <1>6 DEF ReadTo
    <3>2. ASSUME port = "chain" PROVE AllShort(d + 1)'
      <4>1. ASSUME NEW i \in 1 .. d + 1 PROVE Short(sent[i])
        <5>1. i \in 1 .. d \/ i = d + 1
          BY <1>1
        <5>2. QED
          BY <2>5, <3>1, <3>2, <5>1 DEF AllShort
      <4>2. QED
        BY <4>1 DEF AllShort, Short
    <3>3. ASSUME port = "chain" PROVE Given(d + 1)'
      BY <1>1, <2>6, <3>1, <3>3, NextGiven
    <3>4. QED
      BY <3>2, <3>3
  <2>10. q.done \in 0 .. q.done /\ q.done = d + 1
    BY <1>1
  <2> HIDE DEF d, B
  <2>11. QED
    BY <1>3, <2>6, <2>7, <2>8, <2>9, <2>10 DEF ReadTo
<1>7. QED
  BY <1>5, <1>6

LEMMA ReadByte ==
  ASSUME TypeOK, NEW p \in Place, NEW q \in Place, ReadTo(p), NEW b, b # Beat \/ port = "usb",
         Leads(port, sent, p, b, q), Frame(b),
         sent' = sent, port' = port, beatsHeard' = beatsHeard
  PROVE  ReadTo(q)'
<1>1. ~p.half
  BY DEF ReadTo
<1>2. CASE /\ AtLetter(sent, p)
           /\ b = [kind |-> sent[p.done + 1][p.part + 1], of |-> p.done + 1]
           /\ q.done = p.done /\ q.part = p.part + 1 /\ q.beats = p.beats /\ ~q.half
  BY <1>2, ReadLetter
<1>3. CASE /\ AtEnd(sent, p) /\ b = Newline
           /\ q.done = p.done + 1 /\ q.part = 0 /\ q.beats = p.beats /\ ~q.half
  BY <1>3, ReadNewline
<1>4. QED
  BY <1>1, <1>2, <1>3 DEF Leads

\* Both bytes of a heartbeat.
LEMMA ReadBeat ==
  ASSUME NEW p \in Place, NEW m \in Place, NEW q \in Place, ReadTo(p), NEW c,
         Leads(port, sent, p, Beat, m), Leads(port, sent, m, c, q), TypeOK,
         sent' = sent, port' = port,
         beatsHeard' = IF c = Index THEN beatsHeard + 1 ELSE beatsHeard,
         line' = line, overflow' = overflow, heard' = heard
  PROVE  c = Index /\ ReadTo(q)'
<1>1. ~p.half
  BY DEF ReadTo
<1>2. Beat # Newline /\ (AtLetter(sent, p) => [kind |-> sent[p.done + 1][p.part + 1], of |-> p.done + 1] # Beat)
  BY LetterOf DEF TypeOK, Beat, Newline
<1>3. m.done = p.done /\ m.part = p.part /\ m.beats = p.beats /\ m.half
  BY <1>1, <1>2 DEF Leads
<1>4. c = Index /\ q.done = p.done /\ q.part = p.part /\ q.beats = p.beats + 1 /\ ~q.half
  BY <1>3 DEF Leads, AtLetter, AtEnd
<1>5. p.done \in 0 .. Len(sent)
  BY DEF ReadTo, TypeOK, Place
<1>6. ShortLines'[p.done] = ShortLines[p.done]
  BY <1>5, ShortLinesKept DEF TypeOK
<1>7. QED
  BY <1>4, <1>6 DEF ReadTo, AllShort, Given

LEMMA ReadSame ==
  ASSUME TypeOK, NEW p \in Place, ReadTo(p),
         port' = port, line' = line, overflow' = overflow, heard' = heard,
         beatsHeard' = beatsHeard, Len(sent') \in Nat, Len(sent) <= Len(sent'),
         \A i \in 1 .. Len(sent) : sent'[i] = sent[i]
  PROVE  ReadTo(p)'
<1>1. Len(sent) \in Nat /\ p.done \in Nat /\ p.part \in Nat /\ p.done <= Len(sent)
  BY DEF TypeOK, Place, ReadTo
<1>2. p.done < Len(sent) => p.done < Len(sent') /\ sent'[p.done + 1] = sent[p.done + 1]
  BY <1>1
<1>3. ShortLines'[p.done] = ShortLines[p.done]
  BY <1>1, ShortLinesKept
<1>4. ~overflow' => \A i \in 1 .. p.part : line'[i] = [kind |-> sent'[p.done + 1][i], of |-> p.done + 1]
  <2>1. ASSUME ~overflow', NEW i \in 1 .. p.part
        PROVE  line'[i] = [kind |-> sent'[p.done + 1][i], of |-> p.done + 1]
    <3>1. p.part # 0
      BY <1>1, <2>1
    <3>2. sent'[p.done + 1] = sent[p.done + 1]
      BY <1>2, <3>1 DEF ReadTo
    <3>3. line[i] = [kind |-> sent[p.done + 1][i], of |-> p.done + 1]
      BY <2>1 DEF ReadTo
    <3>4. QED
      BY <3>2, <3>3
  <2>2. QED
    BY <2>1
<1>5. ASSUME port = "chain"
      PROVE  \E n \in 0 .. p.done : /\ AllShort(n)' /\ Given(n)'
                                    /\ ~overflow' => n = p.done
                                    /\ overflow' => n < Len(sent') /\ ~Short(sent'[n + 1])
  <2>1. PICK n \in 0 .. p.done : /\ AllShort(n) /\ Given(n)
                                 /\ ~overflow => n = p.done
                                 /\ overflow => n < Len(sent) /\ ~Short(sent[n + 1])
    BY <1>5 DEF ReadTo
  <2>2. n <= Len(sent) /\ \A i \in 1 .. n : sent'[i] = sent[i]
    BY <1>1
  <2>3. AllShort(n)'
    BY <2>1, <2>2 DEF AllShort, Short
  <2>4. Given(n)'
    BY <2>1, <2>2 DEF Given, Bytes
  <2>5. n < Len(sent) => n < Len(sent') /\ sent'[n + 1] = sent[n + 1]
    BY <1>1
  <2>6. QED
    BY <2>1, <2>3, <2>4, <2>5
<1>6. ReadTo(p)' <=>
        /\ ~p.half /\ p.beats = beatsHeard'
        /\ p.done <= Len(sent') /\ (p.part # 0 => p.done < Len(sent'))
        /\ ~overflow' =>
             /\ Len(line') = p.part
             /\ \A i \in 1 .. p.part : line'[i] = [kind |-> sent'[p.done + 1][i], of |-> p.done + 1]
        /\ port' = "usb" =>
             /\ heard' = ShortLines'[p.done]
             /\ overflow' => p.done < Len(sent') /\ ~Short(sent'[p.done + 1])
        /\ port' = "chain" =>
             \E n \in 0 .. p.done : /\ AllShort(n)' /\ Given(n)'
                                    /\ ~overflow' => n = p.done
                                    /\ overflow' => n < Len(sent') /\ ~Short(sent'[n + 1])
  BY DEF ReadTo, Short
<1>7. QED
  BY <1>1, <1>2, <1>3, <1>4, <1>5, <1>6 DEF ReadTo

LEMMA Ends == ASSUME TypeOK PROVE Spot(Len(sent), 0, beatsSent) \in Place
BY Spots DEF TypeOK

LEMMA TracedSend ==
  ASSUME TypeOK, TypeOK', Traced, NEW text \in Texts, Send(text)
  PROVE  Traced'
<1> DEFINE n == Len(sent) + 1
           b == Bytes(text, n)
           t == b \o << Newline >>
<1>1. n \in 1 .. MaxLines /\ Len(sent) \in Nat /\ beatsSent \in Nat
  BY FramerAssumption DEF Send, TypeOK
<1>2. wire \in Seq(Byte) /\ b \in Seq(Byte) /\ << Newline >> \in Seq(Byte) /\ Stream \in Seq(Byte)
  BY <1>1, BytesOfLine, Marks, Streaming DEF TypeOK
<1>3. wire' = wire \o b \o << Newline >> /\ rx' = rx
  BY DEF Send
<1>4. /\ sent' \in Seq(Texts) /\ Len(sent') = Len(sent) + 1 /\ sent'[n] = text
      /\ \A i \in 1 .. Len(sent) : sent'[i] = sent[i]
      /\ port' = port /\ beatsSent' = beatsSent
  BY DEF Send, TypeOK
<1> HIDE DEF b
<1>5. t \in Seq(Byte) /\ Stream' = Stream \o t
  <2>1. t \in Seq(Byte) /\ wire' = wire \o t
    BY <1>2, <1>3, Regrouped
  <2> HIDE DEF t
  <2>2. rx \in Seq(Byte)
    BY DEF TypeOK
  <2>3. (rx \o wire) \o t = rx \o (wire \o t)
    BY <1>2, <2>1, <2>2, Regrouped
  <2>4. QED
    BY <1>3, <2>1, <2>3 DEF Stream
<1>6. PICK p \in Place : ReadTo(p) /\ Way(port, sent, p, Stream, Spot(Len(sent), 0, beatsSent))
  BY DEF Traced
<1>7. Way(port, sent', p, Stream, Spot(Len(sent), 0, beatsSent))
  BY <1>1, <1>4, <1>6, SameWay
<1>8. Way(port, sent', Spot(n - 1, 0, beatsSent), Bytes(sent'[n], n) \o << Newline >>,
          Spot(n, 0, beatsSent))
  <2>1. n \in 1 .. Len(sent')
    BY <1>1, <1>4
  <2> HIDE DEF n
  <2>2. QED
    BY <1>1, <1>4, <2>1, LineWay
<1>9. Way(port, sent', Spot(Len(sent), 0, beatsSent), t, Spot(n, 0, beatsSent))
  <2>1. n - 1 = Len(sent)
    BY <1>1
  <2>2. QED
    BY <1>4, <1>8, <2>1 DEF b
<1> HIDE DEF t, n
<1>10. Way(port, sent', p, Stream \o t, Spot(n, 0, beatsSent))
  BY <1>2, <1>5, <1>7, <1>9, WayOn
<1>11. ReadTo(p)'
  <2>1. /\ line' = line /\ overflow' = overflow /\ heard' = heard /\ beatsHeard' = beatsHeard
        /\ Len(sent') \in Nat /\ Len(sent) <= Len(sent')
    BY <1>1, <1>4 DEF Send, framer
  <2>2. QED
    BY <1>4, <1>6, <2>1, ReadSame
<1>12. Way(port', sent', p, Stream', Spot(Len(sent'), 0, beatsSent'))
  BY <1>4, <1>5, <1>10 DEF n
<1>13. QED
  BY <1>11, <1>12 DEF Traced, Stream

LEMMA Pair ==
  ASSUME NEW S, NEW a \in S, NEW b \in S
  PROVE  << a >> \o << b >> = << a, b >>
<1> DEFINE s == << a >> \o << b >>
<1>1. s \in Seq(S) /\ Len(s) = 2 /\ s[1] = a /\ s[2] = b
  OBVIOUS
<1>2. Len(<< a, b >>) = 2 /\ << a, b >> \in Seq(S) /\ << a, b >>[1] = a /\ << a, b >>[2] = b
  OBVIOUS
<1> HIDE DEF s
<1>3. s = << a, b >>
  BY <1>1, <1>2, SeqEqual
<1>4. QED
  BY <1>3 DEF s

LEMMA BeatWay ==
  ASSUME NEW lines, NEW n \in Nat, NEW b \in Nat
  PROVE  Way("chain", lines, Spot(n, 0, b), << Beat, Index >>, Spot(n, 0, b + 1))
<1> DEFINE p == Spot(n, 0, b)
           m == [done |-> n, part |-> 0, beats |-> b, half |-> TRUE]
           q == Spot(n, 0, b + 1)
<1>1. /\ p \in Place /\ p.done = n /\ p.part = 0 /\ p.beats = b /\ ~p.half
      /\ q \in Place /\ q.done = n /\ q.part = 0 /\ q.beats = b + 1 /\ ~q.half
  BY Spots
<1>2. m \in Place /\ m.done = n /\ m.part = 0 /\ m.beats = b /\ m.half
  BY DEF Place
<1> HIDE DEF p, m, q
<1>3. Leads("chain", lines, p, Beat, m) /\ Leads("chain", lines, m, Index, q)
  BY <1>1, <1>2 DEF Leads
<1>4. Way("chain", lines, p, << Beat >>, m) /\ Way("chain", lines, m, << Index >>, q)
  BY <1>1, <1>2, <1>3, OneByte, Marks
<1>5. << Beat >> \in Seq(Byte) /\ << Index >> \in Seq(Byte)
  BY Marks
<1>6. << Beat >> \o << Index >> = << Beat, Index >>
  BY Marks, Pair
<1>7. Way("chain", lines, p, << Beat >> \o << Index >>, q)
  BY <1>4, <1>5, WayOn
<1>8. QED
  BY <1>6, <1>7 DEF p, q

LEMMA TracedBeat ==
  ASSUME TypeOK, TypeOK', Traced, SendBeat
  PROVE  Traced'
<1>1. /\ port = "chain" /\ port' = port /\ sent' = sent /\ rx' = rx
      /\ wire' = wire \o << Beat, Index >> /\ beatsSent' = beatsSent + 1
      /\ line' = line /\ overflow' = overflow /\ heard' = heard /\ beatsHeard' = beatsHeard
  BY DEF SendBeat, framer
<1>2. Len(sent) \in Nat /\ beatsSent \in Nat /\ << Beat, Index >> \in Seq(Byte)
  BY Marks DEF TypeOK
<1>3. Stream' = Stream \o << Beat, Index >> /\ Stream \in Seq(Byte)
  <2>1. rx \in Seq(Byte) /\ wire \in Seq(Byte)
    BY DEF TypeOK
  <2>2. rx' \o wire' = rx \o wire \o << Beat, Index >>
    BY <1>1, <1>2, <2>1, Regrouped
  <2>3. QED
    BY <2>2, Streaming DEF Stream
<1>4. PICK p \in Place : ReadTo(p) /\ Way(port, sent, p, Stream, Spot(Len(sent), 0, beatsSent))
  BY DEF Traced
<1>5. Way(port, sent, Spot(Len(sent), 0, beatsSent), << Beat, Index >>,
          Spot(Len(sent), 0, beatsSent + 1))
  BY <1>1, <1>2, BeatWay
<1>6. Way(port, sent, p, Stream \o << Beat, Index >>, Spot(Len(sent), 0, beatsSent + 1))
  BY <1>2, <1>3, <1>4, <1>5, WayOn
<1>7. ReadTo(p)'
  BY <1>1, <1>2, <1>4, ReadSame
<1>8. Way(port', sent', p, Stream', Spot(Len(sent'), 0, beatsSent'))
  BY <1>1, <1>3, <1>6
<1>9. QED
  BY <1>7, <1>8 DEF Traced, Stream

\* A byte is read, and handled as ReadByte says.
LEMMA TracedRead ==
  ASSUME TypeOK, Traced, rx # << >>, Frame(Head(rx)), Head(rx) # Beat \/ port = "usb",
         rx' = Tail(rx), UNCHANGED <<wire, sent, port, beatsSent, beatsHeard>>
  PROVE  Traced'
<1>1. PICK p \in Place : ReadTo(p) /\ Way(port, sent, p, Stream, Spot(Len(sent), 0, beatsSent))
  BY DEF Traced
<1>2. Stream \in Seq(Byte) /\ Stream # << >> /\ Head(Stream) = Head(rx) /\ Stream' = Tail(Stream)
  BY Consuming, Streaming DEF Stream
<1>3. PICK q \in Place : /\ Leads(port, sent, p, Head(rx), q)
                         /\ Way(port, sent, q, Tail(Stream), Spot(Len(sent), 0, beatsSent))
  BY <1>1, <1>2, FirstByte
<1>4. ReadTo(q)'
  BY <1>1, <1>3, ReadByte
<1>5. Way(port', sent', q, Stream', Spot(Len(sent'), 0, beatsSent'))
  BY <1>2, <1>3
<1>6. QED
  BY <1>4, <1>5 DEF Traced, Stream

LEMMA TracedHearBeat ==
  ASSUME TypeOK, Traced, HearBeat
  PROVE  Traced'
<1>1. PICK p \in Place : ReadTo(p) /\ Way(port, sent, p, Stream, Spot(Len(sent), 0, beatsSent))
  BY DEF Traced
<1>2. /\ rx \in Seq(Byte) /\ Len(rx) >= 2 /\ Head(rx) = Beat /\ rx' = Tail(Tail(rx))
      /\ beatsHeard' = IF rx[2] = Index THEN beatsHeard + 1 ELSE beatsHeard
      /\ UNCHANGED <<wire, sent, port, beatsSent, line, overflow, heard>>
  BY DEF HearBeat, AtBeat, TypeOK, sender
<1>3. rx # << >> /\ Tail(rx) # << >>
  BY <1>2, LongerThanOne
<1>4. /\ Stream \in Seq(Byte) /\ Stream # << >> /\ Head(Stream) = Beat
      /\ Tail(Stream) = Tail(rx) \o wire /\ Tail(Stream) # << >>
      /\ Tail(Tail(rx)) \o wire = Tail(Tail(Stream))
  BY <1>2, <1>3, Consuming, Streaming
<1>5. Head(Tail(Stream)) = rx[2] /\ Tail(Stream) \in Seq(Byte)
  <2>1. Tail(rx) \in Seq(Byte) /\ Head(Tail(rx)) = rx[2] /\ wire \in Seq(Byte)
    BY <1>2, <1>3 DEF TypeOK
  <2> DEFINE s == Tail(rx)
  <2> HIDE DEF s
  <2>2. Head(s \o wire) = Head(s) /\ s \o wire \in Seq(Byte)
    <3>1. s \in Seq(Byte) /\ s # << >> /\ wire \in Seq(Byte)
      BY <1>3, <2>1 DEF s
    <3>2. QED
      BY <3>1, Rest
  <2>3. QED
    BY <1>4, <2>1, <2>2 DEF s
<1>6. PICK m \in Place : /\ Leads(port, sent, p, Beat, m)
                         /\ Way(port, sent, m, Tail(Stream), Spot(Len(sent), 0, beatsSent))
  BY <1>1, <1>4, FirstByte
<1>7. PICK q \in Place : /\ Leads(port, sent, m, rx[2], q)
                         /\ Way(port, sent, q, Tail(Tail(Stream)), Spot(Len(sent), 0, beatsSent))
  BY <1>4, <1>5, <1>6, FirstByte
<1>8. ReadTo(q)'
  BY <1>1, <1>2, <1>6, <1>7, ReadBeat
<1>9. Way(port', sent', q, Stream', Spot(Len(sent'), 0, beatsSent'))
  BY <1>2, <1>4, <1>7 DEF Stream
<1>10. QED
  BY <1>8, <1>9 DEF Traced, Stream

\* Without an 'o' in a line nothing is taken for the command.
LEMMA NoCommand ==
  ASSUME TypeOK, Traced, ~TakenForCommand, port = "usb", rx # << >>
  PROVE  Head(rx).kind # "o"
<1>1. PICK p \in Place : ReadTo(p) /\ Way(port, sent, p, Stream, Spot(Len(sent), 0, beatsSent))
  BY DEF Traced
<1>2. Stream \in Seq(Byte) /\ Stream # << >> /\ Head(Stream) = Head(rx)
  BY Consuming, Streaming
<1>3. PICK q \in Place : Leads(port, sent, p, Head(rx), q)
  BY <1>1, <1>2, FirstByte
<1>4. ASSUME AtLetter(sent, p) PROVE sent[p.done + 1][p.part + 1] # "o"
  <2>1. p.done + 1 \in DOMAIN sent
    BY <1>4 DEF AtLetter, Place, TypeOK
  <2>2. p.part + 1 \in DOMAIN sent[p.done + 1]
    <3>1. sent[p.done + 1] \in Seq(Char)
      BY <2>1, FramerAssumption DEF TypeOK
    <3>2. QED
      BY <1>4, <3>1 DEF AtLetter, Place
  <2>3. QED
    BY <2>1, <2>2 DEF TakenForCommand
<1>5. Newline.kind # "o" /\ Beat.kind # "o" /\ Index.kind # "o"
  BY DEF Newline, Beat, Index
<1>6. QED
  BY <1>3, <1>4, <1>5 DEF Leads

-----------------------------------------------------------------------------
(* WholeLines and BeatsGetThrough *)

LEMMA TracedInit == Init => TracedInv
<1> SUFFICES ASSUME Init PROVE TracedInv
  OBVIOUS
<1>1. /\ Stream = << >> /\ Stream \in Seq(Byte) /\ sent = << >> /\ heard = << >> /\ line = << >>
      /\ overflow = FALSE /\ beatsSent = 0 /\ beatsHeard = 0 /\ Len(sent) = 0
      /\ (port = "usb" => isMaster)
  <2>1. port = "usb" => isMaster
    BY DEF Init
  <2>2. QED
    BY <2>1 DEF Init, Stream
<1> DEFINE p == Spot(0, 0, 0)
<1>2. p \in Place /\ p.done = 0 /\ p.part = 0 /\ p.beats = 0 /\ ~p.half
  BY Spots
<1>3. Way(port, sent, p, Stream, Spot(Len(sent), 0, beatsSent))
  BY <1>1, <1>2, NoWay
<1> HIDE DEF p
<1>4. ReadTo(p)
  <2>1. 0 .. 0 = {0} /\ 1 .. 0 = {} /\ Len(line) = 0
    BY <1>1
  <2>2. AllShort(0) /\ Given(0)
    BY <1>1, <2>1 DEF AllShort, Given
  <2>3. heard = ShortLines[0]
    BY <1>1, ShortLinesSteps
  <2>4. QED
    BY <1>1, <1>2, <2>1, <2>2, <2>3 DEF ReadTo
<1>5. QED
  BY <1>1, <1>2, <1>3, <1>4 DEF TracedInv, Traced

LEMMA TracedNext ==
  ASSUME TypeOK, TypeOK', TracedInv, [Next]_vars
  PROVE  TracedInv'
<1>1. port' = port
  BY DEF Next, vars, Send, SendBeat, Deliver, Lose, Noise, Poll, HearBeat, ReadChain,
     TogglePower, ReadUsb, DrainUsb, ChangeRole, PressPower
<1>2. ASSUME port = "usb"
      PROVE  beatsSent' = 0 /\ beatsHeard' = 0 /\ (flips' = 0 => isMaster')
  <2>1. beatsSent = 0 /\ beatsHeard = 0 /\ (flips = 0 => isMaster) /\ flips \in Nat
    BY <1>2 DEF TracedInv, TypeOK
  <2>2. beatsSent' = beatsSent /\ beatsHeard' = beatsHeard
    BY <1>2 DEF Next, vars, Send, SendBeat, Deliver, Lose, Noise, Poll, HearBeat, ReadChain,
       TogglePower, ReadUsb, DrainUsb, ChangeRole, PressPower, framer, sender
  <2>3. (isMaster' = isMaster /\ flips' = flips) \/ flips' = flips + 1
    BY DEF Next, vars, Send, SendBeat, Deliver, Lose, Noise, Poll, HearBeat, ReadChain,
       TogglePower, ReadUsb, DrainUsb, ChangeRole, PressPower
  <2>4. QED
    BY <2>1, <2>2, <2>3
<1>3. ASSUME faults' = 0, flips' = 0, ~TakenForCommand'
      PROVE  Traced'
  <2>1. faults = 0 /\ flips = 0 /\ ~Lose /\ ~Noise /\ ~ChangeRole /\ ~PressPower
    <3>1. faults \in Nat /\ flips \in Nat
      BY DEF TypeOK
    <3>2. ~Lose /\ ~Noise /\ ~ChangeRole /\ ~PressPower
      BY <1>3, <3>1 DEF Lose, Noise, ChangeRole, PressPower
    <3>3. QED
      BY <1>3, <3>2 DEF Next, vars, Send, SendBeat, Deliver, Poll, HearBeat, ReadChain,
         TogglePower, ReadUsb, DrainUsb
  <2>2. ~TakenForCommand
    <3>1. ASSUME NEW n \in DOMAIN sent PROVE n \in DOMAIN sent' /\ sent'[n] = sent[n]
      <4>1. ASSUME NEW text \in Texts, Send(text) PROVE n \in DOMAIN sent' /\ sent'[n] = sent[n]
        BY <3>1, <4>1 DEF Send, TypeOK
      <4>2. CASE sent' = sent
        BY <3>1, <4>2
      <4>3. QED
        BY <2>1, <4>1, <4>2 DEF Next, vars, SendBeat, Deliver, Poll, HearBeat, ReadChain,
           TogglePower, ReadUsb, DrainUsb, sender
    <3>2. QED
      BY <1>1, <1>3, <3>1 DEF TakenForCommand
  <2>3. Traced
    BY <2>1, <2>2 DEF TracedInv
  <2>4. ASSUME NEW text \in Texts, Send(text) PROVE Traced'
    BY <2>3, <2>4, TracedSend
  <2>5. CASE SendBeat
    BY <2>3, <2>5, TracedBeat
  <2>6. CASE Deliver \/ UNCHANGED vars
    <3>1. Stream' = Stream
      <4>1. CASE Deliver
        <5>1. rx' = Append(rx, Head(wire)) /\ wire' = Tail(wire) /\ wire # << >>
          BY <4>1 DEF Deliver
        <5>2. rx \in Seq(Byte) /\ wire \in Seq(Byte)
          BY DEF TypeOK
        <5>3. QED
          BY <5>1, <5>2, Moved DEF Stream
      <4>2. CASE UNCHANGED vars
        BY <4>2 DEF vars, Stream
      <4>3. QED
        BY <2>6, <4>1, <4>2
    <3>2. /\ port' = port /\ line' = line /\ overflow' = overflow /\ heard' = heard
          /\ sent' = sent /\ beatsSent' = beatsSent /\ beatsHeard' = beatsHeard
      BY <2>6 DEF Deliver, vars, framer, sender
    <3>3. PICK p \in Place : ReadTo(p) /\ Way(port, sent, p, Stream, Spot(Len(sent), 0, beatsSent))
      BY <2>3 DEF Traced
    <3>4. ReadTo(p)'
      <4>1. Len(sent') \in Nat /\ Len(sent) <= Len(sent')
        BY <3>2 DEF TypeOK
      <4>2. QED
        BY <3>2, <3>3, <4>1, ReadSame
    <3>5. Way(port', sent', p, Stream', Spot(Len(sent'), 0, beatsSent'))
      BY <3>1, <3>2, <3>3
    <3>6. QED
      BY <3>4, <3>5 DEF Traced, Stream
  <2>7. CASE HearBeat
    BY <2>3, <2>7, TracedHearBeat
  <2>8. CASE ReadChain
    BY <2>3, <2>8, TracedRead DEF ReadChain, AtBeat, sender
  <2>9. CASE ReadUsb
    BY <2>3, <2>9, TracedRead DEF ReadUsb, sender
  <2>10. CASE TogglePower
    BY <2>2, <2>3, <2>10, NoCommand DEF TogglePower
  <2>11. CASE DrainUsb
    BY <2>1, <2>11 DEF DrainUsb, TracedInv
  <2>12. QED
    BY <2>1, <2>4, <2>5, <2>6, <2>7, <2>8, <2>9, <2>10, <2>11 DEF Next, Poll
<1>4. QED
  BY <1>1, <1>2, <1>3 DEF TracedInv

\* A prefix, said of its elements.
LEMMA PrefixOf ==
  ASSUME NEW S, NEW s \in Seq(S), NEW t \in Seq(S), Len(s) <= Len(t),
         \A i \in 1 .. Len(s) : s[i] = t[i]
  PROVE  IsPrefix(s, t)
<1> DEFINE n == Len(s)
           u == SubSeq(s, 1, n)
           v == SubSeq(t, 1, n)
<1>1. u \in Seq(S) /\ v \in Seq(S) /\ Len(u) = n /\ Len(v) = n
  OBVIOUS
<1>2. \A i \in 1 .. n : u[i] = s[i] /\ v[i] = t[i]
  OBVIOUS
<1> HIDE DEF u, v
<1>3. u = v
  BY <1>1, <1>2, SeqEqual
<1>4. QED
  BY <1>3 DEF IsPrefix, u, v

LEMMA OneMore ==
  ASSUME NEW S, NEW s \in Seq(S), NEW b \in S, NEW t, t = s \/ t = Append(s, b)
  PROVE  t \in Seq(S) /\ Len(s) <= Len(t) /\ \A i \in 1 .. Len(s) : t[i] = s[i]
OBVIOUS

LEMMA ShortLinesPrefix ==
  ASSUME TypeOK, NEW d \in 0 .. Len(sent)
  PROVE  IsPrefix(ShortLines[d], ShortLines[Len(sent)])
<1> DEFINE L == Len(sent)
           S == {Bytes(sent[i], i) : i \in 1 .. L}
           f == ShortLines
           T == {n \in Nat : n <= L => f[n] \in Seq(S)}
           Before(n) == Len(f[d]) <= Len(f[n]) /\ \A i \in 1 .. Len(f[d]) : f[d][i] = f[n][i]
           U == {n \in Nat : d + n <= L => Before(d + n)}
<1>1. L \in Nat /\ d \in Nat
  BY DEF TypeOK
<1>2. /\ f[0] = << >>
      /\ \A n \in Nat : f[n + 1] = f[n] \/ f[n + 1] = Append(f[n], Bytes(sent[n + 1], n + 1))
  BY ShortLinesSteps DEF WithLine
<1>3. \A i \in 1 .. L : Bytes(sent[i], i) \in S
  OBVIOUS
<1> HIDE DEF L, S, f
<1>4. \A n \in Nat : n \in T
  <2>1. 0 \in T
    <3>1. f[0] \in Seq(S)
      BY <1>2
    <3>2. QED
      BY <3>1
  <2>2. ASSUME NEW n \in T PROVE n + 1 \in T
    <3>1. n \in Nat /\ (n + 1 <= L => n <= L /\ n + 1 \in 1 .. L)
      BY <1>1
    <3>2. n + 1 <= L => f[n] \in Seq(S) /\ Bytes(sent[n + 1], n + 1) \in S
      BY <1>3, <3>1
    <3>3. n + 1 <= L => f[n + 1] \in Seq(S)
      BY <1>2, <3>1, <3>2, OneMore
    <3>4. QED
      BY <3>1, <3>3
  <2>3. T \in SUBSET Nat
    OBVIOUS
  <2> HIDE DEF T
  <2>4. QED
    BY <2>1, <2>2, <2>3, Induction
<1>5. \A n \in 0 .. L : f[n] \in Seq(S)
  BY <1>1, <1>4
<1>6. \A n \in Nat : n \in U
  <2>1. 0 \in U
    <3>1. f[d] \in Seq(S)
      BY <1>5 DEF L
    <3>2. Before(d)
      BY <3>1
    <3> HIDE DEF Before
    <3>3. QED
      BY <1>1, <3>2
  <2>2. ASSUME NEW n \in U PROVE n + 1 \in U
    <3>1. n \in Nat /\ d + n \in Nat /\ d + (n + 1) = (d + n) + 1
      BY <1>1
    <3>2. CASE d + (n + 1) <= L
      <4> DEFINE m == d + n
      <4>1. Before(m)
        BY <1>1, <3>1, <3>2
      <4>2. f[m] \in Seq(S) /\ f[m + 1] \in Seq(S) /\ Bytes(sent[m + 1], m + 1) \in S /\ f[d] \in Seq(S)
        <5>1. m \in 0 .. L /\ m + 1 \in 1 .. L /\ m + 1 \in 0 .. L /\ d \in 0 .. L
          BY <1>1, <3>1, <3>2
        <5>2. QED
          BY <1>3, <1>5, <5>1
      <4> HIDE DEF m
      <4>3. m \in Nat
        BY <3>1 DEF m
      <4> DEFINE b == Bytes(sent[m + 1], m + 1)
      <4>4. f[m + 1] = f[m] \/ f[m + 1] = Append(f[m], b)
        BY <1>2, <4>3
      <4>5. b \in S
        BY <4>2
      <4> HIDE DEF b
      <4>6. Len(f[m]) <= Len(f[m + 1]) /\ \A i \in 1 .. Len(f[m]) : f[m + 1][i] = f[m][i]
        BY <4>2, <4>4, <4>5, OneMore
      <4>7. Before(m + 1)
        BY <4>1, <4>2, <4>6
      <4> HIDE DEF Before
      <4>8. QED
        BY <3>1, <4>7 DEF m
    <3>3. QED
      BY <3>1, <3>2
  <2>3. U \in SUBSET Nat
    OBVIOUS
  <2> HIDE DEF U
  <2>4. QED
    BY <2>1, <2>2, <2>3, Induction
<1>7. L - d \in Nat /\ d + (L - d) = L /\ d \in 0 .. L /\ L \in 0 .. L
  BY <1>1 DEF L
<1>8. Before(L)
  <2> HIDE DEF Before
  <2>1. L - d \in U
    BY <1>6, <1>7
  <2>2. QED
    BY <1>1, <1>7, <2>1
<1>9. IsPrefix(f[d], f[L])
  BY <1>5, <1>7, <1>8, PrefixOf
<1>10. QED
  BY <1>9 DEF f, L

\* With no overlong line among them, the short lines are all the lines.
LEMMA ShortLinesAll ==
  ASSUME TypeOK, NEW m \in Nat, AllShort(m)
  PROVE  ShortLines[m] = [i \in 1 .. m |-> Bytes(sent[i], i)]
<1> DEFINE f == ShortLines
           B(i) == Bytes(sent[i], i)
           L(n) == [i \in 1 .. n |-> B(i)]
           T == {n \in Nat : n <= m => f[n] = L(n)}
<1>1. /\ f[0] = << >>
      /\ \A n \in 1 .. m : f[(n - 1) + 1] = Append(f[n - 1], B((n - 1) + 1))
  <2>1. \A n \in 1 .. m : Short(sent[n]) /\ n - 1 \in Nat /\ (n - 1) + 1 = n
    BY DEF AllShort
  <2>2. QED
    BY <2>1, ShortLinesSteps DEF WithLine
<1> HIDE DEF f, B
<1>2. 0 \in T
  <2>1. L(0) = << >>
    OBVIOUS
  <2>2. QED
    BY <1>1, <2>1
<1>3. ASSUME NEW n \in T PROVE n + 1 \in T
  <2>1. n \in Nat /\ (n + 1) - 1 = n
    OBVIOUS
  <2>2. ASSUME n + 1 <= m PROVE f[n + 1] = L(n + 1)
    <3>1. f[n] = L(n) /\ n + 1 \in 1 .. m
      BY <2>1, <2>2
    <3>2. f[n + 1] = Append(L(n), B(n + 1))
      BY <1>1, <2>1, <3>1
    <3>3. Append(L(n), B(n + 1)) = L(n + 1)
      BY <2>1
    <3>4. QED
      BY <3>2, <3>3
  <2>3. QED
    BY <2>1, <2>2
<1>4. T \in SUBSET Nat
  OBVIOUS
<1>5. \A n \in Nat : n \in T
  <2> HIDE DEF T
  <2>1. QED
    BY <1>2, <1>3, <1>4, Induction
<1>6. f[m] = L(m)
  BY <1>5
<1>7. QED
  BY <1>6 DEF f, B

LEMMA WholeNow == TypeOK /\ TracedInv => WholeLines
<1> SUFFICES ASSUME TypeOK, TracedInv, faults = 0, flips = 0, ~TakenForCommand
             PROVE  IsPrefix(heard, Due)
  BY DEF WholeLines, Quiet
<1>1. PICK p \in Place : ReadTo(p)
  BY DEF TracedInv, Traced
<1>2. p.done \in 0 .. Len(sent) /\ Len(sent) \in Nat
  BY <1>1 DEF ReadTo, Place, TypeOK
<1>3. CASE port = "usb"
  BY <1>1, <1>2, <1>3, ShortLinesPrefix DEF ReadTo, Due
<1>4. CASE port = "chain"
  <2>1. PICK n \in 0 .. p.done : AllShort(n) /\ Given(n)
    BY <1>1, <1>4 DEF ReadTo
  <2>2. n \in Nat /\ n \in 0 .. Len(sent)
    BY <1>2
  <2>3. heard = ShortLines[n]
    BY <2>1, <2>2, ShortLinesAll DEF Given
  <2>4. QED
    BY <2>2, <2>3, ShortLinesPrefix DEF Due
<1>5. QED
  BY <1>3, <1>4 DEF TypeOK

LEMMA BeatsNow == TypeOK /\ TracedInv => BeatsGetThrough
<1> SUFFICES ASSUME TypeOK, TracedInv, faults = 0, flips = 0, wire = << >>, rx = << >>
             PROVE  beatsHeard = beatsSent
  BY DEF BeatsGetThrough
<1>1. CASE port = "usb"
  BY <1>1 DEF TracedInv
<1>2. CASE port = "chain"
  <2>1. ~TakenForCommand
    BY <1>2 DEF TakenForCommand
  <2>2. PICK p \in Place : ReadTo(p) /\ Way(port, sent, p, Stream, Spot(Len(sent), 0, beatsSent))
    BY <2>1 DEF TracedInv, Traced
  <2>3. Stream \in Seq(Byte) /\ Stream = << >>
    BY DEF Stream
  <2>4. p = Spot(Len(sent), 0, beatsSent)
    BY <2>2, <2>3, NoWay
  <2>5. QED
    BY <2>2, <2>4 DEF ReadTo, Spot
<1>3. QED
  BY <1>1, <1>2 DEF TypeOK

\* While no byte is lost, no button pressed and no role changed, and no line from USB has
\* an 'o' in it, every line is handed on as it was sent, once and in order, whatever pieces
\* it arrives in and whatever heartbeats lie between, and of an overlong line nothing: for
\* lines, buffers and numbers of lines of any size.
THEOREM LinesWhole == Spec => []WholeLines
<1>1. TypeOK /\ TracedInv /\ [Next]_vars => (TypeOK /\ TracedInv)'
  BY TypesNext, TracedNext
<1>2. Init => TypeOK /\ TracedInv
  BY TypesInit, TracedInit
<1>3. QED
  BY <1>1, <1>2, WholeNow, PTL DEF Spec

\* Under the same conditions every heartbeat sent has been heard once the port is read
\* empty, also through partial, overlong and discarded lines.
THEOREM BeatsThrough == Spec => []BeatsGetThrough
<1>1. TypeOK /\ TracedInv /\ [Next]_vars => (TypeOK /\ TracedInv)'
  BY TypesNext, TracedNext
<1>2. Init => TypeOK /\ TracedInv
  BY TypesInit, TracedInit
<1>3. QED
  BY <1>1, <1>2, BeatsNow, PTL DEF Spec

-----------------------------------------------------------------------------
(* DamageContained.  A fault hits the line whose bytes the wire is about to *)
(* deliver: in it anything may have become of the bytes that are not read   *)
(* yet.  From a line that is not hit they come as they were sent, so its    *)
(* newline gives the framer a fresh start, and the next line, if not hit    *)
(* either, is handed on.                                                    *)

\* Places apart by bytes that were lost, all of them of lines that were hit.
Skips(hit, p, q) ==
  /\ p.done + 1 \in hit
  /\ p.done <= q.done
  /\ \A n \in p.done + 1 .. q.done : n \in hit
  /\ q.done + 1 \in hit \/ (q.part = 0 /\ ~q.half)

\* A byte of a line that is not hit is what was sent; bytes behind it may be lost.
Goes(pt, hit, lines, p, b, q) ==
  \/ Skips(hit, p, q)
  \/ \E m \in Place : Leads(pt, lines, p, b, m) /\ (m = q \/ Skips(hit, m, q))

Along(at, pt, hit, lines, p, s, q) ==
  /\ at \in [1 .. Len(s) + 1 -> Place]
  /\ at[1] = p /\ at[Len(s) + 1] = q
  /\ \A i \in 1 .. Len(s) + 1 : at[i].done <= Len(lines)
  /\ \A i \in 1 .. Len(s) : Goes(pt, hit, lines, at[i], s[i], at[i + 1])
Trail(pt, hit, lines, p, s, q) == \E at : Along(at, pt, hit, lines, p, s, q)

HandedOn(n) == \E i \in DOMAIN heard : heard[i] = Bytes(sent[n], n)

\* Of the first n lines, those are handed on that are not hit and follow one that is not.
Passed(hit, n) ==
  \A k \in 1 .. n : k \notin hit /\ k - 1 \notin hit /\ Short(sent[k]) => HandedOn(k)

\* The line buffer holds what was sent of the line.
Exact(p) ==
  /\ ~p.half
  /\ ~overflow =>
       /\ Len(line) = p.part /\ (p.part # 0 => p.done < Len(sent))
       /\ \A i \in 1 .. p.part : line[i] = [kind |-> sent[p.done + 1][i], of |-> p.done + 1]
  /\ overflow => p.done < Len(sent) /\ ~Short(sent[p.done + 1])

Reader(hit, p) ==
  /\ Passed(hit, p.done)
  /\ p.done \notin hit /\ p.done + 1 \notin hit => Exact(p)

Hits == {hit \in SUBSET (Nat \ {0}) : IsFiniteSet(hit) /\ Cardinality(hit) <= faults}

Contained ==
  /\ port = "usb" => \A i \in 1 .. Len(rx) : rx[i].kind # "o"
  /\ \E hit \in Hits : \E p, w \in Place :
       /\ Reader(hit, p)
       /\ Trail(port, hit, sent, p, rx, w)
       /\ Way(port, sent, w, wire, Spot(Len(sent), 0, beatsSent))

\* A chain port with an overlong line behind it hands on nothing more.
Deaf == port = "chain" /\ overflow

DamageInv == flips = 0 /\ ~TakenForCommand /\ ~Deaf => Contained

\* Bytes lost here and there.
LEMMA SkipsOn ==
  ASSUME NEW hit, NEW p \in Place, NEW m \in Place, NEW q \in Place,
         Skips(hit, p, m), Skips(hit, m, q)
  PROVE  Skips(hit, p, q)
<1>1. p.done \in Nat /\ m.done \in Nat /\ q.done \in Nat
  BY DEF Place
<1>2. ASSUME NEW n \in p.done + 1 .. q.done PROVE n \in hit
  <2>1. n \in p.done + 1 .. m.done \/ n \in m.done + 1 .. q.done
    BY <1>1
  <2>2. QED
    BY <2>1 DEF Skips
<1>3. p.done <= q.done
  BY <1>1 DEF Skips
<1>4. QED
  BY <1>2, <1>3 DEF Skips

\* A byte that is lost.
LEMMA SkipOne ==
  ASSUME NEW pt, NEW hit, NEW lines, NEW p \in Place, NEW b, NEW q \in Place,
         Leads(pt, lines, p, b, q), p.done + 1 \in hit
  PROVE  Skips(hit, p, q)
<1>1. p.done \in Nat /\ q.done \in Nat
  BY DEF Place
<1>2. q.done = p.done \/ (q.done = p.done + 1 /\ q.part = 0 /\ ~q.half)
  BY DEF Leads
<1>3. CASE q.done = p.done
  BY <1>1, <1>3 DEF Skips
<1>4. CASE q.done = p.done + 1 /\ q.part = 0 /\ ~q.half
  <2>1. \A n \in p.done + 1 .. q.done : n = p.done + 1
    BY <1>1, <1>4
  <2>2. p.done <= q.done
    BY <1>1, <1>4
  <2>3. QED
    BY <1>4, <2>1, <2>2 DEF Skips
<1>5. QED
  BY <1>2, <1>3, <1>4

LEMMA SkipNone ==
  ASSUME NEW hit, NEW p \in Place, p.done + 1 \in hit
  PROVE  Skips(hit, p, p)
<1>1. p.done \in Nat /\ p.done + 1 .. p.done = {}
  BY DEF Place
<1>2. QED
  BY <1>1 DEF Skips

\* Past a line that was hit, or in it.
LEMMA SkipsTo ==
  ASSUME NEW hit, NEW p \in Place, NEW q \in Place, Skips(hit, p, q)
  PROVE  q.done \in hit \/ q.done + 1 \in hit
<1>1. p.done \in Nat /\ q.done \in Nat /\ p.done <= q.done
  BY DEF Place, Skips
<1>2. CASE q.done = p.done
  BY <1>2 DEF Skips
<1>3. CASE q.done # p.done
  <2>1. q.done \in p.done + 1 .. q.done
    BY <1>1, <1>3
  <2>2. QED
    BY <2>1 DEF Skips
<1>4. QED
  BY <1>2, <1>3

LEMMA LeadsOn ==
  ASSUME NEW pt, NEW lines, NEW more, NEW p \in Place, NEW b, NEW q, Leads(pt, lines, p, b, q),
         Len(lines) \in Nat, Len(more) \in Nat, Len(lines) <= Len(more),
         \A i \in 1 .. Len(lines) : more[i] = lines[i]
  PROVE  Leads(pt, more, p, b, q)
<1>1. p.done < Len(lines) => p.done < Len(more) /\ more[p.done + 1] = lines[p.done + 1]
  BY DEF Place
<1>2. QED
  BY <1>1 DEF Leads, AtLetter, AtEnd

\* More lines may be hit, and more are sent.
LEMMA TrailMore ==
  ASSUME NEW pt, NEW hit, NEW more, hit \subseteq more, NEW lines, NEW longer,
         Len(lines) \in Nat, Len(longer) \in Nat, Len(lines) <= Len(longer),
         \A i \in 1 .. Len(lines) : longer[i] = lines[i],
         NEW p, NEW s \in Seq(Byte), NEW q, Trail(pt, hit, lines, p, s, q)
  PROVE  Trail(pt, more, longer, p, s, q)
<1>1. PICK at : Along(at, pt, hit, lines, p, s, q)
  BY DEF Trail
<1>2. ASSUME NEW x, NEW y, Skips(hit, x, y) PROVE Skips(more, x, y)
  BY <1>2 DEF Skips
<1>3. ASSUME NEW i \in 1 .. Len(s) PROVE Goes(pt, more, longer, at[i], s[i], at[i + 1])
  <2>1. at[i] \in Place /\ Goes(pt, hit, lines, at[i], s[i], at[i + 1])
    BY <1>1 DEF Along
  <2>2. CASE Skips(hit, at[i], at[i + 1])
    BY <1>2, <2>2 DEF Goes
  <2>3. CASE \E m \in Place : Leads(pt, lines, at[i], s[i], m) /\ (m = at[i + 1] \/ Skips(hit, m, at[i + 1]))
    <3>1. PICK m \in Place : Leads(pt, lines, at[i], s[i], m) /\ (m = at[i + 1] \/ Skips(hit, m, at[i + 1]))
      BY <2>3
    <3>2. Leads(pt, longer, at[i], s[i], m)
      BY <2>1, <3>1, LeadsOn
    <3>3. QED
      BY <1>2, <3>1, <3>2 DEF Goes
  <2>4. QED
    BY <2>1, <2>2, <2>3 DEF Goes
<1>4. ASSUME NEW i \in 1 .. Len(s) + 1 PROVE at[i].done <= Len(longer)
  <2>1. at[i].done \in Nat /\ at[i].done <= Len(lines)
    BY <1>1 DEF Along, Place
  <2>2. QED
    BY <2>1
<1>5. QED
  BY <1>1, <1>3, <1>4 DEF Along, Trail

LEMMA NoTrail ==
  ASSUME NEW pt, NEW hit, NEW lines, NEW p \in Place, NEW s \in Seq(Byte), s = << >>, NEW q
  PROVE  Trail(pt, hit, lines, p, s, q) <=> p = q /\ p.done <= Len(lines)
<1>1. Len(s) = 0 /\ 1 .. Len(s) + 1 = {1} /\ 1 .. Len(s) = {}
  OBVIOUS
<1>2. ASSUME Trail(pt, hit, lines, p, s, q) PROVE p = q /\ p.done <= Len(lines)
  BY <1>1, <1>2 DEF Trail, Along
<1>3. ASSUME p = q, p.done <= Len(lines) PROVE Trail(pt, hit, lines, p, s, q)
  <2> DEFINE at == [i \in {1} |-> p]
  <2>1. Along(at, pt, hit, lines, p, s, q)
    BY <1>1, <1>3 DEF Along
  <2>2. QED
    BY <2>1 DEF Trail
<1>4. QED
  BY <1>2, <1>3

LEMMA TrailEnds ==
  ASSUME NEW pt, NEW hit, NEW lines, NEW p, NEW s \in Seq(Byte), NEW q,
         Trail(pt, hit, lines, p, s, q)
  PROVE  /\ p \in Place /\ p.done <= Len(lines)
         /\ q \in Place /\ q.done <= Len(lines)
<1>1. PICK at : Along(at, pt, hit, lines, p, s, q)
  BY DEF Trail
<1>2. 1 \in 1 .. Len(s) + 1 /\ Len(s) + 1 \in 1 .. Len(s) + 1
  OBVIOUS
<1>3. QED
  BY <1>1, <1>2 DEF Along

\* A byte is put behind the others.
LEMMA TrailOn ==
  ASSUME NEW pt, NEW hit, NEW lines, NEW p, NEW s \in Seq(Byte), NEW w, NEW b \in Byte,
         NEW q \in Place, q.done <= Len(lines), Goes(pt, hit, lines, w, b, q),
         Trail(pt, hit, lines, p, s, w)
  PROVE  Trail(pt, hit, lines, p, Append(s, b), q)
<1>1. PICK at : Along(at, pt, hit, lines, p, s, w)
  BY DEF Trail
<1> DEFINE n == Len(s)
           t == Append(s, b)
           bt == [i \in 1 .. n + 2 |-> IF i <= n + 1 THEN at[i] ELSE q]
<1>2. /\ n \in Nat /\ Len(t) = n + 1 /\ t[n + 1] = b
      /\ \A i \in 1 .. n : t[i] = s[i]
  OBVIOUS
<1>3. /\ at \in [1 .. n + 1 -> Place] /\ at[1] = p /\ at[n + 1] = w
      /\ \A i \in 1 .. n + 1 : at[i].done <= Len(lines)
      /\ \A i \in 1 .. n : Goes(pt, hit, lines, at[i], s[i], at[i + 1])
  BY <1>1 DEF Along
<1> HIDE DEF n, t
<1>4. /\ \A i \in 1 .. n + 1 : bt[i] = at[i]
      /\ bt[n + 2] = q
  <2>1. ASSUME NEW i \in 1 .. n + 1 PROVE bt[i] = at[i]
    <3>1. i \in 1 .. n + 2 /\ i <= n + 1
      BY <1>2
    <3>2. QED
      BY <3>1
  <2>2. n + 2 \in 1 .. n + 2 /\ ~(n + 2 <= n + 1)
    BY <1>2
  <2>3. QED
    BY <2>1, <2>2
<1>5. ASSUME NEW i \in 1 .. n + 2 PROVE bt[i] \in Place /\ bt[i].done <= Len(lines)
  <2>1. i \in 1 .. n + 1 \/ i = n + 2
    BY <1>2
  <2> HIDE DEF bt
  <2>2. QED
    BY <1>3, <1>4, <2>1
<1>6. bt = [i \in 1 .. n + 2 |-> bt[i]]
  OBVIOUS
<1> HIDE DEF bt
<1>7. bt \in [1 .. n + 2 -> Place]
  BY <1>5, <1>6
<1>8. ASSUME NEW i \in 1 .. n + 1 PROVE Goes(pt, hit, lines, bt[i], t[i], bt[i + 1])
  <2>1. CASE i = n + 1
    <3>1. bt[i] = w /\ t[i] = b /\ i + 1 = n + 2
      BY <1>2, <1>3, <1>4, <2>1
    <3>2. QED
      BY <1>4, <3>1
  <2>2. CASE i # n + 1
    <3>1. i \in 1 .. n /\ i + 1 \in 1 .. n + 1
      BY <1>2, <2>2
    <3>2. bt[i] = at[i] /\ bt[i + 1] = at[i + 1] /\ t[i] = s[i]
      BY <1>2, <1>4, <3>1
    <3>3. QED
      BY <1>3, <3>1, <3>2
  <2>3. QED
    BY <2>1, <2>2
<1>9. bt[1] = p /\ Len(t) + 1 = n + 2 /\ 1 \in 1 .. n + 1
  BY <1>2, <1>3, <1>4
<1>10. Along(bt, pt, hit, lines, p, t, q)
  BY <1>2, <1>4, <1>5, <1>7, <1>8, <1>9 DEF Along
<1>11. QED
  BY <1>10 DEF Trail, t

\* The next bytes of the wire are lost.
LEMMA TrailSkips ==
  ASSUME NEW pt, NEW hit, NEW lines, NEW p, NEW s \in Seq(Byte), s # << >>, NEW w,
         NEW q \in Place, q.done <= Len(lines), Skips(hit, w, q),
         Trail(pt, hit, lines, p, s, w)
  PROVE  Trail(pt, hit, lines, p, s, q)
<1>1. PICK at : Along(at, pt, hit, lines, p, s, w)
  BY DEF Trail
<1> DEFINE n == Len(s)
           bt == [at EXCEPT ![n + 1] = q]
<1>2. n \in Nat \ {0}
  OBVIOUS
<1>3. /\ at \in [1 .. n + 1 -> Place] /\ at[1] = p /\ at[n + 1] = w
      /\ \A i \in 1 .. n + 1 : at[i].done <= Len(lines)
      /\ \A i \in 1 .. n : Goes(pt, hit, lines, at[i], s[i], at[i + 1])
  BY <1>1 DEF Along
<1> HIDE DEF n
<1>4. /\ bt \in [1 .. n + 1 -> Place] /\ bt[n + 1] = q /\ bt[1] = p
      /\ \A i \in 1 .. n : bt[i] = at[i]
  <2>1. n + 1 \in 1 .. n + 1 /\ 1 \in 1 .. n + 1 /\ n + 1 # 1 /\ \A i \in 1 .. n : i \in 1 .. n + 1 /\ i # n + 1
    BY <1>2
  <2>2. QED
    BY <1>3, <2>1
<1> HIDE DEF bt
<1>5. ASSUME NEW i \in 1 .. n + 1 PROVE bt[i].done <= Len(lines)
  <2>1. i = n + 1 \/ i \in 1 .. n
    BY <1>2
  <2>2. QED
    BY <1>3, <1>4, <2>1
<1>6. ASSUME NEW i \in 1 .. n PROVE Goes(pt, hit, lines, bt[i], s[i], bt[i + 1])
  <2>1. Goes(pt, hit, lines, at[i], s[i], at[i + 1]) /\ bt[i] = at[i] /\ at[i] \in Place
    <3>1. i \in 1 .. n + 1
      BY <1>2
    <3>2. QED
      BY <1>3, <1>4, <3>1
  <2>2. CASE i # n
    <3>1. i + 1 \in 1 .. n
      BY <1>2, <2>2
    <3>2. QED
      BY <1>4, <2>1, <3>1
  <2>3. CASE i = n
    <3>1. Goes(pt, hit, lines, at[i], s[i], w) /\ bt[i + 1] = q /\ w \in Place
      <4>1. n + 1 \in 1 .. n + 1
        BY <1>2
      <4>2. QED
        BY <1>3, <1>4, <2>1, <2>3, <4>1
    <3>2. CASE Skips(hit, at[i], w)
      BY <2>1, <3>1, <3>2, SkipsOn DEF Goes
    <3>3. CASE \E m \in Place : Leads(pt, lines, at[i], s[i], m) /\ (m = w \/ Skips(hit, m, w))
      <4>1. PICK m \in Place : Leads(pt, lines, at[i], s[i], m) /\ (m = w \/ Skips(hit, m, w))
        BY <3>3
      <4>2. Skips(hit, m, q)
        BY <3>1, <4>1, SkipsOn
      <4>3. QED
        BY <2>1, <3>1, <4>1, <4>2 DEF Goes
    <3>4. QED
      BY <3>1, <3>2, <3>3 DEF Goes
  <2>4. QED
    BY <2>2, <2>3
<1>7. Along(bt, pt, hit, lines, p, s, q)
  BY <1>4, <1>5, <1>6 DEF Along, n
<1>8. QED
  BY <1>7 DEF Trail

LEMMA TrailHead ==
  ASSUME NEW pt, NEW hit, NEW lines, NEW p, NEW s \in Seq(Byte), s # << >>, NEW q,
         Trail(pt, hit, lines, p, s, q)
  PROVE  \E m \in Place : Goes(pt, hit, lines, p, Head(s), m) /\ Trail(pt, hit, lines, m, Tail(s), q)
<1>1. PICK at : Along(at, pt, hit, lines, p, s, q)
  BY DEF Trail
<1> DEFINE n == Len(s)
           t == Tail(s)
           bt == [i \in 1 .. n |-> at[i + 1]]
<1>2. /\ n \in Nat \ {0} /\ Len(t) = n - 1 /\ Head(s) = s[1]
      /\ \A i \in 1 .. n - 1 : t[i] = s[i + 1]
  OBVIOUS
<1>3. /\ at \in [1 .. n + 1 -> Place] /\ at[1] = p /\ at[n + 1] = q
      /\ \A i \in 1 .. n + 1 : at[i].done <= Len(lines)
      /\ \A i \in 1 .. n : Goes(pt, hit, lines, at[i], s[i], at[i + 1])
  BY <1>1 DEF Along
<1> HIDE DEF n, t
<1>4. bt \in [1 .. n -> Place] /\ bt[1] = at[2] /\ bt[n] = q
  BY <1>2, <1>3
<1>5. ASSUME NEW i \in 1 .. n - 1 PROVE Goes(pt, hit, lines, bt[i], t[i], bt[i + 1])
  <2>1. i \in 1 .. n /\ i + 1 \in 1 .. n
    BY <1>2
  <2>2. QED
    BY <1>2, <1>3, <2>1
<1>6. ASSUME NEW i \in 1 .. n PROVE bt[i].done <= Len(lines)
  <2>1. i + 1 \in 1 .. n + 1
    BY <1>2
  <2>2. QED
    BY <1>3, <2>1
<1>7. Along(bt, pt, hit, lines, at[2], t, q)
  <2>1. Len(t) + 1 = n
    BY <1>2
  <2> HIDE DEF bt
  <2>2. QED
    BY <1>2, <1>4, <1>5, <1>6, <2>1 DEF Along
<1>8. at[2] \in Place /\ Goes(pt, hit, lines, p, s[1], at[2])
  <2>1. 1 \in 1 .. n /\ 2 \in 1 .. n + 1
    BY <1>2
  <2>2. QED
    BY <1>3, <2>1
<1>9. QED
  BY <1>2, <1>7, <1>8 DEF Trail, t

\* What has been handed on remains so.
LEMMA PassedKept ==
  ASSUME TypeOK, NEW hit, NEW more, hit \subseteq more, NEW n \in Nat, n <= Len(sent),
         Passed(hit, n), heard' = heard \/ \E x \in Seq(Byte) : heard' = Append(heard, x),
         Len(sent) <= Len(sent'), Len(sent') \in Nat,
         \A i \in 1 .. Len(sent) : sent'[i] = sent[i]
  PROVE  Passed(more, n)'
<1>1. heard \in Seq(Seq(Byte)) /\ Len(sent) \in Nat
  BY DEF TypeOK
<1>2. \A i \in DOMAIN heard : i \in DOMAIN heard' /\ heard'[i] = heard[i]
  <2>1. ASSUME NEW x \in Seq(Byte), heard' = Append(heard, x), NEW i \in DOMAIN heard
        PROVE  i \in DOMAIN heard' /\ heard'[i] = heard[i]
    BY <1>1, <2>1
  <2>2. QED
    BY <2>1
<1>3. ASSUME NEW k \in 1 .. n, k \notin more, k - 1 \notin more, Short(sent[k])
      PROVE  \E i \in DOMAIN heard' : heard'[i] = Bytes(sent[k], k)
  <2>1. PICK i \in DOMAIN heard : heard[i] = Bytes(sent[k], k)
    BY <1>3 DEF Passed, HandedOn
  <2>2. QED
    BY <1>2, <2>1
<1>4. \A k \in 1 .. n : sent'[k] = sent[k]
  BY <1>1
<1>5. QED
  BY <1>3, <1>4 DEF Passed, HandedOn, Short

LEMMA PassedSkip ==
  ASSUME NEW hit, NEW p \in Place, NEW q \in Place, Skips(hit, p, q), Passed(hit, p.done)
  PROVE  Passed(hit, q.done)
<1>1. ASSUME NEW k \in 1 .. q.done, k \notin hit PROVE k \in 1 .. p.done
  <2>1. k \notin p.done + 1 .. q.done
    BY <1>1 DEF Skips
  <2>2. QED
    BY <2>1 DEF Place
<1>2. QED
  BY <1>1 DEF Passed

\* Behind lost bytes the reader has nothing to answer for.
LEMMA ReaderSkips ==
  ASSUME NEW hit, NEW p \in Place, NEW q \in Place, Skips(hit, p, q), Passed(hit, p.done)
  PROVE  Reader(hit, q)
BY PassedSkip, SkipsTo DEF Reader

\* Nothing has been read.
LEMMA ReaderSame ==
  ASSUME TypeOK, NEW hit, NEW more, hit \subseteq more, NEW p \in Place, p.done <= Len(sent),
         Reader(hit, p), UNCHANGED <<line, overflow, heard>>,
         Len(sent) <= Len(sent'), Len(sent') \in Nat,
         \A i \in 1 .. Len(sent) : sent'[i] = sent[i]
  PROVE  Reader(more, p)'
<1>1. p.done \in Nat /\ p.part \in Nat /\ Len(sent) \in Nat
  BY DEF Place, TypeOK
<1>2. Passed(more, p.done)'
  BY <1>1, PassedKept DEF Reader
<1>3. p.done < Len(sent) => p.done < Len(sent') /\ sent'[p.done + 1] = sent[p.done + 1]
  BY <1>1
<1>4. ASSUME p.done \notin more, p.done + 1 \notin more PROVE Exact(p)'
  <2>1. Exact(p)
    BY <1>4 DEF Reader
  <2>2. CASE overflow
    BY <1>3, <2>1, <2>2 DEF Exact, Short
  <2>3. CASE ~overflow /\ p.part = 0
    BY <1>1, <2>1, <2>3 DEF Exact
  <2>4. CASE ~overflow /\ p.part # 0
    BY <1>3, <2>1, <2>4 DEF Exact
  <2>5. QED
    BY <2>2, <2>3, <2>4
<1>5. QED
  BY <1>2, <1>4 DEF Reader

\* The newline of a line that is not hit: a fresh start.
LEMMA CleanNewline ==
  ASSUME TypeOK, NEW hit, NEW p \in Place, NEW q \in Place, Reader(hit, p),
         p.done + 1 \notin hit, AtEnd(sent, p), Frame(Newline), ~Deaf,
         q.done = p.done + 1, q.part = 0, ~q.half, sent' = sent
  PROVE  Reader(hit, q)'
<1> DEFINE d == p.done
           B == Bytes(sent[d + 1], d + 1)
<1>1. /\ d \in Nat /\ p.part \in Nat /\ Len(sent) \in Nat /\ d < Len(sent)
      /\ d + 1 \in 1 .. Len(sent) /\ sent \in Seq(Texts) /\ p.part = Len(sent[d + 1])
      /\ line \in Seq(Byte) /\ Len(line) < SERIAL_BUF_SIZE /\ heard \in Seq(Seq(Byte))
      /\ d <= Len(sent)
  BY DEF TypeOK, Place, AtEnd
<1>2. sent[d + 1] \in Seq(Char) /\ p.part # 0
  <2>1. sent[d + 1] \in Seq(Char) /\ sent[d + 1] # << >>
    BY <1>1, FramerAssumption
  <2>2. QED
    BY <1>1, <2>1
<1>3. line' = << >> /\ overflow' = FALSE /\ (heard' = heard \/ heard' = Append(heard, line))
  <2>1. CASE Skipped(Newline) /\ UNCHANGED <<line, overflow, heard>>
    BY <2>1 DEF Skipped, Deaf, TypeOK
  <2>2. CASE /\ heard' = (IF Dropped THEN heard ELSE Append(heard, line))
             /\ line' = << >> /\ overflow' = FALSE
    BY <2>2
  <2>3. QED
    BY <2>1, <2>2 DEF Frame
<1>4. Exact(q)'
  <2>1. Len(<< >>) = 0 /\ 1 .. 0 = {}
    OBVIOUS
  <2>2. QED
    BY <1>3, <2>1 DEF Exact
<1>5. Passed(hit, d)'
  <2>1. Passed(hit, d) /\ hit \subseteq hit
    BY DEF Reader
  <2>2. heard' = heard \/ \E x \in Seq(Byte) : heard' = Append(heard, x)
    BY <1>1, <1>3
  <2>3. Len(sent') \in Nat /\ Len(sent) <= Len(sent') /\ \A i \in 1 .. Len(sent) : sent'[i] = sent[i]
    BY <1>1
  <2> HIDE DEF d
  <2>4. QED
    BY <1>1, <2>1, <2>2, <2>3, PassedKept
<1>6. ASSUME d \notin hit, Short(sent[d + 1]) PROVE HandedOn(d + 1)'
  <2>1. Exact(p)
    BY <1>6 DEF Reader
  <2>2. ~overflow
    BY <1>6, <2>1 DEF Exact
  <2>3. Len(line) = p.part /\ \A i \in 1 .. p.part : line[i] = [kind |-> sent[d + 1][i], of |-> d + 1]
    BY <2>1, <2>2 DEF Exact
  <2>4. B = [i \in 1 .. p.part |-> [kind |-> sent[d + 1][i], of |-> d + 1]]
    BY <1>1, <1>2 DEF Bytes
  <2>5. line = B
    <3>1. line = [i \in 1 .. p.part |-> line[i]]
      BY <1>1, <2>3
    <3> HIDE DEF B
    <3>2. QED
      BY <2>3, <2>4, <3>1
  <2>6. line # << >>
    BY <1>1, <1>2, <2>3
  <2>7. heard' = Append(heard, B)
    <3>1. ~Skipped(Newline) /\ ~Dropped
      BY <2>2, <2>6 DEF Skipped, Dropped
    <3> HIDE DEF B
    <3>2. QED
      BY <2>5, <3>1 DEF Frame
  <2>8. Len(heard) + 1 \in DOMAIN heard' /\ heard'[Len(heard) + 1] = B
    <3>1. B \in Seq(Byte)
      BY <1>1, <2>5
    <3> HIDE DEF B
    <3>2. QED
      BY <1>1, <2>7, <3>1
  <2>9. QED
    BY <2>8 DEF HandedOn
<1>7. Passed(hit, d + 1)'
  <2>1. ASSUME NEW k \in 1 .. d + 1, k \notin hit, k - 1 \notin hit, Short(sent[k])
        PROVE  HandedOn(k)'
    <3>1. k \in 1 .. d \/ (k = d + 1 /\ k - 1 = d)
      <4>1. d \in Nat
        BY <1>1
      <4> HIDE DEF d
      <4>2. QED
        BY <4>1
    <3>2. QED
      BY <1>5, <1>6, <2>1, <3>1 DEF Passed, Short
  <2>2. QED
    BY <2>1 DEF Passed, Short
<1>8. QED
  BY <1>4, <1>7 DEF Reader

\* A letter of a line that is not hit, nor the one before.
LEMMA CleanLetter ==
  ASSUME TypeOK, NEW p \in Place, NEW q \in Place, Exact(p), AtLetter(sent, p), NEW b,
         b = [kind |-> sent[p.done + 1][p.part + 1], of |-> p.done + 1],
         q.done = p.done, q.part = p.part + 1, ~q.half, Frame(b), ~Deaf',
         sent' = sent, port' = port
  PROVE  Exact(q)'
<1>1. Printable(b) /\ b # Newline
  BY LetterOf DEF TypeOK
<1>2. /\ p.done \in Nat /\ p.part \in Nat /\ Len(sent) \in Nat
      /\ p.done < Len(sent) /\ p.part < Len(sent[p.done + 1])
  BY DEF TypeOK, Place, AtLetter
<1>3. CASE overflow /\ UNCHANGED <<line, overflow, heard>>
  BY <1>2, <1>3 DEF Exact, Short
<1>4. CASE ~overflow /\ Fits(Len(line)) /\ line' = Append(line, b) /\ overflow' = FALSE
  <2>1. line \in Seq(Byte) /\ Len(line) = p.part
    BY <1>4 DEF Exact, TypeOK
  <2>2. /\ Len(line') = q.part /\ line'[p.part + 1] = b
        /\ \A i \in 1 .. p.part : line'[i] = line[i]
    BY <1>4, <2>1
  <2>3. ASSUME NEW i \in 1 .. q.part
        PROVE  line'[i] = [kind |-> sent'[q.done + 1][i], of |-> q.done + 1]
    <3>1. i \in 1 .. p.part \/ i = p.part + 1
      BY <1>2
    <3>2. i \in 1 .. p.part => line[i] = [kind |-> sent[p.done + 1][i], of |-> p.done + 1]
      BY <1>4 DEF Exact
    <3>3. QED
      BY <2>2, <3>1, <3>2
  <2>4. QED
    BY <1>2, <1>4, <2>2, <2>3 DEF Exact
<1>5. CASE ~overflow /\ ~Fits(Len(line)) /\ overflow' = TRUE
  <2>1. ~Short(sent[p.done + 1])
    <3>1. Len(line) = p.part /\ Len(sent[p.done + 1]) \in Nat
      <4>1. sent[p.done + 1] \in Seq(Char)
        BY <1>2, FramerAssumption DEF TypeOK
      <4>2. QED
        BY <1>5, <4>1 DEF Exact
    <3>2. QED
      BY <1>2, <1>5, <3>1, FramerAssumption DEF Fits, Short
  <2>2. QED
    BY <1>2, <1>5, <2>1 DEF Exact, Short
<1>6. QED
  BY <1>1, <1>3, <1>4, <1>5 DEF Frame, Skipped, Discarding

LEMMA ReaderSkipsNow ==
  ASSUME NEW hit, NEW p \in Place, NEW q \in Place, Skips(hit, p, q), Passed(hit, p.done)'
  PROVE  Reader(hit, q)'
<1>1. ASSUME NEW k \in 1 .. q.done, k \notin hit PROVE k \in 1 .. p.done
  <2>1. k \notin p.done + 1 .. q.done
    BY <1>1 DEF Skips
  <2>2. QED
    BY <2>1 DEF Place
<1>2. Passed(hit, q.done)'
  BY <1>1 DEF Passed
<1>3. QED
  BY <1>2, SkipsTo DEF Reader

\* A byte that comes as it was sent.
LEMMA ReaderLeads ==
  ASSUME TypeOK, NEW hit, NEW p \in Place, NEW q \in Place, p.done <= Len(sent),
         Reader(hit, p), NEW b, b # Beat \/ port = "usb", Leads(port, sent, p, b, q), Frame(b),
         ~Deaf, ~Deaf', sent' = sent, port' = port
  PROVE  Reader(hit, q)'
<1>1. /\ p.done \in Nat /\ Len(sent) \in Nat /\ hit \subseteq hit
      /\ \A i \in 1 .. Len(sent) : sent'[i] = sent[i]
      /\ Len(sent') \in Nat /\ Len(sent) <= Len(sent')
  BY DEF Place, TypeOK
<1>2. heard' = heard \/ \E x \in Seq(Byte) : heard' = Append(heard, x)
  BY DEF Frame, TypeOK
<1>3. Passed(hit, p.done) /\ Passed(hit, p.done)'
  <2>1. Passed(hit, p.done)
    BY DEF Reader
  <2>2. QED
    BY <1>1, <1>2, <2>1, PassedKept
<1>4. CASE p.done + 1 \in hit
  <2>1. Skips(hit, p, q)
    BY <1>4, SkipOne
  <2>2. QED
    BY <1>3, <2>1, ReaderSkipsNow
<1>5. CASE p.done + 1 \notin hit
  <2>1. CASE /\ AtEnd(sent, p) /\ b = Newline
             /\ q.done = p.done + 1 /\ q.part = 0 /\ q.beats = p.beats /\ ~q.half
    BY <1>5, <2>1, CleanNewline
  <2>2. CASE /\ AtLetter(sent, p)
             /\ b = [kind |-> sent[p.done + 1][p.part + 1], of |-> p.done + 1]
             /\ q.done = p.done /\ q.part = p.part + 1 /\ q.beats = p.beats /\ ~q.half
    <3>1. ASSUME p.done \notin hit PROVE Exact(q)'
      <4>1. Exact(p)
        BY <1>5, <3>1 DEF Reader
      <4>2. QED
        BY <2>2, <4>1, CleanLetter
    <3>2. QED
      BY <1>3, <2>2, <3>1 DEF Reader
  <2>3. CASE p.half /\ q.done = p.done
    <3>1. p.done \in hit
      BY <1>5, <2>3 DEF Reader, Exact
    <3>2. QED
      BY <1>3, <2>3, <3>1 DEF Reader
  <2>4. QED
    BY <2>1, <2>2, <2>3 DEF Leads
<1>6. QED
  BY <1>4, <1>5

LEMMA ReaderByte ==
  ASSUME TypeOK, NEW hit, NEW p \in Place, NEW q \in Place, p.done <= Len(sent),
         Reader(hit, p), NEW b, b # Beat \/ port = "usb", Goes(port, hit, sent, p, b, q), Frame(b),
         ~Deaf, ~Deaf', sent' = sent, port' = port
  PROVE  Reader(hit, q)'
<1>1. CASE Skips(hit, p, q)
  <2>1. /\ p.done \in Nat /\ Len(sent) \in Nat /\ hit \subseteq hit
        /\ \A i \in 1 .. Len(sent) : sent'[i] = sent[i]
        /\ Len(sent') \in Nat /\ Len(sent) <= Len(sent')
    BY DEF Place, TypeOK
  <2>2. heard' = heard \/ \E x \in Seq(Byte) : heard' = Append(heard, x)
    BY DEF Frame, TypeOK
  <2>3. Passed(hit, p.done)
    BY DEF Reader
  <2>4. Passed(hit, p.done)'
    BY <2>1, <2>2, <2>3, PassedKept
  <2>5. QED
    BY <1>1, <2>4, ReaderSkipsNow
<1>2. ASSUME NEW m \in Place, Leads(port, sent, p, b, m), m = q \/ Skips(hit, m, q)
      PROVE  Reader(hit, q)'
  <2>1. Reader(hit, m)'
    BY <1>2, ReaderLeads
  <2>2. Passed(hit, m.done)'
    BY <2>1 DEF Reader
  <2>3. QED
    BY <1>2, <2>1, <2>2, ReaderSkipsNow
<1>3. QED
  BY <1>1, <1>2 DEF Goes

\* A heartbeat is taken out with the byte behind it, which may be another's if the line is
\* hit, but never the newline of one that is not.
LEMMA ReaderBeat ==
  ASSUME TypeOK, NEW hit, NEW p \in Place, NEW m \in Place, NEW q \in Place, NEW c,
         p.done <= Len(sent), m.done <= Len(sent), Reader(hit, p),
         Goes(port, hit, sent, p, Beat, m), Goes(port, hit, sent, m, c, q),
         UNCHANGED <<line, overflow, heard, sent>>
  PROVE  Reader(hit, q)'
<1>1. Passed(hit, p.done)
  BY DEF Reader
<1>2. /\ Beat # Newline /\ Beat # Index
      /\ (AtLetter(sent, p) => [kind |-> sent[p.done + 1][p.part + 1], of |-> p.done + 1] # Beat)
  BY LetterOf DEF TypeOK, Beat, Newline, Index
<1>3. ASSUME NEW x \in Place, Reader(hit, x), x.done <= Len(sent) PROVE Reader(hit, x)'
  BY <1>3, ReaderSame DEF TypeOK
<1>4. ASSUME NEW x \in Place, x.done <= Len(sent), Passed(hit, x.done), Skips(hit, x, q)
      PROVE  Reader(hit, q)'
  <2>1. Passed(hit, x.done)'
    BY <1>4 DEF Passed, HandedOn
  <2>2. QED
    BY <1>4, <2>1, ReaderSkipsNow
<1>5. CASE Skips(hit, p, m)
  <2>1. Passed(hit, m.done) /\ (m.done \in hit \/ m.done + 1 \in hit)
    BY <1>1, <1>5, PassedSkip, SkipsTo
  <2>2. CASE Skips(hit, m, q)
    BY <1>4, <2>1, <2>2
  <2>3. ASSUME NEW x \in Place, Leads(port, sent, m, c, x), x = q \/ Skips(hit, x, q)
        PROVE  Reader(hit, q)'
    <3>1. CASE m.done + 1 \in hit
      <4>1. Skips(hit, m, x)
        BY <2>3, <3>1, SkipOne
      <4>2. Skips(hit, m, q)
        BY <2>3, <4>1, SkipsOn
      <4>3. QED
        BY <1>4, <2>1, <4>2
    <3>2. CASE m.done + 1 \notin hit
      <4>1. m.part = 0 /\ ~m.half /\ m.done \in hit
        BY <1>5, <2>1, <3>2 DEF Skips
      <4>2. ~AtEnd(sent, m)
        <5>1. ASSUME m.done < Len(sent) PROVE Len(sent[m.done + 1]) # 0
          <6>1. sent \in Seq(Texts) /\ m.done \in Nat
            BY DEF TypeOK, Place
          <6>2. sent[m.done + 1] \in Texts
            BY <5>1, <6>1
          <6>3. sent[m.done + 1] \in Seq(Char) /\ sent[m.done + 1] # << >>
            BY <6>2, FramerAssumption
          <6>4. QED
            BY <6>3
        <5>2. QED
          BY <4>1, <5>1 DEF AtEnd
      <4>3. x.done = m.done
        BY <2>3, <4>2 DEF Leads
      <4>4. Reader(hit, x)
        BY <2>1, <4>1, <4>3 DEF Reader
      <4>5. QED
        BY <1>3, <1>4, <2>1, <2>3, <4>3, <4>4
    <3>3. QED
      BY <3>1, <3>2
  <2>4. QED
    BY <2>2, <2>3 DEF Goes
<1>6. CASE p.done + 1 \notin hit
  <2>1. PICK y \in Place : Leads(port, sent, p, Beat, y) /\ (y = m \/ Skips(hit, y, m))
    BY <1>6 DEF Goes, Skips
  <2>2. y.done = p.done /\ y.half /\ p.part = 0 /\ y.part = 0
    BY <1>2, <2>1 DEF Leads
  <2>3. y = m
    BY <1>6, <2>1, <2>2 DEF Skips
  <2>4. PICK x \in Place : Leads(port, sent, m, c, x) /\ (x = q \/ Skips(hit, x, q))
    BY <1>6, <2>2, <2>3 DEF Goes, Skips
  <2>5. x.done = p.done /\ x.part = p.part /\ ~x.half
    BY <2>2, <2>3, <2>4 DEF Leads, AtLetter, AtEnd
  <2>6. x = q
    BY <1>6, <2>4, <2>5 DEF Skips
  <2>7. Reader(hit, x)
    BY <2>5 DEF Reader, Exact
  <2>8. QED
    BY <1>3, <2>5, <2>6, <2>7
<1>7. CASE p.done + 1 \in hit
  <2>1. ASSUME NEW y \in Place, Leads(port, sent, p, Beat, y), y = m \/ Skips(hit, y, m)
        PROVE  Skips(hit, p, m)
    BY <1>7, <2>1, SkipOne, SkipsOn
  <2>2. QED
    BY <1>5, <2>1 DEF Goes
<1>8. QED
  BY <1>6, <1>7

LEMMA HitMore ==
  ASSUME NEW hit \in Hits, NEW d \in Nat, faults' = faults + 1, faults \in Nat
  PROVE  hit \cup {d + 1} \in Hits'
<1>1. hit \in SUBSET (Nat \ {0}) /\ IsFiniteSet(hit) /\ Cardinality(hit) <= faults
  BY DEF Hits
<1>2. /\ IsFiniteSet(hit \cup {d + 1})
      /\ Cardinality(hit \cup {d + 1}) = Cardinality(hit)
           \/ Cardinality(hit \cup {d + 1}) = Cardinality(hit) + 1
  BY <1>1, FS_AddElement
<1>3. Cardinality(hit) \in Nat
  BY <1>1, FS_CardinalityType
<1>4. Cardinality(hit \cup {d + 1}) <= faults'
  BY <1>1, <1>2, <1>3
<1>5. d + 1 \in Nat \ {0}
  OBVIOUS
<1>6. QED
  BY <1>1, <1>2, <1>4, <1>5 DEF Hits

\* The bytes on the wire.
LEMMA WireHead ==
  ASSUME TypeOK, wire # << >>, NEW w \in Place, w.done <= Len(sent),
         Way(port, sent, w, wire, Spot(Len(sent), 0, beatsSent))
  PROVE  \E q \in Place : /\ Leads(port, sent, w, Head(wire), q) /\ q.done <= Len(sent)
                          /\ Way(port, sent, q, Tail(wire), Spot(Len(sent), 0, beatsSent))
<1>1. PICK q \in Place : /\ Leads(port, sent, w, Head(wire), q)
                         /\ Way(port, sent, q, Tail(wire), Spot(Len(sent), 0, beatsSent))
  BY FirstByte DEF TypeOK
<1>2. q.done <= Len(sent)
  BY <1>1 DEF Leads, AtEnd, Place, TypeOK
<1>3. QED
  BY <1>1, <1>2

\* No command for the power is in a line.
LEMMA NoCommandLed ==
  ASSUME TypeOK, port = "usb", ~TakenForCommand, NEW p \in Place, NEW b, NEW q,
         Leads(port, sent, p, b, q)
  PROVE  b.kind # "o"
<1>1. ASSUME AtLetter(sent, p) PROVE sent[p.done + 1][p.part + 1] # "o"
  <2>1. p.done + 1 \in DOMAIN sent
    BY <1>1 DEF AtLetter, Place, TypeOK
  <2>2. p.part + 1 \in DOMAIN sent[p.done + 1]
    <3>1. sent[p.done + 1] \in Seq(Char)
      BY <2>1, FramerAssumption DEF TypeOK
    <3>2. QED
      BY <1>1, <3>1 DEF AtLetter, Place
  <2>3. QED
    BY <2>1, <2>2 DEF TakenForCommand
<1>2. Newline.kind # "o" /\ Beat.kind # "o" /\ Index.kind # "o"
  BY DEF Newline, Beat, Index
<1>3. QED
  BY <1>1, <1>2 DEF Leads

LEMMA DamageSend ==
  ASSUME TypeOK, TypeOK', Contained, NEW text \in Texts, Send(text)
  PROVE  Contained'
<1> DEFINE n == Len(sent) + 1
           b == Bytes(text, n)
           t == b \o << Newline >>
<1>1. n \in 1 .. MaxLines /\ Len(sent) \in Nat /\ beatsSent \in Nat
  BY FramerAssumption DEF Send, TypeOK
<1>2. wire \in Seq(Byte) /\ rx \in Seq(Byte) /\ b \in Seq(Byte) /\ << Newline >> \in Seq(Byte)
  BY <1>1, BytesOfLine, Marks DEF TypeOK
<1>3. /\ wire' = wire \o b \o << Newline >> /\ rx' = rx
      /\ line' = line /\ overflow' = overflow /\ heard' = heard /\ faults' = faults
  BY DEF Send, framer
<1>4. /\ sent' \in Seq(Texts) /\ Len(sent') = Len(sent) + 1 /\ sent'[n] = text
      /\ \A i \in 1 .. Len(sent) : sent'[i] = sent[i]
      /\ port' = port /\ beatsSent' = beatsSent
  BY DEF Send, TypeOK
<1> HIDE DEF b
<1>5. t \in Seq(Byte) /\ wire' = wire \o t
  BY <1>2, <1>3, Regrouped
<1>6. PICK hit \in Hits, p \in Place, w \in Place :
        /\ Reader(hit, p) /\ Trail(port, hit, sent, p, rx, w)
        /\ Way(port, sent, w, wire, Spot(Len(sent), 0, beatsSent))
  BY DEF Contained
<1>7. p.done <= Len(sent)
  BY <1>2, <1>6, TrailEnds
<1>8. Len(sent') \in Nat /\ Len(sent) <= Len(sent') /\ hit \subseteq hit
  BY <1>1, <1>4
<1>9. Reader(hit, p)'
  BY <1>3, <1>4, <1>6, <1>7, <1>8, ReaderSame
<1>10. Trail(port, hit, sent', p, rx, w)
  BY <1>1, <1>2, <1>4, <1>6, <1>8, TrailMore
<1>11. Way(port, sent', w, wire, Spot(Len(sent), 0, beatsSent))
  BY <1>1, <1>4, <1>6, SameWay
<1>12. Way(port, sent', Spot(n - 1, 0, beatsSent), Bytes(sent'[n], n) \o << Newline >>,
           Spot(n, 0, beatsSent))
  <2>1. n \in 1 .. Len(sent')
    BY <1>1, <1>4
  <2> HIDE DEF n
  <2>2. QED
    BY <1>1, <1>4, <2>1, LineWay
<1>13. Way(port, sent', Spot(Len(sent), 0, beatsSent), t, Spot(n, 0, beatsSent))
  <2>1. n - 1 = Len(sent)
    BY <1>1
  <2>2. QED
    BY <1>4, <1>12, <2>1 DEF b
<1> HIDE DEF t, n
<1>14. Way(port, sent', w, wire \o t, Spot(n, 0, beatsSent))
  BY <1>2, <1>5, <1>11, <1>13, WayOn
<1>15. Way(port', sent', w, wire', Spot(Len(sent'), 0, beatsSent'))
  BY <1>4, <1>5, <1>14 DEF n
<1>16. Trail(port', hit, sent', p, rx', w) /\ hit \in Hits'
  BY <1>3, <1>4, <1>10 DEF Hits
<1>17. port' = "usb" => \A i \in 1 .. Len(rx') : rx'[i].kind # "o"
  BY <1>3, <1>4 DEF Contained
<1>18. QED
  BY <1>9, <1>15, <1>16, <1>17 DEF Contained

\* A step of which the port and what it has read see nothing.
LEMMA DamageBeat ==
  ASSUME TypeOK, TypeOK', Contained, SendBeat
  PROVE  Contained'
<1>1. /\ port = "chain" /\ port' = port /\ sent' = sent /\ rx' = rx
      /\ wire' = wire \o << Beat, Index >> /\ beatsSent' = beatsSent + 1
      /\ line' = line /\ overflow' = overflow /\ heard' = heard /\ faults' = faults
  BY DEF SendBeat, framer, sender
<1>2. /\ Len(sent) \in Nat /\ beatsSent \in Nat /\ << Beat, Index >> \in Seq(Byte)
      /\ wire \in Seq(Byte) /\ rx \in Seq(Byte)
  BY Marks DEF TypeOK
<1>3. PICK hit \in Hits, p \in Place, w \in Place :
        /\ Reader(hit, p) /\ Trail(port, hit, sent, p, rx, w)
        /\ Way(port, sent, w, wire, Spot(Len(sent), 0, beatsSent))
  BY DEF Contained
<1>4. Way(port, sent, Spot(Len(sent), 0, beatsSent), << Beat, Index >>,
          Spot(Len(sent), 0, beatsSent + 1))
  BY <1>1, <1>2, BeatWay
<1>5. Way(port, sent, w, wire \o << Beat, Index >>, Spot(Len(sent), 0, beatsSent + 1))
  BY <1>2, <1>3, <1>4, WayOn
<1>6. p.done <= Len(sent) /\ hit \subseteq hit
  BY <1>2, <1>3, TrailEnds
<1>7. Reader(hit, p)'
  BY <1>1, <1>2, <1>3, <1>6, ReaderSame
<1>8. hit \in Hits'
  BY <1>1 DEF Hits
<1>9. QED
  BY <1>1, <1>3, <1>5, <1>7, <1>8 DEF Contained

LEMMA DamageDeliver ==
  ASSUME TypeOK, Contained, ~TakenForCommand, Deliver
  PROVE  Contained'
<1>1. /\ wire # << >> /\ rx' = Append(rx, Head(wire)) /\ wire' = Tail(wire)
      /\ port' = port /\ sent' = sent /\ beatsSent' = beatsSent
      /\ line' = line /\ overflow' = overflow /\ heard' = heard /\ faults' = faults
  BY DEF Deliver, framer, sender
<1>2. wire \in Seq(Byte) /\ rx \in Seq(Byte) /\ Head(wire) \in Byte /\ Len(sent) \in Nat
  BY <1>1 DEF TypeOK
<1>3. PICK hit \in Hits, p \in Place, w \in Place :
        /\ Reader(hit, p) /\ Trail(port, hit, sent, p, rx, w)
        /\ Way(port, sent, w, wire, Spot(Len(sent), 0, beatsSent))
  BY DEF Contained
<1>4. p.done <= Len(sent) /\ w.done <= Len(sent) /\ hit \subseteq hit
  BY <1>2, <1>3, TrailEnds
<1>5. PICK q \in Place : /\ Leads(port, sent, w, Head(wire), q) /\ q.done <= Len(sent)
                         /\ Way(port, sent, q, Tail(wire), Spot(Len(sent), 0, beatsSent))
  BY <1>1, <1>3, <1>4, WireHead
<1>6. Trail(port, hit, sent, p, Append(rx, Head(wire)), q)
  <2>1. Goes(port, hit, sent, w, Head(wire), q)
    BY <1>5 DEF Goes
  <2>2. QED
    BY <1>2, <1>3, <1>5, <2>1, TrailOn
<1>7. Reader(hit, p)'
  BY <1>1, <1>2, <1>3, <1>4, ReaderSame
<1>8. port = "usb" => \A i \in 1 .. Len(rx') : rx'[i].kind # "o"
  <2>1. ASSUME port = "usb" PROVE Head(wire).kind # "o"
    BY <1>5, <2>1, NoCommandLed
  <2>2. /\ Len(rx') = Len(rx) + 1 /\ rx'[Len(rx) + 1] = Head(wire)
        /\ \A i \in 1 .. Len(rx) : rx'[i] = rx[i]
    BY <1>1, <1>2
  <2>3. \A i \in 1 .. Len(rx') : i = Len(rx) + 1 \/ i \in 1 .. Len(rx)
    BY <1>2, <2>2
  <2>4. QED
    BY <2>1, <2>2, <2>3 DEF Contained
<1>9. hit \in Hits'
  BY <1>1, <1>3 DEF Hits
<1>10. QED
  BY <1>1, <1>5, <1>6, <1>7, <1>8, <1>9 DEF Contained

\* The line whose byte is lost is hit; that byte may have been all there was to read.
LEMMA DamageLose ==
  ASSUME TypeOK, Contained, Lose
  PROVE  Contained'
<1>1. /\ wire # << >> /\ rx' = rx /\ wire' = Tail(wire)
      /\ port' = port /\ sent' = sent /\ beatsSent' = beatsSent
      /\ line' = line /\ overflow' = overflow /\ heard' = heard /\ faults' = faults + 1
  BY DEF Lose, framer, sender
<1>2. wire \in Seq(Byte) /\ rx \in Seq(Byte) /\ Len(sent) \in Nat /\ faults \in Nat
  BY DEF TypeOK
<1>3. PICK hit \in Hits, p \in Place, w \in Place :
        /\ Reader(hit, p) /\ Trail(port, hit, sent, p, rx, w)
        /\ Way(port, sent, w, wire, Spot(Len(sent), 0, beatsSent))
  BY DEF Contained
<1>4. p.done <= Len(sent) /\ w.done <= Len(sent) /\ w.done \in Nat /\ p.done \in Nat
  BY <1>2, <1>3, TrailEnds DEF Place
<1>5. PICK q \in Place : /\ Leads(port, sent, w, Head(wire), q) /\ q.done <= Len(sent)
                         /\ Way(port, sent, q, Tail(wire), Spot(Len(sent), 0, beatsSent))
  BY <1>1, <1>3, <1>4, WireHead
<1> DEFINE more == hit \cup {w.done + 1}
<1>6. more \in Hits' /\ hit \subseteq more /\ w.done + 1 \in more
  BY <1>1, <1>2, <1>3, <1>4, HitMore
<1> HIDE DEF more
<1>7. Skips(more, w, q)
  BY <1>5, <1>6, SkipOne
<1>8. Reader(more, p)'
  BY <1>1, <1>2, <1>3, <1>4, <1>6, ReaderSame
<1>9. Trail(port, more, sent, p, rx, w)
  BY <1>2, <1>3, <1>6, TrailMore
<1>10. CASE rx # << >>
  <2>1. Trail(port, more, sent, p, rx, q)
    BY <1>2, <1>5, <1>7, <1>9, <1>10, TrailSkips
  <2>2. QED
    BY <1>1, <1>5, <1>6, <1>8, <2>1 DEF Contained
<1>11. CASE rx = << >>
  <2>1. p = w
    BY <1>2, <1>9, <1>11, NoTrail
  <2>2. Passed(more, w.done)'
    BY <1>8, <2>1 DEF Reader
  <2>3. Reader(more, q)'
    BY <1>7, <2>2, ReaderSkipsNow
  <2>4. Trail(port, more, sent, q, rx, q)
    BY <1>2, <1>5, <1>11, NoTrail
  <2>5. QED
    BY <1>1, <1>5, <1>6, <2>3, <2>4 DEF Contained
<1>12. QED
  BY <1>10, <1>11

LEMMA DamageNoise ==
  ASSUME TypeOK, Contained, Noise
  PROVE  Contained'
<1>1. PICK b \in {Newline, Beat, Index} : rx' = Append(rx, b)
  BY DEF Noise
<1>2. /\ wire' = wire /\ port' = port /\ sent' = sent /\ beatsSent' = beatsSent
      /\ line' = line /\ overflow' = overflow /\ heard' = heard /\ faults' = faults + 1
  BY DEF Noise, framer, sender
<1>3. wire \in Seq(Byte) /\ rx \in Seq(Byte) /\ Len(sent) \in Nat /\ faults \in Nat /\ b \in Byte
  BY Marks DEF TypeOK
<1>4. PICK hit \in Hits, p \in Place, w \in Place :
        /\ Reader(hit, p) /\ Trail(port, hit, sent, p, rx, w)
        /\ Way(port, sent, w, wire, Spot(Len(sent), 0, beatsSent))
  BY DEF Contained
<1>5. p.done <= Len(sent) /\ w.done <= Len(sent) /\ w.done \in Nat
  BY <1>3, <1>4, TrailEnds DEF Place
<1> DEFINE more == hit \cup {w.done + 1}
<1>6. more \in Hits' /\ hit \subseteq more /\ w.done + 1 \in more
  BY <1>2, <1>3, <1>4, <1>5, HitMore
<1> HIDE DEF more
<1>7. Goes(port, more, sent, w, b, w)
  BY <1>6, SkipNone DEF Goes
<1>8. Reader(more, p)'
  BY <1>2, <1>3, <1>4, <1>5, <1>6, ReaderSame
<1>9. Trail(port, more, sent, p, Append(rx, b), w)
  <2>1. Trail(port, more, sent, p, rx, w)
    BY <1>3, <1>4, <1>6, TrailMore
  <2>2. QED
    BY <1>3, <1>5, <1>7, <2>1, TrailOn
<1>10. port = "usb" => \A i \in 1 .. Len(rx') : rx'[i].kind # "o"
  <2>1. b.kind # "o"
    BY DEF Newline, Beat, Index
  <2>2. /\ Len(rx') = Len(rx) + 1 /\ rx'[Len(rx) + 1] = b
        /\ \A i \in 1 .. Len(rx) : rx'[i] = rx[i]
    BY <1>1, <1>3
  <2>3. \A i \in 1 .. Len(rx') : i = Len(rx) + 1 \/ i \in 1 .. Len(rx)
    BY <1>3, <2>2
  <2>4. QED
    BY <2>1, <2>2, <2>3 DEF Contained
<1>11. QED
  BY <1>1, <1>2, <1>4, <1>6, <1>8, <1>9, <1>10 DEF Contained

LEMMA DamageRead ==
  ASSUME TypeOK, Contained, rx # << >>, Frame(Head(rx)), Head(rx) # Beat \/ port = "usb",
         ~Deaf, ~Deaf', rx' = Tail(rx), UNCHANGED <<wire, sent, port, beatsSent, faults>>
  PROVE  Contained'
<1>1. rx \in Seq(Byte) /\ Tail(rx) \in Seq(Byte) /\ Len(sent) \in Nat
  BY DEF TypeOK
<1>2. PICK hit \in Hits, p \in Place, w \in Place :
        /\ Reader(hit, p) /\ Trail(port, hit, sent, p, rx, w)
        /\ Way(port, sent, w, wire, Spot(Len(sent), 0, beatsSent))
  BY DEF Contained
<1>3. p.done <= Len(sent)
  BY <1>1, <1>2, TrailEnds
<1>4. PICK q \in Place : /\ Goes(port, hit, sent, p, Head(rx), q)
                         /\ Trail(port, hit, sent, q, Tail(rx), w)
  BY <1>1, <1>2, TrailHead
<1>5. Reader(hit, q)'
  BY <1>2, <1>3, <1>4, ReaderByte
<1>6. port = "usb" => \A i \in 1 .. Len(rx') : rx'[i].kind # "o"
  <2>1. \A i \in 1 .. Len(rx') : i + 1 \in 1 .. Len(rx) /\ rx'[i] = rx[i + 1]
    BY <1>1
  <2>2. QED
    BY <2>1 DEF Contained
<1>7. hit \in Hits'
  BY <1>2 DEF Hits
<1>8. QED
  BY <1>2, <1>4, <1>5, <1>6, <1>7 DEF Contained

LEMMA DamageHearBeat ==
  ASSUME TypeOK, Contained, HearBeat
  PROVE  Contained'
<1>1. /\ rx \in Seq(Byte) /\ Len(rx) >= 2 /\ Head(rx) = Beat /\ rx' = Tail(Tail(rx))
      /\ port = "chain" /\ port' = port /\ sent' = sent /\ wire' = wire
      /\ beatsSent' = beatsSent
      /\ line' = line /\ overflow' = overflow /\ heard' = heard /\ faults' = faults
  BY DEF HearBeat, AtBeat, TypeOK, sender
<1>2. rx # << >> /\ Tail(rx) # << >> /\ Tail(rx) \in Seq(Byte)
  BY <1>1, LongerThanOne
<1>3. PICK hit \in Hits, p \in Place, w \in Place :
        /\ Reader(hit, p) /\ Trail(port, hit, sent, p, rx, w)
        /\ Way(port, sent, w, wire, Spot(Len(sent), 0, beatsSent))
  BY DEF Contained
<1>4. PICK m \in Place : /\ Goes(port, hit, sent, p, Beat, m)
                         /\ Trail(port, hit, sent, m, Tail(rx), w)
  BY <1>1, <1>2, <1>3, TrailHead
<1>5. PICK q \in Place : /\ Goes(port, hit, sent, m, Head(Tail(rx)), q)
                         /\ Trail(port, hit, sent, q, Tail(Tail(rx)), w)
  BY <1>2, <1>4, TrailHead
<1>6. p.done <= Len(sent) /\ m.done <= Len(sent)
  BY <1>1, <1>2, <1>3, <1>4, TrailEnds
<1>7. Reader(hit, q)'
  BY <1>1, <1>3, <1>4, <1>5, <1>6, ReaderBeat
<1>8. hit \in Hits'
  BY <1>1, <1>3 DEF Hits
<1>9. QED
  BY <1>1, <1>3, <1>5, <1>7, <1>8 DEF Contained

LEMMA DamageInit == Init => DamageInv
<1> SUFFICES ASSUME Init PROVE Contained
  BY DEF DamageInv
<1>1. /\ wire = << >> /\ rx = << >> /\ line = << >> /\ overflow = FALSE
      /\ sent = << >> /\ beatsSent = 0 /\ faults = 0 /\ Len(sent) = 0
      /\ wire \in Seq(Byte) /\ rx \in Seq(Byte)
  BY DEF Init
<1> DEFINE p == Spot(0, 0, 0)
           none == {}
<1>2. p \in Place /\ p.done = 0 /\ p.part = 0 /\ ~p.half
  BY Spots
<1>3. none \in Hits
  <2>1. IsFiniteSet({}) /\ Cardinality({}) = 0
    BY FS_EmptySet
  <2>2. QED
    BY <1>1, <2>1 DEF Hits
<1>4. Way(port, sent, p, wire, Spot(Len(sent), 0, beatsSent))
  <2>1. Spot(Len(sent), 0, beatsSent) = p
    BY <1>1
  <2> HIDE DEF p
  <2>2. QED
    BY <1>1, <1>2, <2>1, NoWay
<1> HIDE DEF p, none
<1>5. Trail(port, none, sent, p, rx, p)
  <2>1. p.done <= Len(sent)
    BY <1>1, <1>2
  <2>2. QED
    BY <1>1, <1>2, <2>1, NoTrail
<1>6. Reader(none, p)
  <2>1. 1 .. 0 = {} /\ Len(line) = 0
    BY <1>1
  <2>2. QED
    BY <1>1, <1>2, <2>1 DEF Reader, Passed, Exact
<1>7. QED
  BY <1>1, <1>2, <1>3, <1>4, <1>5, <1>6 DEF Contained

\* An overlong line leaves a chain port deaf until its role changes.
LEMMA DeafStays ==
  ASSUME TypeOK, [Next]_vars, flips' = 0, Deaf
  PROVE  Deaf'
<1>1. flips \in Nat /\ line = << >> /\ port = "chain" /\ overflow
  BY DEF TypeOK, Deaf
<1>2. ~ChangeRole /\ ~PressPower
  BY <1>1 DEF ChangeRole, PressPower
<1>3. port' = port
  BY DEF Next, vars, Send, SendBeat, Deliver, Lose, Noise, Poll, HearBeat, ReadChain,
     TogglePower, ReadUsb, DrainUsb, ChangeRole, PressPower
<1>4. ASSUME NEW b, Frame(b) PROVE overflow'
  <2>1. b = Newline => Skipped(b)
    BY <1>1, NotPrintable DEF Skipped
  <2>2. QED
    BY <1>1, <1>4, <2>1 DEF Frame, Discarding
<1>5. overflow'
  BY <1>1, <1>2, <1>4 DEF Next, vars, Send, SendBeat, Deliver, Lose, Noise, Poll, HearBeat,
     ReadChain, TogglePower, ReadUsb, DrainUsb, framer
<1>6. QED
  BY <1>1, <1>3, <1>5 DEF Deaf

LEMMA DamageNext ==
  ASSUME TypeOK, TypeOK', TracedInv, DamageInv, [Next]_vars
  PROVE  DamageInv'
<1> SUFFICES ASSUME flips' = 0, ~TakenForCommand', ~Deaf' PROVE Contained'
  BY DEF DamageInv
<1>1. flips = 0 /\ ~ChangeRole /\ ~PressPower
  <2>1. flips \in Nat
    BY DEF TypeOK
  <2>2. ~ChangeRole /\ ~PressPower
    BY <2>1 DEF ChangeRole, PressPower
  <2>3. QED
    BY <2>2 DEF Next, vars, Send, SendBeat, Deliver, Lose, Noise, Poll, HearBeat, ReadChain,
       TogglePower, ReadUsb, DrainUsb
<1>2. port' = port
  BY DEF Next, vars, Send, SendBeat, Deliver, Lose, Noise, Poll, HearBeat, ReadChain,
     TogglePower, ReadUsb, DrainUsb, ChangeRole, PressPower
<1>3. ~TakenForCommand
  <2>1. ASSUME NEW n \in DOMAIN sent PROVE n \in DOMAIN sent' /\ sent'[n] = sent[n]
    <3>1. ASSUME NEW text \in Texts, Send(text) PROVE n \in DOMAIN sent' /\ sent'[n] = sent[n]
      BY <2>1, <3>1 DEF Send, TypeOK
    <3>2. CASE sent' = sent
      BY <2>1, <3>2
    <3>3. QED
      BY <1>1, <3>1, <3>2 DEF Next, vars, SendBeat, Deliver, Lose, Noise, Poll, HearBeat,
         ReadChain, TogglePower, ReadUsb, DrainUsb, sender
  <2>2. QED
    BY <1>2, <2>1 DEF TakenForCommand
<1>4. ~Deaf
  BY DeafStays
<1>5. Contained
  BY <1>1, <1>3, <1>4 DEF DamageInv
<1>6. ASSUME NEW text \in Texts, Send(text) PROVE Contained'
  BY <1>5, <1>6, DamageSend
<1>7. CASE SendBeat
  BY <1>5, <1>7, DamageBeat
<1>8. CASE Deliver
  BY <1>3, <1>5, <1>8, DamageDeliver
<1>9. CASE Lose
  BY <1>5, <1>9, DamageLose
<1>10. CASE Noise
  BY <1>5, <1>10, DamageNoise
<1>11. CASE HearBeat
  BY <1>5, <1>11, DamageHearBeat
<1>12. CASE ReadChain
  BY <1>4, <1>5, <1>12, DamageRead DEF ReadChain, AtBeat, sender
<1>13. CASE ReadUsb
  BY <1>4, <1>5, <1>13, DamageRead DEF ReadUsb, sender
<1>14. CASE TogglePower
  <2>1. port = "usb" /\ rx # << >> /\ Head(rx).kind = "o" /\ rx \in Seq(Byte)
    BY <1>14 DEF TogglePower, TypeOK
  <2>2. Head(rx) = rx[1] /\ 1 \in 1 .. Len(rx)
    BY <2>1
  <2>3. QED
    BY <1>5, <2>1, <2>2 DEF Contained
<1>15. CASE DrainUsb
  BY <1>1, <1>15 DEF DrainUsb, TracedInv
<1>16. CASE UNCHANGED vars
  <2>1. /\ port' = port /\ sent' = sent /\ rx' = rx /\ wire' = wire /\ beatsSent' = beatsSent
        /\ line' = line /\ overflow' = overflow /\ heard' = heard /\ faults' = faults
    BY <1>16 DEF vars
  <2>2. PICK hit \in Hits, p \in Place, w \in Place :
          /\ Reader(hit, p) /\ Trail(port, hit, sent, p, rx, w)
          /\ Way(port, sent, w, wire, Spot(Len(sent), 0, beatsSent))
    BY <1>5 DEF Contained
  <2>3. rx \in Seq(Byte) /\ Len(sent) \in Nat /\ hit \subseteq hit
    BY DEF TypeOK
  <2>4. p.done <= Len(sent)
    BY <2>2, <2>3, TrailEnds
  <2>5. Reader(hit, p)'
    BY <2>1, <2>2, <2>3, <2>4, ReaderSame
  <2>6. hit \in Hits'
    BY <2>1, <2>2 DEF Hits
  <2>7. QED
    BY <1>5, <2>1, <2>2, <2>5, <2>6 DEF Contained
<1>17. QED
  BY <1>1, <1>6, <1>7, <1>8, <1>9, <1>10, <1>11, <1>12, <1>13, <1>14, <1>15, <1>16 DEF Next, Poll

\* Once everything is read, only lines that are hit and those behind them are missed.
LEMMA DamageNow == TypeOK /\ DamageInv => DamageContained
<1> SUFFICES ASSUME TypeOK, DamageInv, wire = << >>, rx = << >>, flips = 0, ~overflow,
                    ~TakenForCommand
             PROVE  Cardinality(Missed) <= 2 * faults
  BY DEF DamageContained
<1>1. PICK hit \in Hits, p \in Place, w \in Place :
        /\ Reader(hit, p) /\ Trail(port, hit, sent, p, rx, w)
        /\ Way(port, sent, w, wire, Spot(Len(sent), 0, beatsSent))
  BY DEF DamageInv, Deaf, Contained
<1>2. rx \in Seq(Byte) /\ wire \in Seq(Byte) /\ Len(sent) \in Nat /\ beatsSent \in Nat
      /\ faults \in Nat
  BY DEF TypeOK
<1>3. p = w
  BY <1>1, <1>2, NoTrail
<1>4. w = Spot(Len(sent), 0, beatsSent)
  BY <1>1, <1>2, NoWay
<1>5. p.done = Len(sent)
  BY <1>3, <1>4 DEF Spot
<1>6. Passed(hit, Len(sent))
  BY <1>1, <1>5 DEF Reader
<1> DEFINE next == {n + 1 : n \in hit}
           f == [n \in hit |-> n + 1]
<1>7. hit \subseteq Nat \ {0} /\ IsFiniteSet(hit) /\ Cardinality(hit) <= faults
  BY <1>1 DEF Hits
<1>8. Missed \subseteq hit \cup next
  <2> SUFFICES ASSUME NEW n \in Missed, n \notin hit PROVE n \in next
    OBVIOUS
  <2>1. n \in 1 .. Len(sent) /\ Short(sent[n]) /\ ~HandedOn(n)
    BY DEF Missed, HandedOn, TypeOK
  <2>2. n - 1 \in hit
    BY <1>6, <2>1 DEF Passed
  <2>3. n = (n - 1) + 1
    BY <2>1
  <2>4. QED
    BY <2>2, <2>3
<1>9. IsFiniteSet(next) /\ Cardinality(next) <= Cardinality(hit)
  <2>1. f \in Surjection(hit, next)
    BY DEF Surjection
  <2> HIDE DEF f, next
  <2>2. QED
    BY <1>7, <2>1, FS_Surjection
<1> HIDE DEF next
<1>10. /\ IsFiniteSet(hit \cup next)
       /\ Cardinality(hit \cup next)
            = Cardinality(hit) + Cardinality(next) - Cardinality(hit \cap next)
  BY <1>7, <1>9, FS_Union
<1>11. IsFiniteSet(hit \cap next)
  BY <1>7, FS_Intersection
<1>12. /\ IsFiniteSet(Missed)
       /\ Cardinality(Missed) <= Cardinality(hit \cup next)
  BY <1>8, <1>10, FS_Subset
<1>13. /\ Cardinality(hit) \in Nat /\ Cardinality(next) \in Nat
       /\ Cardinality(hit \cap next) \in Nat /\ Cardinality(Missed) \in Nat
       /\ Cardinality(hit \cup next) \in Nat
  BY <1>7, <1>9, <1>10, <1>11, <1>12, FS_CardinalityType
<1>14. QED
  BY <1>2, <1>7, <1>9, <1>10, <1>12, <1>13

\* However many bytes are lost or made up, on a line of any length and with any traffic:
\* each costs at most its own line and the next (handleCommandsFromUpstream() and its
\* like, which start afresh at every newline that ends a line).
THEOREM DamageIsContained == Spec => []DamageContained
<1>1. /\ TypeOK /\ TracedInv /\ DamageInv /\ [Next]_vars
      => (TypeOK /\ TracedInv /\ DamageInv)'
  BY TypesNext, TracedNext, DamageNext
<1>2. Init => TypeOK /\ TracedInv /\ DamageInv
  BY TypesInit, TracedInit, DamageInit
<1>3. QED
  BY <1>1, <1>2, DamageNow, PTL DEF Spec

=============================================================================
