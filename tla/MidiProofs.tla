----------------------------- MODULE MidiProofs ------------------------------
(***************************************************************************)
(* What MidiImport does with a file, for every file and every size: what it *)
(* refuses does not fit, and what it makes of the rest is faithful to the   *)
(* file and can be saved and played.  First sets of numbers in order, then  *)
(* the shift by octaves, the chord of one start, one part of a file, and    *)
(* the choice among parts.                                                  *)
(***************************************************************************)
EXTENDS MidiImport, FiniteSetTheorems, SequenceTheorems, WellFoundedInduction, TLAPS

-----------------------------------------------------------------------------
(* Numbers in order *)

\* A set of natural numbers has a least one.
LEMMA Least ==
  ASSUME NEW T \in SUBSET Nat, T # {}
  PROVE  \E n \in T : \A m \in T : n <= m
<1> DEFINE R == OpToRel(<, Nat)
<1>1. PICK n \in T : \A m \in T : ~(<<m, n>> \in R)
  BY NatLessThanWellFounded, WFMin
<1>2. \A m \in T : m < n => <<m, n>> \in R
  BY DEF OpToRel
<1> HIDE DEF R
<1>3. \A m \in T : ~(m < n)
  BY <1>1, <1>2
<1>4. n \in Nat /\ \A m \in T : m \in Nat
  OBVIOUS
<1>5. QED
  BY <1>3, <1>4

LEMMA Induction ==
  ASSUME NEW T \in SUBSET Nat, 0 \in T, \A n \in T : n + 1 \in T
  PROVE  \A n \in Nat : n \in T
<1>1. SUFFICES ASSUME Nat \ T # {} PROVE FALSE
  OBVIOUS
<1>2. PICK n \in Nat \ T : \A m \in Nat \ T : n <= m
  <2> DEFINE U == Nat \ T
  <2>1. U \in SUBSET Nat /\ U # {}
    BY <1>1
  <2> HIDE DEF U
  <2>2. \E n \in U : \A m \in U : n <= m
    BY <2>1, Least
  <2>3. QED
    BY <2>2 DEF U
<1>3. n - 1 \in Nat /\ n = (n - 1) + 1 /\ ~(n <= n - 1)
  BY <1>2
<1>4. n - 1 \in T
  BY <1>2, <1>3
<1>5. QED
  BY <1>2, <1>3, <1>4

\* What holds from a number on, up to another: the way through a loop.
LEMMA UpTo ==
  ASSUME NEW a \in Int, NEW b \in Int, NEW T, a \in T,
         \A i \in a + 1 .. b : i - 1 \in T => i \in T
  PROVE  \A i \in a .. b : i \in T
<1> DEFINE U == {n \in Nat : a + n > b \/ a + n \in T}
<1>1. 0 \in U
  OBVIOUS
<1>2. ASSUME NEW n \in U PROVE n + 1 \in U
  <2>1. CASE a + (n + 1) > b
    BY <2>1
  <2>2. CASE a + (n + 1) <= b
    <3>1. a + n \in T
      BY <2>2
    <3>2. a + (n + 1) \in a + 1 .. b /\ (a + (n + 1)) - 1 = a + n
      BY <2>2
    <3>3. a + (n + 1) \in T
      BY <3>1, <3>2
    <3>4. QED
      BY <3>3
  <2>3. QED
    BY <2>1, <2>2
<1>3. U \in SUBSET Nat
  OBVIOUS
<1> HIDE DEF U
<1>4. \A n \in Nat : n \in U
  BY <1>1, <1>2, <1>3, Induction
<1>5. ASSUME NEW i \in a .. b PROVE i \in T
  <2>1. i - a \in Nat /\ a + (i - a) = i /\ ~(i > b)
    OBVIOUS
  <2>2. i - a \in U
    BY <1>4, <2>1
  <2>3. QED
    BY <2>1, <2>2 DEF U
<1>6. QED
  BY <1>5

\* Among numbers that have a bound one is the greatest.
LEMMA Greatest ==
  ASSUME NEW S \in SUBSET Int, S # {}, NEW b \in Int, \A x \in S : x <= b
  PROVE  \E x \in S : \A y \in S : y <= x
<1> DEFINE U == {n \in Nat : b - n \in S}
<1>1. U \in SUBSET Nat
  OBVIOUS
<1>2. PICK x \in S : TRUE
  OBVIOUS
<1>3. b - x \in Nat /\ b - (b - x) = x
  BY <1>2
<1>4. b - x \in U
  BY <1>2, <1>3
<1>5. \A y \in S : b - y \in U
  <2>1. ASSUME NEW y \in S PROVE b - y \in Nat /\ b - (b - y) = y
    BY <2>1
  <2>2. QED
    BY <2>1
<1>6. \A n \in U : n \in Nat /\ b - n \in S
  OBVIOUS
<1> HIDE DEF U
<1>7. PICK n \in U : \A m \in U : n <= m
  BY <1>1, <1>4, Least
<1>8. ASSUME NEW y \in S PROVE y <= b - n
  <2>1. n <= b - y
    BY <1>5, <1>7
  <2>2. n \in Nat /\ y \in Int
    BY <1>6
  <2>3. QED
    BY <2>1, <2>2
<1>9. QED
  BY <1>6, <1>7, <1>8

LEMMA MaxIs ==
  ASSUME NEW S \in SUBSET Int, NEW x \in S, \A y \in S : y <= x
  PROVE  Max(S) \in S /\ \A y \in S : y <= Max(S)
<1>1. x \in S /\ \A y \in S : x >= y
  OBVIOUS
<1>2. Max(S) \in S /\ \A y \in S : Max(S) >= y
  BY <1>1 DEF Max
<1>3. QED
  BY <1>2

LEMMA MinIs ==
  ASSUME NEW S \in SUBSET Int, NEW x \in S, \A y \in S : x <= y
  PROVE  Min(S) \in S /\ \A y \in S : Min(S) <= y
<1>1. x \in S /\ \A y \in S : x =< y
  OBVIOUS
<1>2. Min(S) \in S /\ \A y \in S : Min(S) =< y
  BY <1>1 DEF Min
<1>3. QED
  BY <1>2

\* Extremes of sets within bounds.
LEMMA Extremes ==
  ASSUME NEW a \in Int, NEW b \in Int, NEW S \in SUBSET (a .. b), S # {}
  PROVE  /\ Max(S) \in S /\ \A y \in S : y <= Max(S)
         /\ Min(S) \in S /\ \A y \in S : Min(S) <= y
<1>1. S \in SUBSET Int /\ \A x \in S : x \in Int /\ a <= x /\ x <= b
  OBVIOUS
<1>2. PICK x \in S : \A y \in S : y <= x
  BY <1>1, Greatest
<1>3. Max(S) \in S /\ \A y \in S : y <= Max(S)
  BY <1>1, <1>2, MaxIs
<1> DEFINE N == {n \in -b .. -a : -n \in S}
<1>4. \A y \in S : -y \in N /\ -(-y) = y
  <2>1. ASSUME NEW y \in S PROVE -y \in -b .. -a /\ -(-y) = y
    BY <1>1
  <2>2. QED
    BY <2>1
<1>5. \A n \in N : n \in Int /\ -n \in S /\ n <= -a
  OBVIOUS
<1>6. N \in SUBSET Int /\ N # {} /\ -a \in Int
  BY <1>4, <1>5
<1> HIDE DEF N
<1>7. PICK n \in N : \A m \in N : m <= n
  BY <1>5, <1>6, Greatest
<1>8. ASSUME NEW y \in S PROVE -n <= y
  <2>1. -y <= n
    BY <1>4, <1>7
  <2>2. n \in Int /\ y \in Int
    BY <1>1, <1>5
  <2>3. QED
    BY <2>1, <2>2
<1>9. Min(S) \in S /\ \A y \in S : Min(S) <= y
  BY <1>1, <1>5, <1>8, MinIs
<1>10. QED
  BY <1>3, <1>9

\* The place of a number of a finite set when they are in order.
Rank(S, x) == Cardinality({y \in S : y <= x})

LEMMA Ranks ==
  ASSUME NEW S \in SUBSET Int, IsFiniteSet(S)
  PROVE  /\ Cardinality(S) \in Nat
         /\ \A x \in S : Rank(S, x) \in 1 .. Cardinality(S)
         /\ \A x, y \in S : x < y => Rank(S, x) < Rank(S, y)
         /\ \A n \in 1 .. Cardinality(S) : \E x \in S : Rank(S, x) = n
<1>1. Cardinality(S) \in Nat
  BY FS_CardinalityType
<1>2. ASSUME NEW x \in S PROVE Rank(S, x) \in 1 .. Cardinality(S)
  <2> DEFINE B == {y \in S : y <= x}
  <2>1. B \in SUBSET S /\ x \in B
    OBVIOUS
  <2> HIDE DEF B
  <2>2. IsFiniteSet(B) /\ Cardinality(B) <= Cardinality(S) /\ B # {}
    BY <2>1, FS_Subset
  <2>3. Cardinality(B) \in Nat /\ Cardinality(B) # 0
    BY <2>2, FS_CardinalityType, FS_EmptySet
  <2>4. QED
    BY <1>1, <2>2, <2>3 DEF B, Rank
<1>3. ASSUME NEW x \in S, NEW y \in S, x < y PROVE Rank(S, x) < Rank(S, y)
  <2> DEFINE B == {z \in S : z <= x}
             C == {z \in S : z <= y}
  <2>1. B \in SUBSET C /\ C \in SUBSET S /\ y \in C /\ y \notin B
    <3>1. \A z \in S : z \in Int
      OBVIOUS
    <3>2. \A z \in S : z <= x => z <= y
      BY <1>3, <3>1
    <3>3. ~(y <= x) /\ y <= y
      BY <1>3, <3>1
    <3>4. QED
      BY <3>2, <3>3
  <2>2. Rank(S, x) = Cardinality(B) /\ Rank(S, y) = Cardinality(C)
    BY DEF Rank
  <2> HIDE DEF B, C
  <2>3. IsFiniteSet(C)
    BY <2>1, FS_Subset
  <2>4. IsFiniteSet(B) /\ Cardinality(B) <= Cardinality(C) /\ Cardinality(B) # Cardinality(C)
    BY <2>1, <2>3, FS_Subset
  <2>5. Cardinality(B) \in Nat /\ Cardinality(C) \in Nat
    BY <2>3, <2>4, FS_CardinalityType
  <2>6. QED
    BY <2>2, <2>4, <2>5
<1>4. \A n \in 1 .. Cardinality(S) : \E x \in S : Rank(S, x) = n
  <2> DEFINE T == 1 .. Cardinality(S)
             f == [x \in S |-> Rank(S, x)]
  <2>1. f \in [S -> T] /\ \A x \in S : f[x] = Rank(S, x)
    BY <1>2
  <2>2. ASSUME NEW x \in S, NEW y \in S, f[x] = f[y] PROVE x = y
    <3>1. x \in Int /\ y \in Int /\ Rank(S, x) = Rank(S, y)
      BY <2>1, <2>2
    <3>2. Rank(S, x) \in Int /\ Rank(S, y) \in Int
      BY <1>2
    <3>3. ~(x < y) /\ ~(y < x)
      BY <1>3, <3>1, <3>2
    <3>4. QED
      BY <3>1, <3>3
  <2>3. IsFiniteSet(T) /\ Cardinality(T) = Cardinality(S)
    BY <1>1, FS_Interval
  <2>4. DOMAIN f = S
    OBVIOUS
  <2> HIDE DEF f
  <2>5. f \in Injection(S, T)
    BY <2>1, <2>2, <2>4 DEF Injection, IsInjective
  <2> HIDE DEF T
  <2>6. f \in Surjection(S, T)
    BY <2>3, <2>5, FS_Injection
  <2>7. \A n \in T : \E x \in S : f[x] = n
    BY <2>6 DEF Surjection
  <2>8. QED
    BY <2>1, <2>7 DEF T
<1>5. QED
  BY <1>1, <1>2, <1>3, <1>4

\* Sorted() puts every number in its place.
LEMMA SortedIs ==
  ASSUME NEW S \in SUBSET Int, IsFiniteSet(S)
  PROVE  /\ Sorted(S) \in Seq(S) /\ Len(Sorted(S)) = Cardinality(S) /\ Cardinality(S) \in Nat
         /\ \A n \in 1 .. Cardinality(S) : Sorted(S)[n] \in S /\ Rank(S, Sorted(S)[n]) = n
         /\ \A x \in S : Rank(S, x) \in 1 .. Cardinality(S) /\ Sorted(S)[Rank(S, x)] = x
         /\ \A n, m \in 1 .. Cardinality(S) : n < m => Sorted(S)[n] < Sorted(S)[m]
<1> DEFINE s == Sorted(S)
<1>1. /\ Cardinality(S) \in Nat
      /\ \A x \in S : Rank(S, x) \in 1 .. Cardinality(S)
      /\ \A x, y \in S : x < y => Rank(S, x) < Rank(S, y)
      /\ \A n \in 1 .. Cardinality(S) : \E x \in S : Rank(S, x) = n
  BY Ranks
<1>2. s = [n \in 1 .. Cardinality(S) |-> CHOOSE x \in S : Rank(S, x) = n]
  BY DEF Sorted, Rank
<1> HIDE DEF s
<1>3. \A n \in 1 .. Cardinality(S) : s[n] \in S /\ Rank(S, s[n]) = n
  <2>1. ASSUME NEW n \in 1 .. Cardinality(S) PROVE s[n] \in S /\ Rank(S, s[n]) = n
    <3>1. s[n] = CHOOSE x \in S : Rank(S, x) = n
      BY <1>2
    <3>2. \E x \in S : Rank(S, x) = n
      BY <1>1
    <3>3. QED
      BY <3>1, <3>2
  <2>2. QED
    BY <2>1
<1>4. s \in Seq(S) /\ Len(s) = Cardinality(S)
  <2>1. s \in [1 .. Cardinality(S) -> S]
    BY <1>2, <1>3
  <2>2. QED
    BY <1>1, <2>1
<1>5. ASSUME NEW x \in S, NEW y \in S, Rank(S, x) = Rank(S, y) PROVE x = y
  <2>1. x \in Int /\ y \in Int /\ Rank(S, x) \in Int /\ Rank(S, y) \in Int
    BY <1>1
  <2>2. ~(x < y) /\ ~(y < x)
    BY <1>1, <1>5, <2>1
  <2>3. QED
    BY <2>1, <2>2
<1>6. ASSUME NEW x \in S PROVE s[Rank(S, x)] = x
  BY <1>1, <1>3, <1>5
<1>7. ASSUME NEW n \in 1 .. Cardinality(S), NEW m \in 1 .. Cardinality(S), n < m
      PROVE  s[n] < s[m]
  <2>1. s[n] \in S /\ s[m] \in S /\ Rank(S, s[n]) = n /\ Rank(S, s[m]) = m
    BY <1>3
  <2>2. n \in Int /\ m \in Int /\ s[n] \in Int /\ s[m] \in Int
    <3>1. \A z \in S : z \in Int
      OBVIOUS
    <3>2. n \in Int /\ m \in Int
      OBVIOUS
    <3>3. QED
      BY <2>1, <3>1, <3>2
  <2>3. s[n] # s[m]
    BY <1>7, <2>1, <2>2
  <2>4. ~(s[m] < s[n])
    <3>1. s[m] < s[n] => m < n
      BY <1>1, <2>1
    <3>2. QED
      BY <1>7, <2>2, <3>1
  <2>5. QED
    BY <2>2, <2>3, <2>4
<1>8. QED
  BY <1>1, <1>3, <1>4, <1>6, <1>7 DEF s

\* The values of a function on the first numbers are finitely many.
LEMMA FiniteRange ==
  ASSUME NEW k \in Nat, NEW f, DOMAIN f = 1 .. k
  PROVE  IsFiniteSet({f[n] : n \in 1 .. k})
<1> DEFINE T == {f[n] : n \in 1 .. k}
           g == [n \in 1 .. k |-> f[n]]
<1>1. g \in [1 .. k -> T] /\ \A t \in T : \E n \in 1 .. k : g[n] = t
  OBVIOUS
<1>2. IsFiniteSet(1 .. k)
  BY FS_Interval
<1> HIDE DEF g, T
<1>3. g \in Surjection(1 .. k, T)
  BY <1>1 DEF Surjection
<1>4. IsFiniteSet(T)
  BY <1>2, <1>3, FS_Surjection
<1>5. QED
  BY <1>4 DEF T

\* A finite set of numbers that is not empty has a greatest one.
LEMMA FiniteMax ==
  ASSUME NEW S \in SUBSET Int, IsFiniteSet(S), S # {}
  PROVE  Max(S) \in S /\ \A y \in S : y <= Max(S)
<1>1. /\ Cardinality(S) \in Nat
      /\ \A n \in 1 .. Cardinality(S) : Sorted(S)[n] \in S
      /\ \A x \in S : Rank(S, x) \in 1 .. Cardinality(S) /\ Sorted(S)[Rank(S, x)] = x
      /\ \A n, m \in 1 .. Cardinality(S) : n < m => Sorted(S)[n] < Sorted(S)[m]
  BY SortedIs
<1> DEFINE c == Cardinality(S)
<1>2. c \in 1 .. c
  <2>1. PICK x \in S : TRUE
    OBVIOUS
  <2>2. Rank(S, x) \in 1 .. c /\ c \in Nat
    BY <1>1, <2>1
  <2>3. QED
    BY <2>2
<1>3. ASSUME NEW y \in S PROVE y <= Sorted(S)[c]
  <2>1. y \in Int /\ Sorted(S)[c] \in Int
    BY <1>1, <1>2
  <2>2. CASE Rank(S, y) = c
    BY <1>1, <2>1, <2>2
  <2>3. CASE Rank(S, y) < c
    BY <1>1, <1>2, <2>1, <2>3
  <2>4. QED
    BY <1>1, <2>2, <2>3
<1>4. Sorted(S)[c] \in S
  BY <1>1, <1>2
<1>5. QED
  BY <1>3, <1>4, MaxIs

-----------------------------------------------------------------------------
(* The shift by octaves *)

\* The quotient rounds down.
LEMMA Quotient ==
  ASSUME NEW a \in Int, NEW o \in Nat \ {0}, NEW s \in Int
  PROVE  /\ a \div o \in Int
         /\ s * o <= a <=> s <= a \div o
<1> DEFINE q == a \div o
<1>1. q \in Int /\ o * q <= a /\ a < o * q + o
  OBVIOUS
<1> HIDE DEF q
<1>2. ASSUME s <= q PROVE s * o <= a
  <2>1. s * o <= q * o
    BY <1>1, <1>2
  <2>2. QED
    BY <1>1, <2>1
<1>3. ASSUME ~(s <= q) PROVE ~(s * o <= a)
  <2>1. q + 1 <= s
    BY <1>1, <1>3
  <2>2. (q + 1) * o <= s * o
    BY <1>1, <2>1
  <2>3. (q + 1) * o = o * q + o
    BY <1>1
  <2>4. s * o \in Int /\ o * q \in Int
    BY <1>1
  <2>5. QED
    BY <1>1, <2>2, <2>3, <2>4
<1>4. QED
  BY <1>1, <1>2, <1>3 DEF q

\* The limits of chooseTransposeSemitones() are those of the shifts that put a note, and
\* all between the lowest and the highest, on the keys.
LEMMA Limits ==
  ASSUME NEW p \in Int, NEW s \in Int
  PROVE  /\ LeastShift(p) \in Int /\ MostShift(p) \in Int
         /\ LeastShift(p) <= s <=> MIN_SUPPORTED_MIDI <= p + s * OCTAVE
         /\ s <= MostShift(p) <=> p + s * OCTAVE <= MAX_SUPPORTED_MIDI
<1>1. OCTAVE \in Nat \ {0} /\ MIN_SUPPORTED_MIDI \in Nat /\ KEYS \in Nat \ {0}
  BY MidiAssumption
<1>2. MAX_SUPPORTED_MIDI \in Int
  BY <1>1 DEF MAX_SUPPORTED_MIDI
<1> DEFINE a == p - MIN_SUPPORTED_MIDI
           b == MAX_SUPPORTED_MIDI - p
<1>3. a \in Int /\ b \in Int /\ -s \in Int /\ s * OCTAVE \in Int /\ (-s) * OCTAVE = -(s * OCTAVE)
  BY <1>1, <1>2
<1>4. LeastShift(p) = -(a \div OCTAVE) /\ MostShift(p) = b \div OCTAVE
  BY DEF LeastShift, MostShift
<1>5. /\ MIN_SUPPORTED_MIDI <= p + s * OCTAVE <=> (-s) * OCTAVE <= a
      /\ p + s * OCTAVE <= MAX_SUPPORTED_MIDI <=> s * OCTAVE <= b
  BY <1>1, <1>2, <1>3
<1> HIDE DEF a, b
<1>6. a \div OCTAVE \in Int /\ ((-s) * OCTAVE <= a <=> -s <= a \div OCTAVE)
  BY <1>1, <1>3, Quotient
<1>7. b \div OCTAVE \in Int /\ (s * OCTAVE <= b <=> s <= b \div OCTAVE)
  BY <1>1, <1>3, Quotient
<1> DEFINE q == a \div OCTAVE
<1>8. q \in Int /\ (-s <= q <=> -q <= s)
  BY <1>6
<1> HIDE DEF q
<1>9. LeastShift(p) \in Int /\ (LeastShift(p) <= s <=> MIN_SUPPORTED_MIDI <= p + s * OCTAVE)
  BY <1>4, <1>5, <1>6, <1>8 DEF q
<1>10. QED
  BY <1>4, <1>5, <1>7, <1>9

\* The loop of chooseTransposeSemitones() is a function.
LEMMA Loop ==
  ASSUME NEW a \in Int, NEW b \in Int, a <= b
  PROVE  \E f : f = [i \in a .. b |-> IF i = a THEN i ELSE Closer(f[i - 1], i)]
<1> DEFINE Way(f, n) == f = [i \in a .. n |-> IF i = a THEN i ELSE Closer(f[i - 1], i)]
           T == {n \in a .. b : \E f : Way(f, n)}
<1>1. a \in T
  <2>1. Way([i \in a .. a |-> a], a)
    <3> DEFINE g == [i \in a .. a |-> a]
               h == [i \in a .. a |-> IF i = a THEN i ELSE Closer(g[i - 1], i)]
    <3>1. \A i \in a .. a : g[i] = h[i]
      OBVIOUS
    <3>2. g = h
      BY <3>1
    <3>3. QED
      BY <3>2
  <2>2. a \in a .. b
    OBVIOUS
  <2> HIDE DEF Way
  <2>3. QED
    BY <2>1, <2>2
<1>2. ASSUME NEW n \in a + 1 .. b, n - 1 \in T PROVE n \in T
  <2>1. PICK f : Way(f, n - 1)
    BY <1>2
  <2> DEFINE g == [i \in a .. n |-> IF i = n THEN Closer(f[n - 1], n) ELSE f[i]]
             h == [i \in a .. n |-> IF i = a THEN i ELSE Closer(g[i - 1], i)]
  <2>2. \A i \in a .. n - 1 : f[i] = IF i = a THEN i ELSE Closer(f[i - 1], i)
    BY <2>1
  <2>3. ASSUME NEW i \in a .. n PROVE g[i] = h[i]
    <3>1. h[i] = IF i = a THEN i ELSE Closer(g[i - 1], i)
      OBVIOUS
    <3>2. CASE i = n
      <4>1. n # a /\ n - 1 \in a .. n /\ n - 1 # n
        OBVIOUS
      <4>2. g[n - 1] = f[n - 1]
        BY <4>1
      <4>3. QED
        BY <3>1, <3>2, <4>1, <4>2
    <3>3. CASE i # n /\ i = a
      BY <2>2, <3>1, <3>3
    <3>4. CASE i # n /\ i # a
      <4>1. i \in a .. n - 1 /\ i - 1 \in a .. n /\ i - 1 # n
        BY <3>4
      <4>2. g[i] = f[i] /\ g[i - 1] = f[i - 1]
        BY <3>4, <4>1
      <4>3. QED
        BY <2>2, <3>1, <3>4, <4>1, <4>2
    <3>5. QED
      BY <3>2, <3>3, <3>4
  <2>4. g = h
    BY <2>3
  <2>5. Way(g, n) /\ n \in a .. b
    BY <2>4
  <2> HIDE DEF g, Way
  <2>6. QED
    BY <2>5
<1>3. b \in a .. b
  OBVIOUS
<1>4. \A n \in T : \E f : Way(f, n)
  OBVIOUS
<1> HIDE DEF T
<1>5. \A i \in a .. b : i \in T
  BY <1>1, <1>2, UpTo
<1>6. QED
  BY <1>3, <1>4, <1>5

LEMMA Nearer ==
  ASSUME NEW x \in Int, NEW y \in Int
  PROVE  /\ Closer(x, y) \in {x, y}
         /\ Magnitude(Closer(x, y)) <= Magnitude(x) /\ Magnitude(Closer(x, y)) <= Magnitude(y)
         /\ Magnitude(x) \in Int /\ Magnitude(y) \in Int
BY DEF Closer, Magnitude

\* The loop finds a shift of the least magnitude.
LEMMA BestShiftIs ==
  ASSUME NEW lo \in Int, NEW hi \in Int, LeastShift(lo) <= MostShift(hi)
  PROVE  /\ BestShift(lo, hi) \in LeastShift(lo) .. MostShift(hi)
         /\ \A s \in LeastShift(lo) .. MostShift(hi) : Magnitude(BestShift(lo, hi)) <= Magnitude(s)
<1> DEFINE a == LeastShift(lo)
           b == MostShift(hi)
           Way(f) == f = [i \in a .. b |-> IF i = a THEN i ELSE Closer(f[i - 1], i)]
           best == CHOOSE f : Way(f)
<1>1. a \in Int /\ b \in Int /\ a <= b
  BY Limits
<1>2. BestShift(lo, hi) = best[b]
  BY DEF BestShift
<1> HIDE DEF a, b
<1>3. \E f : Way(f)
  BY <1>1, Loop
<1>4. Way(best)
  BY <1>3
<1> HIDE DEF best
<1>5. \A i \in a .. b : best[i] = IF i = a THEN i ELSE Closer(best[i - 1], i)
  BY <1>4
<1> HIDE DEF Way
<1> DEFINE T == {i \in a .. b : /\ best[i] \in a .. i
                                /\ \A s \in a .. i : Magnitude(best[i]) <= Magnitude(s)}
<1>6. a \in T
  <2>1. a \in a .. b /\ best[a] = a
    BY <1>1, <1>5
  <2>2. \A s \in a .. a : s = a
    BY <1>1
  <2>3. Magnitude(a) <= Magnitude(a) /\ a \in a .. a
    BY <1>1 DEF Magnitude
  <2>4. QED
    BY <2>1, <2>2, <2>3
<1>7. ASSUME NEW i \in a + 1 .. b, i - 1 \in T PROVE i \in T
  <2>1. i \in a .. b /\ i \in Int /\ i # a /\ i - 1 \in a .. b
    BY <1>1
  <2>2. best[i] = Closer(best[i - 1], i)
    BY <1>5, <2>1
  <2>3. best[i - 1] \in a .. i - 1 /\ \A s \in a .. i - 1 : Magnitude(best[i - 1]) <= Magnitude(s)
    BY <1>7
  <2>4. best[i - 1] \in Int
    BY <1>1, <2>1, <2>3
  <2>5. /\ best[i] \in {best[i - 1], i}
        /\ Magnitude(best[i]) <= Magnitude(best[i - 1]) /\ Magnitude(best[i]) <= Magnitude(i)
    BY <2>1, <2>2, <2>4, Nearer
  <2>6. best[i] \in a .. i
    BY <1>1, <2>1, <2>3, <2>5
  <2>7. ASSUME NEW s \in a .. i PROVE Magnitude(best[i]) <= Magnitude(s)
    <3>1. CASE s = i
      BY <2>5, <3>1
    <3>2. CASE s # i
      <4>1. s \in a .. i - 1 /\ s \in Int /\ best[i] \in Int
        BY <1>1, <2>1, <2>6, <3>2
      <4>2. Magnitude(best[i - 1]) <= Magnitude(s)
        BY <2>3, <4>1
      <4>3. Magnitude(best[i]) \in Int /\ Magnitude(best[i - 1]) \in Int /\ Magnitude(s) \in Int
        BY <2>4, <4>1 DEF Magnitude
      <4>4. QED
        BY <2>5, <4>2, <4>3
    <3>3. QED
      BY <3>1, <3>2
  <2>8. QED
    BY <2>1, <2>6, <2>7
<1>8. \A i \in T : best[i] \in a .. i /\ \A s \in a .. i : Magnitude(best[i]) <= Magnitude(s)
  OBVIOUS
<1> HIDE DEF T
<1>9. b \in T
  <2>1. \A i \in a .. b : i \in T
    BY <1>1, <1>6, <1>7, UpTo
  <2>2. QED
    BY <1>1, <2>1
<1>10. best[b] \in a .. b /\ \A s \in a .. b : Magnitude(best[b]) <= Magnitude(s)
  BY <1>8, <1>9
<1>11. QED
  BY <1>2, <1>10 DEF a, b

LEMMA NoteTypes ==
  ASSUME NEW part \in Seq(Note)
  PROVE  /\ Len(part) \in Nat /\ DOMAIN part = 1 .. Len(part)
         /\ \A n \in DOMAIN part : part[n] \in Note /\ part[n].midi \in 0 .. MAX_MIDI
                                   /\ part[n].time \in Nat /\ part[n].duration \in Nat
<1>1. \A note \in Note : note.midi \in 0 .. MAX_MIDI /\ note.time \in Nat /\ note.duration \in Nat
  BY DEF Note
<1> HIDE DEF Note
<1>2. Len(part) \in Nat /\ DOMAIN part = 1 .. Len(part) /\ \A n \in DOMAIN part : part[n] \in Note
  OBVIOUS
<1>3. QED
  BY <1>1, <1>2

\* All pitches of a part are on the keys if the lowest and the highest are.
LEMMA PartLimits ==
  ASSUME NEW part \in Seq(Note), part # << >>
  PROVE  LET lo == Min(Pitches(part))
             hi == Max(Pitches(part))
         IN /\ Pitches(part) \in SUBSET (0 .. MAX_MIDI)
            /\ lo \in Pitches(part) /\ hi \in Pitches(part)
            /\ \A pitch \in Pitches(part) : lo <= pitch /\ pitch <= hi
            /\ \A s \in Int : OnKeys(part, s) <=> s \in LeastShift(lo) .. MostShift(hi)
            /\ \A s \in Int : OnKeys(part, s) => s \in Shifts
<1> DEFINE P  == Pitches(part)
           lo == Min(P)
           hi == Max(P)
<1>1. MAX_MIDI \in Nat /\ OCTAVE \in Nat \ {0} /\ MIN_SUPPORTED_MIDI \in Nat /\ KEYS \in Nat \ {0}
  BY MidiAssumption
<1>2. \A n \in DOMAIN part : part[n] \in Note /\ part[n].midi \in 0 .. MAX_MIDI
  BY NoteTypes
<1>3. P \in SUBSET (0 .. MAX_MIDI) /\ P # {}
  <2>1. 1 \in DOMAIN part
    OBVIOUS
  <2>2. QED
    BY <1>2, <2>1 DEF Pitches
<1> HIDE DEF P
<1>4. lo \in P /\ hi \in P /\ \A pitch \in P : lo <= pitch /\ pitch <= hi
  <2>1. 0 \in Int /\ MAX_MIDI \in Int
    BY <1>1
  <2>2. QED
    BY <1>3, <2>1, Extremes
<1>5. \A pitch \in P : pitch \in Int /\ 0 <= pitch /\ pitch <= MAX_MIDI
  BY <1>1, <1>3
<1>6. MAX_SUPPORTED_MIDI \in Nat
  BY <1>1 DEF MAX_SUPPORTED_MIDI
<1> HIDE DEF lo, hi
<1>7. ASSUME NEW s \in Int
      PROVE  OnKeys(part, s) <=> s \in LeastShift(lo) .. MostShift(hi)
  <2>1. lo \in Int /\ hi \in Int
    BY <1>4, <1>5
  <2>2. /\ LeastShift(lo) \in Int /\ MostShift(hi) \in Int
        /\ LeastShift(lo) <= s <=> MIN_SUPPORTED_MIDI <= lo + s * OCTAVE
        /\ s <= MostShift(hi) <=> hi + s * OCTAVE <= MAX_SUPPORTED_MIDI
    BY <2>1, Limits
  <2> DEFINE d == s * OCTAVE
  <2>3. d \in Int
    BY <1>1
  <2>4. OnKeys(part, s) <=> \A pitch \in P : pitch + d \in MIN_SUPPORTED_MIDI .. MAX_SUPPORTED_MIDI
    BY DEF OnKeys, P
  <2> HIDE DEF d
  <2>5. ASSUME \A pitch \in P : pitch + d \in MIN_SUPPORTED_MIDI .. MAX_SUPPORTED_MIDI
        PROVE  MIN_SUPPORTED_MIDI <= lo + d /\ hi + d <= MAX_SUPPORTED_MIDI
    <3>1. lo + d \in MIN_SUPPORTED_MIDI .. MAX_SUPPORTED_MIDI
      BY <1>4, <2>5
    <3>2. hi + d \in MIN_SUPPORTED_MIDI .. MAX_SUPPORTED_MIDI
      BY <1>4, <2>5
    <3>3. QED
      BY <3>1, <3>2
  <2>6. ASSUME MIN_SUPPORTED_MIDI <= lo + d, hi + d <= MAX_SUPPORTED_MIDI, NEW pitch \in P
        PROVE  pitch + d \in MIN_SUPPORTED_MIDI .. MAX_SUPPORTED_MIDI
    <3>1. pitch \in Int /\ lo <= pitch /\ pitch <= hi
      BY <1>4, <1>5
    <3>2. QED
      BY <1>1, <1>6, <2>1, <2>3, <2>6, <3>1
  <2>7. QED
    BY <2>2, <2>4, <2>5, <2>6 DEF d
<1>8. ASSUME NEW s \in Int, OnKeys(part, s) PROVE s \in Shifts
  <2> DEFINE d == s * OCTAVE
  <2>1. d \in Int
    BY <1>1
  <2>2. lo + d \in MIN_SUPPORTED_MIDI .. MAX_SUPPORTED_MIDI /\ lo \in Int
    BY <1>4, <1>5, <1>8 DEF OnKeys, P
  <2>3. s >= 0 => d >= s
    BY <1>1
  <2>4. s <= 0 => d <= s
    BY <1>1
  <2> HIDE DEF d
  <2>5. MIN_SUPPORTED_MIDI <= lo + d /\ lo + d <= MAX_SUPPORTED_MIDI /\ 0 <= lo /\ lo <= MAX_MIDI
    BY <1>4, <1>5, <2>2
  <2>6. -MAX_MIDI <= s /\ s <= MAX_SUPPORTED_MIDI
    BY <1>1, <1>6, <2>1, <2>2, <2>3, <2>4, <2>5
  <2>7. QED
    BY <1>1, <1>6, <2>6 DEF Shifts
<1>9. QED
  BY <1>3, <1>4, <1>7, <1>8 DEF P, lo, hi

\* Trying one shift after the other would find the same.
LEMMA PlayableFits ==
  ASSUME NEW part \in Seq(Note)
  PROVE  Playable(part) <=> Fits(part)
<1>1. CASE part = << >>
  <2>1. Len(part) = 0
    BY <1>1
  <2>2. QED
    BY <2>1 DEF Playable, Fits
<1>2. CASE part # << >>
  <2> DEFINE P  == Pitches(part)
             lo == Min(P)
             hi == Max(P)
  <2>1. /\ P \in SUBSET (0 .. MAX_MIDI)
        /\ lo \in P /\ hi \in P
        /\ \A pitch \in P : lo <= pitch /\ pitch <= hi
        /\ \A s \in Int : OnKeys(part, s) <=> s \in LeastShift(lo) .. MostShift(hi)
        /\ \A s \in Int : OnKeys(part, s) => s \in Shifts
    BY <1>2, PartLimits
  <2>2. MAX_MIDI \in Nat /\ MAX_RAW_MIDI_SPAN_SEMITONES \in Nat
    BY MidiAssumption
  <2> HIDE DEF P
  <2>3. \A pitch \in P : pitch \in Int
    BY <2>1, <2>2
  <2> HIDE DEF lo, hi
  <2>4. lo \in Int /\ hi \in Int
    BY <2>1, <2>3
  <2>5. hi - lo <= MAX_RAW_MIDI_SPAN_SEMITONES
          <=> \A n, m \in P : n - m <= MAX_RAW_MIDI_SPAN_SEMITONES
    <3>1. ASSUME hi - lo <= MAX_RAW_MIDI_SPAN_SEMITONES, NEW n \in P, NEW m \in P
          PROVE  n - m <= MAX_RAW_MIDI_SPAN_SEMITONES
      <4>1. n \in Int /\ m \in Int /\ lo <= m /\ n <= hi
        BY <2>1, <2>3
      <4>2. QED
        BY <2>2, <2>4, <3>1, <4>1
    <3>2. QED
      BY <2>1, <3>1
  <2>6. LeastShift(lo) \in Int /\ MostShift(hi) \in Int
    BY <2>4, Limits
  <2>7. LeastShift(lo) <= MostShift(hi) <=> \E s \in Shifts : OnKeys(part, s)
    <3>1. ASSUME LeastShift(lo) <= MostShift(hi) PROVE \E s \in Shifts : OnKeys(part, s)
      <4>1. LeastShift(lo) \in LeastShift(lo) .. MostShift(hi)
        BY <2>6, <3>1
      <4>2. QED
        BY <2>1, <2>6, <4>1
    <3>2. ASSUME NEW s \in Shifts, OnKeys(part, s) PROVE LeastShift(lo) <= MostShift(hi)
      <4>1. s \in Int
        BY MidiAssumption DEF Shifts, MAX_SUPPORTED_MIDI
      <4>2. s \in LeastShift(lo) .. MostShift(hi)
        BY <2>1, <3>2, <4>1
      <4>3. QED
        BY <2>6, <4>1, <4>2
    <3>3. QED
      BY <3>1, <3>2
  <2>8. QED
    BY <2>5, <2>7 DEF Playable, Fits, Transposable, P, lo, hi
<1>3. QED
  BY <1>1, <1>2

\* The shift that buildPlayableCandidate() works with.
ShiftOf(part) == BestShift(Min(Pitches(part)), Max(Pitches(part)))

LEMMA ShiftIs ==
  ASSUME NEW part \in Seq(Note), Playable(part)
  PROVE  /\ ShiftOf(part) \in Shifts /\ ShiftOf(part) \in Int
         /\ OnKeys(part, ShiftOf(part))
         /\ \A less \in Shifts : Magnitude(less) < Magnitude(ShiftOf(part)) => ~OnKeys(part, less)
<1> DEFINE P  == Pitches(part)
           lo == Min(P)
           hi == Max(P)
           shift == ShiftOf(part)
<1>1. part # << >>
  <2>1. Len(part) \in 1 .. MAX_IMPORTABLE_NOTE_COUNT
    BY DEF Playable
  <2>2. QED
    BY <2>1
<1>2. /\ P \in SUBSET (0 .. MAX_MIDI)
      /\ lo \in P /\ hi \in P
      /\ \A s \in Int : OnKeys(part, s) <=> s \in LeastShift(lo) .. MostShift(hi)
      /\ \A s \in Int : OnKeys(part, s) => s \in Shifts
  BY <1>1, PartLimits
<1>3. LeastShift(lo) <= MostShift(hi)
  BY DEF Playable, Transposable
<1>4. shift = BestShift(lo, hi)
  BY DEF ShiftOf
<1> HIDE DEF P
<1> HIDE DEF lo, hi, shift
<1>5. lo \in Int /\ hi \in Int
  <2>1. MAX_MIDI \in Nat
    BY MidiAssumption
  <2>2. \A pitch \in P : pitch \in Int
    BY <1>2, <2>1
  <2>3. QED
    BY <1>2, <2>2
<1>6. /\ shift \in LeastShift(lo) .. MostShift(hi)
      /\ \A s \in LeastShift(lo) .. MostShift(hi) : Magnitude(shift) <= Magnitude(s)
  BY <1>3, <1>4, <1>5, BestShiftIs
<1>7. LeastShift(lo) \in Int /\ MostShift(hi) \in Int
  BY <1>5, Limits
<1>8. shift \in Int /\ OnKeys(part, shift) /\ shift \in Shifts
  BY <1>2, <1>6, <1>7
<1>9. ASSUME NEW less \in Shifts, Magnitude(less) < Magnitude(shift), OnKeys(part, less)
      PROVE  FALSE
  <2>1. less \in Int
    BY MidiAssumption DEF Shifts, MAX_SUPPORTED_MIDI
  <2>2. Magnitude(shift) <= Magnitude(less)
    BY <1>2, <1>6, <1>9, <2>1
  <2>3. Magnitude(shift) \in Int /\ Magnitude(less) \in Int
    BY <1>8, <2>1 DEF Magnitude
  <2>4. QED
    BY <1>9, <2>2, <2>3
<1>10. QED
  BY <1>8, <1>9 DEF shift

-----------------------------------------------------------------------------
(* The chord of one start *)

Chord(part, start) == {part[n].midi : n \in {m \in DOMAIN part : part[m].time = start}}

\* How many of its notes are kept.
Fingers(part, start) == Min({Cardinality(Chord(part, start)), MAX_KEYS_PER_STEP})

LEMMA ChordIs ==
  ASSUME NEW part \in Seq(Note), NEW start \in Starts(part)
  PROVE  /\ Chord(part, start) \in SUBSET Pitches(part) /\ Chord(part, start) \in SUBSET Int
         /\ IsFiniteSet(Chord(part, start)) /\ Cardinality(Chord(part, start)) \in Nat \ {0}
         /\ Fingers(part, start) \in 1 .. MAX_KEYS_PER_STEP
         /\ Fingers(part, start) <= Cardinality(Chord(part, start))
         /\ Fingers(part, start) \in {Cardinality(Chord(part, start)), MAX_KEYS_PER_STEP}
<1> DEFINE C == Chord(part, start)
           k == Fingers(part, start)
<1>1. MAX_MIDI \in Nat /\ MAX_KEYS_PER_STEP \in Nat \ {0}
  BY MidiAssumption
<1>2. \A n \in DOMAIN part : part[n].midi \in 0 .. MAX_MIDI
  BY NoteTypes
<1>3. C \in SUBSET Pitches(part) /\ C \in SUBSET (0 .. MAX_MIDI)
  BY <1>2 DEF Chord, Pitches
<1>4. C # {}
  <2>1. PICK n \in DOMAIN part : part[n].time = start
    BY DEF Starts
  <2>2. part[n].midi \in C
    BY <2>1 DEF Chord
  <2>3. QED
    BY <2>2
<1>5. IsFiniteSet(0 .. MAX_MIDI)
  BY <1>1, FS_Interval
<1>6. IsFiniteSet(C)
  BY <1>3, <1>5, FS_Subset
<1>7. Cardinality(C) \in Nat /\ Cardinality(C) # 0
  BY <1>4, <1>6, FS_CardinalityType, FS_EmptySet
<1>8. k \in {Cardinality(C), MAX_KEYS_PER_STEP} /\ k <= Cardinality(C) /\ k <= MAX_KEYS_PER_STEP
  <2> DEFINE S == {Cardinality(C), MAX_KEYS_PER_STEP}
             c == Cardinality(C)
  <2>1. S \in SUBSET Int /\ c \in S /\ MAX_KEYS_PER_STEP \in S /\ c \in Int
    BY <1>1, <1>7
  <2>2. k = Min(S)
    BY DEF Fingers
  <2>3. \E x \in S : \A y \in S : x <= y
    <3>1. CASE c <= MAX_KEYS_PER_STEP
      BY <1>1, <2>1, <3>1
    <3>2. CASE ~(c <= MAX_KEYS_PER_STEP)
      BY <1>1, <2>1, <3>2
    <3>3. QED
      BY <3>1, <3>2
  <2> HIDE DEF S, k
  <2>4. Min(S) \in S /\ \A y \in S : Min(S) <= y
    BY <2>1, <2>3, MinIs
  <2>5. k \in S /\ k <= c /\ k <= MAX_KEYS_PER_STEP
    BY <2>1, <2>2, <2>4
  <2>6. QED
    BY <2>5 DEF S
<1> HIDE DEF k
<1>9. k \in 1 .. MAX_KEYS_PER_STEP
  BY <1>1, <1>7, <1>8
<1>10. C \in SUBSET Int
  BY <1>1, <1>3
<1>11. QED
  BY <1>3, <1>6, <1>7, <1>8, <1>9, <1>10 DEF k

\* The notes that are kept: one per pitch, of the lowest pitches, in order.
LEMMA KeptIs ==
  ASSUME NEW part \in Seq(Note), NEW start \in Starts(part)
  PROVE  LET kept == KeptNotes(UniqueNotes(part, start))
             k == Fingers(part, start)
         IN /\ kept \in Seq(Note) /\ Len(kept) = k /\ DOMAIN kept = 1 .. k
            /\ \A n \in 1 .. k : kept[n].midi = Sorted(Chord(part, start))[n]
<1> DEFINE C == Chord(part, start)
           c == Cardinality(C)
           At(pitch) == {n \in DOMAIN part : part[n].time = start /\ part[n].midi = pitch}
           s == Sorted(C)
           unique == UniqueNotes(part, start)
           k == Fingers(part, start)
<1>1. /\ C \in SUBSET Int /\ IsFiniteSet(C) /\ c \in Nat
      /\ k \in 1 .. MAX_KEYS_PER_STEP /\ k <= c
  BY ChordIs
<1>2. {p \in Pitches(part) : At(p) # {}} = C
  BY DEF Pitches, Chord
<1>3. unique = [n \in DOMAIN s |-> part[Min(At(s[n]))]]
  BY <1>2 DEF UniqueNotes
<1>4. \A pitch \in C : At(pitch) # {}
  BY <1>2
<1> HIDE DEF C
<1>5. s \in Seq(C) /\ Len(s) = c /\ \A n \in 1 .. c : s[n] \in C
  BY <1>1, SortedIs
<1>6. DOMAIN s = 1 .. c
  BY <1>5
<1> HIDE DEF s
<1>7. \A pitch \in C : Min(At(pitch)) \in At(pitch)
  <2>1. ASSUME NEW pitch \in C PROVE Min(At(pitch)) \in At(pitch)
    <3> DEFINE A == At(pitch)
    <3>1. A \in SUBSET Nat /\ A # {}
      <4>1. DOMAIN part \in SUBSET Nat
        BY NoteTypes
      <4>2. QED
        BY <1>4, <4>1
    <3> HIDE DEF A
    <3>2. A \in SUBSET Int
      BY <3>1
    <3>3. \E x \in A : \A y \in A : x <= y
      BY <3>1, Least
    <3>4. Min(A) \in A
      BY <3>2, <3>3, MinIs
    <3>5. QED
      BY <3>4 DEF A
  <2>2. QED
    BY <2>1
<1>8. ASSUME NEW n \in 1 .. c PROVE unique[n] \in Note /\ unique[n].midi = s[n]
  <2>1. unique[n] = part[Min(At(s[n]))]
    BY <1>3, <1>6
  <2>2. Min(At(s[n])) \in At(s[n])
    BY <1>5, <1>7
  <2>3. Min(At(s[n])) \in DOMAIN part /\ part[Min(At(s[n]))].midi = s[n]
    BY <2>2
  <2>4. QED
    BY <2>1, <2>3, NoteTypes
<1>9. unique \in Seq(Note) /\ Len(unique) = c
  <2>1. DOMAIN unique = 1 .. c
    BY <1>3, <1>6
  <2> HIDE DEF unique, At
  <2>2. unique = [n \in 1 .. c |-> unique[n]]
    BY <1>3, <1>6, <2>1
  <2>3. unique \in [1 .. c -> Note]
    BY <1>8, <2>2
  <2>4. QED
    BY <1>1, <2>3
<1> DEFINE kept == KeptNotes(unique)
<1> HIDE DEF unique, At
<1>10. kept = SubSeq(unique, 1, k)
  BY <1>9 DEF KeptNotes, Fingers, C
<1> HIDE DEF kept, k
<1>11. MAX_KEYS_PER_STEP \in Nat
  BY MidiAssumption
<1>12. /\ kept \in Seq(Note) /\ Len(kept) = k
       /\ \A n \in 1 .. k : kept[n] = unique[n]
  BY <1>1, <1>9, <1>10, <1>11
<1>13. DOMAIN kept = 1 .. k
  BY <1>12
<1>14. \A n \in 1 .. k : kept[n].midi = s[n]
  BY <1>1, <1>8, <1>11, <1>12
<1>15. QED
  BY <1>12, <1>13, <1>14 DEF kept, k, unique, s, C

\* A step as the library keeps it and the firmware takes it.
Step == [keys : Seq(Nat), duration : Nat]

GoodStep(step) ==
  /\ step \in Step
  /\ Len(step.keys) \in 1 .. MAX_KEYS_PER_STEP
  /\ \A k \in DOMAIN step.keys : step.keys[k] \in 0 .. KEYS - 1
  /\ step.duration \in StepDuration

LEMMA Clamped ==
  ASSUME NEW ms \in Int
  PROVE  clampDuration(ms) \in StepDuration
<1>1. /\ MIN_NOTE_DURATION_MS \in Nat /\ MAX_NOTE_DURATION_MS \in Nat
      /\ MIN_NOTE_DURATION_MS <= MAX_NOTE_DURATION_MS
  BY MidiAssumption
<1>2. CASE ms < MIN_NOTE_DURATION_MS
  BY <1>1, <1>2 DEF clampDuration, StepDuration
<1>3. CASE ms > MAX_NOTE_DURATION_MS
  <2>1. ~(ms < MIN_NOTE_DURATION_MS)
    BY <1>1, <1>3
  <2>2. QED
    BY <1>1, <1>3, <2>1 DEF clampDuration, StepDuration
<1>4. CASE ~(ms < MIN_NOTE_DURATION_MS) /\ ~(ms > MAX_NOTE_DURATION_MS)
  <2>1. clampDuration(ms) = ms
    BY <1>4 DEF clampDuration
  <2>2. QED
    BY <1>1, <1>4, <2>1 DEF StepDuration
<1>5. QED
  BY <1>2, <1>3, <1>4

\* The step of a start plays the kept notes of the chord, on the keys.
LEMMA StepIs ==
  ASSUME NEW part \in Seq(Note), NEW shift \in Int, OnKeys(part, shift), NEW start \in Starts(part)
  PROVE  LET step == StepAt(part, shift, start)
             k == Fingers(part, start)
         IN /\ GoodStep(step) /\ Len(step.keys) = k
            /\ \A n \in 1 .. k : step.keys[n] = Sorted(Chord(part, start))[n] + shift * OCTAVE
                                                  - MIN_SUPPORTED_MIDI
<1> DEFINE C == Chord(part, start)
           s == Sorted(C)
           k == Fingers(part, start)
           kept == KeptNotes(UniqueNotes(part, start))
           step == StepAt(part, shift, start)
           D == {kept[n].duration : n \in DOMAIN kept}
           d == shift * OCTAVE
           keys == [n \in 1 .. k |-> s[n] + d - MIN_SUPPORTED_MIDI]
<1>1. /\ MAX_KEYS_PER_STEP \in Nat \ {0} /\ OCTAVE \in Nat \ {0} /\ KEYS \in Nat \ {0}
      /\ MIN_SUPPORTED_MIDI \in Nat /\ MIN_NOTE_DURATION_MS \in Nat
  BY MidiAssumption
<1>2. /\ kept \in Seq(Note) /\ Len(kept) = k /\ DOMAIN kept = 1 .. k
      /\ \A n \in 1 .. k : kept[n].midi = s[n]
  BY KeptIs
<1>3. /\ C \in SUBSET Pitches(part) /\ C \in SUBSET Int
      /\ IsFiniteSet(C) /\ Cardinality(C) \in Nat
      /\ k \in 1 .. MAX_KEYS_PER_STEP /\ k <= Cardinality(C)
  BY ChordIs
<1>4. step = [keys |-> [n \in DOMAIN kept |-> kept[n].midi + d - MIN_SUPPORTED_MIDI],
              duration |-> clampDuration(Max(D))]
  BY DEF StepAt
<1>5. [n \in DOMAIN kept |-> kept[n].midi + d - MIN_SUPPORTED_MIDI] = keys
  BY <1>2
<1>6. step.keys = keys /\ step.duration = clampDuration(Max(D))
  <2>1. step = [keys |-> keys, duration |-> clampDuration(Max(D))]
    BY <1>4, <1>5
  <2> HIDE DEF keys, D, step
  <2>2. QED
    BY <2>1
<1>7. step = [keys |-> keys, duration |-> clampDuration(Max(D))]
  BY <1>4, <1>5
<1>8. d \in Int
  BY <1>1
<1>9. \A pitch \in C : pitch + d \in MIN_SUPPORTED_MIDI .. MAX_SUPPORTED_MIDI
  BY <1>3 DEF OnKeys
<1> HIDE DEF C
<1>10. \A n \in 1 .. Cardinality(C) : s[n] \in C
  BY <1>3, SortedIs
<1> HIDE DEF s, step, d, kept, D, k
<1>11. k \in Nat /\ \A n \in 1 .. k : n \in 1 .. Cardinality(C)
  BY <1>1, <1>3
<1>12. \A n \in 1 .. k : keys[n] \in 0 .. KEYS - 1
  <2>1. ASSUME NEW n \in 1 .. k PROVE keys[n] \in 0 .. KEYS - 1
    <3>1. s[n] \in C /\ s[n] \in Int
      BY <1>3, <1>10, <1>11
    <3>2. s[n] + d \in MIN_SUPPORTED_MIDI .. MIN_SUPPORTED_MIDI + KEYS - 1
      BY <1>9, <3>1 DEF MAX_SUPPORTED_MIDI
    <3>3. s[n] + d - MIN_SUPPORTED_MIDI \in 0 .. KEYS - 1
      BY <1>1, <1>8, <3>1, <3>2
    <3>4. QED
      BY <3>3
  <2>2. QED
    BY <2>1
<1>13. keys \in Seq(Nat) /\ Len(keys) = k /\ DOMAIN keys = 1 .. k
  <2>1. \A n \in 1 .. k : keys[n] \in Nat
    BY <1>1, <1>12
  <2>2. DOMAIN keys = 1 .. k
    OBVIOUS
  <2>3. keys = [n \in 1 .. k |-> keys[n]]
    OBVIOUS
  <2> HIDE DEF keys
  <2>4. keys \in [1 .. k -> Nat]
    BY <2>1, <2>3
  <2>5. QED
    BY <1>11, <2>2, <2>4
<1>14. clampDuration(Max(D)) \in StepDuration
  <2>1. \A n \in 1 .. k : kept[n].duration \in Nat
    BY <1>2, NoteTypes
  <2> DEFINE f == [n \in 1 .. k |-> kept[n].duration]
  <2>2. D = {f[n] : n \in 1 .. k}
    BY <1>2 DEF D
  <2>3. DOMAIN f = 1 .. k
    OBVIOUS
  <2> HIDE DEF f
  <2>4. IsFiniteSet(D)
    BY <1>11, <2>2, <2>3, FiniteRange
  <2>5. D \in SUBSET Int
    BY <1>2, <2>1 DEF D
  <2>6. D # {}
    <3>1. 1 \in DOMAIN kept
      BY <1>1, <1>2, <1>3
    <3>2. QED
      BY <3>1 DEF D
  <2>7. Max(D) \in Int
    BY <2>4, <2>5, <2>6, FiniteMax
  <2>8. QED
    BY <2>7, Clamped
<1>15. StepDuration \in SUBSET Nat
  <2>1. \A x \in StepDuration : x \in Nat
    BY <1>1, MidiAssumption DEF StepDuration
  <2>2. QED
    BY <2>1
<1>16. step \in Step
  <2>1. clampDuration(Max(D)) \in Nat
    BY <1>14, <1>15
  <2> HIDE DEF keys
  <2>2. QED
    BY <1>13, <1>7, <2>1 DEF Step
<1>17. GoodStep(step)
  <2> HIDE DEF keys
  <2>1. QED
    BY <1>3, <1>6, <1>12, <1>13, <1>14, <1>16 DEF GoodStep
<1>18. \A n \in 1 .. k : step.keys[n] = s[n] + d - MIN_SUPPORTED_MIDI
  BY <1>6
<1>19. QED
  BY <1>6, <1>13, <1>17, <1>18 DEF C, s, k, step, d

-----------------------------------------------------------------------------
(* One part of a file *)

\* Steps that can be saved and played.
Good(steps) == steps \in Seq(Step) /\ LibraryTakes(steps) /\ FirmwareTakes(steps, KEYS)

LEMMA StartsIs ==
  ASSUME NEW part \in Seq(Note), part # << >>
  PROVE  Starts(part) \in SUBSET Int /\ IsFiniteSet(Starts(part)) /\ Cardinality(Starts(part)) \in Nat \ {0}
<1> DEFINE k == Len(part)
           f == [n \in 1 .. k |-> part[n].time]
<1>1. k \in Nat \ {0} /\ DOMAIN part = 1 .. k
  OBVIOUS
<1>2. \A n \in 1 .. k : part[n].time \in Nat
  BY <1>1, NoteTypes
<1>3. DOMAIN f = 1 .. k /\ Starts(part) = {f[n] : n \in 1 .. k}
  BY <1>1 DEF Starts
<1>4. Starts(part) \in SUBSET Int
  BY <1>2, <1>3
<1>5. Starts(part) # {}
  <2>1. 1 \in 1 .. k
    BY <1>1
  <2>2. QED
    BY <1>3, <2>1
<1> HIDE DEF f, k
<1>6. IsFiniteSet(Starts(part))
  BY <1>1, <1>3, FiniteRange
<1>7. QED
  BY <1>4, <1>5, <1>6, FS_CardinalityType, FS_EmptySet

LEMMA ConvertedIs ==
  ASSUME NEW part \in Seq(Note), Playable(part)
  PROVE  /\ Len(Converted(part)) = Cardinality(Starts(part))
         /\ \A n \in DOMAIN Converted(part) : GoodStep(Converted(part)[n])
         /\ \A start \in Starts(part) :
              /\ Rank(Starts(part), start) \in DOMAIN Converted(part)
              /\ Converted(part)[Rank(Starts(part), start)] = StepAt(part, ShiftOf(part), start)
         /\ Good(Converted(part))
<1> DEFINE S == Starts(part)
           s == Sorted(S)
           steps == Converted(part)
           shift == ShiftOf(part)
           c == Cardinality(S)
<1>1. part # << >>
  <2>1. Len(part) \in 1 .. MAX_IMPORTABLE_NOTE_COUNT
    BY DEF Playable
  <2>2. QED
    BY <2>1
<1>2. shift \in Int /\ OnKeys(part, shift)
  BY ShiftIs
<1>3. steps = [n \in DOMAIN s |-> StepAt(part, shift, s[n])]
  BY DEF Converted, ShiftOf
<1>4. S \in SUBSET Int /\ IsFiniteSet(S) /\ c \in Nat \ {0} /\ c <= MAX_SEQUENCE_LENGTH
  BY <1>1, StartsIs DEF Playable
<1> HIDE DEF shift, steps
<1>5. \A start \in S : GoodStep(StepAt(part, shift, start))
  BY <1>2, StepIs
<1> HIDE DEF S
<1>6. /\ s \in Seq(S) /\ Len(s) = c
      /\ \A n \in 1 .. c : s[n] \in S
      /\ \A x \in S : Rank(S, x) \in 1 .. c /\ s[Rank(S, x)] = x
  BY <1>4, SortedIs
<1> HIDE DEF s
<1>7. DOMAIN s = 1 .. c
  BY <1>6
<1> HIDE DEF c
<1>8. \A n \in 1 .. c : steps[n] = StepAt(part, shift, s[n]) /\ GoodStep(steps[n])
  BY <1>3, <1>5, <1>6, <1>7
<1>9. steps \in Seq(Step) /\ Len(steps) = c /\ DOMAIN steps = 1 .. c
  <2>1. steps = [n \in 1 .. c |-> steps[n]]
    BY <1>3, <1>7
  <2>2. \A n \in 1 .. c : steps[n] \in Step
    BY <1>8 DEF GoodStep
  <2>3. steps \in [1 .. c -> Step]
    BY <2>1, <2>2
  <2>4. QED
    BY <1>4, <2>3
<1>10. MAX_SEQUENCE_LENGTH \in Nat
  BY MidiAssumption
<1>11. LibraryTakes(steps)
  BY <1>4, <1>8, <1>9 DEF LibraryTakes, GoodStep
<1>12. FirmwareTakes(steps, KEYS)
  <2>1. Len(steps) \in 1 .. MAX_SEQUENCE_LENGTH
    BY <1>4, <1>9, <1>10
  <2>2. QED
    BY <1>8, <1>9, <2>1 DEF FirmwareTakes, GoodStep
<1>13. ASSUME NEW start \in S
       PROVE  Rank(S, start) \in DOMAIN steps /\ steps[Rank(S, start)] = StepAt(part, shift, start)
  BY <1>6, <1>8, <1>9
<1>14. QED
  BY <1>8, <1>9, <1>11, <1>12, <1>13 DEF Good, S, c, steps, shift

\* What buildPlayableCandidate() makes of a part plays it.
LEMMA ConvertedPlays ==
  ASSUME NEW part \in Seq(Note), Playable(part)
  PROVE  Plays(Converted(part), part, ShiftOf(part))
<1> DEFINE steps == Converted(part)
           shift == ShiftOf(part)
           d == shift * OCTAVE
<1>1. /\ Len(steps) = Cardinality(Starts(part))
      /\ \A start \in Starts(part) : steps[Rank(Starts(part), start)] = StepAt(part, shift, start)
  BY ConvertedIs
<1>2. shift \in Int /\ OnKeys(part, shift)
  BY ShiftIs
<1>3. d \in Int /\ MIN_SUPPORTED_MIDI \in Int /\ MAX_KEYS_PER_STEP \in Nat
  BY <1>2, MidiAssumption
<1>4. ASSUME NEW start \in Starts(part)
      PROVE  LET step == steps[Cardinality({s \in Starts(part) : s <= start})]
                 pitches == {part[n].midi : n \in {m \in DOMAIN part : part[m].time = start}}
                 played == {k - shift * OCTAVE + MIN_SUPPORTED_MIDI :
                              k \in {step.keys[n] : n \in DOMAIN step.keys}}
             IN /\ \A n \in 1 .. Len(step.keys) - 1 : step.keys[n] < step.keys[n + 1]
                /\ played \subseteq pitches
                /\ \A pitch \in pitches \ played :
                     Len(step.keys) = MAX_KEYS_PER_STEP /\ \A other \in played : other < pitch
  <2> DEFINE step == StepAt(part, shift, start)
             keys == step.keys
             C == Chord(part, start)
             s == Sorted(C)
             c == Cardinality(C)
             k == Fingers(part, start)
             played == {x - d + MIN_SUPPORTED_MIDI : x \in {keys[n] : n \in DOMAIN keys}}
  <2>1. steps[Cardinality({x \in Starts(part) : x <= start})] = step
    BY <1>1 DEF Rank
  <2>2. GoodStep(step) /\ Len(keys) = k /\ \A n \in 1 .. k : keys[n] = s[n] + d - MIN_SUPPORTED_MIDI
    BY <1>2, StepIs
  <2>3. /\ C \in SUBSET Int /\ IsFiniteSet(C) /\ c \in Nat
        /\ k \in 1 .. MAX_KEYS_PER_STEP /\ k <= c /\ k \in {c, MAX_KEYS_PER_STEP}
    BY ChordIs
  <2>4. keys \in Seq(Nat)
    BY <2>2 DEF GoodStep, Step
  <2>5. DOMAIN keys = 1 .. k
    BY <2>2, <2>4
  <2> HIDE DEF C, keys, step, k, d, steps
  <2>6. /\ \A n \in 1 .. c : s[n] \in C
        /\ \A x \in C : Rank(C, x) \in 1 .. c /\ s[Rank(C, x)] = x
        /\ \A n, m \in 1 .. c : n < m => s[n] < s[m]
    BY <2>3, SortedIs
  <2> HIDE DEF s, c
  <2>7. k \in Int /\ k <= c /\ \A n \in 1 .. k : n \in 1 .. c /\ s[n] \in C /\ s[n] \in Int
    <3>1. k \in Int /\ k <= c
      BY <1>3, <2>3
    <3>2. ASSUME NEW n \in 1 .. k PROVE n \in 1 .. c
      BY <2>3, <3>1
    <3>3. QED
      BY <2>3, <2>6, <3>1, <3>2
  <2>8. ASSUME NEW n \in 1 .. Len(keys) - 1 PROVE keys[n] < keys[n + 1]
    <3>1. n \in 1 .. k /\ n + 1 \in 1 .. k /\ n < n + 1
      BY <2>2, <2>7
    <3>2. s[n] < s[n + 1]
      BY <2>6, <2>7, <3>1
    <3>3. keys[n] = s[n] + d - MIN_SUPPORTED_MIDI /\ keys[n + 1] = s[n + 1] + d - MIN_SUPPORTED_MIDI
      BY <2>2, <3>1
    <3>4. s[n] \in Int /\ s[n + 1] \in Int
      BY <2>7, <3>1
    <3>5. QED
      BY <1>3, <3>2, <3>3, <3>4 DEF d
  <2>9. \A n \in 1 .. k : keys[n] - d + MIN_SUPPORTED_MIDI = s[n]
    <3>1. ASSUME NEW n \in 1 .. k PROVE keys[n] - d + MIN_SUPPORTED_MIDI = s[n]
      <4>1. keys[n] = s[n] + d - MIN_SUPPORTED_MIDI /\ s[n] \in Int
        BY <2>2, <2>7
      <4>2. QED
        BY <1>3, <4>1 DEF d
    <3>2. QED
      BY <3>1
  <2>10. played = {s[n] : n \in 1 .. k}
    BY <2>5, <2>9
  <2> HIDE DEF played
  <2>11. played \subseteq C
    BY <2>7, <2>10
  <2>12. ASSUME NEW pitch \in C \ played
         PROVE  Len(keys) = MAX_KEYS_PER_STEP /\ \A other \in played : other < pitch
    <3>1. Rank(C, pitch) \in 1 .. c /\ s[Rank(C, pitch)] = pitch
      BY <2>6
    <3>2. Rank(C, pitch) \notin 1 .. k
      BY <2>10, <3>1
    <3>3. Rank(C, pitch) \in Int /\ k < Rank(C, pitch)
      BY <2>3, <2>7, <3>1, <3>2
    <3>4. k # c
      BY <2>3, <3>1, <3>3
    <3>5. Len(keys) = MAX_KEYS_PER_STEP
      BY <2>2, <2>3, <3>4
    <3>6. ASSUME NEW other \in played PROVE other < pitch
      <4>1. PICK n \in 1 .. k : other = s[n]
        BY <2>10
      <4>2. n \in 1 .. c /\ n < Rank(C, pitch)
        BY <2>7, <3>3
      <4>3. s[n] < s[Rank(C, pitch)]
        BY <2>6, <3>1, <4>2
      <4>4. QED
        BY <3>1, <4>1, <4>3
    <3>7. QED
      BY <3>5, <3>6
  <2> DEFINE found == steps[Cardinality({x \in Starts(part) : x <= start})]
  <2>13. C = {part[n].midi : n \in {m \in DOMAIN part : part[m].time = start}}
    BY DEF C, Chord
  <2>14. found.keys = keys
    BY <2>1 DEF keys
  <2> HIDE DEF found
  <2>15. played = {x - shift * OCTAVE + MIN_SUPPORTED_MIDI : x \in {found.keys[n] : n \in DOMAIN found.keys}}
    BY <2>14 DEF played, d
  <2>16. QED
    BY <2>8, <2>11, <2>12, <2>13, <2>14, <2>15 DEF found
<1>5. QED
  BY <1>1, <1>4 DEF Plays

-----------------------------------------------------------------------------
(* The choice among the parts of a file *)

\* Joining the tracks one after the other is a function of their number.
LEMMA Joining ==
  ASSUME NEW b \in Nat \ {0}, NEW tracks
  PROVE  \E f : f = [i \in 1 .. b |-> IF i = 1 THEN tracks[i] ELSE f[i - 1] \o tracks[i]]
<1> DEFINE Way(f, n) == f = [i \in 1 .. n |-> IF i = 1 THEN tracks[i] ELSE f[i - 1] \o tracks[i]]
           T == {n \in 1 .. b : \E f : Way(f, n)}
<1>1. 1 \in T
  <2>1. Way([i \in 1 .. 1 |-> tracks[i]], 1)
    OBVIOUS
  <2>2. 1 \in 1 .. b
    OBVIOUS
  <2> HIDE DEF Way
  <2>3. QED
    BY <2>1, <2>2
<1>2. ASSUME NEW n \in 1 + 1 .. b, n - 1 \in T PROVE n \in T
  <2>1. PICK f : Way(f, n - 1)
    BY <1>2
  <2> DEFINE g == [i \in 1 .. n |-> IF i = n THEN f[n - 1] \o tracks[n] ELSE f[i]]
             h == [i \in 1 .. n |-> IF i = 1 THEN tracks[i] ELSE g[i - 1] \o tracks[i]]
  <2>2. \A i \in 1 .. n - 1 : f[i] = IF i = 1 THEN tracks[i] ELSE f[i - 1] \o tracks[i]
    BY <2>1
  <2>3. ASSUME NEW i \in 1 .. n PROVE g[i] = h[i]
    <3>1. h[i] = IF i = 1 THEN tracks[i] ELSE g[i - 1] \o tracks[i]
      OBVIOUS
    <3>2. CASE i = n
      <4>1. n # 1 /\ n - 1 \in 1 .. n /\ n - 1 # n
        OBVIOUS
      <4>2. g[n - 1] = f[n - 1]
        BY <4>1
      <4>3. QED
        BY <3>1, <3>2, <4>1, <4>2
    <3>3. CASE i # n /\ i = 1
      BY <2>2, <3>1, <3>3
    <3>4. CASE i # n /\ i # 1
      <4>1. i \in 1 .. n - 1 /\ i - 1 \in 1 .. n /\ i - 1 # n
        BY <3>4
      <4>2. g[i] = f[i] /\ g[i - 1] = f[i - 1]
        BY <3>4, <4>1
      <4>3. QED
        BY <2>2, <3>1, <3>4, <4>1, <4>2
    <3>5. QED
      BY <3>2, <3>3, <3>4
  <2>4. g = h
    BY <2>3
  <2>5. n \in 1 .. b
    OBVIOUS
  <2>6. Way(g, n)
    BY <2>4
  <2> HIDE DEF g, Way
  <2>7. QED
    BY <2>5, <2>6
<1>3. b \in 1 .. b
  OBVIOUS
<1>4. \A n \in T : \E f : Way(f, n)
  OBVIOUS
<1> HIDE DEF T
<1>5. \A i \in 1 .. b : i \in T
  BY <1>1, <1>2, UpTo
<1>6. QED
  BY <1>3, <1>4, <1>5

LEMMA AllNotesType ==
  ASSUME NEW tracks \in Seq(Seq(Note))
  PROVE  AllNotes(tracks) \in Seq(Note)
<1> DEFINE b == Len(tracks)
           Way(f) == f = [i \in 1 .. b |-> IF i = 1 THEN tracks[i] ELSE f[i - 1] \o tracks[i]]
           joined == CHOOSE f : Way(f)
<1>1. CASE b = 0
  <2>1. AllNotes(tracks) = tracks /\ tracks = << >>
    BY <1>1 DEF AllNotes, FlattenSeq
  <2>2. QED
    BY <2>1
<1>2. CASE b # 0
  <2>1. b \in Nat \ {0}
    BY <1>2
  <2>2. AllNotes(tracks) = joined[b]
    BY <1>2 DEF AllNotes, FlattenSeq
  <2>3. \A i \in 1 .. b : tracks[i] \in Seq(Note)
    OBVIOUS
  <2> HIDE DEF b
  <2>4. \E f : Way(f)
    BY <2>1, Joining
  <2>5. Way(joined)
    BY <2>4
  <2> HIDE DEF joined
  <2>6. \A i \in 1 .. b : joined[i] = IF i = 1 THEN tracks[i] ELSE joined[i - 1] \o tracks[i]
    BY <2>5
  <2> DEFINE T == {i \in 1 .. b : joined[i] \in Seq(Note)}
  <2>7. 1 \in T
    BY <2>1, <2>3, <2>6
  <2>8. ASSUME NEW i \in 1 + 1 .. b, i - 1 \in T PROVE i \in T
    <3>1. i \in 1 .. b /\ i # 1
      BY <2>1
    <3>2. joined[i] = joined[i - 1] \o tracks[i] /\ joined[i - 1] \in Seq(Note) /\ tracks[i] \in Seq(Note)
      BY <2>3, <2>6, <2>8, <3>1
    <3>3. joined[i] \in Seq(Note)
      BY <3>2, ConcatProperties
    <3>4. QED
      BY <3>1, <3>3
  <2>9. \A i \in T : joined[i] \in Seq(Note)
    OBVIOUS
  <2> HIDE DEF T
  <2>10. b \in T
    <3>1. 1 \in Int /\ b \in Int /\ b \in 1 .. b
      BY <2>1
    <3>2. \A i \in 1 .. b : i \in T
      BY <2>7, <2>8, <3>1, UpTo
    <3>3. QED
      BY <3>1, <3>2
  <2>11. QED
    BY <2>2, <2>9, <2>10
<1>3. QED
  BY <1>1, <1>2

LEMMA KeySpanType ==
  ASSUME NEW steps, Good(steps)
  PROVE  KeySpan(steps) \in Nat
<1> DEFINE keys == UNION {{steps[n].keys[k] : k \in DOMAIN steps[n].keys} : n \in DOMAIN steps}
<1>1. KEYS \in Nat \ {0}
  BY MidiAssumption
<1>2. /\ Len(steps) \in 1 .. MAX_SEQUENCE_LENGTH /\ steps \in Seq(Step)
      /\ \A n \in DOMAIN steps : /\ Len(steps[n].keys) \in 1 .. MAX_KEYS_PER_STEP
                                 /\ \A k \in DOMAIN steps[n].keys : steps[n].keys[k] \in 0 .. KEYS - 1
  BY DEF Good, FirmwareTakes
<1>3. keys \in SUBSET (0 .. KEYS - 1)
  BY <1>2
<1>4. keys # {}
  <2>1. 1 \in DOMAIN steps
    BY <1>2
  <2>2. steps[1] \in Step
    BY <1>2, <2>1
  <2>3. steps[1].keys \in Seq(Nat) /\ Len(steps[1].keys) \in 1 .. MAX_KEYS_PER_STEP
    BY <1>2, <2>1, <2>2 DEF Step
  <2>4. 1 \in DOMAIN steps[1].keys
    BY <2>3
  <2>5. steps[1].keys[1] \in keys
    BY <2>1, <2>4
  <2>6. QED
    BY <2>5
<1>5. KeySpan(steps) = Max(keys) - Min(keys)
  BY DEF KeySpan
<1> HIDE DEF keys
<1>6. 0 \in Int /\ KEYS - 1 \in Int
  BY <1>1
<1>7. /\ Max(keys) \in keys /\ Min(keys) \in keys /\ \A y \in keys : y <= Max(keys)
  BY <1>3, <1>4, <1>6, Extremes
<1>8. Max(keys) \in Int /\ Min(keys) \in Int /\ Min(keys) <= Max(keys)
  <2>1. \A y \in keys : y \in Int
    BY <1>1, <1>3
  <2>2. QED
    BY <1>7, <2>1
<1>9. QED
  BY <1>5, <1>8

\* One of the candidates has the greatest value.
LEMMA Winner ==
  ASSUME NEW T, T # {}, NEW g, \A t \in T : g[t] \in Int, NEW b \in Int, \A t \in T : g[t] <= b
  PROVE  \E t \in T : \A u \in T : g[u] <= g[t]
<1> DEFINE S == {g[t] : t \in T}
<1>1. S \in SUBSET Int /\ S # {} /\ \A x \in S : x <= b
  OBVIOUS
<1>2. \A x \in S : \E t \in T : x = g[t]
  OBVIOUS
<1>3. \A t \in T : g[t] \in S
  OBVIOUS
<1> HIDE DEF S
<1>4. PICK x \in S : \A y \in S : y <= x
  BY <1>1, Greatest
<1>5. QED
  BY <1>2, <1>3, <1>4

\* The score of a candidate is made of numbers that have a bound.
LEMMA ScoreTypes ==
  ASSUME NEW part \in Seq(Note), Playable(part)
  PROVE  /\ Len(part) \in Int /\ Len(part) <= MAX_IMPORTABLE_NOTE_COUNT
         /\ Len(Converted(part)) \in Int /\ Len(Converted(part)) <= MAX_SEQUENCE_LENGTH
         /\ -KeySpan(Converted(part)) \in Int /\ -KeySpan(Converted(part)) <= 0
<1>1. Good(Converted(part))
  BY ConvertedIs
<1>2. KeySpan(Converted(part)) \in Nat
  BY <1>1, KeySpanType
<1>3. Len(part) \in 1 .. MAX_IMPORTABLE_NOTE_COUNT
  BY DEF Playable
<1>4. Len(Converted(part)) \in 1 .. MAX_SEQUENCE_LENGTH
  BY <1>1 DEF Good, FirmwareTakes
<1>5. MAX_IMPORTABLE_NOTE_COUNT \in Int /\ MAX_SEQUENCE_LENGTH \in Int
  BY MidiAssumption
<1>6. QED
  BY <1>2, <1>3, <1>4, <1>5

\* What compareCandidateScores() says of two candidates.
LEMMA BeatsIs ==
  ASSUME NEW a, NEW b
  PROVE  Beats(a, b) <=>
           \/ Len(a) > Len(b)
           \/ Len(a) = Len(b) /\ Len(Converted(a)) > Len(Converted(b))
           \/ /\ Len(a) = Len(b) /\ Len(Converted(a)) = Len(Converted(b))
              /\ -KeySpan(Converted(a)) > -KeySpan(Converted(b))
<1> DEFINE n == <<Len(a), Len(Converted(a)), -KeySpan(Converted(a))>>
           m == <<Len(b), Len(Converted(b)), -KeySpan(Converted(b))>>
<1>1. Beats(a, b) <=> \E i \in 1 .. 3 : n[i] > m[i] /\ \A j \in 1 .. i - 1 : n[j] = m[j]
  BY DEF Beats
<1>2. /\ n[1] = Len(a) /\ n[2] = Len(Converted(a)) /\ n[3] = -KeySpan(Converted(a))
      /\ m[1] = Len(b) /\ m[2] = Len(Converted(b)) /\ m[3] = -KeySpan(Converted(b))
  OBVIOUS
<1> HIDE DEF n, m
<1>3. (\E i \in 1 .. 3 : n[i] > m[i] /\ \A j \in 1 .. i - 1 : n[j] = m[j])
        <=> \/ n[1] > m[1]
            \/ n[1] = m[1] /\ n[2] > m[2]
            \/ n[1] = m[1] /\ n[2] = m[2] /\ n[3] > m[3]
  <2>1. 1 .. 3 = {1, 2, 3}
    OBVIOUS
  <2>2. /\ \A j \in 1 .. 1 - 1 : n[j] = m[j]
        /\ (\A j \in 1 .. 2 - 1 : n[j] = m[j]) <=> n[1] = m[1]
        /\ (\A j \in 1 .. 3 - 1 : n[j] = m[j]) <=> n[1] = m[1] /\ n[2] = m[2]
    <3>1. 1 .. 1 - 1 = {} /\ 1 .. 2 - 1 = {1} /\ 1 .. 3 - 1 = {1, 2}
      OBVIOUS
    <3>2. QED
      BY <3>1
  <2>3. QED
    BY <2>1, <2>2
<1>4. QED
  BY <1>1, <1>2, <1>3

\* Sorting the candidates puts one first that no other beats.
LEMMA BestTrackIs ==
  ASSUME NEW tracks \in Seq(Seq(Note)), \E t \in DOMAIN tracks : Playable(tracks[t])
  PROVE  /\ BestTrack(tracks) \in DOMAIN tracks
         /\ Playable(tracks[BestTrack(tracks)])
         /\ \A t \in DOMAIN tracks :
              Playable(tracks[t]) => Len(tracks[t]) <= Len(tracks[BestTrack(tracks)])
<1> DEFINE D == DOMAIN tracks
           playable == {t \in D : Playable(tracks[t])}
           first == {t \in playable : \A other \in playable : ~Beats(tracks[other], tracks[t])}
           notes == [t \in D |-> Len(tracks[t])]
           starts == [t \in D |-> Len(Converted(tracks[t]))]
           span == [t \in D |-> -KeySpan(Converted(tracks[t]))]
<1>1. D \in SUBSET Nat /\ \A t \in D : tracks[t] \in Seq(Note)
  OBVIOUS
<1>2. playable # {} /\ playable \in SUBSET D /\ \A t \in playable : Playable(tracks[t])
  OBVIOUS
<1>3. \A t \in D : notes[t] = Len(tracks[t]) /\ starts[t] = Len(Converted(tracks[t]))
                   /\ span[t] = -KeySpan(Converted(tracks[t]))
  OBVIOUS
<1>4. BestTrack(tracks) = Min(first)
  BY DEF BestTrack
<1>5. \A t \in first : t \in playable /\ \A other \in playable : ~Beats(tracks[other], tracks[t])
  OBVIOUS
<1>6. \A t \in playable : (\A other \in playable : ~Beats(tracks[other], tracks[t])) => t \in first
  OBVIOUS
<1>7. \A t \in D : t \notin playable => ~Playable(tracks[t])
  OBVIOUS
<1> HIDE DEF D, playable, first, notes, starts, span
<1>8. \A t \in playable : /\ notes[t] \in Int /\ notes[t] <= MAX_IMPORTABLE_NOTE_COUNT
                          /\ starts[t] \in Int /\ starts[t] <= MAX_SEQUENCE_LENGTH
                          /\ span[t] \in Int /\ span[t] <= 0
  BY <1>1, <1>2, <1>3, ScoreTypes
<1>9. MAX_IMPORTABLE_NOTE_COUNT \in Int /\ MAX_SEQUENCE_LENGTH \in Int /\ 0 \in Int
  BY MidiAssumption
<1>10. \A t, u \in playable :
         Beats(tracks[u], tracks[t]) <=>
           \/ notes[u] > notes[t]
           \/ notes[u] = notes[t] /\ starts[u] > starts[t]
           \/ notes[u] = notes[t] /\ starts[u] = starts[t] /\ span[u] > span[t]
  <2>1. ASSUME NEW t \in playable, NEW u \in playable
        PROVE  Beats(tracks[u], tracks[t]) <=>
                 \/ notes[u] > notes[t]
                 \/ notes[u] = notes[t] /\ starts[u] > starts[t]
                 \/ notes[u] = notes[t] /\ starts[u] = starts[t] /\ span[u] > span[t]
    <3>1. t \in D /\ u \in D
      BY <1>2
    <3>2. QED
      BY <1>3, <3>1, BeatsIs
  <2>2. QED
    BY <2>1
<1>11. first # {}
  <2>1. PICK a \in playable : \A u \in playable : notes[u] <= notes[a]
    BY <1>2, <1>8, <1>9, Winner
  <2> DEFINE A == {t \in playable : notes[t] = notes[a]}
  <2>2. A # {} /\ \A t \in A : t \in playable /\ notes[t] = notes[a]
    OBVIOUS
  <2>3. \A t \in playable : notes[t] = notes[a] => t \in A
    OBVIOUS
  <2> HIDE DEF A
  <2>4. PICK b \in A : \A u \in A : starts[u] <= starts[b]
    BY <1>8, <1>9, <2>2, Winner
  <2> DEFINE B == {t \in A : starts[t] = starts[b]}
  <2>5. B # {} /\ \A t \in B : t \in A /\ starts[t] = starts[b]
    OBVIOUS
  <2>6. \A t \in A : starts[t] = starts[b] => t \in B
    OBVIOUS
  <2> HIDE DEF B
  <2>7. PICK c \in B : \A u \in B : span[u] <= span[c]
    BY <1>8, <1>9, <2>2, <2>5, Winner
  <2>8. c \in playable /\ notes[c] = notes[a] /\ starts[c] = starts[b]
    BY <2>2, <2>5, <2>7
  <2>9. ASSUME NEW u \in playable PROVE ~Beats(tracks[u], tracks[c])
    <3>1. notes[u] <= notes[c] /\ notes[u] \in Int /\ notes[c] \in Int
      BY <1>8, <2>1, <2>8
    <3>2. notes[u] = notes[c] => starts[u] <= starts[c] /\ starts[u] \in Int /\ starts[c] \in Int
      BY <1>8, <2>3, <2>4, <2>8
    <3>3. notes[u] = notes[c] /\ starts[u] = starts[c] => span[u] <= span[c] /\ span[u] \in Int /\ span[c] \in Int
      BY <1>8, <2>3, <2>6, <2>7, <2>8
    <3>4. ~(notes[u] > notes[c])
      BY <3>1
    <3>5. ~(notes[u] = notes[c] /\ starts[u] > starts[c])
      BY <3>2
    <3>6. ~(notes[u] = notes[c] /\ starts[u] = starts[c] /\ span[u] > span[c])
      BY <3>3
    <3>7. QED
      BY <1>10, <2>8, <3>4, <3>5, <3>6
  <2>10. c \in first
    BY <1>6, <2>8, <2>9
  <2>11. QED
    BY <2>10
<1>12. Min(first) \in first
  <2>1. first \in SUBSET Nat
    BY <1>1, <1>2, <1>5
  <2>2. \E x \in first : \A y \in first : x <= y
    BY <1>11, <2>1, Least
  <2>3. first \in SUBSET Int
    BY <2>1
  <2>4. QED
    BY <2>2, <2>3, MinIs
<1> DEFINE best == Min(first)
<1> HIDE DEF best
<1>13. best \in playable /\ best \in D /\ \A other \in playable : ~Beats(tracks[other], tracks[best])
  BY <1>2, <1>5, <1>12 DEF best
<1>14. \A t \in playable : Len(tracks[t]) <= Len(tracks[best])
  <2>1. ASSUME NEW t \in playable PROVE Len(tracks[t]) <= Len(tracks[best])
    <3>1. ~(notes[t] > notes[best]) /\ notes[t] \in Int /\ notes[best] \in Int
      BY <1>8, <1>10, <1>13
    <3>2. t \in D
      BY <1>2
    <3>3. QED
      BY <1>3, <1>13, <3>1, <3>2
  <2>2. QED
    BY <2>1
<1>15. QED
  BY <1>2, <1>4, <1>7, <1>13, <1>14 DEF best, D

\* What is imported is made of a part of the file that fits, and of no lesser one.
LEMMA ImportedIs ==
  ASSUME NEW tracks \in Seq(Seq(Note))
  PROVE  \/ /\ Imported(tracks) = Refused
            /\ ~Fits(AllNotes(tracks)) /\ \A t \in DOMAIN tracks : ~Fits(tracks[t])
         \/ \E part \in {AllNotes(tracks)} \cup {tracks[t] : t \in DOMAIN tracks} :
              /\ part \in Seq(Note) /\ Playable(part)
              /\ Imported(tracks) = Converted(part)
              /\ part # AllNotes(tracks) =>
                   /\ ~Fits(AllNotes(tracks))
                   /\ \A t \in DOMAIN tracks : Fits(tracks[t]) => Len(tracks[t]) <= Len(part)
<1>1. AllNotes(tracks) \in Seq(Note) /\ \A t \in DOMAIN tracks : tracks[t] \in Seq(Note)
  BY AllNotesType
<1>2. /\ Playable(AllNotes(tracks)) <=> Fits(AllNotes(tracks))
      /\ \A t \in DOMAIN tracks : Playable(tracks[t]) <=> Fits(tracks[t])
  BY <1>1, PlayableFits
<1>3. CASE Playable(AllNotes(tracks))
  <2>1. Imported(tracks) = Converted(AllNotes(tracks))
    BY <1>3 DEF Imported
  <2>2. QED
    BY <1>1, <1>3, <2>1
<1>4. CASE ~Playable(AllNotes(tracks)) /\ \E t \in DOMAIN tracks : Playable(tracks[t])
  <2> DEFINE best == BestTrack(tracks)
  <2>1. Imported(tracks) = Converted(tracks[best])
    BY <1>4 DEF Imported
  <2>2. /\ best \in DOMAIN tracks /\ Playable(tracks[best])
        /\ \A t \in DOMAIN tracks : Playable(tracks[t]) => Len(tracks[t]) <= Len(tracks[best])
    BY <1>4, BestTrackIs
  <2>3. tracks[best] \in {AllNotes(tracks)} \cup {tracks[t] : t \in DOMAIN tracks}
    BY <2>2
  <2> HIDE DEF best
  <2>4. QED
    BY <1>1, <1>2, <1>4, <2>1, <2>2, <2>3
<1>5. CASE ~Playable(AllNotes(tracks)) /\ ~\E t \in DOMAIN tracks : Playable(tracks[t])
  <2>1. Imported(tracks) = Refused
    BY <1>5 DEF Imported
  <2>2. QED
    BY <1>2, <1>5, <2>1
<1>6. QED
  BY <1>3, <1>4, <1>5

\* The controller refuses a file only if nothing in it fits (midi_import.js).
THEOREM RefusedRightly ==
  ASSUME NEW tracks \in Seq(Seq(Note)), Imported(tracks) = Refused
  PROVE  ~Fits(AllNotes(tracks)) /\ \A t \in DOMAIN tracks : ~Fits(tracks[t])
<1>1. ASSUME NEW part \in Seq(Note), Playable(part) PROVE Converted(part) # Refused
  <2>1. Len(Converted(part)) \in 1 .. MAX_SEQUENCE_LENGTH
    BY <1>1, ConvertedIs DEF Good, FirmwareTakes
  <2>2. QED
    BY <2>1 DEF Refused
<1>2. QED
  BY <1>1, ImportedIs

\* The steps of a file that is not refused can be saved and played, and are faithful to
\* the file: no onset is lost, none of the pitches that have a finger, and no better part
\* or nearer octave has been overlooked (importMidiBufferToSequence()).
THEOREM ImportedRightly ==
  ASSUME NEW tracks \in Seq(Seq(Note)), Imported(tracks) # Refused
  PROVE  Good(Imported(tracks)) /\ Faithful(Imported(tracks), tracks)
<1>1. PICK part \in {AllNotes(tracks)} \cup {tracks[t] : t \in DOMAIN tracks} :
             /\ part \in Seq(Note) /\ Playable(part)
             /\ Imported(tracks) = Converted(part)
             /\ part # AllNotes(tracks) =>
                  /\ ~Fits(AllNotes(tracks))
                  /\ \A t \in DOMAIN tracks : Fits(tracks[t]) => Len(tracks[t]) <= Len(part)
  BY ImportedIs
<1>2. Good(Imported(tracks))
  BY <1>1, ConvertedIs
<1> DEFINE shift == ShiftOf(part)
<1>3. /\ shift \in Shifts /\ OnKeys(part, shift)
      /\ \A less \in Shifts : Magnitude(less) < Magnitude(shift) => ~OnKeys(part, less)
  BY <1>1, ShiftIs
<1>4. Fits(part)
  BY <1>1, PlayableFits
<1>5. Plays(Imported(tracks), part, shift)
  BY <1>1, ConvertedPlays
<1> HIDE DEF shift
<1>6. Faithful(Imported(tracks), tracks)
  BY <1>1, <1>3, <1>4, <1>5 DEF Faithful
<1>7. QED
  BY <1>2, <1>6

=============================================================================
