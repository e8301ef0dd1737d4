----------------------------- MODULE MidiImport ------------------------------
(***************************************************************************)
(* Turning a MIDI file into steps.  A file is a sequence of tracks, a track *)
(* a sequence of notes with a pitch, a start and a duration, both in ms; a  *)
(* percussion track is no track here.  The sizes are those of the           *)
(* controller, as CONSTANTS.  Colours follow from keys and are left out.    *)
(***************************************************************************)
EXTENDS Integers, Sequences, FiniteSets, SequencesExt, FiniteSetsExt

CONSTANTS
  MAX_MIDI,                     \* 127, the highest pitch that MIDI knows
  OCTAVE,                       \* 12
  MIN_SUPPORTED_MIDI,           \* 60
  KEYS,                         \* 24, two modules
  MAX_TOTAL_KEYS,               \* 48, four modules, the longest chain
  MAX_RAW_MIDI_SPAN_SEMITONES,  \* 48
  MAX_IMPORTABLE_NOTE_COUNT,    \* 2000
  MAX_SEQUENCE_LENGTH,          \* 128
  MAX_KEYS_PER_STEP,            \* 4
  MIN_NOTE_DURATION_MS,         \* 300
  MAX_NOTE_DURATION_MS          \* 10000

ASSUME MidiAssumption ==
  /\ {OCTAVE, KEYS, MAX_IMPORTABLE_NOTE_COUNT, MAX_SEQUENCE_LENGTH, MAX_KEYS_PER_STEP}
       \subseteq Nat \ {0}
  /\ {MAX_MIDI, MIN_SUPPORTED_MIDI, MAX_RAW_MIDI_SPAN_SEMITONES, MAX_TOTAL_KEYS,
      MIN_NOTE_DURATION_MS, MAX_NOTE_DURATION_MS} \subseteq Nat
  /\ KEYS <= MAX_TOTAL_KEYS
  /\ MIN_NOTE_DURATION_MS <= MAX_NOTE_DURATION_MS

MAX_SUPPORTED_MIDI == MIN_SUPPORTED_MIDI + KEYS - 1

Note == [midi : 0 .. MAX_MIDI, time : Nat, duration : Nat]

Magnitude(n) == IF n < 0 THEN -n ELSE n

Pitches(notes) == {notes[n].midi : n \in DOMAIN notes}
Starts(notes)  == {notes[n].time : n \in DOMAIN notes}

\* The numbers of a finite set, from the least up.
Sorted(S) ==
  [n \in 1 .. Cardinality(S) |-> CHOOSE x \in S : Cardinality({y \in S : y <= x}) = n]

-----------------------------------------------------------------------------
(* chooseTransposeSemitones() *)

\* Math.ceil and Math.floor of a quotient.
LeastShift_Floor(lo) == (MIN_SUPPORTED_MIDI - lo) \div OCTAVE
LeastShift(lo) == -((lo - MIN_SUPPORTED_MIDI) \div OCTAVE)
MostShift(hi)  == (MAX_SUPPORTED_MIDI - hi) \div OCTAVE

Transposable(lo, hi) ==
  /\ hi - lo <= MAX_RAW_MIDI_SPAN_SEMITONES
  /\ LeastShift(lo) <= MostShift(hi)

\* The loop keeps the smallest shift, and of two opposite ones the one upwards.
Closer(best, shift) ==
  IF \/ Magnitude(shift) < Magnitude(best)
     \/ Magnitude(shift) = Magnitude(best) /\ shift > best
    THEN shift ELSE best

BestShift(lo, hi) ==
  LET best[shift \in LeastShift(lo) .. MostShift(hi)] ==
        IF shift = LeastShift(lo) THEN shift ELSE Closer(best[shift - 1], shift)
  IN best[MostShift(hi)]

-----------------------------------------------------------------------------
(* buildPlayableCandidate() *)

clampDuration(ms) == CASE ms < MIN_NOTE_DURATION_MS -> MIN_NOTE_DURATION_MS
                       [] ms > MAX_NOTE_DURATION_MS -> MAX_NOTE_DURATION_MS
                       [] OTHER -> ms

\* One note per pitch at a start, the first in the file, from the lowest pitch up.
UniqueNotes(notes, start) ==
  LET At(pitch) == {n \in DOMAIN notes : notes[n].time = start /\ notes[n].midi = pitch}
      pitches == Sorted({p \in Pitches(notes) : At(p) # {}})
  IN [n \in DOMAIN pitches |-> notes[Min(At(pitches[n]))]]

KeptNotes_All(unique) == unique
KeptNotes(unique) == SubSeq(unique, 1, Min({Len(unique), MAX_KEYS_PER_STEP}))

StepAt(notes, shift, start) ==
  LET kept == KeptNotes(UniqueNotes(notes, start)) IN
  [keys |-> [n \in DOMAIN kept |-> kept[n].midi + shift * OCTAVE - MIN_SUPPORTED_MIDI],
   duration |-> clampDuration(Max({kept[n].duration : n \in DOMAIN kept}))]

Playable(notes) ==
  /\ Len(notes) \in 1 .. MAX_IMPORTABLE_NOTE_COUNT
  /\ Transposable(Min(Pitches(notes)), Max(Pitches(notes)))
  /\ Cardinality(Starts(notes)) <= MAX_SEQUENCE_LENGTH

\* groupNotesByStartTime() orders the starts as numbers.
Converted(notes) ==
  LET shift  == BestShift(Min(Pitches(notes)), Max(Pitches(notes)))
      starts == Sorted(Starts(notes))
  IN [n \in DOMAIN starts |-> StepAt(notes, shift, starts[n])]

KeySpan(steps) ==
  LET keys == UNION {{steps[n].keys[k] : k \in DOMAIN steps[n].keys} : n \in DOMAIN steps}
  IN Max(keys) - Min(keys)

-----------------------------------------------------------------------------
(* importMidiBufferToSequence() *)

Refused == << >>

AllNotes(tracks) == FlattenSeq(tracks)

\* compareCandidateScores(): a candidate that no other beats; of equal ones the first.
Beats(a, b) ==
  LET n == <<Len(a), Len(Converted(a)), -KeySpan(Converted(a))>>
      m == <<Len(b), Len(Converted(b)), -KeySpan(Converted(b))>>
  IN \E i \in 1 .. 3 : n[i] > m[i] /\ \A j \in 1 .. i - 1 : n[j] = m[j]

BestTrack(tracks) ==
  LET playable == {t \in DOMAIN tracks : Playable(tracks[t])}
  IN Min({t \in playable : \A other \in playable : ~Beats(tracks[other], tracks[t])})

\* All tracks together if that is playable, the best single track otherwise.
Imported(tracks) ==
  CASE Playable(AllNotes(tracks)) -> Converted(AllNotes(tracks))
    [] ~Playable(AllNotes(tracks)) /\ \E t \in DOMAIN tracks : Playable(tracks[t]) ->
         Converted(tracks[BestTrack(tracks)])
    [] OTHER -> Refused

-----------------------------------------------------------------------------
(* What becomes of imported steps *)

StepDuration == MIN_NOTE_DURATION_MS .. MAX_NOTE_DURATION_MS

\* POST /api/db/sequences saves them.
LibraryTakes(steps) ==
  /\ Len(steps) <= MAX_SEQUENCE_LENGTH
  /\ \A n \in DOMAIN steps : /\ Len(steps[n].keys) \in 1 .. MAX_KEYS_PER_STEP
                             /\ steps[n].duration \in StepDuration

\* processSequenceUploadCommand() and processSequenceStepCommand() accept them.
FirmwareTakes(steps, totalKeys) ==
  /\ Len(steps) \in 1 .. MAX_SEQUENCE_LENGTH
  /\ \A n \in DOMAIN steps : /\ \A k \in DOMAIN steps[n].keys : steps[n].keys[k] \in 0 .. totalKeys - 1
                             /\ Len(steps[n].keys) \in 1 .. MAX_KEYS_PER_STEP
                             /\ steps[n].duration \in StepDuration

-----------------------------------------------------------------------------
(* What an import promises *)

\* Some number of octaves brings the notes of a part of a file onto the keys, and they
\* are few enough.
OnKeys(part, shift) ==
  \A pitch \in Pitches(part) :
    pitch + shift * OCTAVE \in MIN_SUPPORTED_MIDI .. MAX_SUPPORTED_MIDI

\* All that can be of use: a pitch is at most MAX_MIDI.
Shifts == -MAX_MIDI .. MAX_SUPPORTED_MIDI

Fits(part) ==
  /\ Len(part) \in 1 .. MAX_IMPORTABLE_NOTE_COUNT
  /\ Cardinality(Starts(part)) <= MAX_SEQUENCE_LENGTH
  /\ \A n, m \in Pitches(part) : n - m <= MAX_RAW_MIDI_SPAN_SEMITONES
  /\ \E shift \in Shifts : OnKeys(part, shift)

\* The steps play the part, moved by the given octaves: one step per start, in order of
\* time, with all its pitches or the lowest MAX_KEYS_PER_STEP, from the lowest up.
Plays(steps, part, shift) ==
  /\ Len(steps) = Cardinality(Starts(part))
  /\ \A start \in Starts(part) :
       LET step == steps[Cardinality({s \in Starts(part) : s <= start})]
           pitches == {part[n].midi : n \in {m \in DOMAIN part : part[m].time = start}}
           played == {k - shift * OCTAVE + MIN_SUPPORTED_MIDI : k \in {step.keys[n] : n \in DOMAIN step.keys}}
       IN /\ \A n \in 1 .. Len(step.keys) - 1 : step.keys[n] < step.keys[n + 1]
          /\ played \subseteq pitches
          /\ \A pitch \in pitches \ played :
               Len(step.keys) = MAX_KEYS_PER_STEP /\ \A other \in played : other < pitch

\* An import loses no onset, no order and no pitch that has a finger left: it plays all
\* tracks if they fit, and otherwise a track of which none that fits has more notes; moved
\* by as few octaves as possible.
Faithful(steps, tracks) ==
  \E part \in {AllNotes(tracks)} \cup {tracks[t] : t \in DOMAIN tracks}, shift \in Shifts :
    /\ Fits(part) /\ OnKeys(part, shift)
    /\ \A less \in Shifts : Magnitude(less) < Magnitude(shift) => ~OnKeys(part, less)
    /\ Plays(steps, part, shift)
    /\ part # AllNotes(tracks) =>
         /\ ~Fits(AllNotes(tracks))
         /\ \A t \in DOMAIN tracks : Fits(tracks[t]) => Len(tracks[t]) <= Len(part)
=============================================================================
