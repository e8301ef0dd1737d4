------------------------------ MODULE MCStudio -------------------------------
(* Studio for TLC: a keyboard of three keys, and every small file. *)
EXTENDS Studio

CONSTANTS p, m1, m2

At(pitch, time) == [midi |-> pitch, time |-> time, duration |-> 2]
Struck == {At(pitch, 0) : pitch \in 0 .. 9}
Melodic == {At(pitch, time) : pitch \in 3 .. 6, time \in 0 .. 2}
Wide == {At(pitch, 0) : pitch \in {3, 6, 9}}

\* Notes of any length, pairs, chords, melodies in any order of file and time, and two
\* tracks that do or do not fit together, by their span, their pitches or their number.
SmallFiles ==
  {<< << [n EXCEPT !.duration = d] >> >> : n \in Struck, d \in 0 .. 3}
    \cup {<< <<a, b>> >> : a \in Struck, b \in Struck \cup Melodic}
    \cup {<< <<a, b, c>> >> : a, b, c \in Melodic}
    \cup {<< <<a, b, c>> >> : a, b, c \in Wide}
    \cup {<< <<a>>, <<b, c>> >> : a, b \in Struck, c \in Wide}
    \cup {<< <<a, b>>, <<c, d>> >> : a, b, c, d \in Wide}

\* One that is trimmed, one whose tracks do not fit together, one that is refused.
SomeFiles ==
  { << <<At(6, 0), At(4, 0), At(5, 0)>> >>, << <<At(1, 0)>>, <<At(9, 0), At(9, 0)>> >>,
    << <<At(1, 0), At(9, 0)>> >> }

SmallSessions ==
  {[modules |-> 2, imports |-> 0, files |-> "few"], [modules |-> 1, imports |-> 2, files |-> "few"],
   [modules |-> 0, imports |-> 4, files |-> "few"], [modules |-> 0, imports |-> 1, files |-> "any"]}

\* One beyond the keys of two modules, one that names a key twice, one that is too long.
SomeSteps ==
  {[keys |-> <<4>>, duration |-> 2], [keys |-> <<1, 1>>, duration |-> 1], [keys |-> <<0, 2>>, duration |-> 3]}

ThreeDemos ==
  << << [keys |-> <<0>>, duration |-> 1] >>, << [keys |-> <<0, 1>>, duration |-> 2] >>,
     << [keys |-> <<2>>, duration |-> 1] >> >>
=============================================================================
