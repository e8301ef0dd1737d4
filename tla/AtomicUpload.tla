---------------------------- MODULE AtomicUpload -----------------------------
(***************************************************************************)
(* What an upload promises to a user: a module takes over a sequence in    *)
(* one step or not at all, only while it has been asked to, and success is *)
(* reported only of a sequence that the module has taken over since.       *)
(* Failure may be reported at any time, and the module may replace what it *)
(* holds.  What may pass for the sequence is a parameter: ideally nothing  *)
(* but the sequence itself.                                                *)
(***************************************************************************)
CONSTANTS
  Address,      \* modules
  Songs,        \* sequences in the library
  Contents(_),  \* the contents that a module may have taken over as a song
  Local,        \* the contents that come from the module itself
  NoSong

VARIABLES
  stored,   \* per module: what it holds
  asked,    \* per module: the song being uploaded, or NoSong
  taken,    \* per module: it has taken that song over since it was asked
  shown     \* per module: the song the controller says it holds

vars == <<stored, asked, taken, shown>>

Init ==
  /\ stored \in [Address -> Local]
  /\ asked = [a \in Address |-> NoSong]
  /\ taken = [a \in Address |-> FALSE]
  /\ shown = [a \in Address |-> NoSong]

Ask(a, song) ==
  /\ asked[a] = NoSong
  /\ asked' = [asked EXCEPT ![a] = song]
  /\ taken' = [taken EXCEPT ![a] = FALSE]
  /\ UNCHANGED <<stored, shown>>

Take(a) ==
  /\ asked[a] # NoSong
  /\ \E content \in Contents(asked[a]) : stored' = [stored EXCEPT ![a] = content]
  /\ taken' = [taken EXCEPT ![a] = TRUE]
  /\ UNCHANGED <<asked, shown>>

\* The module records something, or starts afresh.
Replace(a) ==
  /\ \E content \in Local : stored' = [stored EXCEPT ![a] = content]
  /\ UNCHANGED <<asked, taken, shown>>

Succeed(a) ==
  /\ asked[a] # NoSong /\ taken[a]
  /\ asked' = [asked EXCEPT ![a] = NoSong]
  /\ shown' = [shown EXCEPT ![a] = asked[a]]
  /\ UNCHANGED <<stored, taken>>

Fail(a) ==
  /\ asked' = [asked EXCEPT ![a] = NoSong]
  /\ UNCHANGED <<stored, taken, shown>>

Next == \E a \in Address :
  \/ \E song \in Songs : Ask(a, song)
  \/ Take(a) \/ Replace(a) \/ Succeed(a) \/ Fail(a)

Spec == Init /\ [][Next]_vars
=============================================================================
