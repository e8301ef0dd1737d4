---------------------------- MODULE MCSequencer -----------------------------
(* Inputs for the runs of Sequencer. *)
EXTENDS Sequencer

Nothing == {}
TwoIds == {0, 1}
OneStep == {{0}}

\* A U line for the whole memory, one for a single step and one that cannot be parsed.
ThreeHeaders == {[id |-> 0, length |-> MAX_SEQUENCE_LENGTH, valid |-> TRUE],
                 [id |-> 1, length |-> 1, valid |-> TRUE],
                 [id |-> 0, length |-> 0, valid |-> FALSE]}
=============================================================================
