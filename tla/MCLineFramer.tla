---------------------------- MODULE MCLineFramer ----------------------------
(* Inputs for the runs of LineFramer. *)
EXTENDS LineFramer

BothPorts == {"chain", "usb"}
\* A single letter, two with an 'o' among them, and a line too long for a buffer of
\* three by two letters: one that overflows and one that is discarded.
SomeTexts == {<<"k">>, <<"k", "o">>, <<"k", "k", "k", "k">>}
=============================================================================
