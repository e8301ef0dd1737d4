------------------------------ MODULE MCChain -------------------------------
(* Instances of Chain for TLC: a second initial state. *)
EXTENDS Chain

\* A chain that has been assembled and has settled: all cables in place, one
\* master, every index and count known.  Init leads to it.
Assembled ==
  /\ on = [i \in Module |-> TRUE]
  /\ blocked = [i \in Module |-> FALSE]
  /\ isMaster = [i \in Module |-> i = 0]
  /\ moduleChainIndex = [i \in Module |-> i]
  /\ numModulesInChain = [i \in Module |-> N]
  /\ sequenceRunning = [i \in Module |-> FALSE]
  /\ currentSequenceMode = [i \in Module |-> "GUIDED"]
  /\ recording = [i \in Module |-> FALSE]
  /\ noteShift = [i \in Module |-> i]
  /\ sentAge = [i \in Module |-> 0]
  /\ heardAge = [i \in Module |-> IF i = 0 THEN Timeout ELSE 0]
  /\ replyAge = [i \in Module |-> IF i = N - 1 THEN Timeout ELSE 0]
  /\ cable = [l \in Link |-> TRUE]
  /\ down = [l \in Link |-> << >>]
  /\ up = [l \in Link |-> << >>]
  /\ upsets = 0
  /\ noises = 0
  /\ commands = 0
  /\ recordings = 0

AssembledSpec == Assembled /\ [][Next]_vars /\ Fairness
=============================================================================
