------------------------------ MODULE MCUpload -------------------------------
(* Upload for TLC: one module on WiFi and sequences of one and two steps. *)
EXTENDS Upload

CONSTANTS w, s1, s2

Lengths(song) == IF song = s1 THEN 1 ELSE 2
=============================================================================
