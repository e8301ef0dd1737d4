----------------------------- MODULE MCRegistry ------------------------------
(* Registry on its own for TLC: one module on WiFi, one on USB. *)
EXTENDS Registry

CONSTANTS w, u
=============================================================================
