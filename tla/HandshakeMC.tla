----------------------------- MODULE HandshakeMC -----------------------------
(***************************************************************************)
(* Handshake for TLC: devices are interchangeable.                         *)
(***************************************************************************)
EXTENDS Handshake

Devices == Permutations(Device)
=============================================================================
