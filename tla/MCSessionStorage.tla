-------------------------- MODULE MCSessionStorage --------------------------
(* Small instances of SessionStorage for TLC. *)
EXTENDS SessionStorage, TLC

(* Clients, devices and archive names are interchangeable. *)
Symmetry == Permutations(Clients) \cup Permutations(Devices) \cup Permutations(Files)
=============================================================================
