----------------------------- MODULE MCFileScan -----------------------------
(* Small instances of FileScan for TLC: which lines a device's records make. *)
EXTENDS FileScan

At(time, fix) == [ok |-> TRUE, time |-> time, fix |-> fix]
Foreign == [ok |-> FALSE, time |-> NoTime, fix |-> NoFix]

(* Three samples that lock a zone, in any order, one of another zone, and a  *)
(* line that is no record of the device. A lookup that fails does to the     *)
(* zone what a record without a position does.                               *)
MixedLines == {At(t, "Shanghai") : t \in 1..3} \cup {At(4, "London"), Foreign}
=============================================================================
