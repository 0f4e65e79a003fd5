------------------------------ MODULE Handover ------------------------------
(***************************************************************************)
(* The life of a recording as the two sides of the collector share it: the *)
(* session storage, which makes, fills, ends and removes an archive, and   *)
(* Web reporting, whose ledger says what may still be done with it. Both   *)
(* SessionStorage and Outbox implement this specification, and each takes  *)
(* the other as it is here.                                                *)
(*                                                                         *)
(* A step of the program may be a step in the lives of several recordings: *)
(* a crash ends all that are being written, a restart closes all that the  *)
(* ledger has open. So the actions say what becomes of one file, and Next  *)
(* asks it of every file.                                                  *)
(***************************************************************************)
EXTENDS Integers

CONSTANTS
  Files,
  Reporting   \* TRUE when there is a ledger

VARIABLES
  archive,  \* "absent", "writing", "final", or "gone": there will be no archive
  size,     \* what is stored of it
  rec,      \* "none", "OPEN", "CLOSED", "DONE" or "ERROR": its state in the ledger
  reason    \* why it was closed, "none" before

handoverVars == <<archive, size, rec, reason>>

CloseReasons == {"IDLE_TIMEOUT", "SERVER_SHUTDOWN", "ABORTED"}

Init ==
  /\ archive \in [Files -> {"absent", "final"}]
  /\ size \in [Files -> Nat]
  /\ rec = [f \in Files |-> "none"] /\ reason = [f \in Files |-> "none"]

SameArchive(f) == size'[f] = size[f] /\ archive'[f] = archive[f]
SameEntry(f)   == rec'[f] = rec[f] /\ reason'[f] = reason[f]

-----------------------------------------------------------------------------
(* A recording is entered in the ledger before its archive has a byte, or   *)
(* by an import when it will have no more.                                  *)
Register(f) ==
  /\ rec[f] = "none" /\ archive[f] # "writing"
  /\ rec'[f] = "OPEN" /\ reason'[f] = reason[f]
  /\ SameArchive(f)

(* Its archive is created, or not; a start that fails may leave it empty.   *)
Begin(f) ==
  /\ archive[f] = "absent" /\ rec[f] \notin {"CLOSED", "DONE"}
  /\ Reporting => rec[f] # "none"
  /\ archive'[f] \in {"writing", "final", "gone"} /\ size'[f] = size[f]
  /\ SameEntry(f)

Grow(f) ==
  /\ archive[f] = "writing" /\ archive'[f] = archive[f]
  /\ size'[f] > size[f]
  /\ SameEntry(f)

(* The last bytes are written, or lost.                                     *)
End(f) ==
  /\ archive[f] = "writing" /\ archive'[f] \in {"final", "gone"}
  /\ size'[f] \in Nat

(* Only what cannot grow any more is closed, and only once.                 *)
Close(f) ==
  /\ rec[f] = "OPEN" /\ archive'[f] # "writing"
  /\ rec'[f] = "CLOSED" /\ reason'[f] \in CloseReasons

(* The Web has been told of the end of the whole archive; or a file that    *)
(* cannot be read is given up.                                              *)
Deliver(f) ==
  /\ rec[f] = "CLOSED" /\ archive[f] = "final"
  /\ rec'[f] = "DONE" /\ reason'[f] = reason[f]
  /\ SameArchive(f)

Block(f) ==
  /\ rec[f] \in {"OPEN", "CLOSED"}
  /\ rec'[f] = "ERROR" /\ reason'[f] = reason[f]
  /\ SameArchive(f)

(* What the ledger is not through with stays on disk.                       *)
Remove(f) ==
  /\ archive[f] = "final" /\ rec[f] \in {"none", "DONE"}
  /\ archive'[f] = "gone" /\ size'[f] = size[f]
  /\ SameEntry(f)

-----------------------------------------------------------------------------
Step(f) ==
  \/ (SameArchive(f) \/ End(f)) /\ (SameEntry(f) \/ Close(f))
  \/ Register(f) \/ Begin(f) \/ Grow(f)
  \/ Deliver(f) \/ Block(f) \/ Remove(f)

Next == \A f \in Files : Step(f)

Spec == Init /\ [][Next]_handoverVars
=============================================================================
