-------------------------- MODULE ReportingPromise --------------------------
(***************************************************************************)
(* What Web reporting promises about a recording, with no queue, worker,   *)
(* process or network in sight: the Web is told of a recording once, sees  *)
(* it only grow and never ahead of what is stored, and learns of its end   *)
(* once, after the archive is final and with its final size. Outbox        *)
(* implements this specification.                                          *)
(***************************************************************************)
EXTENDS Integers

CONSTANT Files

VARIABLES
  archive,  \* "absent", "writing" or "final"
  size,     \* what is stored of an archive
  told,     \* "nothing", "recording", "ended", or "lapsed": the Web gave up on it
  known     \* the size the Web has been told

promiseVars == <<archive, size, told, known>>

Init ==
  /\ archive \in [Files -> {"absent", "final"}] /\ size \in [Files -> Nat]
  /\ \A f \in Files : archive[f] = "absent" => size[f] = 0
  /\ told = [f \in Files |-> "nothing"]
  /\ known = [f \in Files |-> 0]

(* A start that fails may leave an empty archive.                           *)
Begin(f) ==
  /\ archive[f] = "absent"
  /\ \E a \in {"writing", "final"} : archive' = [archive EXCEPT ![f] = a]
  /\ UNCHANGED <<size, told, known>>

Grow(f) ==
  /\ archive[f] = "writing"
  /\ size' = [size EXCEPT ![f] = @ + 1]
  /\ UNCHANGED <<archive, told, known>>

(* Several archives become final together when the process ends; what was   *)
(* not yet on disk may be lost.                                             *)
End(S) ==
  /\ \A f \in S : archive[f] = "writing"
  /\ archive' = [f \in Files |-> IF f \in S THEN "final" ELSE archive[f]]
  /\ \A f \in Files : size'[f] \in 0 .. size[f] /\ (f \notin S => size'[f] = size[f])
  /\ size' = [f \in Files |-> size'[f]]
  /\ UNCHANGED <<told, known>>

Announce(f) ==
  /\ told[f] = "nothing"
  /\ told' = [told EXCEPT ![f] = "recording"]
  /\ UNCHANGED <<archive, size, known>>

Progress(f, n) ==
  /\ told[f] = "recording" /\ n \in known[f] + 1 .. size[f]
  /\ known' = [known EXCEPT ![f] = n]
  /\ UNCHANGED <<archive, size, told>>

Conclude(f) ==
  /\ told[f] = "recording" /\ archive[f] = "final" /\ known[f] <= size[f]
  /\ told' = [told EXCEPT ![f] = "ended"]
  /\ known' = [known EXCEPT ![f] = size[f]]
  /\ UNCHANGED <<archive, size>>

(* The Web's own timeout of a task. *)
Lapse(f) ==
  /\ told[f] = "recording"
  /\ told' = [told EXCEPT ![f] = "lapsed"]
  /\ UNCHANGED <<archive, size, known>>

Next ==
  \/ \E f \in Files : Begin(f) \/ Grow(f) \/ Announce(f) \/ Conclude(f) \/ Lapse(f)
  \/ \E f \in Files : \E n \in 0 .. size[f] : Progress(f, n)
  \/ \E S \in SUBSET Files : End(S)

Spec == Init /\ [][Next]_promiseVars
=============================================================================
