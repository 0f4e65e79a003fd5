------------------------------ MODULE Delivery ------------------------------
(***************************************************************************)
(* One recording's notifications on their way to the Web: what             *)
(* ReportClient.send makes of an answer, and what ReportWorker.deliver     *)
(* then stores in the outbox: sent, blocked, or waiting for a time that    *)
(* the backoff and the server's Retry-After determine. Which notification  *)
(* is queued when, and what restarts do, is Outbox's; the outbox keeps     *)
(* everything that is used here, so a restart changes nothing.             *)
(*                                                                         *)
(* The Web is honest; what stands between may answer in its place, with a  *)
(* page of its own, with an answer to another request, or with a status    *)
(* that does not fit the body. Times are what is left of them, in seconds. *)
(***************************************************************************)
EXTENDS Integers, Sequences

CONSTANTS
  Phases,      \* the phases queued for the file, in order
  Aborted,     \* TRUE when the close says ABORTED
  BackoffCap,  \* longest delay the backoff asks for: 60
  MaxShift,    \* the exponent stops growing here: 6
  RetryAfters, \* delays of Retry-After headers; 0 when there is none
  Statuses     \* HTTP statuses of answers

ASSUME DeliveryAssumption ==
  /\ Phases \in Seq({"create", "update", "close"})
  /\ \A i \in DOMAIN Phases : /\ Phases[i] = "create" <=> i = 1
                              /\ Phases[i] = "close" => i = Len(Phases)
  /\ Aborted \in BOOLEAN
  /\ {BackoffCap, MaxShift} \subseteq Nat \ {0}
  /\ RetryAfters \subseteq Nat /\ 0 \in RetryAfters
  /\ Statuses \subseteq 100..599 /\ 200 \in Statuses

VARIABLES
  state,     \* outbox.state of each notification
  error,     \* outbox.error, as far as retry_blocked tells errors apart
  attempts,  \* outbox.attempts, no further than MaxShift
  wait,      \* what is left until outbox.next_at
  asked,     \* history: what is left of the last Retry-After that was obeyed
  refused,   \* history: how the Web refused each notification since the last retry by
             \* hand, where the outbox could take it
  accepted,  \* the Web: notifications it has applied
  latest,    \* the Web: the last of them, 1 for none
  web,       \* the Web: the recording's status there
  answers    \* the Web: the answers it has given to this file's notifications

vars == <<state, error, attempts, wait, asked, refused, accepted, latest, web, answers>>

Items == DOMAIN Phases
Final == IF Aborted THEN "ABORTED" ELSE "READY"
Live  == {"RECORDING", "PAUSED"}

(* body.sequence: a create carries 1, and so does what is queued next, since *)
(* recordings.sequence starts at 0.                                          *)
Version(i) == IF i = 1 THEN 1 ELSE i - 1

(* An answer: its status and Retry-After; whether the body is longer than    *)
(* 1 MiB, JSON at all and of this file's identity; its code, an error code   *)
(* in its data, and the state it tells. Of the known errors two are          *)
(* "terminal": the task timed out, or the file is finished.                  *)
Known == {"known", "terminal"}

Answer == [status : Statuses, after : RetryAfters, large : BOOLEAN,
           json : BOOLEAN, own : BOOLEAN,
           code : {"zero", "other"} \cup Known, inner : {"none"} \cup Known,
           state : Live \cup {"READY", "ABORTED"}, sequence : Nat]

TypeOK ==
  /\ state \in [Items -> {"PENDING", "SENT", "BLOCKED"}]
  /\ attempts \in [Items -> 0..MaxShift]
  /\ wait \in [Items -> Nat] /\ asked \in [Items -> Nat]
  /\ error \in [Items -> {"none", "other", "terminal"}]
  /\ refused \in [Items -> {"none"} \cup Known] /\ accepted \subseteq Items
  /\ latest \in Items \cup {1} /\ web \in Live \cup {"READY", "ABORTED"}
  /\ answers \subseteq Answer

Init ==
  /\ state = [i \in Items |-> "PENDING"] /\ attempts = [i \in Items |-> 0]
  /\ wait = [i \in Items |-> 0] /\ asked = [i \in Items |-> 0]
  /\ error = [i \in Items |-> "none"] /\ refused = [i \in Items |-> "none"]
  /\ accepted = {} /\ latest = 1 /\ web = "RECORDING" /\ answers = {}

-----------------------------------------------------------------------------
(* ReportClient.send, once the answer has been read: the first objection     *)
(* decides.                                                                  *)

Failure(code, retryable, after) ==
  [error |-> code, retryable |-> retryable, after |-> after]
Success == Failure("none", FALSE, 0)

Transient(status) == status = 429 \/ status >= 500

\* Mutant: a status that allows a retry outweighs the error in the body.
BugBusinessError(a) ==
  a.json /\ (a.inner \in Known \/ a.code \in Known) /\ ~Transient(a.status)

BusinessError(a) == a.json /\ (a.inner \in Known \/ a.code \in Known)

(* The code in the data comes before the body's own. *)
Code(a) == IF a.inner \in Known THEN a.inner ELSE a.code

(* The error stored for a code: all but the terminal ones are treated alike. *)
Stored(code) == IF code = "terminal" THEN "terminal" ELSE "other"

\* Mutant: an update's answer is not compared with what was sent.
BugConfirms(a, i) ==
  /\ a.json /\ a.code = "zero" /\ a.own
  /\ a.state \in IF Phases[i] = "close" THEN {Final} ELSE Live

Confirms(a, i) ==
  /\ a.json /\ a.code = "zero" /\ a.own
  /\ a.state \in IF Phases[i] = "close" THEN {Final} ELSE Live
  /\ Phases[i] = "update" => a.sequence >= Version(i)

Judge(a, i) ==
  IF a.large THEN Failure("other", FALSE, 0)
  ELSE IF BusinessError(a) THEN Failure(Stored(Code(a)), FALSE, 0)
  ELSE IF a.status \notin 200..299 THEN Failure("other", Transient(a.status), a.after)
  ELSE IF Confirms(a, i) THEN Success
  ELSE Failure("other", FALSE, 0)

-----------------------------------------------------------------------------
(* ReportWorker.deliver. *)

Smaller(a, b) == IF a < b THEN a ELSE b
Larger(a, b)  == IF a > b THEN a ELSE b

Backoff(n, jitter) == Smaller(BackoffCap, 2 ^ Smaller(n, MaxShift) + jitter)

\* Mutant: a Retry-After shortens the backoff's own delay.
BugDelay(n, jitter, after) ==
  IF after = 0 THEN Backoff(n, jitter) ELSE Smaller(Backoff(n, jitter), after)

Delay(n, jitter, after) == Larger(Backoff(n, jitter), after)

Due(i) == state[i] = "PENDING" /\ wait[i] = 0 /\ \A j \in 1..i - 1 : state[j] = "SENT"

(* ack or failed. *)
Store(i, verdict) ==
  /\ error' = [error EXCEPT ![i] = verdict.error]
  /\ IF verdict = Success
     THEN state' = [state EXCEPT ![i] = "SENT"] /\ UNCHANGED <<attempts, wait, asked>>
     ELSE /\ attempts' = [attempts EXCEPT ![i] = Smaller(@ + 1, MaxShift)]
          /\ state' = [state EXCEPT ![i] = IF verdict.retryable THEN "PENDING" ELSE "BLOCKED"]
          /\ asked' = [asked EXCEPT ![i] = IF verdict.retryable THEN verdict.after ELSE 0]
          /\ \E jitter \in {0, 1} :
               wait' = [wait EXCEPT ![i] = IF verdict.retryable
                                           THEN Delay(attempts[i], jitter, verdict.after) ELSE 0]

-----------------------------------------------------------------------------
(* The Web, and what its answer may become. *)

Told(i) == [status |-> 200, after |-> 0, large |-> FALSE, json |-> TRUE, own |-> TRUE,
            code |-> "zero", inner |-> "none", state |-> web', sequence |-> Version(latest')]

(* The Web applies a notification, for the first time or again. *)
Apply(i) ==
  /\ accepted' = accepted \cup {i} /\ latest' = Larger(latest, i)
  /\ web' \in IF Phases[i] # "close" THEN (IF web \in Live THEN Live ELSE {web})
              ELSE IF web \in Live THEN {"READY", "ABORTED"} ELSE {web}
  /\ answers' = answers \cup {Told(i)}

Answered(i) ==
  /\ Due(i) /\ Apply(i) /\ Store(i, Judge(Told(i), i))
  /\ UNCHANGED refused

(* No answer, or none that can be read: NETWORK_ERROR. *)
Lost(i) ==
  /\ Due(i) /\ (Apply(i) \/ UNCHANGED <<accepted, latest, web, answers>>)
  /\ Store(i, Failure("other", TRUE, 0))
  /\ UNCHANGED refused

(* The Web refuses; the status is the Web's or a gateway's. *)
Refused(i) ==
  /\ Due(i)
  /\ \E status \in Statuses, after \in RetryAfters, code \in {"other"} \cup Known,
        inner \in {"none"} \cup Known :
       LET a == [status |-> status, after |-> after, large |-> FALSE, json |-> TRUE, own |-> TRUE,
                 code |-> code, inner |-> inner, state |-> web, sequence |-> 0]
       IN /\ Code(a) \in Known
          /\ Store(i, Judge(a, i))
          /\ refused' = [refused EXCEPT ![i] = Code(a)]
  /\ UNCHANGED <<accepted, latest, web, answers>>

(* A gateway answers: with a page of its own, with another file's answer, or *)
(* with one the Web gave to an earlier request of this file. The request may *)
(* have reached the Web all the same.                                        *)
Replaced(i) ==
  /\ Due(i) /\ (Apply(i) \/ UNCHANGED <<accepted, latest, web, answers>>)
  /\ \E a \in answers \cup {[Told(i) EXCEPT !.own = FALSE], [Told(i) EXCEPT !.json = FALSE],
                            [Told(i) EXCEPT !.large = TRUE]},
        status \in Statuses, after \in RetryAfters :
       Store(i, Judge([a EXCEPT !.status = status, !.after = after], i))
  /\ UNCHANGED refused

(* deliver itself raises: the answer is nested too deeply for json.loads, or *)
(* the outbox cannot take the verdict. The row stays as it was.              *)
DeliverRaises(i) ==
  /\ Due(i) /\ Apply(i)
  /\ UNCHANGED <<state, error, attempts, wait, asked, refused>>

(* No error stored for the file says that its task has ended. *)
Releasable == \A i \in Items : error[i] # "terminal"

(* ReportStore.retry_blocked. *)
RetryBlocked ==
  /\ Releasable /\ \E i \in Items : state[i] = "BLOCKED"
  /\ state' = [i \in Items |-> IF state[i] = "BLOCKED" THEN "PENDING" ELSE state[i]]
  /\ refused' = [i \in Items |-> IF refused[i] = "terminal" THEN "terminal" ELSE "none"]
  /\ UNCHANGED <<error, attempts, wait, asked, accepted, latest, web, answers>>

Tick ==
  /\ \E i \in Items : wait[i] > 0
  /\ wait' = [i \in Items |-> Larger(wait[i] - 1, 0)]
  /\ asked' = [i \in Items |-> Larger(asked[i] - 1, 0)]
  /\ UNCHANGED <<state, error, attempts, refused, accepted, latest, web, answers>>

Next ==
  \/ \E i \in Items : Answered(i) \/ Lost(i) \/ Refused(i) \/ Replaced(i) \/ DeliverRaises(i)
  \/ RetryBlocked \/ Tick

Spec == Init /\ [][Next]_vars

-----------------------------------------------------------------------------
(* A notification counts as sent only when the Web has applied it, and the   *)
(* end only when the Web has drawn the conclusion that was asked for,        *)
(* whatever page, earlier answer or other file's answer came in its place.   *)
(* One exception: the first update carries the create's number, so that the  *)
(* answer to an applied create, given again, passes for the update's.        *)
SentIsApplied ==
  \A i \in Items : state[i] = "SENT" =>
    /\ \/ i \in accepted
       \/ Phases[i] = "update" /\ Version(i) = Version(1) /\ 1 \in accepted
    /\ Phases[i] = "close" => web = Final

(* What the Web has refused is not offered again on the worker's own         *)
(* account, even when a gateway made a 503 of the refusal: only a retry by   *)
(* hand releases it, and never when the Web has ended the task for good.     *)
RefusalIsFinal == \A i \in Items : refused[i] # "none" => state[i] = "BLOCKED"

(* A notification waits as long as the server asked, and longer than the     *)
(* backoff's cap only while the server asked for that.                       *)
WaitIsJustified ==
  \A i \in Items : /\ asked[i] <= wait[i]
                   /\ wait[i] > BackoffCap => wait[i] = asked[i]
=============================================================================
