--------------------------- MODULE DeliveryProofs ---------------------------
(***************************************************************************)
(* The properties of Delivery for any sequence of notifications, any       *)
(* backoff, and any statuses and delays an answer may carry.               *)
(***************************************************************************)
EXTENDS Delivery, TLAPS

Verdict == [error : {"none", "other", "terminal"}, retryable : BOOLEAN, after : Nat]

(* S holds the notification, or the create that shares the number of the     *)
(* first update.                                                             *)
Covered(i, S) ==
  \/ i \in S
  \/ Phases[i] = "update" /\ Version(i) = Version(1) /\ 1 \in S

(* The Web applies notifications in order, but for a first update that was   *)
(* never applied, and a file ends only by its close.                         *)
AppliedInOrder ==
  /\ \A i \in accepted : \A j \in Items : j < i => Covered(j, accepted)
  /\ accepted = {} => latest = 1
  /\ accepted # {} => latest \in accepted /\ 1 \in accepted
  /\ web \notin Live => \E i \in accepted : Phases[i] = "close"

(* An answer was true when it was given, and the end does not change.        *)
AnswersArePast ==
  \A a \in answers : /\ accepted # {}
                     /\ a.sequence <= Version(latest)
                     /\ a.state \notin Live => web = a.state

(* What blocks a refused notification: a stored error that retry_blocked     *)
(* tells from others.                                                        *)
RefusalIsStored ==
  \A i \in Items : refused[i] = "terminal" => error[i] = "terminal"

IndInv ==
  /\ TypeOK /\ AppliedInOrder /\ AnswersArePast /\ SentIsApplied
  /\ RefusalIsStored /\ RefusalIsFinal /\ WaitIsJustified

-----------------------------------------------------------------------------
(* The notifications are numbered; the create is the first, a close the last. *)
LEMMA ItemsInOrder ==
  /\ Items = 1..Len(Phases) /\ Len(Phases) \in Nat
  /\ \A i \in Items : /\ Phases[i] \in {"create", "update", "close"}
                      /\ Phases[i] = "create" <=> i = 1
                      /\ Phases[i] = "close" => i = Len(Phases)
<1>0. Phases \in Seq({"create", "update", "close"})
  BY Zenon, DeliveryAssumption
<1>1. Items = 1..Len(Phases) /\ Len(Phases) \in Nat
  BY <1>0 DEF Items
<1>2. \A i \in Items : Phases[i] \in {"create", "update", "close"}
  BY <1>0 DEF Items
<1>3. \A i \in Items : /\ Phases[i] = "create" <=> i = 1
                       /\ Phases[i] = "close" => i = Len(Phases)
  BY Zenon, DeliveryAssumption DEF Items
<1>. QED
  BY <1>1, <1>2, <1>3

-----------------------------------------------------------------------------
(* How an answer is judged. *)

(* A judgement is a verdict. *)
LEMMA JudgeType ==
  ASSUME NEW a \in Answer, NEW i \in Items
  PROVE  Judge(a, i) \in Verdict
<1>1. a.after \in Nat /\ a.status \in Nat
  <2>1. RetryAfters \subseteq Nat /\ Statuses \subseteq 100..599
    BY Zenon, DeliveryAssumption
  <2>2. a.after \in RetryAfters /\ a.status \in Statuses
    BY DEF Answer
  <2>3. \A n \in 100..599 : n \in Nat
    OBVIOUS
  <2>. QED
    BY Zenon, <2>1, <2>2, <2>3
<1>2. Transient(a.status) \in BOOLEAN
  BY <1>1 DEF Transient
<1>3. \A e \in {"other", "terminal"}, b \in BOOLEAN, n \in Nat :
        Failure(e, b, n) \in Verdict /\ Success \in Verdict
  BY DEF Failure, Success, Verdict
<1>. QED
  BY <1>1, <1>2, <1>3 DEF Judge, Stored

(* Only an answer that confirms the notification is a success. *)
LEMMA JudgeConfirms ==
  ASSUME NEW a, NEW i \in Items, Judge(a, i) = Success
  PROVE  ~a.large /\ Confirms(a, i)
BY DEF Judge, Failure, Success, Stored

(* What the Web tells after a step is an answer. *)
LEMMA ToldType ==
  ASSUME NEW i, latest' \in Items \cup {1}, web' \in Live \cup {"READY", "ABORTED"}
  PROVE  Told(i) \in Answer
<1>1. Version(latest') \in Nat
  <2>1. \A n \in Items \cup {1} : Version(n) \in Nat
    BY ItemsInOrder DEF Version
  <2>. QED
    BY Zenon, <2>1
<1>2. 200 \in Statuses /\ 0 \in RetryAfters
  BY DeliveryAssumption
<1>. QED
  BY <1>1, <1>2 DEF Told, Answer, Known

(* A known error in the body outweighs everything but the body's length. *)
LEMMA JudgeRefusal ==
  ASSUME NEW a, NEW i \in Items, ~a.large, a.json, Code(a) \in Known
  PROVE  Judge(a, i) = Failure(Stored(Code(a)), FALSE, 0)
BY DEF Judge, BusinessError, Code, Known

(* A delay is as long as the server asked, and longer than the backoff's cap *)
(* only for its sake.                                                        *)
LEMMA DelayIsJustified ==
  ASSUME NEW n \in 0..MaxShift, NEW jitter \in {0, 1}, NEW after \in Nat
  PROVE  LET delay == Delay(n, jitter, after) IN
           /\ delay \in Nat /\ after <= delay
           /\ delay > BackoffCap => delay = after
<1> DEFINE power == 2 ^ Smaller(n, MaxShift) + jitter
<1>1. power \in Int
  <2>1. Smaller(n, MaxShift) \in Nat
    BY DeliveryAssumption DEF Smaller
  <2>2. \A k \in Nat : 2 ^ k \in Int
    BY SMT
  <2>. QED
    BY <2>1, <2>2
<1>2. Backoff(n, jitter) = Smaller(BackoffCap, power)
  BY DEF Backoff
<1>. HIDE DEF power
<1>. QED
  BY <1>1, <1>2, DeliveryAssumption DEF Delay, Larger, Smaller

(* What deliver stores for a due notification: it is sent only on success,   *)
(* nothing else is touched, and its wait is justified.                       *)
LEMMA StoreStep ==
  ASSUME NEW i \in Items, NEW verdict \in Verdict, Store(i, verdict), Due(i), TypeOK,
         WaitIsJustified
  PROVE  /\ state' \in [Items -> {"PENDING", "SENT", "BLOCKED"}]
         /\ error' \in [Items -> {"none", "other", "terminal"}]
         /\ attempts' \in [Items -> 0..MaxShift]
         /\ wait' \in [Items -> Nat] /\ asked' \in [Items -> Nat]
         /\ WaitIsJustified'
         /\ \A j \in Items : j # i => state'[j] = state[j] /\ error'[j] = error[j]
         /\ state'[i] = "SENT" => verdict = Success
         /\ error'[i] = verdict.error
         /\ verdict # Success /\ ~verdict.retryable => state'[i] = "BLOCKED"
<1>. USE DEF Due, TypeOK, Verdict
<1>1. CASE verdict = Success
  BY <1>1 DEF Store, WaitIsJustified
<1>2. CASE verdict # Success
  <2>1. attempts' = [attempts EXCEPT ![i] = Smaller(attempts[i] + 1, MaxShift)]
    BY <1>2 DEF Store
  <2>2. Smaller(attempts[i] + 1, MaxShift) \in 0..MaxShift
    BY DeliveryAssumption DEF Smaller
  <2>3. /\ error' = [error EXCEPT ![i] = verdict.error]
        /\ state' = [state EXCEPT ![i] = IF verdict.retryable THEN "PENDING" ELSE "BLOCKED"]
        /\ asked' = [asked EXCEPT ![i] = IF verdict.retryable THEN verdict.after ELSE 0]
    BY <1>2 DEF Store
  <2>4. PICK jitter \in {0, 1} :
          wait' = [wait EXCEPT ![i] = IF verdict.retryable
                                      THEN Delay(attempts[i], jitter, verdict.after) ELSE 0]
    BY <1>2 DEF Store
  <2>5. LET delay == Delay(attempts[i], jitter, verdict.after) IN
          /\ delay \in Nat /\ verdict.after <= delay
          /\ delay > BackoffCap => delay = verdict.after
    BY DelayIsJustified
  <2>6. wait' \in [Items -> Nat] /\ asked' \in [Items -> Nat]
    BY <2>3, <2>4, <2>5
  <2>7. WaitIsJustified'
    BY <2>3, <2>4, <2>5, DeliveryAssumption DEF WaitIsJustified
  <2>. QED
    BY <1>2, <2>1, <2>2, <2>3, <2>6, <2>7
<1>. QED
  BY <1>1, <1>2

(* The Web's part of a step: nothing, or the notification applied. *)
MayApply(i) == Apply(i) \/ UNCHANGED <<accepted, latest, web, answers>>

LEMMA ApplyStep ==
  ASSUME NEW i \in Items, IndInv, Due(i), MayApply(i)
  PROVE  /\ accepted' \subseteq Items /\ latest' \in Items \cup {1}
         /\ web' \in Live \cup {"READY", "ABORTED"} /\ answers' \subseteq Answer
         /\ accepted \subseteq accepted'
         /\ web \notin Live => web' = web
         /\ AppliedInOrder' /\ AnswersArePast'
<1>. USE DEF IndInv, TypeOK
<1>0. Items = 1..Len(Phases) /\ Len(Phases) \in Nat
  BY ItemsInOrder
<1>1. CASE UNCHANGED <<accepted, latest, web, answers>>
  BY <1>1 DEF AppliedInOrder, AnswersArePast
<1>2. CASE Apply(i)
  <2>1. \A j \in Items : j < i => Covered(j, accepted)
    BY <1>0 DEF Due, SentIsApplied, Covered
  <2>2. accepted' = accepted \cup {i} /\ latest' = Larger(latest, i)
    BY <1>2 DEF Apply
  <2>3. latest' \in Items /\ latest <= latest'
    BY <1>0, <2>2 DEF Larger
  <2>4. i = 1 \/ 1 \in accepted
    <3>1. 1 \in Items /\ Phases[1] # "update" /\ (i = 1 \/ 1 < i)
      BY <1>0, ItemsInOrder
    <3>. QED
      BY <2>1, <3>1 DEF Covered
  <2>5. latest' \in accepted' /\ 1 \in accepted'
    BY <1>0, <2>2, <2>4 DEF Larger, AppliedInOrder
  <2>6. \A j \in accepted' : \A k \in Items : k < j => Covered(k, accepted')
    BY <2>1, <2>2 DEF AppliedInOrder, Covered
  <2>7. web' \in Live \cup {"READY", "ABORTED"} /\ (web \notin Live => web' = web)
    BY <1>2 DEF Apply, Live
  <2>8. web' \notin Live => \E j \in accepted' : Phases[j] = "close"
    BY <1>2, <2>2 DEF Apply, Live, AppliedInOrder
  <2>9. Told(i) \in Answer
    BY <2>3, <2>7, ToldType
  <2>10. answers' = answers \cup {Told(i)}
    BY <1>2 DEF Apply
  <2>11. Told(i).sequence = Version(latest') /\ Told(i).state = web'
    BY DEF Told
  <2>12. AnswersArePast'
    <3> SUFFICES ASSUME NEW a \in answers'
                 PROVE  /\ a.sequence <= Version(latest')
                        /\ a.state \notin Live => web' = a.state
      BY <2>2 DEF AnswersArePast
    <3>1. CASE a \in answers
      <4>1. a.sequence <= Version(latest) /\ (a.state \notin Live => web = a.state)
        BY <3>1 DEF AnswersArePast
      <4>2. a.sequence \in Int
        BY <3>1 DEF Answer
      <4>. QED
        BY <1>0, <2>3, <2>7, <4>1, <4>2 DEF Version
    <3>2. CASE a = Told(i)
      BY <1>0, <2>3, <2>11, <3>2 DEF Version
    <3>. QED
      BY <2>10, <3>1, <3>2
  <2>13. AppliedInOrder'
    BY <2>2, <2>5, <2>6, <2>8 DEF AppliedInOrder
  <2>. QED
    BY <2>2, <2>3, <2>7, <2>9, <2>10, <2>12, <2>13
<1>. QED
  BY <1>1, <1>2 DEF MayApply

(* One exchange that keeps what refusals there were: the invariant holds     *)
(* after it if a success means that the notification was applied.            *)
LEMMA ExchangeStep ==
  ASSUME NEW i \in Items, NEW verdict \in Verdict, IndInv, Due(i), MayApply(i),
         Store(i, verdict), UNCHANGED refused,
         verdict = Success =>
           Covered(i, accepted') /\ (Phases[i] = "close" => web' = Final)
  PROVE  IndInv'
<1>1. TypeOK /\ WaitIsJustified
  BY DEF IndInv
<1>2. TypeOK' /\ WaitIsJustified' /\ AppliedInOrder' /\ AnswersArePast'
  BY <1>1, StoreStep, ApplyStep DEF TypeOK
<1>3. SentIsApplied'
  <2>1. Final \notin Live
    BY DEF Final, Live
  <2>. QED
    BY <1>1, <2>1, StoreStep, ApplyStep DEF IndInv, SentIsApplied, Covered
<1>4. refused[i] = "none"
  BY DEF IndInv, Due, RefusalIsFinal
<1>5. RefusalIsStored' /\ RefusalIsFinal'
  BY <1>1, <1>4, StoreStep DEF IndInv, RefusalIsStored, RefusalIsFinal
<1>. QED
  BY <1>2, <1>3, <1>5 DEF IndInv

(* No answer that takes the place of this one's confirms it before the Web   *)
(* has applied it, or the create when this is the first update.              *)
LEMMA EarlierAnswer ==
  ASSUME NEW i \in Items, IndInv, NEW a \in answers, NEW status, NEW after,
         Confirms([a EXCEPT !.status = status, !.after = after], i)
  PROVE  Covered(i, accepted) /\ (Phases[i] = "close" => web = Final)
<1>. DEFINE b == [a EXCEPT !.status = status, !.after = after]
<1>0. Items = 1..Len(Phases) /\ Len(Phases) \in Nat
  BY ItemsInOrder
<1>1. a \in Answer
  BY DEF IndInv, TypeOK
<1>2. b.state = a.state /\ b.sequence = a.sequence
  BY <1>1 DEF Answer
<1>. HIDE DEF b
<1>3. accepted \subseteq Items /\ latest \in accepted /\ 1 \in accepted
  BY DEF IndInv, TypeOK, AnswersArePast, AppliedInOrder
<1>4. Confirms(b, i)
  BY DEF b
<1>5. CASE Phases[i] = "create"
  BY <1>3, <1>5, ItemsInOrder DEF Covered
<1>6. CASE Phases[i] = "update"
  <2>1. a.sequence >= Version(i) /\ a.sequence <= Version(latest)
    BY <1>2, <1>4, <1>6 DEF Confirms, IndInv, AnswersArePast
  <2>2. i <= latest \/ Version(i) = Version(1)
    BY <1>0, <1>1, <1>3, <2>1 DEF Version, Answer
  <2>3. i = latest \/ i < latest \/ Version(i) = Version(1)
    BY <1>0, <1>3, <2>2
  <2>4. Covered(i, accepted)
    BY <1>3, <1>6, <2>3 DEF IndInv, AppliedInOrder, Covered
  <2>. QED
    BY <1>6, <2>4
<1>7. CASE Phases[i] = "close"
  <2>1. a.state = Final
    BY <1>2, <1>4, <1>7 DEF Confirms
  <2>2. web = Final /\ Final \notin Live
    BY <2>1 DEF IndInv, AnswersArePast, Final, Live
  <2>3. PICK j \in accepted : Phases[j] = "close"
    BY <2>2 DEF IndInv, AppliedInOrder
  <2>4. j = i
    BY <1>3, <1>7, <2>3, ItemsInOrder
  <2>. QED
    BY <2>2, <2>3, <2>4 DEF Covered
<1>. QED
  BY <1>5, <1>6, <1>7, ItemsInOrder

-----------------------------------------------------------------------------
(* The exchanges, one by one. *)

LEMMA AnsweredStep ==
  ASSUME NEW i \in Items, IndInv, Answered(i)
  PROVE  IndInv'
<1>1. Due(i) /\ Apply(i) /\ Store(i, Judge(Told(i), i)) /\ UNCHANGED refused
  BY DEF Answered
<1>2. Told(i) \in Answer
  BY <1>1, ApplyStep DEF Apply, MayApply
<1>3. Judge(Told(i), i) = Success =>
        Covered(i, accepted') /\ (Phases[i] = "close" => web' = Final)
  BY <1>1, JudgeConfirms DEF Apply, Confirms, Told, Covered
<1>. QED
  BY <1>1, <1>2, <1>3, JudgeType, ExchangeStep DEF MayApply

LEMMA LostStep ==
  ASSUME NEW i \in Items, IndInv, Lost(i)
  PROVE  IndInv'
<1>1. /\ Due(i) /\ MayApply(i) /\ UNCHANGED refused
      /\ Store(i, Failure("other", TRUE, 0))
  BY DEF Lost, MayApply
<1>2. Failure("other", TRUE, 0) \in Verdict /\ Failure("other", TRUE, 0) # Success
  BY DEF Failure, Success, Verdict
<1>. QED
  BY <1>1, <1>2, ExchangeStep

LEMMA RefusedStep ==
  ASSUME NEW i \in Items, IndInv, Refused(i)
  PROVE  IndInv'
<1>1. PICK status \in Statuses, after \in RetryAfters, code \in {"other"} \cup Known,
           inner \in {"none"} \cup Known :
        LET a == [status |-> status, after |-> after, large |-> FALSE, json |-> TRUE,
                  own |-> TRUE, code |-> code, inner |-> inner, state |-> web, sequence |-> 0]
        IN /\ Code(a) \in Known
           /\ Store(i, Judge(a, i))
           /\ refused' = [refused EXCEPT ![i] = Code(a)]
  BY DEF Refused
<1>. DEFINE a == [status |-> status, after |-> after, large |-> FALSE, json |-> TRUE,
                  own |-> TRUE, code |-> code, inner |-> inner, state |-> web, sequence |-> 0]
            verdict == Failure(Stored(Code(a)), FALSE, 0)
<1>2. ~a.large /\ a.json
  OBVIOUS
<1>3. Code(a) \in Known /\ Store(i, Judge(a, i)) /\ refused' = [refused EXCEPT ![i] = Code(a)]
  BY <1>1
<1>. HIDE DEF a
<1>4. Judge(a, i) = verdict
  BY <1>2, <1>3, JudgeRefusal
<1>5. /\ verdict \in Verdict /\ verdict # Success /\ ~verdict.retryable
      /\ Code(a) = "terminal" => verdict.error = "terminal"
  BY DEF Stored, Failure, Success, Verdict
<1>6. Due(i) /\ UNCHANGED <<accepted, latest, web, answers>> /\ Store(i, verdict)
  BY <1>3, <1>4 DEF Refused
<1>. HIDE DEF verdict
<1>7. TypeOK /\ WaitIsJustified
  BY DEF IndInv
<1>8. TypeOK'
  BY <1>3, <1>5, <1>6, <1>7, StoreStep DEF TypeOK
<1>9. WaitIsJustified' /\ AppliedInOrder' /\ AnswersArePast'
  BY <1>5, <1>6, <1>7, StoreStep, ApplyStep DEF MayApply
<1>10. SentIsApplied'
  BY <1>5, <1>6, <1>7, StoreStep DEF IndInv, SentIsApplied
<1>11. RefusalIsFinal' /\ RefusalIsStored'
  BY <1>3, <1>5, <1>6, <1>7, StoreStep
  DEF IndInv, RefusalIsFinal, RefusalIsStored, TypeOK, Known
<1>. QED
  BY <1>8, <1>9, <1>10, <1>11 DEF IndInv

LEMMA ReplacedStep ==
  ASSUME NEW i \in Items, IndInv, Replaced(i)
  PROVE  IndInv'
<1>. DEFINE Spoiled == {[Told(i) EXCEPT !.own = FALSE], [Told(i) EXCEPT !.json = FALSE],
                        [Told(i) EXCEPT !.large = TRUE]}
<1>1. Due(i) /\ MayApply(i) /\ UNCHANGED refused
  BY DEF Replaced, MayApply
<1>2. PICK a \in answers \cup Spoiled, status \in Statuses, after \in RetryAfters :
        Store(i, Judge([a EXCEPT !.status = status, !.after = after], i))
  BY DEF Replaced
<1>. DEFINE b == [a EXCEPT !.status = status, !.after = after]
<1>3. Told(i) \in Answer
  <2>1. /\ latest' \in Items \cup {1} /\ web' \in Live \cup {"READY", "ABORTED"}
    BY <1>1, ApplyStep
  <2>. QED
    BY <2>1, ToldType
<1>4. a \in Answer /\ b \in Answer
  <2>1. a \in Answer
    BY <1>2, <1>3 DEF Answer, IndInv, TypeOK
  <2>. QED
    BY <2>1 DEF Answer
<1>5. a \in Spoiled => b.large \/ ~Confirms(b, i)
  BY <1>3 DEF Answer, Confirms
<1>6. a \notin Spoiled /\ Confirms(b, i) =>
        Covered(i, accepted) /\ (Phases[i] = "close" => web = Final)
  BY <1>2, EarlierAnswer
<1>. HIDE DEF b
<1>7. Judge(b, i) = Success =>
        Covered(i, accepted') /\ (Phases[i] = "close" => web' = Final)
  <2>1. accepted \subseteq accepted' /\ (web \notin Live => web' = web)
    BY <1>1, ApplyStep
  <2>2. Final \notin Live
    BY DEF Final, Live
  <2>3. Judge(b, i) = Success => ~b.large /\ Confirms(b, i)
    BY JudgeConfirms
  <2>. QED
    BY <1>5, <1>6, <2>1, <2>2, <2>3 DEF Covered
<1>. QED
  BY <1>1, <1>2, <1>4, <1>7, JudgeType, ExchangeStep DEF b

LEMMA DeliverRaisesStep ==
  ASSUME NEW i \in Items, IndInv, DeliverRaises(i)
  PROVE  IndInv'
<1>1. Due(i) /\ MayApply(i) /\ UNCHANGED <<state, error, attempts, wait, asked, refused>>
  BY DEF DeliverRaises, MayApply
<1>2. /\ accepted' \subseteq Items /\ latest' \in Items \cup {1}
      /\ web' \in Live \cup {"READY", "ABORTED"} /\ answers' \subseteq Answer
      /\ accepted \subseteq accepted' /\ (web \notin Live => web' = web)
      /\ AppliedInOrder' /\ AnswersArePast'
  BY <1>1, ApplyStep
<1>3. TypeOK'
  BY <1>1, <1>2 DEF IndInv, TypeOK
<1>4. SentIsApplied'
  <2>1. Final \notin Live
    BY DEF Final, Live
  <2>. QED
    BY <1>1, <1>2, <2>1 DEF IndInv, SentIsApplied
<1>5. RefusalIsStored' /\ RefusalIsFinal' /\ WaitIsJustified'
  BY <1>1 DEF IndInv, RefusalIsStored, RefusalIsFinal, WaitIsJustified
<1>. QED
  BY <1>2, <1>3, <1>4, <1>5 DEF IndInv

-----------------------------------------------------------------------------
(* The invariant holds in every state of every behaviour. *)
THEOREM Invariance == Spec => []IndInv
<1>1. Init => IndInv
  <2>. SUFFICES ASSUME Init PROVE IndInv
    OBVIOUS
  <2>1. TypeOK
    BY DeliveryAssumption DEF Init, TypeOK, Live
  <2>2. AppliedInOrder /\ AnswersArePast
    BY DEF Init, AppliedInOrder, AnswersArePast, Live
  <2>3. SentIsApplied /\ RefusalIsStored /\ RefusalIsFinal /\ WaitIsJustified
    BY DeliveryAssumption
    DEF Init, SentIsApplied, RefusalIsStored, RefusalIsFinal, WaitIsJustified
  <2>. QED
    BY <2>1, <2>2, <2>3 DEF IndInv
<1>2. IndInv /\ [Next]_vars => IndInv'
  <2>. SUFFICES ASSUME IndInv, [Next]_vars PROVE IndInv'
    OBVIOUS
  <2>1. ASSUME NEW i \in Items, Answered(i) PROVE IndInv'
    BY <2>1, AnsweredStep
  <2>2. ASSUME NEW i \in Items, Lost(i) PROVE IndInv'
    BY <2>2, LostStep
  <2>3. ASSUME NEW i \in Items, Refused(i) PROVE IndInv'
    BY <2>3, RefusedStep
  <2>4. ASSUME NEW i \in Items, Replaced(i) PROVE IndInv'
    BY <2>4, ReplacedStep
  <2>5. ASSUME NEW i \in Items, DeliverRaises(i) PROVE IndInv'
    BY <2>5, DeliverRaisesStep
  <2>6. CASE RetryBlocked
    <3>1. \A i \in Items : refused[i] # "terminal"
      BY <2>6 DEF RetryBlocked, Releasable, IndInv, RefusalIsStored
    <3>2. TypeOK' /\ AppliedInOrder' /\ AnswersArePast' /\ WaitIsJustified'
      BY <2>6
      DEF RetryBlocked, IndInv, TypeOK, AppliedInOrder, AnswersArePast, WaitIsJustified
    <3>3. SentIsApplied' /\ RefusalIsStored' /\ RefusalIsFinal'
      BY <2>6, <3>1
      DEF RetryBlocked, IndInv, TypeOK, SentIsApplied, RefusalIsStored, RefusalIsFinal
    <3>. QED
      BY <3>2, <3>3 DEF IndInv
  <2>7. CASE Tick
    <3>0. /\ wait' = [i \in Items |-> Larger(wait[i] - 1, 0)]
          /\ asked' = [i \in Items |-> Larger(asked[i] - 1, 0)]
          /\ wait \in [Items -> Nat] /\ asked \in [Items -> Nat] /\ WaitIsJustified
      BY <2>7 DEF Tick, IndInv, TypeOK
    <3>1. TypeOK' /\ WaitIsJustified'
      <4>1. wait' \in [Items -> Nat] /\ asked' \in [Items -> Nat]
        BY <3>0 DEF Larger
      <4>2. TypeOK'
        BY <2>7, <4>1 DEF Tick, IndInv, TypeOK
      <4>3. BackoffCap \in Nat
        BY DeliveryAssumption
      <4>4. WaitIsJustified'
        BY <3>0, <4>3 DEF WaitIsJustified, Larger
      <4>. QED
        BY <4>2, <4>4
    <3>2. AppliedInOrder' /\ AnswersArePast' /\ SentIsApplied' /\ RefusalIsStored' /\ RefusalIsFinal'
      BY <2>7
      DEF Tick, IndInv, AppliedInOrder, AnswersArePast, SentIsApplied, RefusalIsStored,
        RefusalIsFinal
    <3>. QED
      BY <3>1, <3>2 DEF IndInv
  <2>8. CASE UNCHANGED vars
    BY <2>8
    DEF vars, IndInv, TypeOK, AppliedInOrder, AnswersArePast, SentIsApplied, RefusalIsStored,
      RefusalIsFinal, WaitIsJustified
  <2>. QED
    BY Zenon, <2>1, <2>2, <2>3, <2>4, <2>5, <2>6, <2>7, <2>8 DEF Next
<1>. QED
  BY <1>1, <1>2, PTL DEF Spec

(* Every variable has its type. *)
THEOREM TypeCorrect == Spec => []TypeOK
  BY Invariance, PTL DEF IndInv

(* What counts as sent was applied, and a close with the conclusion asked    *)
(* for, whatever answers come in the place of the Web's; only for the first  *)
(* update may an answer to the applied create be taken instead.              *)
THEOREM SentApplied == Spec => []SentIsApplied
  BY Invariance, PTL DEF IndInv

(* A refusal is not offered again on the worker's own account, and one that  *)
(* ends the task not even by hand.                                           *)
THEOREM RefusalFinal == Spec => []RefusalIsFinal
  BY Invariance, PTL DEF IndInv

(* A wait is as long as the server asked, and beyond the cap only for that. *)
THEOREM WaitJustified == Spec => []WaitIsJustified
  BY Invariance, PTL DEF IndInv
=============================================================================
