-------------------------- MODULE ConnectionProofs --------------------------
(***************************************************************************)
(* The safety properties of Connection for any devices, line limit, chunk  *)
(* size and stream. Those of the handler rest on IndInv; that the parser's *)
(* verdicts do not depend on the chunks is proved of the parser alone      *)
(* (ParserSafe), whose specification a connection implements.              *)
(***************************************************************************)
EXTENDS Connection, FiniteSetTheorems, TLAPS

(* A non-empty set of natural numbers has a least member. *)
LessThan == {s \in Nat \X Nat : s[1] < s[2]}

LEMMA LeastMember ==
  ASSUME NEW S \in SUBSET Nat, S # {}
  PROVE  \E i \in S : \A j \in S : i <= j
<1>1. IsWellFoundedOn(LessThan, Nat)
  BY NatLessThanWellFounded DEF OpToRel, LessThan
<1>2. PICK i \in S : \A j \in S : <<j, i>> \notin LessThan
  BY <1>1, WFMin
<1>3. ASSUME NEW j \in S PROVE i <= j
  <2>1. <<j, i>> \in Nat \X Nat /\ <<j, i>>[1] = j /\ <<j, i>>[2] = i
    OBVIOUS
  <2>2. ~(j < i)
    BY <2>1, <1>2 DEF LessThan
  <2>. QED
    BY <2>2
<1>. QED
  BY <1>3

LEMMA FirstEndFacts ==
  ASSUME NEW s \in Seq(Bytes), Ends(s) # {}
  PROVE  /\ FirstEnd(s) \in 1 .. Len(s) /\ s[FirstEnd(s)] = LF
         /\ \A i \in 1 .. Len(s) : s[i] = LF => FirstEnd(s) <= i
<1>1. Ends(s) = {i \in 1 .. Len(s) : s[i] = LF}
  BY DEF Ends
<1>2. PICK i \in Ends(s) : \A j \in Ends(s) : i <= j
  BY <1>1, LeastMember
<1>3. FirstEnd(s) \in Ends(s) /\ \A j \in Ends(s) : FirstEnd(s) <= j
  BY <1>2 DEF FirstEnd
<1>. QED
  BY <1>1, <1>3

LEMMA SubSeqFacts ==
  ASSUME NEW S, NEW s \in Seq(S), NEW a \in Nat \ {0}, NEW b \in 0 .. Len(s), a <= b + 1
  PROVE  /\ SubSeq(s, a, b) \in Seq(S) /\ Len(SubSeq(s, a, b)) = b - a + 1
         /\ \A i \in 1 .. b - a + 1 : SubSeq(s, a, b)[i] = s[a + i - 1]
  OBVIOUS

-----------------------------------------------------------------------------
(* The parser's reports only grow, but when feed raises: then they are cut   *)
(* back to what the call had found when it began.                            *)
Grown(s, t) == Len(s) <= Len(t) /\ \A i \in 1 .. Len(s) : t[i] = s[i]

Marked ==
  /\ before \in [accepted : Nat, refused : Nat, sent : Nat]
  /\ before.accepted <= Len(accepted) /\ before.refused <= Len(refused)
  /\ before.sent <= Len(sent)

Refusals == [reason : Reasons, raw : Seq(Bytes)]

LEMMA Cut ==
  ASSUME ParserTypeOK, Marked, LineRaises
  PROVE  /\ accepted' \in Seq(Seq(Bytes)) /\ Len(accepted') = before.accepted
         /\ \A i \in 1 .. before.accepted : accepted'[i] = accepted[i]
         /\ refused' \in Seq(Refusals) /\ Len(refused') = before.refused
         /\ \A i \in 1 .. before.refused : refused'[i] = refused[i]
<1>1. accepted \in Seq(Seq(Bytes)) /\ refused \in Seq(Refusals)
  BY DEF ParserTypeOK, Refusals
<1>2. before.accepted \in 0 .. Len(accepted) /\ before.refused \in 0 .. Len(refused)
  BY DEF Marked
<1>3. accepted' = SubSeq(accepted, 1, before.accepted) /\ refused' = SubSeq(refused, 1, before.refused)
  BY DEF LineRaises
<1>4. PICK m, n : m = before.accepted /\ n = before.refused
  OBVIOUS
<1>5. /\ SubSeq(accepted, 1, m) \in Seq(Seq(Bytes)) /\ Len(SubSeq(accepted, 1, m)) = m
      /\ \A i \in 1 .. m : SubSeq(accepted, 1, m)[i] = accepted[i]
  BY <1>1, <1>2, <1>4, SubSeqFacts
<1>6. /\ SubSeq(refused, 1, n) \in Seq(Refusals) /\ Len(SubSeq(refused, 1, n)) = n
      /\ \A i \in 1 .. n : SubSeq(refused, 1, n)[i] = refused[i]
  BY <1>1, <1>2, <1>4, SubSeqFacts
<1>. QED
  BY <1>3, <1>4, <1>5, <1>6

LEMMA ReportsGrow ==
  ASSUME ParserTypeOK, [ParserNext]_parserVars, ~LineRaises
  PROVE  Grown(accepted, accepted') /\ Grown(refused, refused')
<1>. DEFINE Kept    == accepted' = accepted /\ refused' = refused
            More    == \E x : accepted' = Append(accepted, x) /\ refused' = refused
            Refused == \E x : refused' = Append(refused, x) /\ accepted' = accepted
<1>1. (\E chunk \in Chunks : Feed(chunk)) => Kept
  BY DEF Feed
<1>2. ParseLine => More \/ Refused
  BY DEF ParseLine
<1>3. RejectLongLine \/ RejectLongRemainder => Refused
  BY DEF RejectLongLine, RejectLongRemainder
<1>4. KeepRemainder => Kept
  BY DEF KeepRemainder
<1>5. Finish => Kept \/ Refused
  BY DEF Finish
<1>6. Kept \/ More \/ Refused
  BY <1>1, <1>2, <1>3, <1>4, <1>5 DEF ParserNext, FeedLoop, parserVars
<1>7. \A s \in Seq(Seq(Bytes)) \cup Seq(Refusals) :
        Grown(s, s) /\ \A x : Grown(s, Append(s, x))
  BY DEF Grown
<1>8. accepted \in Seq(Seq(Bytes)) /\ refused \in Seq(Refusals)
  BY DEF ParserTypeOK, Refusals
<1>. QED
  BY <1>6, <1>7, <1>8

LEMMA MarkedStep ==
  ASSUME ParserTypeOK, Marked, [ParserNext]_parserVars
  PROVE  Marked'
<1>0. /\ Len(accepted) \in Nat /\ Len(refused) \in Nat /\ Len(sent) \in Nat
      /\ accepted \in Seq(Seq(Bytes)) /\ refused \in Seq(Refusals) /\ sent \in Seq(Bytes)
  BY DEF ParserTypeOK, Refusals
<1>1. CASE LineRaises
  <2>1. /\ before' = before /\ sent' = sent
        /\ Len(accepted') = before.accepted /\ Len(refused') = before.refused
    BY <1>1, Cut DEF LineRaises
  <2>. QED
    BY <2>1 DEF Marked
<1>2. CASE ~LineRaises
  <2>1. /\ Len(accepted) <= Len(accepted') /\ Len(refused) <= Len(refused')
        /\ Len(accepted') \in Nat /\ Len(refused') \in Nat
    <3>1. Len(accepted) <= Len(accepted') /\ Len(refused) <= Len(refused')
      BY <1>2, ReportsGrow DEF Grown
    <3>2. \/ accepted' = accepted \/ \E x : accepted' = Append(accepted, x)
      BY <1>2 DEF ParserNext, FeedLoop, parserVars, Feed, ParseLine, RejectLongLine,
                  KeepRemainder, RejectLongRemainder, Finish
    <3>3. \/ refused' = refused \/ \E x : refused' = Append(refused, x)
      BY <1>2 DEF ParserNext, FeedLoop, parserVars, Feed, ParseLine, RejectLongLine,
                  KeepRemainder, RejectLongRemainder, Finish
    <3>4. Len(accepted') \in Nat
      BY <1>0, <3>2
    <3>5. Len(refused') \in Nat
      BY <1>0, <3>3
    <3>. QED
      BY <3>1, <3>4, <3>5
  <2>2. ASSUME NEW chunk \in Chunks, Feed(chunk) PROVE Mark /\ Len(sent) <= Len(sent')
    <3>1. PICK n \in 1 .. MaxChunk : chunk \in [1 .. n -> Alphabet]
      BY DEF Chunks
    <3>2. chunk \in Seq(Bytes)
      BY <3>1, ParserAssumption DEF Bytes
    <3>3. sent' = sent \o chunk /\ Mark
      BY <2>2 DEF Feed
    <3>. QED
      BY <1>0, <3>2, <3>3
  <2>3. CASE (\E chunk \in Chunks : Feed(chunk)) \/ Finish
    <3>1. Mark /\ Len(sent) <= Len(sent')
      BY <1>0, <2>2, <2>3 DEF Finish
    <3>2. before' = [accepted |-> Len(accepted), refused |-> Len(refused), sent |-> Len(sent)]
      BY <3>1 DEF Mark
    <3>. QED
      BY <1>0, <2>1, <3>1, <3>2 DEF Marked
  <2>4. CASE ParseLine \/ RejectLongLine \/ KeepRemainder \/ RejectLongRemainder
             \/ UNCHANGED parserVars
    <3>1. before' = before /\ sent' = sent
      BY <2>4 DEF ParseLine, RejectLongLine, KeepRemainder, RejectLongRemainder, parserVars
    <3>. QED
      BY <1>0, <2>1, <3>1 DEF Marked
  <2>. QED
    BY <1>2, <2>3, <2>4 DEF ParserNext, FeedLoop
<1>. QED
  BY <1>1, <1>2

-----------------------------------------------------------------------------
(* The parser. What was read of the stream and is no longer in the buffer    *)
(* ends on a line boundary and has no line that is too long.                 *)
Framed(p) ==
  /\ p \in 0 .. Len(sent) /\ Len(sent) = p + Len(buffer)
  /\ \A i \in 1 .. Len(buffer) : sent[p + i] = buffer[i]
  /\ \A i \in 1 .. p : \E j \in i .. p : j <= i + MaxLine /\ sent[j] = LF

ParserInv ==
  /\ phase \in {"ready", "feeding"} => \E p \in Nat : Framed(p)
  /\ phase = "ready" => Len(buffer) <= MaxLine /\ Ends(buffer) = {}
  /\ phase \in {"feeding", "raised"} => Len(buffer) <= MaxLine + MaxChunk
  /\ phase \in {"closed", "finished"} => buffer = <<>>
  /\ phase = "closed" => HasLongLine(sent)
  /\ phase = "finished" => ~HasLongLine(sent)
  /\ Marked

LEMMA LongLineFacts ==
  ASSUME ParserTypeOK
  PROVE  HasLongLine(sent) <=>
           \E i \in 1 .. Len(sent) : /\ i + MaxLine <= Len(sent)
                                     /\ \A j \in i .. i + MaxLine : sent[j] # LF
<1>. USE ParserAssumption
<1>1. sent \in Seq(Bytes) /\ Len(sent) \in Nat /\ MaxLine \in Nat
  BY DEF ParserTypeOK
<1>2. ASSUME NEW i \in 1 .. Len(sent), i + MaxLine <= Len(sent)
      PROVE  Ends(SubSeq(sent, i, i + MaxLine)) = {} <=> \A j \in i .. i + MaxLine : sent[j] # LF
  <2>. DEFINE w == SubSeq(sent, i, i + MaxLine)
  <2>1. /\ w \in Seq(Bytes) /\ Len(w) = MaxLine + 1
        /\ \A k \in 1 .. MaxLine + 1 : w[k] = sent[i + k - 1]
    BY <1>1, <1>2, SubSeqFacts
  <2>. HIDE DEF w
  <2>2. Ends(w) = {} <=> \A k \in 1 .. MaxLine + 1 : w[k] # LF
    BY <2>1 DEF Ends
  <2>3. (\A k \in 1 .. MaxLine + 1 : sent[i + k - 1] # LF)
          <=> \A j \in i .. i + MaxLine : sent[j] # LF
    <3>1. \A j \in i .. i + MaxLine : j - i + 1 \in 1 .. MaxLine + 1 /\ i + (j - i + 1) - 1 = j
      BY <1>1
    <3>2. \A k \in 1 .. MaxLine + 1 : i + k - 1 \in i .. i + MaxLine
      BY <1>1
    <3>. QED
      BY <3>1, <3>2
  <2>. QED
    BY <2>1, <2>2, <2>3 DEF w
<1>. QED
  BY <1>1, <1>2 DEF HasLongLine

LEMMA NoLongLine ==
  ASSUME ParserTypeOK, NEW p \in Nat, Framed(p), Len(buffer) <= MaxLine
  PROVE  ~HasLongLine(sent)
<1>. USE ParserAssumption
<1>1. Len(buffer) \in Nat /\ Len(sent) \in Nat /\ MaxLine \in Nat
  BY DEF ParserTypeOK
<1>2. ASSUME NEW i \in 1 .. Len(sent), i + MaxLine <= Len(sent)
      PROVE  \E j \in i .. i + MaxLine : sent[j] = LF
  <2>1. Len(sent) <= p + MaxLine
    BY <1>1 DEF Framed
  <2>2. i \in 1 .. p
    BY <2>1, <1>2, <1>1
  <2>3. PICK j \in i .. p : j <= i + MaxLine /\ sent[j] = LF
    BY <2>2 DEF Framed
  <2>. QED
    BY <2>3, <1>1
<1>. QED
  BY <1>2, LongLineFacts

LEMMA RestFacts ==
  ASSUME ParserTypeOK, Ends(buffer) # {}
  PROVE  /\ Rest \in Seq(Bytes) /\ Len(Rest) = Len(buffer) - FirstEnd(buffer)
         /\ \A i \in 1 .. Len(buffer) - FirstEnd(buffer) : Rest[i] = buffer[FirstEnd(buffer) + i]
<1>1. PICK e : e = FirstEnd(buffer)
  OBVIOUS
<1>2. buffer \in Seq(Bytes) /\ Len(buffer) \in Nat /\ e \in 1 .. Len(buffer)
  BY <1>1, FirstEndFacts DEF ParserTypeOK
<1>3. e + 1 \in Nat \ {0} /\ Len(buffer) \in 0 .. Len(buffer) /\ e + 1 <= Len(buffer) + 1
  BY <1>2
<1>4. /\ SubSeq(buffer, e + 1, Len(buffer)) \in Seq(Bytes)
      /\ Len(SubSeq(buffer, e + 1, Len(buffer))) = Len(buffer) - (e + 1) + 1
      /\ \A i \in 1 .. Len(buffer) - (e + 1) + 1 :
           SubSeq(buffer, e + 1, Len(buffer))[i] = buffer[(e + 1) + i - 1]
  BY <1>2, <1>3, SubSeqFacts
<1>5. Len(buffer) - (e + 1) + 1 = Len(buffer) - e /\ \A i \in Int : (e + 1) + i - 1 = e + i
  BY <1>2
<1>6. Rest = SubSeq(buffer, e + 1, Len(buffer))
  BY <1>1 DEF Rest
<1>7. /\ Rest \in Seq(Bytes) /\ Len(Rest) = Len(buffer) - e
      /\ \A i \in 1 .. Len(buffer) - e : Rest[i] = buffer[(e + 1) + i - 1]
  BY <1>4, <1>5, <1>6
<1>8. ASSUME NEW i \in 1 .. Len(buffer) - e PROVE Rest[i] = buffer[e + i]
  <2>1. (e + 1) + i - 1 = e + i
    BY <1>2
  <2>. QED
    BY <1>7, <2>1
<1>. QED
  BY <1>1, <1>7, <1>8

LEMMA ParserStep ==
  ParserTypeOK /\ ParserInv /\ [ParserNext]_parserVars => ParserTypeOK' /\ ParserInv'
<1> SUFFICES ASSUME ParserTypeOK, ParserInv, [ParserNext]_parserVars
             PROVE  ParserTypeOK' /\ ParserInv'
  OBVIOUS
<1>. USE ParserAssumption
<1>a. /\ buffer \in Seq(Bytes) /\ sent \in Seq(Bytes) /\ Len(buffer) \in Nat /\ Len(sent) \in Nat
      /\ MaxLine \in Nat /\ MaxLine > 0 /\ MaxChunk \in Nat
  BY DEF ParserTypeOK
<1>b. Marked /\ Marked' /\ before' \in [accepted : Nat, refused : Nat, sent : Nat]
  <2>1. Marked
    BY DEF ParserInv
  <2>2. Marked'
    BY <2>1, MarkedStep
  <2>. QED
    BY <2>1, <2>2 DEF Marked
<1>1. ASSUME NEW chunk \in Chunks, Feed(chunk) PROVE ParserTypeOK' /\ ParserInv'
  <2>1. PICK n \in 1 .. MaxChunk : chunk \in [1 .. n -> Alphabet]
    BY DEF Chunks
  <2>2. chunk \in Seq(Bytes) /\ Len(chunk) = n
    BY <2>1 DEF Bytes
  <2>3. /\ phase = "ready" /\ phase' = "feeding"
        /\ buffer' = buffer \o chunk /\ sent' = sent \o chunk
        /\ UNCHANGED <<device, accepted, refused>>
    BY <1>1 DEF Feed
  <2>4. /\ buffer' \in Seq(Bytes) /\ Len(buffer') = Len(buffer) + n
        /\ sent' \in Seq(Bytes) /\ Len(sent') = Len(sent) + n
        /\ \A i \in 1 .. Len(buffer) : buffer'[i] = buffer[i]
        /\ \A i \in 1 .. n : buffer'[Len(buffer) + i] = chunk[i]
        /\ \A i \in 1 .. Len(sent) : sent'[i] = sent[i]
        /\ \A i \in 1 .. n : sent'[Len(sent) + i] = chunk[i]
    BY <2>2, <2>3, <1>a
  <2>5. PICK p \in Nat : Framed(p)
    BY <2>3 DEF ParserInv
  <2>6. p \in 0 .. Len(sent') /\ Len(sent') = p + Len(buffer')
    BY <2>4, <2>5, <1>a DEF Framed
  <2>7. ASSUME NEW i \in 1 .. Len(buffer') PROVE sent'[p + i] = buffer'[i]
    <3>1. CASE i <= Len(buffer)
      BY <3>1, <2>4, <2>5, <1>a DEF Framed
    <3>2. CASE i > Len(buffer)
      <4>0. i \in Int
        BY DEF ParserTypeOK
      <4>1. PICK k : k = i - Len(buffer)
        OBVIOUS
      <4>2. k \in 1 .. n /\ Len(buffer) + k = i
        BY <4>0, <4>1, <3>2, <2>4, <1>a
      <4>3. Len(sent) = p + Len(buffer)
        BY <2>5 DEF Framed
      <4>4. Len(sent) + k = p + i
        BY <4>0, <4>1, <4>3, <1>a
      <4>5. buffer'[Len(buffer) + k] = chunk[k] /\ sent'[Len(sent) + k] = chunk[k]
        BY <4>2, <2>4
      <4>. QED
        BY <4>2, <4>4, <4>5
    <3>. QED
      BY <3>1, <3>2, <2>4, <1>a
  <2>8. ASSUME NEW i \in 1 .. p PROVE \E j \in i .. p : j <= i + MaxLine /\ sent'[j] = LF
    <3>1. PICK j \in i .. p : j <= i + MaxLine /\ sent[j] = LF
      BY <2>5 DEF Framed
    <3>2. j \in 1 .. Len(sent)
      BY <3>1, <2>5, <1>a DEF Framed
    <3>. QED
      BY <3>1, <3>2, <2>4
  <2>9. Framed(p)'
    BY <2>6, <2>7, <2>8 DEF Framed
  <2>10. Len(buffer') <= MaxLine + MaxChunk
    BY <2>1, <2>3, <2>4, <1>a DEF ParserInv
  <2>. QED
    BY <1>b, <2>3, <2>4, <2>9, <2>10 DEF ParserTypeOK, ParserInv
<1>2. CASE ParseLine
  <2>0. PICK e : e = FirstEnd(buffer)
    OBVIOUS
  <2>1. phase = "feeding" /\ phase' = phase /\ Ends(buffer) # {} /\ ~LineTooLong(NextLine)
        /\ buffer' = Rest /\ sent' = sent
    BY <1>2 DEF ParseLine
  <2>2. /\ e \in 1 .. Len(buffer) /\ buffer[e] = LF
    BY <2>0, <2>1, <1>a, FirstEndFacts
  <2>3. NextLine \in Seq(Bytes) /\ Len(NextLine) = e
    BY <2>0, <2>2, <1>a, SubSeqFacts DEF NextLine
  <2>4. /\ buffer' \in Seq(Bytes) /\ Len(buffer') = Len(buffer) - e
        /\ \A i \in 1 .. Len(buffer) - e : buffer'[i] = buffer[e + i]
    BY <2>0, <2>1, RestFacts
  <2>5. PICK p \in Nat : Framed(p)
    BY <2>1 DEF ParserInv
  <2>6. e <= MaxLine + 1
    BY <2>1, <2>2, <2>3, <1>a DEF LineTooLong
  <2>7. p + e \in 0 .. Len(sent) /\ Len(sent) = (p + e) + Len(buffer')
    BY <2>2, <2>4, <2>5, <1>a DEF Framed
  <2>8. ASSUME NEW i \in 1 .. Len(buffer') PROVE sent[(p + e) + i] = buffer'[i]
    <3>1. e + i \in 1 .. Len(buffer) /\ p + (e + i) = (p + e) + i
      BY <2>2, <2>4, <1>a
    <3>. QED
      BY <3>1, <2>4, <2>5 DEF Framed
  <2>9. ASSUME NEW i \in 1 .. p + e
        PROVE  \E j \in i .. p + e : j <= i + MaxLine /\ sent[j] = LF
    <3>1. CASE i <= p
      <4>0. i \in 1 .. p
        BY <3>1
      <4>1. PICK j \in i .. p : j <= i + MaxLine /\ sent[j] = LF
        BY <4>0, <2>5 DEF Framed
      <4>2. j \in i .. p + e
        BY <4>1, <2>2, <1>a
      <4>. QED
        BY <4>1, <4>2
    <3>2. CASE i > p
      <4>1. p + e \in i .. p + e /\ p + e <= i + MaxLine
        BY <3>2, <2>2, <2>6, <1>a
      <4>2. sent[p + e] = LF
        BY <2>2, <2>5 DEF Framed
      <4>. QED
        BY <4>1, <4>2
    <3>. QED
      BY <3>1, <3>2, <2>2
  <2>10. p + e \in Nat /\ Framed(p + e)'
    BY <2>1, <2>2, <2>7, <2>8, <2>9 DEF Framed
  <2>11. Len(buffer') <= MaxLine + MaxChunk
    BY <2>1, <2>2, <2>4, <1>a DEF ParserInv
  <2>12. ParserInv'
    BY <1>b, <2>1, <2>2, <2>10, <2>11 DEF ParserInv
  <2>13. device' \in Devices \cup {NoDevice} /\ accepted' \in Seq(Seq(Bytes))
         /\ refused' \in Seq([reason : Reasons, raw : Seq(Bytes)])
    <3>. DEFINE v == Verdict(NextLine, device)
    <3>. HIDE DEF v
    <3>1. CASE v = "accepted"
      <4>1. accepted' = Append(accepted, NextLine) /\ device' \in Devices /\ refused' = refused
        <5>1. "accepted" \notin Reasons
          BY DEF Reasons
        <5>. QED
          BY <1>2, <3>1, <5>1 DEF ParseLine, Named, v
      <4>. QED
        BY <4>1, <2>3 DEF ParserTypeOK
    <3>2. CASE v # "accepted"
      <4>1. v \in Reasons /\ refused' = Append(refused, Rejection(v, NextLine))
            /\ UNCHANGED <<accepted, device>>
        BY <1>2, <3>2 DEF ParseLine, v
      <4>2. Rejection(v, NextLine) \in [reason : Reasons, raw : Seq(Bytes)]
        BY <2>3, <4>1 DEF Rejection
      <4>. QED
        BY <4>1, <4>2 DEF ParserTypeOK
    <3>. QED
      BY <3>1, <3>2
  <2>. QED
    BY <1>a, <1>b, <2>1, <2>4, <2>12, <2>13 DEF ParserTypeOK
<1>3. CASE RejectLongLine
  <2>. DEFINE e == FirstEnd(buffer)
  <2>1. /\ phase = "feeding" /\ phase' = "closed" /\ Ends(buffer) # {} /\ LineTooLong(NextLine)
        /\ buffer' = <<>> /\ sent' = sent /\ device' = device /\ accepted' = accepted
        /\ refused' = Append(refused, Rejection("line_too_long", NextLine))
    BY <1>3 DEF RejectLongLine
  <2>2. /\ e \in 1 .. Len(buffer) /\ \A i \in 1 .. Len(buffer) : buffer[i] = LF => e <= i
    BY <2>1, <1>a, FirstEndFacts
  <2>3. NextLine \in Seq(Bytes) /\ Len(NextLine) = e
    BY <2>2, <1>a, SubSeqFacts DEF NextLine
  <2>. HIDE DEF e
  <2>4. PICK p \in Nat : Framed(p)
    BY <2>1 DEF ParserInv
  <2>5. e - 1 > MaxLine
    BY <2>1, <2>3 DEF LineTooLong
  <2>6. p + 1 \in 1 .. Len(sent) /\ (p + 1) + MaxLine <= Len(sent)
    BY <2>2, <2>4, <2>5, <1>a DEF Framed
  <2>7. ASSUME NEW j \in p + 1 .. (p + 1) + MaxLine PROVE sent[j] # LF
    <3>1. j - p \in 1 .. Len(buffer) /\ p + (j - p) = j /\ j - p < e
      BY <2>2, <2>5, <1>a
    <3>2. sent[j] = buffer[j - p]
      BY <3>1, <2>4 DEF Framed
    <3>. QED
      BY <3>1, <3>2, <2>2, <1>a
  <2>8. HasLongLine(sent)
    BY <2>6, <2>7, LongLineFacts
  <2>9. Rejection("line_too_long", NextLine) \in [reason : Reasons, raw : Seq(Bytes)]
    BY <2>3 DEF Rejection, Reasons
  <2>. QED
    BY <1>b, <2>1, <2>8, <2>9 DEF ParserTypeOK, ParserInv
<1>4. CASE KeepRemainder
  <2>1. UNCHANGED <<buffer, device, accepted, refused, sent>> /\ phase = "feeding"
        /\ phase' = "ready" /\ Ends(buffer) = {} /\ Len(buffer) <= MaxLine
    BY <1>4 DEF KeepRemainder
  <2>2. PICK p \in Nat : Framed(p)
    BY <2>1 DEF ParserInv
  <2>3. Framed(p)'
    BY <2>1, <2>2 DEF Framed
  <2>. QED
    BY <1>b, <2>1, <2>3 DEF ParserTypeOK, ParserInv
<1>5. CASE RejectLongRemainder
  <2>1. /\ phase = "feeding" /\ phase' = "closed" /\ Ends(buffer) = {} /\ Len(buffer) > MaxLine
        /\ buffer' = <<>> /\ sent' = sent /\ device' = device /\ accepted' = accepted
        /\ refused' = Append(refused, Rejection("line_too_long", buffer))
    BY <1>5 DEF RejectLongRemainder
  <2>2. PICK p \in Nat : Framed(p)
    BY <2>1 DEF ParserInv
  <2>3. p + 1 \in 1 .. Len(sent) /\ (p + 1) + MaxLine <= Len(sent)
    BY <2>1, <2>2, <1>a DEF Framed
  <2>4. ASSUME NEW j \in p + 1 .. (p + 1) + MaxLine PROVE sent[j] # LF
    <3>1. j - p \in 1 .. Len(buffer) /\ p + (j - p) = j
      BY <2>1, <1>a
    <3>2. sent[j] = buffer[j - p]
      BY <3>1, <2>2 DEF Framed
    <3>. QED
      BY <3>1, <3>2, <2>1, <1>a DEF Ends
  <2>5. HasLongLine(sent)
    BY <2>3, <2>4, LongLineFacts
  <2>6. Rejection("line_too_long", buffer) \in [reason : Reasons, raw : Seq(Bytes)]
    BY <1>a DEF Rejection, Reasons
  <2>. QED
    BY <1>b, <2>1, <2>5, <2>6 DEF ParserTypeOK, ParserInv
<1>6. CASE Finish
  <2>1. /\ phase = "ready" /\ phase' = "finished" /\ buffer' = <<>>
        /\ UNCHANGED <<device, accepted, sent>>
        /\ refused' = refused \/ refused' = Append(refused, Rejection("incomplete_line", buffer))
    BY <1>6 DEF Finish
  <2>2. PICK p \in Nat : Framed(p)
    BY <2>1 DEF ParserInv
  <2>4. ~HasLongLine(sent)
    BY <2>1, <2>2, NoLongLine DEF ParserInv
  <2>5. Rejection("incomplete_line", buffer) \in [reason : Reasons, raw : Seq(Bytes)]
    BY <1>a DEF Rejection, Reasons
  <2>6. refused' \in Seq([reason : Reasons, raw : Seq(Bytes)])
    <3>1. CASE refused' = refused
      BY <3>1 DEF ParserTypeOK
    <3>2. CASE refused' = Append(refused, Rejection("incomplete_line", buffer))
      BY <3>2, <2>5 DEF ParserTypeOK
    <3>. QED
      BY <2>1, <3>1, <3>2
  <2>. QED
    BY <1>b, <2>1, <2>4, <2>6 DEF ParserTypeOK, ParserInv
<1>7. CASE UNCHANGED parserVars
  <2>1. ASSUME NEW p \in Nat, Framed(p) PROVE Framed(p)'
    BY <1>7, <2>1 DEF parserVars, Framed
  <2>. QED
    BY <1>7, <1>b, <2>1 DEF parserVars, ParserTypeOK, ParserInv
<1>8. CASE LineRaises
  <2>1. /\ phase = "feeding" /\ phase' = "raised" /\ Ends(buffer) # {}
        /\ buffer' = Rest /\ sent' = sent /\ device' = device
    BY <1>8 DEF LineRaises
  <2>2. FirstEnd(buffer) \in 1 .. Len(buffer)
    BY <1>a, <2>1, FirstEndFacts
  <2>3. buffer' \in Seq(Bytes) /\ Len(buffer') = Len(buffer) - FirstEnd(buffer)
    BY <2>1, RestFacts
  <2>4. Len(buffer') <= MaxLine + MaxChunk
    BY <1>a, <2>1, <2>2, <2>3 DEF ParserInv
  <2>5. accepted' \in Seq(Seq(Bytes)) /\ refused' \in Seq(Refusals)
    BY <1>8, <1>b, Cut
  <2>. QED
    BY <1>b, <2>1, <2>3, <2>4, <2>5 DEF ParserTypeOK, ParserInv, Refusals
<1>. QED
  BY <1>1, <1>2, <1>3, <1>4, <1>5, <1>6, <1>7, <1>8 DEF ParserNext, FeedLoop

-----------------------------------------------------------------------------
(* The handler. Where it is tells what the parser has come to and how much   *)
(* of what the parser reported is stored.                                    *)
AtEnd  == pc \in {"finally", "done"}

Phases ==
  /\ pc = "recv" => phase = "ready" /\ ending = "none"
  /\ pc = "feed" => phase = "feeding"
  /\ pc \in {"append", "reject", "note"} =>
       \/ ending = "none" /\ phase = "ready"
       \/ ending = "line_too_long" /\ phase = "closed"
       \/ ending \in {"eof", "socket_timeout"} /\ phase = "finished"
  /\ ~AtEnd => reason = "handler_error"
  /\ AtEnd /\ reason = "line_too_long" => phase = "closed"
  /\ AtEnd /\ reason \in {"eof", "socket_timeout"} => phase = "finished"

Counts ==
  /\ before.accepted <= taken /\ taken <= Len(accepted)
  /\ before.refused <= noted /\ noted <= Len(refused)
  /\ pc \in {"recv", "reject", "note"} => taken = Len(accepted)
  /\ pc = "recv" => noted = Len(refused)
  /\ pc = "feed" => taken = before.accepted /\ noted = before.refused
  /\ pc = "note" => noted < Len(refused)
  /\ AtEnd /\ reason # "handler_error" => taken = Len(accepted) /\ noted = Len(refused)

Stored ==
  /\ Len(archive) = taken /\ \A i \in 1 .. taken : archive[i] = accepted[i]
  /\ noted <= Len(file) /\ \A i \in 1 .. noted : file[i] = refused[i].raw
  /\ pc = "note" => /\ Len(file) = noted + 1 /\ total = noted + 1
                    /\ file[noted + 1] = refused[noted + 1].raw
  /\ pc # "note" /\ ~Failed => Len(file) = noted
  /\ pc # "note" /\ ~AtEnd => total = noted

(* The recorder and its events: started, one for every rejection stored, and *)
(* at most one closed, with a reason that is true.                           *)
TrueEnd(why) ==
  \/ why = "line_too_long" /\ HasLongLine(sent)
  \/ why \in {"eof", "socket_timeout"} /\ phase = "finished" /\ ~HasLongLine(sent)
  \/ why = "handler_error" /\ Failed
  \/ why = "server_shutdown" /\ shutting

Recording ==
  /\ recorder = "none" => events = <<>> /\ noted = 0
  /\ recorder = "open" =>
       /\ Len(events) = noted + 1
       /\ noted >= 1 \/ (pc \in {"reject", "note"} /\ created /\ refused # <<>>)
  /\ recorder = "released" => AtEnd /\ Len(events) \in {noted + 1, noted + 2}
  /\ pc = "note" => recorder = "open"
  /\ recorded => noted >= 1
  /\ held /\ pc # "done" => recorder = "open" /\ noted >= 1
  /\ created /\ pc \in {"reject", "note"} => ~held

Told ==
  /\ recorder # "none" => events[1] = Started(0)
  /\ \A k \in 1 .. noted : events[k + 1] = Rejected(refused[k].reason, k)
  /\ Len(events) = noted + 2 => /\ noted >= 1 /\ events[noted + 2].event = "closed"
                                /\ TrueEnd(events[noted + 2].why)

(* What the handler has passed of the parser's reports stays as it was. *)
Passed ==
  /\ taken <= Len(accepted') /\ \A i \in 1 .. taken : accepted'[i] = accepted[i]
  /\ noted <= Len(refused') /\ \A i \in 1 .. noted : refused'[i] = refused[i]

IndInv == TypeOK /\ ParserInv /\ Phases /\ Counts /\ Stored /\ Recording /\ Told

(* Every step of the connection is a step of its parser or none. *)
LEMMA ParserMoves == [Next]_vars => [ParserNext]_parserVars
<1>1. \A chunk \in Chunks : Receive(chunk) => ParserNext
  BY DEF Receive, ParserNext
<1>2. \A how \in {"eof", "socket_timeout"} : ReceiveEnd(how) => ParserNext
  BY DEF ReceiveEnd, ParserNext
<1>3. ParseMore => ParserNext
  BY DEF ParseMore, ParserNext
<1>4. ReceiveFails \/ ShutRequest => UNCHANGED parserVars
  BY DEF ReceiveFails, ShutRequest
<1>5. StoreRecord \/ StoreFails \/ RecordsStored \/ OpenRecorder \/ OpenFails => UNCHANGED parserVars
  BY DEF StoreRecord, StoreFails, RecordsStored, OpenRecorder, OpenFails
<1>6. WriteRejected \/ NoteRejected \/ WriteFails \/ NoteFails => UNCHANGED parserVars
  BY DEF WriteRejected, NoteRejected, WriteFails, NoteFails
<1>7. ResultStored \/ HandlerReturns => UNCHANGED parserVars
  BY DEF ResultStored, HandlerReturns
<1>. QED
  BY <1>1, <1>2, <1>3, <1>4, <1>5, <1>6, <1>7 DEF Next, Handle, vars

Events == [event : {"started", "rejected", "closed"},
           why : Reasons \cup CloseReasons \cup {"none"}, total : Nat]

LEMMA SomeEvents ==
  ASSUME NEW n \in Nat
  PROVE  /\ Started(n) \in Events
         /\ \A why \in Reasons : Rejected(why, n) \in Events
         /\ \A why \in CloseReasons : Closed(why, n) \in Events
  BY DEF Events, Started, Rejected, Closed

LEMMA AppendFacts ==
  ASSUME NEW S, NEW s \in Seq(S), NEW x \in S
  PROVE  /\ Append(s, x) \in Seq(S) /\ Len(Append(s, x)) = Len(s) + 1
         /\ \A i \in 1 .. Len(s) : Append(s, x)[i] = s[i]
         /\ Append(s, x)[Len(s) + 1] = x
  OBVIOUS

LEMMA PassedStep ==
  ASSUME TypeOK, Marked, Counts, [Next]_vars
  PROVE  Passed
<1>0. /\ taken \in Nat /\ noted \in Nat /\ taken <= Len(accepted) /\ noted <= Len(refused)
      /\ Len(accepted) \in Nat /\ Len(refused) \in Nat /\ ParserTypeOK
  BY DEF TypeOK, ParserTypeOK, Counts
<1>1. [ParserNext]_parserVars
  BY ParserMoves
<1>2. CASE LineRaises
  <2>1. pc = "feed"
    <3>1. UNCHANGED parserVars => phase' = phase
      BY DEF parserVars
    <3>2. phase = "feeding" /\ phase' = "raised"
      BY <1>2 DEF LineRaises
    <3>3. /\ \A chunk \in Chunks : ~Receive(chunk)
          /\ \A how \in {"eof", "socket_timeout"} : ~ReceiveEnd(how)
      BY <3>2 DEF Receive, ReceiveEnd, Feed, Finish
    <3>4. ~(UNCHANGED parserVars)
      BY <3>1, <3>2
    <3>. QED
      BY <3>3, <3>4 DEF Next, Handle, vars, ReceiveFails, ShutRequest, ParseMore, StoreRecord,
         StoreFails, RecordsStored, OpenRecorder, OpenFails, WriteRejected, NoteRejected,
         WriteFails, NoteFails, ResultStored, HandlerReturns
  <2>2. taken = before.accepted /\ noted = before.refused
    BY <2>1 DEF Counts
  <2>. QED
    BY <1>0, <1>2, <2>2, Cut DEF Passed
<1>3. CASE ~LineRaises
  BY <1>0, <1>1, <1>3, ReportsGrow DEF Grown, Passed
<1>. QED
  BY <1>2, <1>3

LEMMA TypeStep ==
  ASSUME TypeOK, ParserTypeOK', [Next]_vars, Counts, Recording
  PROVE  TypeOK'
<1>. USE HandlerAssumption
<1>. DEFINE Control ==
       /\ pc \in {"recv", "feed", "append", "reject", "note", "finally", "done"}
       /\ ending \in Endings \cup {"none"}
       /\ reason \in Endings \cup {"handler_error"}
       /\ recorder \in {"none", "open", "released"}
       /\ {held, created, recorded, shutting} \subseteq BOOLEAN
     Numbers ==
       /\ taken \in Nat /\ noted \in Nat /\ total \in Nat
     Contents ==
       /\ archive \in Seq(Seq(Bytes)) /\ file \in Seq(Seq(Bytes))
       /\ events \in Seq(Events)
<1>0. /\ accepted \in Seq(Seq(Bytes)) /\ refused \in Seq(Refusals)
      /\ Len(accepted) \in Nat /\ Len(refused) \in Nat
  BY DEF TypeOK, ParserTypeOK, Refusals
<1>1. Control /\ Numbers /\ Contents
  BY DEF TypeOK, Events
<1>a. \A i \in 1 .. Len(refused) : refused[i] \in Refusals
  BY <1>0
<1>2. Control' /\ Numbers' /\ Contents'
  <2>1. CASE (\E chunk \in Chunks : Receive(chunk)) \/ ReceiveFails \/ ShutRequest
    <3>1. Control'
      BY <2>1, <1>1 DEF Receive, ReceiveFails, ShutRequest, handlerVars, recorderVars
    <3>2. Numbers' /\ Contents'
      BY <2>1, <1>0, <1>1 DEF Receive, ReceiveFails, ShutRequest, handlerVars, recorderVars
    <3>. QED
      BY <3>1, <3>2
  <2>2. CASE \E how \in {"eof", "socket_timeout"} : ReceiveEnd(how)
    <3>1. Control'
      BY <2>2, <1>1 DEF ReceiveEnd, recorderVars, Endings
    <3>2. Numbers' /\ Contents'
      BY <2>2, <1>0, <1>1 DEF ReceiveEnd, recorderVars
    <3>. QED
      BY <3>1, <3>2
  <2>3. CASE ParseMore
    BY <2>3, <1>1 DEF ParseMore, recorderVars, Endings
  <2>4. CASE StoreRecord
    <3>1. taken + 1 \in 1 .. Len(accepted)
      BY <2>4, <1>0, <1>1 DEF StoreRecord, Counts
    <3>2. accepted[taken + 1] \in Seq(Bytes)
      BY <3>1, <1>0
    <3>3. archive' \in Seq(Seq(Bytes))
      BY <2>4, <3>2, <1>1, AppendFacts DEF StoreRecord
    <3>. QED
      BY <2>4, <3>3, <1>1 DEF StoreRecord, recorderVars
  <2>5. CASE StoreFails \/ RecordsStored \/ OpenFails
    BY <2>5, <1>1 DEF StoreFails, RecordsStored, OpenFails, recorderVars
  <2>6. CASE OpenRecorder
    <3>1. events' \in Seq(Events)
      BY <2>6, <1>1, SomeEvents, AppendFacts DEF OpenRecorder
    <3>. QED
      BY <2>6, <3>1, <1>1 DEF OpenRecorder
  <2>7. CASE WriteRejected
    <3>1. noted + 1 \in 1 .. Len(refused)
      BY <2>7, <1>0, <1>1 DEF WriteRejected, Counts
    <3>2. refused[noted + 1].raw \in Seq(Bytes)
      BY <3>1, <1>a DEF Refusals
    <3>3. file' \in Seq(Seq(Bytes))
      BY <2>7, <3>2, <1>1, AppendFacts DEF WriteRejected
    <3>. QED
      BY <2>7, <3>3, <1>1 DEF WriteRejected
  <2>8. CASE NoteRejected
    <3>1. noted + 1 \in 1 .. Len(refused)
      BY <2>8, <1>0, <1>1 DEF NoteRejected, Counts
    <3>2. refused[noted + 1].reason \in Reasons
      BY <3>1, <1>a DEF Refusals
    <3>3. events' \in Seq(Events)
      <4>1. Rejected(refused[noted + 1].reason, total) \in Events
        BY <3>2, <1>1, SomeEvents
      <4>. QED
        BY <2>8, <4>1, <1>1, AppendFacts DEF NoteRejected
    <3>. QED
      BY <2>8, <3>3, <1>1 DEF NoteRejected
  <2>9. ASSUME Release PROVE events' \in Seq(Events)
    <3>1. Closed("handler_error", total) \in Events
      BY <1>1, SomeEvents DEF CloseReasons
    <3>2. Append(events, Closed("handler_error", total)) \in Seq(Events)
      BY <3>1, <1>1, AppendFacts
    <3>. QED
      BY <2>9, <3>2, <1>1 DEF Release
  <2>10. CASE WriteFails
    <3>1. noted + 1 \in 1 .. Len(refused)
      BY <2>10, <1>0, <1>1 DEF WriteFails, Counts
    <3>2. refused[noted + 1].raw \in Seq(Bytes)
      BY <3>1, <1>a DEF Refusals
    <3>3. PICK n \in 0 .. Len(refused[noted + 1].raw) :
            file' = IF n = 0 THEN file ELSE Append(file, SubSeq(refused[noted + 1].raw, 1, n))
      BY <2>10 DEF WriteFails
    <3>4. SubSeq(refused[noted + 1].raw, 1, n) \in Seq(Bytes)
      BY <3>2, <3>3, SubSeqFacts
    <3>5. file' \in Seq(Seq(Bytes))
      BY <3>3, <3>4, <1>1, AppendFacts
    <3>6. events' \in Seq(Events)
      BY <2>9, <2>10 DEF WriteFails
    <3>. QED
      BY <2>10, <3>5, <3>6, <1>1 DEF WriteFails, Release
  <2>11. CASE NoteFails
    BY <2>9, <2>11, <1>1 DEF NoteFails, Release
  <2>12. CASE ResultStored
    BY <2>12, <1>1 DEF ResultStored, recorderVars
  <2>13. CASE HandlerReturns
    <3>1. CloseReason \in CloseReasons
      BY <1>1 DEF CloseReason, CloseReasons
    <3>2. Closed(CloseReason, total) \in Events
      BY <3>1, <1>1, SomeEvents
    <3>3. Append(events, Closed(CloseReason, total)) \in Seq(Events)
      BY <3>2, <1>1, AppendFacts
    <3>4. events' \in Seq(Events)
      BY <2>13, <3>3, <1>1 DEF HandlerReturns
    <3>. QED
      BY <2>13, <3>4, <1>1 DEF HandlerReturns
  <2>14. CASE UNCHANGED vars
    BY <2>14, <1>1 DEF vars, handlerVars, recorderVars
  <2>. QED
    BY <2>1, <2>2, <2>3, <2>4, <2>5, <2>6, <2>7, <2>8, <2>10, <2>11, <2>12, <2>13, <2>14
       DEF Next, Handle
<1>. QED
  BY <1>2 DEF TypeOK, Events

LEMMA PhasesStep ==
  ASSUME TypeOK, Phases, [Next]_vars
  PROVE  Phases'
<1>0. /\ pc \in {"recv", "feed", "append", "reject", "note", "finally", "done"}
      /\ ending \in Endings \cup {"none"} /\ reason \in Endings \cup {"handler_error"}
  BY DEF TypeOK
<1>. USE DEF Phases, AtEnd, Endings
<1>1. CASE \E chunk \in Chunks : Receive(chunk)
  BY <1>1, <1>0 DEF Receive, Feed
<1>2. CASE \E how \in {"eof", "socket_timeout"} : ReceiveEnd(how)
  BY <1>2, <1>0 DEF ReceiveEnd, Finish
<1>3. CASE ParseMore
  <2>1. phase' \in {"feeding", "closed", "ready", "raised"}
    BY <1>3 DEF ParseMore, FeedLoop, ParseLine, LineRaises, RejectLongLine, KeepRemainder,
                RejectLongRemainder, Phases
  <2>. QED
    BY <1>3, <1>0, <2>1 DEF ParseMore
<1>4. CASE ReceiveFails \/ StoreFails \/ OpenFails
  BY <1>4, <1>0 DEF ReceiveFails, StoreFails, OpenFails, parserVars
<1>5. CASE ShutRequest
  BY <1>5, <1>0 DEF ShutRequest, parserVars, handlerVars
<1>6. CASE StoreRecord \/ RecordsStored \/ OpenRecorder
  BY <1>6, <1>0 DEF StoreRecord, RecordsStored, OpenRecorder, parserVars
<1>7. CASE WriteRejected \/ NoteRejected
  BY <1>7, <1>0 DEF WriteRejected, NoteRejected, parserVars
<1>8. CASE WriteFails \/ NoteFails
  BY <1>8, <1>0 DEF WriteFails, NoteFails, Release, parserVars
<1>9. CASE ResultStored
  BY <1>9, <1>0 DEF ResultStored, parserVars
<1>10. CASE HandlerReturns
  BY <1>10, <1>0 DEF HandlerReturns, parserVars
<1>11. CASE UNCHANGED vars
  BY <1>11 DEF vars, parserVars, handlerVars
<1>. QED
  BY <1>1, <1>2, <1>3, <1>4, <1>5, <1>6, <1>7, <1>8, <1>9, <1>10, <1>11 DEF Next, Handle

LEMMA CountsStep ==
  ASSUME TypeOK, Phases, Counts, Passed, [Next]_vars
  PROVE  Counts'
<1>0. /\ taken \in Nat /\ noted \in Nat /\ before.accepted \in Nat /\ before.refused \in Nat
      /\ Len(accepted) \in Nat /\ Len(refused) \in Nat
  BY DEF TypeOK, ParserTypeOK
<1>a. taken <= Len(accepted') /\ noted <= Len(refused')
  BY DEF Passed
<1>b. ~AtEnd => reason = "handler_error"
  BY DEF Phases
<1>. USE DEF Counts, AtEnd
<1>1. CASE (\E chunk \in Chunks : Receive(chunk))
           \/ \E how \in {"eof", "socket_timeout"} : ReceiveEnd(how)
  <2>1. pc = "recv" /\ pc' \in {"feed", "append"} /\ Mark /\ UNCHANGED <<taken, noted>>
    BY <1>1 DEF Receive, ReceiveEnd, Feed, Finish
  <2>. QED
    BY <2>1, <1>0, <1>a DEF Mark
<1>2. CASE ParseMore
  <2>1. /\ pc = "feed" /\ UNCHANGED <<taken, noted, reason, before>>
        /\ pc' \in {"feed", "append", "finally"}
    BY <1>2 DEF ParseMore, FeedLoop, ParseLine, LineRaises, RejectLongLine, KeepRemainder,
                RejectLongRemainder
  <2>. QED
    BY <2>1, <1>0, <1>a, <1>b
<1>3. CASE ReceiveFails \/ StoreFails \/ OpenFails
  BY <1>3, <1>b DEF ReceiveFails, StoreFails, OpenFails, parserVars
<1>4. CASE ShutRequest
  BY <1>4 DEF ShutRequest, parserVars, handlerVars
<1>5. CASE StoreRecord \/ RecordsStored \/ OpenRecorder
  <2>1. CASE StoreRecord
    BY <2>1, <1>0 DEF StoreRecord, parserVars
  <2>2. CASE RecordsStored
    BY <2>2, <1>0 DEF RecordsStored, parserVars
  <2>3. CASE OpenRecorder
    BY <2>3, <1>0 DEF OpenRecorder, parserVars
  <2>. QED
    BY <1>5, <2>1, <2>2, <2>3
<1>6. CASE WriteRejected \/ NoteRejected
  <2>1. CASE WriteRejected
    BY <2>1, <1>0 DEF WriteRejected, parserVars
  <2>2. CASE NoteRejected
    BY <2>2, <1>0 DEF NoteRejected, parserVars
  <2>. QED
    BY <1>6, <2>1, <2>2
<1>7. CASE WriteFails \/ NoteFails
  BY <1>7, <1>b DEF WriteFails, NoteFails, Release, parserVars
<1>8. CASE ResultStored
  BY <1>8, <1>0, <1>b DEF ResultStored, parserVars
<1>9. CASE HandlerReturns
  BY <1>9 DEF HandlerReturns, parserVars
<1>10. CASE UNCHANGED vars
  BY <1>10 DEF vars, parserVars, handlerVars
<1>. QED
  BY <1>1, <1>2, <1>3, <1>4, <1>5, <1>6, <1>7, <1>8, <1>9, <1>10 DEF Next, Handle

LEMMA StoredStep ==
  ASSUME TypeOK, Phases, Counts, Stored, Passed, [Next]_vars
  PROVE  Stored'
<1>0. /\ taken \in Nat /\ noted \in Nat /\ total \in Nat /\ Len(file) \in Nat
      /\ Len(accepted) \in Nat /\ Len(refused) \in Nat
      /\ taken <= Len(accepted) /\ noted <= Len(refused)
      /\ archive \in Seq(Seq(Bytes)) /\ file \in Seq(Seq(Bytes))
  BY DEF TypeOK, ParserTypeOK, Counts
<1>a. ~AtEnd => ~Failed
  BY DEF AtEnd, Failed
<1>b. ~AtEnd => reason = "handler_error"
  BY DEF Phases
(* What is stored does not change, and the parser may report more. *)
<1>c. ASSUME UNCHANGED <<archive, file, taken, noted>>
      PROVE  /\ Len(archive') = taken' /\ \A i \in 1 .. taken' : archive'[i] = accepted'[i]
             /\ noted' <= Len(file') /\ \A i \in 1 .. noted' : file'[i] = refused'[i].raw
  <2>1. (\A i \in 1 .. taken : accepted'[i] = accepted[i])
        /\ \A i \in 1 .. noted : refused'[i] = refused[i]
    BY DEF Passed
  <2>2. Len(archive') = taken' /\ noted' <= Len(file')
    BY <1>c DEF Stored
  <2>3. \A i \in 1 .. taken' : archive'[i] = accepted'[i]
    BY <1>c, <2>1 DEF Stored
  <2>4. \A i \in 1 .. noted' : file'[i] = refused'[i].raw
    BY <1>c, <2>1 DEF Stored
  <2>. QED
    BY <2>2, <2>3, <2>4
<1>1. CASE \/ (\E chunk \in Chunks : Receive(chunk)) \/ ReceiveFails \/ ParseMore
           \/ (\E how \in {"eof", "socket_timeout"} : ReceiveEnd(how))
           \/ StoreFails \/ RecordsStored \/ OpenRecorder \/ OpenFails
  <2>1. /\ UNCHANGED <<archive, file, taken, noted, total>>
        /\ pc \notin {"note", "finally", "done"} /\ pc' # "note"
    <3>1. CASE \/ (\E chunk \in Chunks : Receive(chunk)) \/ ReceiveFails \/ ParseMore
               \/ (\E how \in {"eof", "socket_timeout"} : ReceiveEnd(how))
      BY <3>1 DEF Receive, ReceiveFails, ParseMore, ReceiveEnd, recorderVars
    <3>2. CASE StoreFails \/ RecordsStored \/ OpenRecorder \/ OpenFails
      BY <3>2 DEF StoreFails, RecordsStored, OpenRecorder, OpenFails, recorderVars
    <3>. QED
      BY <1>1, <3>1, <3>2
  <2>2. Len(file) = noted /\ total = noted
    BY <2>1, <1>a DEF Stored, AtEnd
  <2>. QED
    BY <2>1, <2>2, <1>c DEF Stored
<1>2. CASE ShutRequest \/ UNCHANGED vars
  <2>1. UNCHANGED <<archive, file, taken, noted, total, pc, reason, refused>>
    BY <1>2 DEF ShutRequest, vars, parserVars, handlerVars, recorderVars
  <2>. QED
    BY <2>1, <1>c DEF Stored, AtEnd, Failed
<1>3. CASE StoreRecord
  <2>1. /\ taken < Len(accepted) /\ taken' = taken + 1
        /\ archive' = Append(archive, accepted[taken + 1])
        /\ UNCHANGED <<file, noted, total, pc, reason, accepted, refused>>
    BY <1>3 DEF StoreRecord, parserVars, recorderVars
  <2>2. taken + 1 \in 1 .. Len(accepted)
    BY <2>1, <1>0
  <2>3. accepted[taken + 1] \in Seq(Bytes)
    BY <2>2 DEF TypeOK, ParserTypeOK
  <2>4. /\ Len(archive') = taken + 1 /\ archive'[taken + 1] = accepted[taken + 1]
        /\ \A i \in 1 .. taken : archive'[i] = archive[i]
    BY <2>1, <2>3, <1>0, AppendFacts DEF Stored
  <2>5. \A i \in 1 .. taken + 1 : i \in 1 .. taken \/ i = taken + 1
    BY <1>0
  <2>6. \A i \in 1 .. taken' : archive'[i] = accepted'[i]
    BY <2>1, <2>4, <2>5 DEF Stored
  <2>. QED
    BY <2>1, <2>4, <2>6 DEF Stored, AtEnd, Failed
<1>4. CASE WriteRejected
  <2>1. /\ pc = "reject" /\ noted < Len(refused) /\ pc' = "note"
        /\ file' = Append(file, refused[noted + 1].raw) /\ total' = total + 1
        /\ UNCHANGED <<archive, taken, noted, accepted, refused>>
    BY <1>4 DEF WriteRejected, parserVars
  <2>2. noted + 1 \in 1 .. Len(refused) /\ Len(file) = noted /\ total = noted
    BY <2>1, <1>0 DEF Stored, AtEnd, Failed
  <2>3. refused[noted + 1].raw \in Seq(Bytes)
    <3>1. refused \in Seq(Refusals)
      BY DEF TypeOK, ParserTypeOK, Refusals
    <3>2. refused[noted + 1] \in Refusals
      BY <2>2, <3>1
    <3>. QED
      BY <3>2 DEF Refusals
  <2>4. /\ Len(file') = noted + 1 /\ file'[noted + 1] = refused[noted + 1].raw
        /\ \A i \in 1 .. noted : file'[i] = file[i]
    BY <2>1, <2>2, <2>3, <1>0, AppendFacts
  <2>5. \A i \in 1 .. noted' : file'[i] = refused'[i].raw
    BY <2>1, <2>4 DEF Stored
  <2>6. Len(archive') = taken' /\ \A i \in 1 .. taken' : archive'[i] = accepted'[i]
    BY <2>1 DEF Stored
  <2>7. /\ pc' = "note" /\ noted' <= Len(file') /\ Len(file') = noted' + 1
        /\ total' = noted' + 1 /\ file'[noted' + 1] = refused'[noted' + 1].raw
    BY <2>1, <2>2, <2>4, <1>0
  <2>. QED
    BY <2>5, <2>6, <2>7 DEF Stored, AtEnd
<1>5. CASE NoteRejected
  <2>1. /\ pc = "note" /\ noted' = noted + 1 /\ pc' = "reject"
        /\ UNCHANGED <<archive, taken, file, total, accepted, refused>>
    BY <1>5 DEF NoteRejected, parserVars
  <2>2. \A i \in 1 .. noted + 1 : i \in 1 .. noted \/ i = noted + 1
    BY <1>0
  <2>3. /\ Len(file) = noted + 1 /\ total = noted + 1
        /\ file[noted + 1] = refused[noted + 1].raw
    BY <2>1 DEF Stored
  <2>4. \A i \in 1 .. noted' : file'[i] = refused'[i].raw
    BY <2>1, <2>2, <2>3 DEF Stored
  <2>5. Len(archive') = taken' /\ \A i \in 1 .. taken' : archive'[i] = accepted'[i]
    BY <2>1 DEF Stored
  <2>6. pc' = "reject" /\ Len(file') = noted' /\ noted' <= Len(file') /\ total' = noted'
    BY <2>1, <2>3, <1>0
  <2>. QED
    BY <2>4, <2>5, <2>6 DEF Stored
<1>6. CASE WriteFails
  <2>1. /\ pc = "reject" /\ noted < Len(refused) /\ pc' = "finally"
        /\ UNCHANGED <<archive, taken, noted, accepted, refused, reason>>
    BY <1>6 DEF WriteFails, Release, parserVars
  <2>2. noted <= Len(file) /\ \A i \in 1 .. noted : i \in 1 .. Len(file)
    BY <1>0 DEF Stored
  <2>3. noted <= Len(file') /\ \A i \in 1 .. noted : file'[i] = file[i]
    <3>1. CASE file' = file
      BY <2>2, <3>1
    <3>2. ASSUME NEW x, file' = Append(file, x)
          PROVE  Len(file') = Len(file) + 1 /\ \A i \in 1 .. Len(file) : file'[i] = file[i]
      BY <3>2, <1>0
    <3>3. file' = file \/ \E x : file' = Append(file, x)
      BY <1>6 DEF WriteFails
    <3>. QED
      BY <2>2, <3>1, <3>2, <3>3, <1>0
  <2>4. Failed'
    BY <2>1, <1>b DEF AtEnd, Failed
  <2>. QED
    BY <2>1, <2>3, <2>4 DEF Stored, AtEnd
<1>7. CASE NoteFails
  <2>1. pc = "note" /\ pc' = "finally" /\ UNCHANGED <<archive, taken, file, noted, reason>>
    BY <1>7 DEF NoteFails, Release
  <2>2. Failed'
    BY <2>1, <1>b DEF AtEnd, Failed
  <2>. QED
    BY <2>1, <2>2, <1>c DEF Stored, AtEnd
<1>8. CASE ResultStored
  <2>1. pc = "reject" /\ pc' \in {"recv", "finally"}
        /\ UNCHANGED <<archive, taken, file, noted, total>>
    BY <1>8 DEF ResultStored, recorderVars
  <2>2. Len(file) = noted /\ total = noted
    BY <2>1 DEF Stored, AtEnd, Failed
  <2>. QED
    BY <2>1, <2>2, <1>c DEF Stored
<1>9. CASE HandlerReturns
  <2>1. pc = "finally" /\ pc' = "done" /\ UNCHANGED <<archive, taken, file, noted, reason>>
    BY <1>9 DEF HandlerReturns
  <2>. QED
    BY <2>1, <1>c DEF Stored, AtEnd, Failed
<1>. QED
  BY <1>1, <1>2, <1>3, <1>4, <1>5, <1>6, <1>7, <1>8, <1>9 DEF Next, Handle

LEMMA RecordingStep ==
  ASSUME TypeOK, Phases, Counts, Recording, [Next]_vars
  PROVE  Recording'
<1>0. /\ noted \in Nat /\ Len(refused) \in Nat /\ Len(events) \in Nat /\ noted <= Len(refused)
      /\ recorder \in {"none", "open", "released"}
  BY DEF TypeOK, ParserTypeOK, Counts
<1>b. \A e : /\ Len(Append(events, e)) = Len(events) + 1
             /\ events = <<>> => Len(Append(events, e)) = 1
  BY DEF TypeOK
<1>. USE DEF Recording, AtEnd
<1>1. CASE \/ (\E chunk \in Chunks : Receive(chunk)) \/ ReceiveFails \/ ParseMore
           \/ \E how \in {"eof", "socket_timeout"} : ReceiveEnd(how)
  <2>1. /\ pc \in {"recv", "feed"} /\ pc' \notin {"note", "reject", "done"}
        /\ UNCHANGED <<recorder, events, noted, held, created, recorded>>
    BY <1>1 DEF Receive, ReceiveFails, ParseMore, ReceiveEnd, recorderVars
  <2>. QED
    BY <2>1
<1>2. CASE ShutRequest \/ UNCHANGED vars
  <2>1. UNCHANGED <<pc, recorder, events, noted, held, created, recorded, refused>>
    BY <1>2 DEF ShutRequest, vars, parserVars, handlerVars, recorderVars
  <2>. QED
    BY <2>1
<1>3. CASE StoreRecord \/ StoreFails \/ OpenFails
  <2>1. /\ pc = "append" \/ (pc = "reject" /\ recorder = "none")
        /\ pc' = "finally" \/ (pc' = pc /\ pc = "append")
        /\ UNCHANGED <<recorder, events, noted, held, created, recorded, refused>>
    BY <1>3 DEF StoreRecord, StoreFails, OpenFails, parserVars, recorderVars
  <2>. QED
    BY <2>1
<1>4. CASE RecordsStored
  BY <1>4 DEF RecordsStored, parserVars, recorderVars
<1>5. CASE OpenRecorder
  <2>1. /\ pc = "reject" /\ pc' = pc /\ recorder = "none" /\ recorder' = "open"
        /\ events' = Append(events, Started(0)) /\ noted < Len(refused)
        /\ created' = TRUE /\ UNCHANGED <<refused, noted, held, recorded>>
    BY <1>5 DEF OpenRecorder, parserVars
  <2>2. refused # <<>>
    BY <2>1, <1>0
  <2>3. Len(events') = noted + 1
    BY <2>1, <1>b
  <2>. QED
    BY <2>1, <2>2, <2>3
<1>6. CASE WriteRejected
  <2>1. /\ pc = "reject" /\ pc' = "note" /\ recorder = "open"
        /\ UNCHANGED <<recorder, events, noted, held, created, recorded, refused>>
    BY <1>6 DEF WriteRejected, parserVars
  <2>. QED
    BY <2>1
<1>7. CASE NoteRejected
  <2>1. /\ pc = "note" /\ pc' = "reject" /\ noted' = noted + 1
        /\ \E e : events' = Append(events, e)
        /\ UNCHANGED <<recorder, held, created, refused>>
    BY <1>7 DEF NoteRejected, parserVars
  <2>2. recorder = "open" /\ Len(events') = noted' + 1
    BY <2>1, <1>b, <1>0
  <2>. QED
    BY <2>1, <2>2, <1>0
<1>8. CASE WriteFails \/ NoteFails
  <2>1. /\ pc \in {"reject", "note"} /\ recorder = "open" /\ Release
        /\ UNCHANGED <<refused, noted, held, created, recorded>>
    BY <1>8 DEF WriteFails, NoteFails, parserVars
  <2>2. pc' = "finally" /\ recorder' = IF created THEN "released" ELSE recorder
    BY <2>1 DEF Release
  <2>3. Len(events) = noted + 1 /\ (~created => noted >= 1)
    BY <2>1
  <2>4. Len(events') \in {noted + 1, noted + 2} /\ (~created => events' = events)
    BY <2>1, <2>3, <1>b, <1>0 DEF Release
  <2>5. CASE created
    BY <2>1, <2>2, <2>3, <2>4, <2>5
  <2>6. CASE ~created
    BY <2>1, <2>2, <2>3, <2>4, <2>6
  <2>. QED
    BY <2>5, <2>6
<1>9. CASE ResultStored
  <2>1. /\ pc = "reject" /\ pc' \in {"recv", "finally"} /\ held' = (recorder = "open")
        /\ noted = Len(refused)
        /\ UNCHANGED <<recorder, events, noted, created, recorded, refused>>
    BY <1>9 DEF ResultStored, parserVars, recorderVars
  <2>2. recorder = "open" => noted >= 1
    <3>1. refused # <<>> => Len(refused) > 0
      BY DEF TypeOK, ParserTypeOK
    <3>. QED
      BY <2>1, <3>1, <1>0
  <2>. QED
    BY <2>1, <2>2
<1>10. CASE HandlerReturns
  <2>1. /\ pc = "finally" /\ pc' = "done" /\ recorder' = IF held THEN "released" ELSE recorder
        /\ events' = events \/ (held /\ \E e : events' = Append(events, e))
        /\ UNCHANGED <<noted, held, created, recorded, refused>>
    BY <1>10 DEF HandlerReturns, parserVars
  <2>2. CASE held
    <3>1. Len(events) = noted + 1 /\ recorder' = "released"
      BY <2>1, <2>2
    <3>2. Len(events') \in {noted + 1, noted + 2}
      BY <2>1, <3>1, <1>b, <1>0
    <3>. QED
      BY <2>1, <3>1, <3>2
  <2>3. CASE ~held
    BY <2>1, <2>3
  <2>. QED
    BY <2>2, <2>3
<1>. QED
  BY <1>1, <1>2, <1>3, <1>4, <1>5, <1>6, <1>7, <1>8, <1>9, <1>10 DEF Next, Handle

(* What the events say stays said, and one more is true when it is written. *)
LEMMA ToldStep ==
  ASSUME TypeOK, ParserInv, Phases, Counts, Stored, Recording, Told,
         Passed, [Next]_vars
  PROVE  Told'
<1>0. /\ noted \in Nat /\ Len(refused) \in Nat /\ noted <= Len(refused)
      /\ events \in Seq(Events) /\ Len(events) \in Nat
      /\ recorder \in {"none", "open", "released"}
  BY DEF TypeOK, ParserTypeOK, Counts, Events
<1>a. \A i \in 1 .. noted : refused'[i] = refused[i]
  BY DEF Passed
<1>b. Len(events) = noted + 2 => AtEnd
  BY <1>0 DEF Recording, TypeOK
(* A step that writes no event. *)
<1>c. ASSUME UNCHANGED <<events, noted>>, recorder' = "none" => recorder = "none",
             recorder = "none" => recorder' = "none",
             AtEnd => UNCHANGED <<sent, phase, reason>> /\ AtEnd' /\ (shutting => shutting')
      PROVE  Told'
  <2>1. recorder' # "none" => events'[1] = Started(0)
    BY <1>c DEF Told
  <2>2. \A k \in 1 .. noted' : events'[k + 1] = Rejected(refused'[k].reason, k)
    BY <1>a, <1>c DEF Told
  <2>3. ASSUME Len(events') = noted' + 2
        PROVE  /\ noted' >= 1 /\ events'[noted' + 2].event = "closed"
               /\ TrueEnd(events[noted + 2].why)'
    <3>1. AtEnd /\ noted >= 1 /\ events[noted + 2].event = "closed"
      BY <2>3, <1>b, <1>c DEF Told
    <3>2. TrueEnd(events[noted + 2].why)
      BY <2>3, <1>c DEF Told
    <3>3. UNCHANGED <<sent, phase, reason>> /\ AtEnd' /\ (shutting => shutting')
      BY <3>1, <1>c
    <3>4. HasLongLine(sent)' <=> HasLongLine(sent)
      BY <3>3 DEF HasLongLine
    <3>5. PICK why : why = events[noted + 2].why
      OBVIOUS
    <3>6. \A w \in {why} : TrueEnd(w) => TrueEnd(w)'
      BY <3>1, <3>3, <3>4 DEF TrueEnd, Failed, AtEnd
    <3>7. TrueEnd(why)'
      BY <3>2, <3>5, <3>6
    <3>8. events'[noted' + 2].why = why
      BY <3>5, <1>c
    <3>9. TrueEnd(events[noted + 2].why)'
      BY <3>7, <3>8 DEF TrueEnd
    <3>. QED
      BY <3>1, <3>9, <1>c
  <2>. QED
    BY <2>1, <2>2, <2>3 DEF Told
<1>1. CASE \/ (\E chunk \in Chunks : Receive(chunk)) \/ ReceiveFails \/ ParseMore
           \/ (\E how \in {"eof", "socket_timeout"} : ReceiveEnd(how))
           \/ StoreRecord \/ StoreFails \/ RecordsStored \/ OpenFails
  <2>1. ~AtEnd /\ UNCHANGED <<events, noted, recorder>>
    <3>1. CASE \/ (\E chunk \in Chunks : Receive(chunk)) \/ ReceiveFails \/ ParseMore
               \/ (\E how \in {"eof", "socket_timeout"} : ReceiveEnd(how))
      BY <3>1 DEF Receive, ReceiveFails, ParseMore, ReceiveEnd, recorderVars, AtEnd
    <3>2. CASE StoreRecord \/ StoreFails \/ RecordsStored \/ OpenFails
      BY <3>2 DEF StoreRecord, StoreFails, RecordsStored, OpenFails, recorderVars, AtEnd
    <3>. QED
      BY <1>1, <3>1, <3>2
  <2>. QED
    BY <2>1, <1>c
<1>2. CASE ShutRequest \/ UNCHANGED vars
  <2>1. /\ UNCHANGED <<events, noted, recorder, sent, phase, reason, pc>>
        /\ shutting => shutting'
    BY <1>2 DEF ShutRequest, vars, parserVars, handlerVars, recorderVars
  <2>2. AtEnd => AtEnd'
    BY <2>1 DEF AtEnd
  <2>. QED
    BY <2>1, <2>2, <1>c
<1>3. CASE WriteRejected \/ ResultStored
  <2>1. ~AtEnd /\ UNCHANGED <<events, noted, recorder>>
    BY <1>3 DEF WriteRejected, ResultStored, recorderVars, AtEnd
  <2>. QED
    BY <2>1, <1>c
<1>4. CASE OpenRecorder
  <2>1. /\ recorder = "none" /\ events' = Append(events, Started(0)) /\ noted' = noted
    BY <1>4 DEF OpenRecorder
  <2>2. events = <<>> /\ noted = 0
    BY <2>1 DEF Recording
  <2>3. events' = <<Started(0)>>
    BY <2>1, <2>2
  <2>. QED
    BY <2>1, <2>2, <2>3 DEF Told
<1>5. CASE NoteRejected
  <2>1. /\ pc = "note" /\ noted' = noted + 1 /\ refused' = refused
        /\ events' = Append(events, Rejected(refused[noted + 1].reason, total))
    BY <1>5 DEF NoteRejected, parserVars
  <2>2. total = noted + 1 /\ recorder = "open" /\ Len(events) = noted + 1
    BY <2>1 DEF Stored, Recording
  <2>3. /\ Len(events') = noted + 2 /\ events'[noted + 2] = Rejected(refused[noted + 1].reason, noted + 1)
        /\ \A k \in 1 .. noted + 1 : events'[k] = events[k]
    BY <2>1, <2>2, <1>0
  <2>4. events'[1] = Started(0)
    BY <2>2, <2>3, <1>0 DEF Told
  <2>5. ASSUME NEW k \in 1 .. noted' PROVE events'[k + 1] = Rejected(refused'[k].reason, k)
    <3>1. CASE k = noted + 1
      BY <3>1, <2>1, <2>3, <1>0
    <3>2. CASE k # noted + 1
      <4>1. k \in 1 .. noted /\ k + 1 \in 1 .. noted + 1
        BY <3>2, <2>1, <1>0
      <4>. QED
        BY <4>1, <2>1, <2>3 DEF Told
    <3>. QED
      BY <3>1, <3>2
  <2>6. Len(events') # noted' + 2
    BY <2>1, <2>3, <1>0
  <2>. QED
    BY <2>4, <2>5, <2>6 DEF Told
(* A closed event is written with a reason that holds. *)
<1>d. ASSUME NEW why, events' = Append(events, Closed(why, total)), Len(events) = noted + 1,
             noted >= 1, recorder = "open", noted' = noted, refused' = refused, TrueEnd(why)'
      PROVE  Told'
  <2>1. /\ Len(events') = noted + 2 /\ events'[noted + 2] = Closed(why, total)
        /\ \A k \in 1 .. noted + 1 : events'[k] = events[k]
    BY <1>d, <1>0
  <2>2. events'[1] = Started(0)
    BY <2>1, <1>d, <1>0 DEF Told
  <2>3. ASSUME NEW k \in 1 .. noted' PROVE events'[k + 1] = Rejected(refused'[k].reason, k)
    <3>1. k \in 1 .. noted /\ k + 1 \in 1 .. noted + 1
      BY <1>d, <1>0
    <3>. QED
      BY <3>1, <2>1, <1>d DEF Told
  <2>4. events'[noted' + 2].event = "closed" /\ events'[noted' + 2].why = why
    BY <2>1, <1>d DEF Closed
  <2>5. TrueEnd(events[noted + 2].why)'
    BY <2>4, <1>d DEF TrueEnd
  <2>. QED
    BY <2>2, <2>3, <2>4, <2>5, <1>d DEF Told
<1>6. CASE WriteFails \/ NoteFails
  <2>1. /\ pc \in {"reject", "note"} /\ recorder = "open" /\ Release
        /\ UNCHANGED <<refused, noted, recorded, created, reason>>
    BY <1>6 DEF WriteFails, NoteFails, parserVars, Recording
  <2>2. ~AtEnd /\ reason = "handler_error" /\ Len(events) = noted + 1
    BY <2>1 DEF AtEnd, Phases, Recording
  <2>3. CASE events' = events
    BY <2>1, <2>2, <2>3, <1>c DEF Release
  <2>4. CASE created /\ recorded /\ events' = Append(events, Closed("handler_error", total))
    <3>1. Failed'
      BY <2>1, <2>2 DEF Release, Failed
    <3>2. TrueEnd("handler_error")'
      BY <3>1 DEF TrueEnd
    <3>3. noted >= 1
      BY <2>4 DEF Recording
    <3>. QED
      BY <2>1, <2>2, <2>4, <3>2, <3>3, <1>d
  <2>. QED
    BY <2>1, <2>3, <2>4 DEF Release
<1>7. CASE HandlerReturns
  <2>1. /\ pc = "finally" /\ pc' = "done" /\ recorder' = IF held THEN "released" ELSE recorder
        /\ \/ held /\ events' = Append(events, Closed(CloseReason, total))
           \/ events' = events
        /\ UNCHANGED <<noted, refused, sent, phase, reason, shutting>>
    BY <1>7 DEF HandlerReturns, parserVars
  <2>2. held => recorder = "open" /\ noted >= 1
    BY <2>1 DEF Recording
  <2>3. AtEnd /\ AtEnd'
    BY <2>1 DEF AtEnd
  <2>4. CASE events' = events
    BY <2>1, <2>2, <2>3, <2>4, <1>c
  <2>5. CASE held /\ events' = Append(events, Closed(CloseReason, total))
    <3>1. PICK why : why = CloseReason
      OBVIOUS
    <3>2. \/ why = "server_shutdown" /\ shutting'
          \/ why = "handler_error" /\ Failed'
          \/ why = "line_too_long" /\ phase = "closed"
          \/ why \in {"eof", "socket_timeout"} /\ phase = "finished"
      BY <2>1, <2>3, <3>1 DEF CloseReason, Failed, TypeOK, Phases, Endings
    <3>3. HasLongLine(sent)' <=> HasLongLine(sent)
      BY <2>1 DEF HasLongLine
    <3>4. \A w \in {why} : TrueEnd(w)'
      BY <2>1, <3>2, <3>3 DEF TrueEnd, ParserInv
    <3>5. TrueEnd(why)'
      BY <3>4
    <3>6. Len(events) = noted + 1
      BY <2>2, <2>5 DEF Recording
    <3>. QED
      BY <2>1, <2>2, <2>5, <3>1, <3>5, <3>6, <1>d
  <2>. QED
    BY <2>1, <2>4, <2>5
<1>. QED
  BY <1>1, <1>2, <1>3, <1>4, <1>5, <1>6, <1>7 DEF Next, Handle

-----------------------------------------------------------------------------
(* The inductive invariant: what was read ends on line boundaries, and what  *)
(* is stored and told is what the parser reported, up to where handle() is.  *)
THEOREM Invariance == Spec => []IndInv
<1>1. Init => IndInv
  <2>. SUFFICES ASSUME Init PROVE IndInv
    OBVIOUS
  <2>. USE DEF Init, ParserInit
  <2>1. TypeOK
    <3>1. ParserTypeOK
      BY DEF ParserTypeOK
    <3>2. /\ pc \in {"recv", "feed", "append", "reject", "note", "finally", "done"}
          /\ ending \in Endings \cup {"none"} /\ reason \in Endings \cup {"handler_error"}
          /\ recorder \in {"none", "open", "released"}
          /\ {held, created, recorded, shutting} \subseteq BOOLEAN
      OBVIOUS
    <3>3. taken \in Nat /\ noted \in Nat /\ total \in Nat
      OBVIOUS
    <3>4. archive \in Seq(Seq(Bytes)) /\ file \in Seq(Seq(Bytes)) /\ events \in Seq(Events)
      OBVIOUS
    <3>. QED
      BY <3>1, <3>2, <3>3, <3>4 DEF TypeOK, Events
  <2>2. Framed(0)
    BY DEF Framed
  <2>3. ParserInv
    BY <2>2, ParserAssumption DEF ParserInv, Marked, Ends
  <2>4. Phases /\ Counts /\ Stored
    BY DEF Phases, Counts, Stored, AtEnd, Failed
  <2>5. Recording /\ Told
    BY DEF Recording, Told
  <2>. QED
    BY <2>1, <2>3, <2>4, <2>5 DEF IndInv
<1>2. IndInv /\ [Next]_vars => IndInv'
  <2>. SUFFICES ASSUME IndInv, [Next]_vars PROVE IndInv'
    OBVIOUS
  <2>1. TypeOK /\ ParserTypeOK /\ ParserInv /\ Phases /\ Counts /\ Stored /\ Recording /\ Told
    BY DEF IndInv, TypeOK
  <2>2. [ParserNext]_parserVars
    BY ParserMoves
  <2>3. ParserTypeOK' /\ ParserInv'
    BY <2>1, <2>2, ParserStep
  <2>4. Passed
    BY <2>1, PassedStep DEF ParserInv
  <2>5. TypeOK'
    BY <2>1, <2>3, TypeStep
  <2>6. Phases' /\ Counts'
    BY <2>1, <2>4, PhasesStep, CountsStep
  <2>7. Stored'
    BY <2>1, <2>4, StoredStep
  <2>8. Recording' /\ Told'
    BY <2>1, <2>4, RecordingStep, ToldStep
  <2>. QED
    BY <2>3, <2>5, <2>6, <2>7, <2>8 DEF IndInv
<1>. QED
  BY <1>1, <1>2, PTL DEF Spec

(* Every variable of the connection keeps its type. *)
THEOREM TypeCorrect == Spec => []TypeOK
<1>1. IndInv => TypeOK
  BY DEF IndInv
<1>. QED
  BY <1>1, Invariance, PTL

(* The parser's buffer stays within one line between reads and one line and  *)
(* one chunk otherwise, whatever a client sends (protocol.py, feed).         *)
THEOREM Bounded == Spec => []BufferBounded
<1>1. IndInv => BufferBounded
  <2>. SUFFICES ASSUME IndInv PROVE BufferBounded
    OBVIOUS
  <2>1. MaxLine \in Nat /\ MaxChunk \in Nat /\ Len(buffer) \in Nat
    BY ParserAssumption DEF IndInv, TypeOK, ParserTypeOK
  <2>2. phase \in {"ready", "feeding", "closed", "finished", "raised"} /\ ParserInv
    BY DEF IndInv, TypeOK, ParserTypeOK
  <2>3. CASE phase \in {"closed", "finished"}
    <3>1. Len(buffer) = 0
      BY <2>2, <2>3 DEF ParserInv
    <3>. QED
      BY <2>1, <3>1 DEF BufferBounded
  <2>4. CASE phase \in {"ready", "feeding", "raised"}
    BY <2>1, <2>2, <2>4 DEF ParserInv, BufferBounded
  <2>. QED
    BY <2>2, <2>3, <2>4
<1>. QED
  BY <1>1, Invariance, PTL

(* Two sequences of one length with the same members at every place.         *)
LEMMA SameSequence ==
  ASSUME NEW S, NEW T, NEW s \in Seq(S), NEW t \in Seq(T), Len(s) = Len(t),
         \A i \in 1 .. Len(s) : s[i] = t[i]
  PROVE  s = t
  OBVIOUS

(* A sequence that agrees with another on its whole length is a prefix.      *)
LEMMA PrefixWhenEqual ==
  ASSUME NEW S, NEW s \in Seq(S), NEW t \in Seq(S), NEW n \in 0 .. Len(s), n <= Len(t),
         \A i \in 1 .. n : s[i] = t[i]
  PROVE  IsPrefixOf(Prefix(s, n), t)
<1>1. /\ Prefix(s, n) \in Seq(S) /\ Len(Prefix(s, n)) = n
      /\ \A i \in 1 .. n : Prefix(s, n)[i] = s[i]
  BY SubSeqFacts DEF Prefix
<1>2. /\ Prefix(t, n) \in Seq(S) /\ Len(Prefix(t, n)) = n
      /\ \A i \in 1 .. n : Prefix(t, n)[i] = t[i]
  BY SubSeqFacts DEF Prefix
<1>3. Prefix(s, n) = Prefix(t, n)
  BY <1>1, <1>2, SameSequence
<1>. QED
  BY <1>1, <1>3 DEF IsPrefixOf

LEMMA RawsFacts ==
  ASSUME NEW s \in Seq(Refusals)
  PROVE  /\ Raws(s) \in Seq(Seq(Bytes)) /\ Len(Raws(s)) = Len(s)
         /\ \A i \in 1 .. Len(s) : Raws(s)[i] = s[i].raw
<1>0. \A i \in 1 .. Len(s) : s[i] \in Refusals
  OBVIOUS
<1>1. \A i \in 1 .. Len(s) : s[i].raw \in Seq(Bytes)
  BY <1>0 DEF Refusals
<1>2. DOMAIN s = 1 .. Len(s) /\ Len(s) \in Nat
  OBVIOUS
<1>3. Raws(s) \in [1 .. Len(s) -> Seq(Bytes)]
  BY <1>1, <1>2 DEF Raws
<1>. QED
  BY <1>2, <1>3 DEF Raws

(* Facts about what is stored, for the theorems below. *)
LEMMA StoredFacts ==
  ASSUME IndInv
  PROVE  /\ accepted \in Seq(Seq(Bytes)) /\ archive \in Seq(Seq(Bytes)) /\ file \in Seq(Seq(Bytes))
         /\ refused \in Seq(Refusals)
         /\ taken \in Nat /\ noted \in Nat /\ before.accepted \in Nat /\ before.refused \in Nat
         /\ before.accepted <= taken /\ taken <= Len(accepted) /\ Len(archive) = taken
         /\ before.refused <= noted /\ noted <= Len(refused) /\ noted <= Len(file)
         /\ \A i \in 1 .. taken : archive[i] = accepted[i]
         /\ \A i \in 1 .. noted : file[i] = refused[i].raw
<1>1. TypeOK /\ Counts /\ Stored
  BY DEF IndInv
<1>2. /\ accepted \in Seq(Seq(Bytes)) /\ archive \in Seq(Seq(Bytes)) /\ file \in Seq(Seq(Bytes))
      /\ refused \in Seq(Refusals)
      /\ taken \in Nat /\ noted \in Nat /\ before.accepted \in Nat /\ before.refused \in Nat
  BY <1>1 DEF TypeOK, ParserTypeOK, Refusals
<1>. QED
  BY <1>1, <1>2 DEF Counts, Stored

(* A failing storage call costs at most what the last read brought, and      *)
(* leaves no gap (server.py, handle and _store_feed_result).                 *)
THEOREM OneReadLost == Spec => []LossIsOneRead
<1>1. IndInv => LossIsOneRead
  <2>. SUFFICES ASSUME IndInv PROVE LossIsOneRead
    OBVIOUS
  <2>1. IsPrefixOf(archive, accepted)
    <3>1. Prefix(archive, taken) = archive
      <4>1. /\ Prefix(archive, taken) \in Seq(Seq(Bytes)) /\ Len(Prefix(archive, taken)) = taken
            /\ \A i \in 1 .. taken : Prefix(archive, taken)[i] = archive[i]
        BY StoredFacts, SubSeqFacts DEF Prefix
      <4>. QED
        BY <4>1, StoredFacts, SameSequence
    <3>2. taken \in 0 .. Len(archive) /\ taken <= Len(accepted)
      BY StoredFacts
    <3>3. \A i \in 1 .. taken : archive[i] = accepted[i]
      BY StoredFacts
    <3>4. IsPrefixOf(Prefix(archive, taken), accepted)
      BY <3>2, <3>3, StoredFacts, PrefixWhenEqual
    <3>. QED
      BY <3>1, <3>4
  <2>2. IsPrefixOf(Prefix(accepted, before.accepted), archive)
    <3>1. before.accepted \in 0 .. Len(accepted) /\ before.accepted <= Len(archive)
      BY StoredFacts
    <3>2. \A i \in 1 .. before.accepted : accepted[i] = archive[i]
      <4>1. \A i \in 1 .. before.accepted : i \in 1 .. taken
        BY StoredFacts
      <4>2. \A i \in 1 .. taken : archive[i] = accepted[i]
        BY StoredFacts
      <4>. QED
        BY <4>1, <4>2
    <3>. QED
      BY <3>1, <3>2, StoredFacts, PrefixWhenEqual
  <2>3. IsPrefixOf(Prefix(Raws(refused), before.refused), file)
    <3>1. /\ Raws(refused) \in Seq(Seq(Bytes)) /\ Len(Raws(refused)) = Len(refused)
          /\ \A i \in 1 .. Len(refused) : Raws(refused)[i] = refused[i].raw
      BY StoredFacts, RawsFacts
    <3>2. before.refused \in 0 .. Len(Raws(refused)) /\ before.refused <= Len(file)
      BY <3>1, StoredFacts
    <3>3. \A i \in 1 .. before.refused : Raws(refused)[i] = file[i]
      <4>1. \A i \in 1 .. before.refused : i \in 1 .. noted /\ i \in 1 .. Len(refused)
        BY StoredFacts
      <4>2. \A i \in 1 .. noted : file[i] = refused[i].raw
        BY StoredFacts
      <4>. QED
        BY <3>1, <4>1, <4>2
    <3>. QED
      BY <3>1, <3>2, <3>3, StoredFacts, PrefixWhenEqual
  <2>. QED
    BY <2>1, <2>2, <2>3 DEF LossIsOneRead
<1>. QED
  BY <1>1, Invariance, PTL

(* A handler that waits or ended well has stored all that was reported       *)
(* (server.py, handle).                                                      *)
THEOREM CleanEndComplete == Spec => []CleanEndIsComplete
<1>1. IndInv => CleanEndIsComplete
  <2>. SUFFICES ASSUME IndInv, pc = "recv" \/ (pc \in {"finally", "done"} /\ ~Failed)
                PROVE  archive = accepted /\ file = Raws(refused)
    BY DEF CleanEndIsComplete
  <2>1. taken = Len(accepted) /\ noted = Len(refused)
    BY DEF IndInv, Counts, AtEnd, Failed
  <2>2. Len(file) = noted
    BY DEF IndInv, Stored, AtEnd, Failed
  <2>3. archive = accepted
    BY <2>1, StoredFacts, SameSequence
  <2>4. /\ Raws(refused) \in Seq(Seq(Bytes)) /\ Len(Raws(refused)) = Len(refused)
        /\ \A i \in 1 .. Len(refused) : Raws(refused)[i] = refused[i].raw
    BY StoredFacts, RawsFacts
  <2>5. \A i \in 1 .. noted : file[i] = refused[i].raw
    BY StoredFacts
  <2>6. file \in Seq(Seq(Bytes))
    BY StoredFacts
  <2>7. file = Raws(refused)
    BY <2>1, <2>2, <2>4, <2>5, <2>6, SameSequence
  <2>. QED
    BY <2>3, <2>7
<1>. QED
  BY <1>1, Invariance, PTL

(* The events about the diagnostic file claim nothing the file does not      *)
(* hold and give the true reason of the end (storage.py, record_rejected and *)
(* close).                                                                   *)
THEOREM LedgerTrue == Spec => []LedgerIsTrue
<1>1. IndInv => LedgerIsTrue
  <2>. SUFFICES ASSUME IndInv, NEW k \in DOMAIN events
                PROVE  /\ events[k].event = "started" <=> k = 1
                       /\ events[k].event = "rejected" =>
                            /\ k - 1 <= Len(file) /\ file[k - 1] = refused[k - 1].raw
                            /\ events[k].why = refused[k - 1].reason /\ events[k].total = k - 1
                       /\ events[k].event = "closed" =>
                            /\ k = Len(events) /\ k > 2
                            /\ CASE events[k].why = "line_too_long"   -> HasLongLine(sent)
                                 [] events[k].why \in {"eof", "socket_timeout"} ->
                                      phase = "finished" /\ ~HasLongLine(sent)
                                 [] events[k].why = "handler_error"   -> Failed
                                 [] events[k].why = "server_shutdown" -> shutting
    BY DEF LedgerIsTrue
  <2>0. /\ Recording /\ Told /\ noted \in Nat /\ events \in Seq(Events) /\ Len(events) \in Nat
        /\ recorder \in {"none", "open", "released"} /\ k \in 1 .. Len(events)
    BY DEF IndInv, TypeOK, Events
  <2>1. recorder # "none" /\ Len(events) \in {noted + 1, noted + 2}
    BY <2>0 DEF Recording
  <2>2. CASE k = 1
    <3>1. events[k].event = "started"
      BY <2>0, <2>1, <2>2 DEF Told, Started
    <3>. QED
      BY <2>2, <3>1
  <2>3. CASE k \in 2 .. noted + 1
    <3>1. k - 1 \in 1 .. noted /\ (k - 1) + 1 = k /\ k # 1
      BY <2>0, <2>3
    <3>2. events[k] = Rejected(refused[k - 1].reason, k - 1)
      BY <2>0, <3>1 DEF Told
    <3>3. /\ events[k].event = "rejected" /\ events[k].why = refused[k - 1].reason
          /\ events[k].total = k - 1
      BY <3>2 DEF Rejected
    <3>4. file[k - 1] = refused[k - 1].raw
      BY <3>1, StoredFacts
    <3>5. k - 1 <= Len(file)
      BY <3>1, StoredFacts
    <3>. QED
      BY <3>1, <3>3, <3>4, <3>5
  <2>4. CASE k = noted + 2 /\ Len(events) = noted + 2
    <3>1. noted >= 1 /\ events[k].event = "closed" /\ TrueEnd(events[k].why)
      BY <2>0, <2>4 DEF Told
    <3>2. k # 1 /\ k = Len(events) /\ k > 2
      BY <2>0, <2>4, <3>1
    <3>3. CASE events[k].why = "line_too_long"
      BY <3>1, <3>2, <3>3 DEF TrueEnd
    <3>4. CASE events[k].why \in {"eof", "socket_timeout"}
      BY <3>1, <3>2, <3>4 DEF TrueEnd
    <3>5. CASE events[k].why = "handler_error"
      BY <3>1, <3>2, <3>5 DEF TrueEnd
    <3>6. CASE events[k].why = "server_shutdown"
      BY <3>1, <3>2, <3>6 DEF TrueEnd
    <3>. QED
      BY <3>1, <3>3, <3>4, <3>5, <3>6 DEF TrueEnd
  <2>5. k = 1 \/ k \in 2 .. noted + 1 \/ (k = noted + 2 /\ Len(events) = noted + 2)
    BY <2>0, <2>1
  <2>. QED
    BY <2>2, <2>3, <2>4, <2>5
<1>. QED
  BY <1>1, Invariance, PTL

-----------------------------------------------------------------------------
(* What the reference takes from a sequence: the last mark before a place,   *)
(* the rank of a place, one line.                                            *)
LEMMA LastBeforeIs ==
  ASSUME NEW S \in SUBSET Nat, NEW i \in Nat, NEW b \in S \cup {0}, b < i,
         \A j \in S : j < i => j <= b
  PROVE  LastBefore(S, i) = b
<1>. DEFINE Last(c) == c < i /\ \A j \in S : j < i => j <= c
<1>1. ASSUME NEW c \in S \cup {0}, Last(c) PROVE c = b
  <2>1. b \in Nat /\ c \in Nat
    OBVIOUS
  <2>2. b <= c
    BY <1>1, <2>1
  <2>3. c <= b
    BY <1>1, <2>1
  <2>. QED
    BY <2>1, <2>2, <2>3
<1>2. Last(b)
  OBVIOUS
<1>. HIDE DEF Last
<1>3. (CHOOSE c \in S \cup {0} : Last(c)) = b
  BY <1>1, <1>2
<1>. QED
  BY <1>3 DEF Last, LastBefore

LEMMA LastBeforeFacts ==
  ASSUME NEW S \in SUBSET Nat, NEW i \in Nat \ {0}
  PROVE  /\ LastBefore(S, i) \in S \cup {0} /\ LastBefore(S, i) < i
         /\ \A j \in S : j < i => j <= LastBefore(S, i)
<1>. DEFINE T == {k \in Nat : i - k \in S \cup {0}  /\ 1 <= k /\ k <= i}
<1>1. i \in T
  OBVIOUS
<1>2. PICK k \in T : \A j \in T : k <= j
  BY <1>1, LeastMember
<1>3. PICK b : b = i - k
  OBVIOUS
<1>4. b \in S \cup {0} /\ b \in Nat /\ b < i
  BY <1>2, <1>3
<1>5. ASSUME NEW j \in S, j < i PROVE j <= b
  <2>1. PICK m : m = i - j
    OBVIOUS
  <2>2. m \in Nat /\ 1 <= m /\ m <= i /\ i - m = j
    BY <1>5, <2>1
  <2>3. k <= m
    BY <1>2, <2>2
  <2>. QED
    BY <1>2, <1>3, <2>1, <2>2, <2>3
<1>. QED
  BY <1>4, <1>5, LastBeforeIs

LEMMA RankType ==
  ASSUME NEW S \in SUBSET Nat, IsFiniteSet(S), NEW i \in S
  PROVE  Rank(S, i) \in 1 .. Cardinality(S)
<1>. DEFINE B == {j \in S : j <= i}
<1>1. IsFiniteSet(B) /\ Cardinality(B) <= Cardinality(S)
  BY FS_Subset
<1>2. Cardinality(B) \in Nat /\ Cardinality(S) \in Nat
  BY <1>1, FS_CardinalityType
<1>3. B # {}
  OBVIOUS
<1>4. Cardinality(B) # 0
  BY <1>1, <1>3, FS_EmptySet
<1>. QED
  BY <1>1, <1>2, <1>4 DEF Rank

LEMMA RankFacts ==
  ASSUME NEW S \in SUBSET Nat, IsFiniteSet(S), NEW m \in Nat, \A j \in S : j < m
  PROVE  /\ Cardinality(S) \in Nat /\ Cardinality(S \cup {m}) = Cardinality(S) + 1
         /\ Rank(S \cup {m}, m) = Cardinality(S) + 1
         /\ \A i \in S : Rank(S \cup {m}, i) = Rank(S, i)
<1>1. m \notin S
  OBVIOUS
<1>2. Cardinality(S) \in Nat /\ Cardinality(S \cup {m}) = Cardinality(S) + 1
  BY <1>1, FS_AddElement, FS_CardinalityType
<1>3. {j \in S \cup {m} : j <= m} = S \cup {m}
  <2>1. \A j \in S \cup {m} : j <= m
    OBVIOUS
  <2>. QED
    BY <2>1
<1>4. ASSUME NEW i \in S PROVE {j \in S \cup {m} : j <= i} = {j \in S : j <= i}
  <2>1. i < m /\ i \in Nat
    OBVIOUS
  <2>. QED
    BY <2>1
<1>. QED
  BY <1>2, <1>3, <1>4 DEF Rank

LEMMA LineFacts ==
  ASSUME NEW s \in Seq(Bytes), NEW i \in 1 .. Len(s)
  PROVE  /\ Line(s, i) \in Seq(Bytes) /\ LastBefore(Ends(s), i) \in 0 .. i - 1
         /\ Len(Line(s, i)) = i - LastBefore(Ends(s), i)
<1>. DEFINE b == LastBefore(Ends(s), i)
<1>1. Ends(s) \in SUBSET Nat /\ i \in Nat \ {0}
  BY DEF Ends
<1>2. b \in Nat /\ b < i
  BY <1>1, LastBeforeFacts
<1>. HIDE DEF b
<1>3. /\ SubSeq(s, b + 1, i) \in Seq(Bytes) /\ Len(SubSeq(s, b + 1, i)) = i - (b + 1) + 1
  BY <1>2, SubSeqFacts
<1>. QED
  BY <1>2, <1>3 DEF Line, b

LEMMA LineIs ==
  ASSUME NEW s \in Seq(Bytes), NEW i \in 1 .. Len(s), NEW b \in Ends(s) \cup {0}, b < i,
         \A j \in Ends(s) : j < i => j <= b
  PROVE  Line(s, i) = SubSeq(s, b + 1, i)
<1>1. Ends(s) \in SUBSET Nat
  BY DEF Ends
<1>2. LastBefore(Ends(s), i) = b
  BY <1>1, LastBeforeIs
<1>. QED
  BY <1>2 DEF Line

(* What a line is does not change when more bytes follow.                    *)
LEMMA LinesStay ==
  ASSUME NEW s \in Seq(Bytes), NEW t \in Seq(Bytes), Len(s) <= Len(t),
         \A i \in 1 .. Len(s) : t[i] = s[i], NEW i \in 1 .. Len(s)
  PROVE  Line(t, i) = Line(s, i)
<1>. DEFINE b == LastBefore(Ends(s), i)
<1>1. /\ Ends(s) \in SUBSET Nat /\ i \in Nat \ {0} /\ i \in 1 .. Len(t)
      /\ Ends(s) \subseteq Ends(t) /\ \A j \in Ends(t) : j <= Len(s) => j \in Ends(s)
  BY DEF Ends
<1>2. b \in Ends(s) \cup {0} /\ b \in Nat /\ b < i /\ \A j \in Ends(s) : j < i => j <= b
  BY <1>1, LastBeforeFacts
<1>. HIDE DEF b
<1>3. \A j \in Ends(t) : j < i => j <= b
  BY <1>1, <1>2 DEF Ends
<1>4. Line(s, i) = SubSeq(s, b + 1, i)
  BY <1>2, LineIs
<1>5. Line(t, i) = SubSeq(t, b + 1, i)
  BY <1>1, <1>2, <1>3, LineIs
<1>6. /\ SubSeq(s, b + 1, i) \in Seq(Bytes) /\ Len(SubSeq(s, b + 1, i)) = i - (b + 1) + 1
      /\ \A k \in 1 .. i - (b + 1) + 1 : SubSeq(s, b + 1, i)[k] = s[(b + 1) + k - 1]
  BY <1>2, SubSeqFacts
<1>7. /\ SubSeq(t, b + 1, i) \in Seq(Bytes) /\ Len(SubSeq(t, b + 1, i)) = i - (b + 1) + 1
      /\ \A k \in 1 .. i - (b + 1) + 1 : SubSeq(t, b + 1, i)[k] = t[(b + 1) + k - 1]
  BY <1>1, <1>2, SubSeqFacts
<1>8. \A k \in 1 .. i - (b + 1) + 1 : (b + 1) + k - 1 \in 1 .. Len(s)
  BY <1>2
<1>9. \A k \in 1 .. i - (b + 1) + 1 : SubSeq(t, b + 1, i)[k] = SubSeq(s, b + 1, i)[k]
  BY <1>6, <1>7, <1>8
<1>. QED
  BY <1>4, <1>5, <1>6, <1>7, <1>9, SameSequence

(* A sequence and its tail, read from the same place.                        *)
LEMMA Shifted ==
  ASSUME NEW S, NEW s \in Seq(S), NEW t \in Seq(S), NEW p \in Nat, Len(s) = p + Len(t),
         \A i \in 1 .. Len(t) : s[p + i] = t[i], NEW n \in 0 .. Len(t)
  PROVE  SubSeq(s, p + 1, p + n) = SubSeq(t, 1, n)
<1>1. /\ SubSeq(s, p + 1, p + n) \in Seq(S) /\ Len(SubSeq(s, p + 1, p + n)) = p + n - (p + 1) + 1
      /\ \A k \in 1 .. p + n - (p + 1) + 1 : SubSeq(s, p + 1, p + n)[k] = s[(p + 1) + k - 1]
  <2>1. p + 1 \in Nat \ {0} /\ p + n \in 0 .. Len(s) /\ p + 1 <= p + n + 1
    OBVIOUS
  <2>. QED
    BY <2>1, SubSeqFacts
<1>2. /\ SubSeq(t, 1, n) \in Seq(S) /\ Len(SubSeq(t, 1, n)) = n
      /\ \A k \in 1 .. n : SubSeq(t, 1, n)[k] = t[k]
  BY SubSeqFacts
<1>3. p + n - (p + 1) + 1 = n /\ \A k \in 1 .. n : (p + 1) + k - 1 = p + k /\ k \in 1 .. Len(t)
  OBVIOUS
<1>4. \A k \in 1 .. n : SubSeq(s, p + 1, p + n)[k] = SubSeq(t, 1, n)[k]
  BY <1>1, <1>2, <1>3
<1>5. /\ SubSeq(s, p + 1, p + n) \in Seq(S) /\ SubSeq(t, 1, n) \in Seq(S)
      /\ Len(SubSeq(s, p + 1, p + n)) = n /\ Len(SubSeq(t, 1, n)) = n
  BY <1>1, <1>2, <1>3
<1>. QED
  BY <1>4, <1>5, SameSequence

LEMMA VerdictFacts ==
  ASSUME NEW raw \in Seq(Bytes), NEW d \in Devices \cup {NoDevice}
  PROVE  /\ Verdict(raw, NoDevice) # "accepted" => Verdict(raw, d) = Verdict(raw, NoDevice)
         /\ Verdict(raw, NoDevice) = "accepted" =>
              (Verdict(raw, d) = "accepted" <=> d = NoDevice \/ d \in Named(raw))
         /\ Verdict(raw, d) = "raises" <=> Verdict(raw, NoDevice) = "raises"
  BY DEF Verdict

(* A valid record names one device. *)
LEMMA NamesOne ==
  ASSUME NEW raw \in Seq(Bytes), Verdict(raw, NoDevice) = "accepted"
  PROVE  \E d \in Devices : Named(raw) = {d}
<1>. USE ParserAssumption
<1>1. /\ ~Has(raw, "not_utf8") /\ Cardinality(Values(raw)) = 1
      /\ ~Has(raw, "scalar") /\ ~Has(raw, "anonymous") /\ ~TooDeep(raw)
  BY DEF Verdict
<1>2. DOMAIN raw = 1 .. Len(raw) /\ Len(raw) \in Nat /\ \A i \in DOMAIN raw : raw[i] \in Bytes
  OBVIOUS
<1>3. IsFiniteSet(Values(raw))
  <2>1. IsFiniteSet(1 .. Len(raw))
    BY <1>2, FS_Interval
  <2>2. Values(raw) \in SUBSET (1 .. Len(raw))
    BY <1>2 DEF Values
  <2>. QED
    BY <2>1, <2>2, FS_Subset
<1>4. PICK x : Values(raw) = {x}
  BY <1>1, <1>3, FS_Singleton
<1>5. x \in DOMAIN raw /\ raw[x] \notin {LF, "blank"}
  BY <1>4 DEF Values
<1>6. raw[x] \notin {LF, "blank", "not_utf8", "scalar", "anonymous", "nested"}
  <2>1. raw[x] # "nested"
    <3>1. x \in Values(raw) /\ \A j \in Values(raw) : x <= j
      BY <1>2, <1>4, <1>5
    <3>. QED
      BY <1>1, <3>1 DEF TooDeep
  <2>. QED
    BY <1>1, <1>5, <2>1 DEF Has
<1>7. raw[x] \in Devices
  BY <1>2, <1>5, <1>6 DEF Bytes, Marks
<1>8. ASSUME NEW d \in Named(raw) PROVE d = raw[x]
  <2>1. PICK i \in DOMAIN raw : raw[i] = d
    BY <1>8 DEF Named, Has
  <2>2. d \in Devices
    BY <1>8 DEF Named
  <2>3. raw[i] \notin {LF, "blank"}
    BY <2>1, <2>2 DEF Marks
  <2>. QED
    BY <1>4, <2>1, <2>3 DEF Values
<1>9. raw[x] \in Named(raw)
  BY <1>5, <1>7 DEF Named, Has
<1>. QED
  BY <1>7, <1>8, <1>9

-----------------------------------------------------------------------------
(* What the parser of device d has reported when it has taken the first p    *)
(* bytes of the stream s: acc and ref are the lines up to p, judged.         *)
Done(s, p)    == {i \in Ends(s) : i <= p}
Good(s, p, d) == {i \in Done(s, p) : Verdict(Line(s, i), d) = "accepted"}
Bad(s, p, d)  == Done(s, p) \ Good(s, p, d)

Pinned(s, p, d) ==
  /\ \A i \in Done(s, p) : Len(Line(s, i)) <= MaxLine + 1
  /\ \A i \in Done(s, p) : Verdict(Line(s, i), d) # "raises"
  /\ d = NoDevice => Good(s, p, d) = {}
  /\ d # NoDevice =>
       \E i \in Good(s, p, d) :
         /\ Named(Line(s, i)) = {d}
         /\ \A j \in Done(s, p) : Verdict(Line(s, j), NoDevice) = "accepted" => i <= j

AcceptedUpTo(s, p, d, acc) ==
  /\ Len(acc) = Cardinality(Good(s, p, d))
  /\ \A i \in Good(s, p, d) : acc[Rank(Good(s, p, d), i)] = Line(s, i)

RefusedUpTo(s, p, d, ref) ==
  /\ Len(ref) = Cardinality(Bad(s, p, d))
  /\ \A i \in Bad(s, p, d) :
       ref[Rank(Bad(s, p, d), i)] = Rejection(Verdict(Line(s, i), d), Line(s, i))

LEMMA DoneFacts ==
  ASSUME NEW s \in Seq(Bytes), NEW p, NEW d
  PROVE  /\ Done(s, p) \in SUBSET Nat /\ Done(s, p) \subseteq Ends(s)
         /\ Done(s, p) \subseteq 1 .. Len(s)
         /\ Good(s, p, d) \in SUBSET Nat /\ IsFiniteSet(Good(s, p, d))
         /\ Bad(s, p, d) \in SUBSET Nat /\ IsFiniteSet(Bad(s, p, d))
<1>1. Done(s, p) \in SUBSET (1 .. Len(s)) /\ Len(s) \in Nat
  BY DEF Done, Ends
<1>2. IsFiniteSet(1 .. Len(s))
  BY <1>1, FS_Interval
<1>3. IsFiniteSet(Done(s, p))
  BY <1>1, <1>2, FS_Subset
<1>4. Good(s, p, d) \in SUBSET Done(s, p) /\ Bad(s, p, d) \in SUBSET Done(s, p)
  BY DEF Good, Bad
<1>5. IsFiniteSet(Good(s, p, d)) /\ IsFiniteSet(Bad(s, p, d))
  BY <1>3, <1>4, FS_Subset
<1>6. 1 .. Len(s) \subseteq Nat
  BY <1>1
<1>. QED
  BY <1>1, <1>4, <1>5, <1>6 DEF Done

(* More bytes leave what is reported as it was. *)
LEMMA ReportsStay ==
  ASSUME NEW s \in Seq(Bytes), NEW t \in Seq(Bytes), Len(s) <= Len(t),
         \A i \in 1 .. Len(s) : t[i] = s[i], NEW p \in 0 .. Len(s), NEW d
  PROVE  /\ Done(t, p) = Done(s, p) /\ Good(t, p, d) = Good(s, p, d) /\ Bad(t, p, d) = Bad(s, p, d)
         /\ \A i \in Done(s, p) : Line(t, i) = Line(s, i)
<1>0. Ends(s) = {i \in 1 .. Len(s) : s[i] = LF} /\ Ends(t) = {i \in 1 .. Len(t) : t[i] = LF}
  BY DEF Ends
<1>1. Done(t, p) = Done(s, p) /\ Done(s, p) \subseteq 1 .. Len(s)
  <2>1. \A i \in 1 .. Len(t) : i <= p => i \in 1 .. Len(s)
    OBVIOUS
  <2>2. \A i : i \in Done(t, p) <=> i \in Done(s, p)
    BY <1>0, <2>1 DEF Done
  <2>3. Done(s, p) \subseteq 1 .. Len(s)
    BY <1>0 DEF Done
  <2>. QED
    BY <2>2, <2>3
<1>2. \A i \in Done(s, p) : Line(t, i) = Line(s, i)
  BY <1>1, LinesStay
<1>3. Good(t, p, d) = Good(s, p, d)
  BY <1>1, <1>2 DEF Good
<1>. QED
  BY <1>1, <1>2, <1>3 DEF Bad

(* The next line: one that is valid for d, or not.                           *)
LEMMA NextDone ==
  ASSUME NEW s \in Seq(Bytes), NEW p \in Nat, NEW q \in 1 .. Len(s), p < q, s[q] = LF,
         \A j \in p + 1 .. q - 1 : s[j] # LF
  PROVE  /\ Done(s, q) = Done(s, p) \cup {q} /\ q \notin Done(s, p)
         /\ \A j \in Done(s, p) : j < q
<1>1. Ends(s) = {j \in 1 .. Len(s) : s[j] = LF}
  BY DEF Ends
<1>2. \A j \in Ends(s) : j \in Nat /\ (j <= q <=> j <= p \/ j = q)
  BY <1>1
<1>3. q \in Ends(s)
  BY <1>1
<1>4. \A j : j \in Done(s, q) <=> j \in Done(s, p) \cup {q}
  BY <1>2, <1>3 DEF Done
<1>5. \A j \in Done(s, p) : j < q
  BY <1>2 DEF Done
<1>. QED
  BY <1>4, <1>5

LEMMA NextRecord ==
  ASSUME NEW s \in Seq(Bytes), NEW p \in Nat, NEW q \in 1 .. Len(s), p < q, s[q] = LF,
         \A j \in p + 1 .. q - 1 : s[j] # LF,
         NEW d \in Devices \cup {NoDevice}, NEW c \in Named(Line(s, q)),
         Pinned(s, p, d), Len(Line(s, q)) <= MaxLine + 1, Verdict(Line(s, q), d) = "accepted"
  PROVE  /\ Pinned(s, q, c)
         /\ Good(s, q, c) = Good(s, p, d) \cup {q} /\ Bad(s, q, c) = Bad(s, p, d)
         /\ \A i \in Done(s, p) : Verdict(Line(s, i), c) = Verdict(Line(s, i), d)
<1>. USE ParserAssumption
<1>a. /\ Done(s, q) = Done(s, p) \cup {q} /\ q \notin Done(s, p) /\ \A j \in Done(s, p) : j < q
  BY NextDone
<1>0. /\ Done(s, q) = Done(s, p) \cup {q} /\ q \notin Done(s, p) /\ \A j \in Done(s, p) : j < q
      /\ Done(s, p) \subseteq 1 .. Len(s)
  BY <1>a, DoneFacts
<1>1. \A i \in Done(s, q) : Line(s, i) \in Seq(Bytes)
  BY <1>0, LineFacts
<1>2. Line(s, q) \in Seq(Bytes) /\ Verdict(Line(s, q), NoDevice) = "accepted"
  BY <1>0, <1>1, VerdictFacts
<1>3. c \in Devices /\ Named(Line(s, q)) = {c}
  BY <1>2, NamesOne
<1>4. d = NoDevice \/ d = c
  BY <1>2, <1>3, VerdictFacts
<1>5. ASSUME NEW i \in Done(s, p) PROVE Verdict(Line(s, i), c) = Verdict(Line(s, i), d)
  <2>1. CASE d = NoDevice
    <3>1. Verdict(Line(s, i), NoDevice) # "accepted"
      BY <1>5, <2>1 DEF Pinned, Good
    <3>. QED
      BY <1>0, <1>1, <1>3, <1>5, <2>1, <3>1, VerdictFacts
  <2>2. CASE d = c
    BY <2>2
  <2>. QED
    BY <1>4, <2>1, <2>2
<1>6. Verdict(Line(s, q), c) = "accepted"
  BY <1>2, <1>3, VerdictFacts
<1>7. Good(s, q, c) = Good(s, p, d) \cup {q}
  BY <1>0, <1>5, <1>6 DEF Good
<1>8. Bad(s, q, c) = Bad(s, p, d)
  BY <1>0, <1>7 DEF Bad, Good
<1>9. /\ \A i \in Done(s, q) : Len(Line(s, i)) <= MaxLine + 1
      /\ \A i \in Done(s, q) : Verdict(Line(s, i), c) # "raises"
  BY <1>0, <1>5, <1>6 DEF Pinned
<1>10. \E i \in Good(s, q, c) :
         /\ Named(Line(s, i)) = {c}
         /\ \A j \in Done(s, q) : Verdict(Line(s, j), NoDevice) = "accepted" => i <= j
  <2>1. CASE d = NoDevice
    <3>1. \A j \in Done(s, q) : Verdict(Line(s, j), NoDevice) = "accepted" => j = q
      BY <1>0, <2>1 DEF Pinned, Good
    <3>. QED
      BY <1>3, <1>7, <3>1
  <2>2. CASE d = c
    <3>1. PICK i \in Good(s, p, d) :
            /\ Named(Line(s, i)) = {c}
            /\ \A j \in Done(s, p) : Verdict(Line(s, j), NoDevice) = "accepted" => i <= j
      BY <1>3, <2>2 DEF Pinned
    <3>2. i <= q
      BY <1>0, <3>1 DEF Good
    <3>. QED
      BY <1>0, <1>7, <3>1, <3>2
  <2>. QED
    BY <1>4, <2>1, <2>2
<1>. QED
  BY <1>3, <1>5, <1>7, <1>8, <1>9, <1>10 DEF Pinned

LEMMA NextReject ==
  ASSUME NEW s \in Seq(Bytes), NEW p \in Nat, NEW q \in 1 .. Len(s), p < q, s[q] = LF,
         \A j \in p + 1 .. q - 1 : s[j] # LF,
         NEW d \in Devices \cup {NoDevice},
         Pinned(s, p, d), Len(Line(s, q)) <= MaxLine + 1,
         Verdict(Line(s, q), d) \notin {"accepted", "raises"}
  PROVE  Pinned(s, q, d) /\ Good(s, q, d) = Good(s, p, d) /\ Bad(s, q, d) = Bad(s, p, d) \cup {q}
<1>a. /\ Done(s, q) = Done(s, p) \cup {q} /\ q \notin Done(s, p) /\ \A j \in Done(s, p) : j < q
  BY NextDone
<1>0. /\ Done(s, q) = Done(s, p) \cup {q} /\ q \notin Done(s, p) /\ \A j \in Done(s, p) : j < q
      /\ Done(s, p) \subseteq 1 .. Len(s)
  BY <1>a, DoneFacts
<1>1. Good(s, q, d) = Good(s, p, d)
  BY <1>0 DEF Good
<1>2. Bad(s, q, d) = Bad(s, p, d) \cup {q}
  BY <1>0, <1>1 DEF Bad, Good
<1>3. /\ \A i \in Done(s, q) : Len(Line(s, i)) <= MaxLine + 1
      /\ \A i \in Done(s, q) : Verdict(Line(s, i), d) # "raises"
  BY <1>0 DEF Pinned
<1>4. ASSUME d # NoDevice
      PROVE  \E i \in Good(s, q, d) :
               /\ Named(Line(s, i)) = {d}
               /\ \A j \in Done(s, q) : Verdict(Line(s, j), NoDevice) = "accepted" => i <= j
  <2>1. PICK i \in Good(s, p, d) :
          /\ Named(Line(s, i)) = {d}
          /\ \A j \in Done(s, p) : Verdict(Line(s, j), NoDevice) = "accepted" => i <= j
    BY <1>4 DEF Pinned
  <2>2. i <= q
    BY <1>0, <2>1 DEF Good
  <2>. QED
    BY <1>0, <1>1, <2>1, <2>2
<1>. QED
  BY <1>1, <1>2, <1>3, <1>4 DEF Pinned

LEMMA OwnerType ==
  ASSUME NEW s \in Seq(Bytes)
  PROVE  /\ Owner(s) \in Devices \cup {NoDevice}
         /\ \A i \in Valid(s) : (\A j \in Valid(s) : i <= j) => Named(Line(s, i)) = {Owner(s)}
<1>. USE ParserAssumption
<1>1. Valid(s) \in SUBSET Nat /\ Valid(s) \subseteq 1 .. Len(s)
  BY DEF Valid, Ends
<1>2. CASE Valid(s) = {}
  BY <1>2 DEF Owner
<1>3. CASE Valid(s) # {}
  <2>1. PICK i \in Valid(s) : \A j \in Valid(s) : i <= j
    BY <1>1, <1>3, LeastMember
  <2>2. FirstValid(s) \in Valid(s) /\ \A j \in Valid(s) : FirstValid(s) <= j
    BY <2>1 DEF FirstValid
  <2>3. \A k \in Valid(s) : (\A j \in Valid(s) : k <= j) => k = FirstValid(s)
    BY <1>1, <2>2
  <2>4. Line(s, FirstValid(s)) \in Seq(Bytes) /\ Verdict(Line(s, FirstValid(s)), NoDevice) = "accepted"
    BY <1>1, <2>2, LineFacts DEF Valid
  <2>5. PICK d \in Devices : Named(Line(s, FirstValid(s))) = {d}
    BY <2>4, NamesOne
  <2>6. Owner(s) = d
    BY <1>3, <2>5 DEF Owner
  <2>. QED
    BY <2>3, <2>5, <2>6
<1>. QED
  BY <1>2, <1>3

(* When the next line, if any, is too long, what is reported is what the     *)
(* reference says of the whole stream.                                       *)
LEMMA WholeStream ==
  ASSUME NEW s \in Seq(Bytes), NEW p \in 0 .. Len(s), p \in Ends(s) \cup {0},
         NEW d \in Devices \cup {NoDevice}, Pinned(s, p, d),
         \A i \in Ends(s) : i > p => i > p + MaxLine + 1
  PROVE  /\ Records(s) = Good(s, p, d) /\ Unwanted(s) = Bad(s, p, d) /\ Raising(s) = {}
         /\ \A i \in Unwanted(s) : Judged(s, i) = Verdict(Line(s, i), d)
         /\ Unframed(s) = SubSeq(s, p + 1, Len(s))
<1>. USE ParserAssumption
<1>0. /\ Len(s) \in Nat /\ MaxLine \in Nat /\ p \in Nat
      /\ Ends(s) = {i \in 1 .. Len(s) : s[i] = LF} /\ Ends(s) \in SUBSET Nat
      /\ Done(s, p) \subseteq Ends(s) /\ \A i \in Ends(s) : i \in Done(s, p) <=> i <= p
  BY DEF Ends, Done
<1>1. ASSUME NEW i \in Fitting(s) PROVE i \in Done(s, p)
  <2>1. SUFFICES ASSUME i > p PROVE FALSE
    BY <1>0 DEF Fitting
  <2>. DEFINE Later == {j \in Ends(s) : j > p}
  <2>2. Later \in SUBSET Nat /\ i \in Later
    BY <1>0, <2>1 DEF Fitting
  <2>3. PICK q \in Later : \A j \in Later : q <= j
    BY <2>2, LeastMember
  <2>4. q \in Ends(s) /\ q > p /\ q <= i /\ q \in 1 .. Len(s)
    BY <1>0, <2>2, <2>3
  <2>5. \A j \in Ends(s) : j < q => j <= p
    BY <1>0, <2>3
  <2>6. Line(s, q) = SubSeq(s, p + 1, q)
    BY <2>4, <2>5, LineIs
  <2>7. Len(SubSeq(s, p + 1, q)) = q - (p + 1) + 1
    <3>1. p + 1 \in Nat \ {0} /\ q \in 0 .. Len(s) /\ p + 1 <= q + 1
      BY <1>0, <2>4
    <3>. QED
      BY <3>1, SubSeqFacts
  <2>8. Len(Line(s, q)) > MaxLine + 1
    BY <1>0, <2>4, <2>6, <2>7
  <2>9. Len(Line(s, q)) <= MaxLine + 1
    BY <2>4 DEF Fitting
  <2>10. Len(Line(s, q)) \in Nat
    BY <1>0, <2>4, <2>6, <2>7
  <2>. QED
    BY <1>0, <2>8, <2>9, <2>10
<1>2. ASSUME NEW i \in Done(s, p) PROVE i \in Fitting(s)
  <2>1. i \in Ends(s) /\ \A j \in Ends(s) : j <= i => j \in Done(s, p)
    BY <1>0
  <2>. QED
    BY <2>1 DEF Fitting, Pinned
<1>3. Fitting(s) = Done(s, p)
  BY <1>1, <1>2
<1>4. \A i \in Done(s, p) : Line(s, i) \in Seq(Bytes)
  BY <1>0, LineFacts
<1>5. ASSUME NEW i \in Done(s, p) PROVE Judged(s, i) = Verdict(Line(s, i), d)
  <2>1. CASE d = NoDevice
    <3>1. Verdict(Line(s, i), NoDevice) # "accepted"
      BY <1>5, <2>1 DEF Pinned, Good
    <3>. QED
      BY <1>4, <2>1, <3>1, OwnerType, VerdictFacts DEF Judged
  <2>2. CASE d # NoDevice
    <3>1. PICK k \in Good(s, p, d) :
            /\ Named(Line(s, k)) = {d}
            /\ \A j \in Done(s, p) : Verdict(Line(s, j), NoDevice) = "accepted" => k <= j
      BY <2>2 DEF Pinned
    <3>2. k \in Done(s, p) /\ Verdict(Line(s, k), d) = "accepted"
      BY <3>1 DEF Good
    <3>3. k \in Valid(s)
      BY <1>0, <1>4, <3>2, VerdictFacts DEF Valid
    <3>4. ASSUME NEW j \in Valid(s) PROVE k <= j
      <4>1. j \in Ends(s) /\ Verdict(Line(s, j), NoDevice) = "accepted"
        BY DEF Valid
      <4>2. CASE j <= p
        BY <1>0, <3>1, <4>1, <4>2
      <4>3. CASE j > p
        BY <1>0, <3>2, <4>1, <4>3
      <4>. QED
        BY <1>0, <4>1, <4>2, <4>3
    <3>5. Named(Line(s, k)) = {Owner(s)}
      BY <3>3, <3>4, OwnerType
    <3>6. Owner(s) = d
      BY <3>1, <3>5
    <3>. QED
      BY <3>6 DEF Judged
  <2>. QED
    BY <2>1, <2>2
<1>6. Records(s) = Good(s, p, d)
  BY <1>3, <1>5 DEF Records, Good
<1>7. Unwanted(s) = Bad(s, p, d)
  BY <1>3, <1>6 DEF Unwanted, Bad
<1>8. (\A i \in Unwanted(s) : i \in Done(s, p)) /\ Raising(s) = {}
  BY <1>3, <1>5, <1>7 DEF Bad, Raising, Pinned
<1>9. LastBefore(Fitting(s), Len(s) + 1) = p
  <2>1. Fitting(s) \in SUBSET Nat /\ p \in Fitting(s) \cup {0} /\ p < Len(s) + 1
    BY <1>0, <1>3
  <2>2. \A j \in Fitting(s) : j < Len(s) + 1 => j <= p
    BY <1>0, <1>3
  <2>3. Len(s) + 1 \in Nat
    BY <1>0
  <2>. QED
    BY <2>1, <2>2, <2>3, LastBeforeIs
<1>. QED
  BY <1>5, <1>6, <1>7, <1>8, <1>9 DEF Unframed

-----------------------------------------------------------------------------
(* acc and ref are what the reference says of the stream s, which goes on.   *)
Faithful(s, acc, ref) ==
  /\ Raising(s) = {} /\ ~HasLongLine(s)
  /\ Len(acc) = Cardinality(Records(s))
  /\ \A i \in Records(s) : acc[Rank(Records(s), i)] = Line(s, i)
  /\ Len(ref) = Cardinality(Unwanted(s))
  /\ \A i \in Unwanted(s) : ref[Rank(Unwanted(s), i)] = Rejection(Judged(s, i), Line(s, i))

(* The parser at work has reported the lines it has taken, and had reported  *)
(* what the reference says of the reads before this one; one that has ended  *)
(* has reported what the reference says.                                     *)
Reporting ==
  /\ phase \in {"ready", "feeding"} =>
       \E p \in Nat : /\ Framed(p) /\ Pinned(sent, p, device)
                      /\ AcceptedUpTo(sent, p, device, accepted) /\ RefusedUpTo(sent, p, device, refused)
  /\ phase = "feeding" =>
       Faithful(SubSeq(sent, 1, before.sent), SubSeq(accepted, 1, before.accepted),
                SubSeq(refused, 1, before.refused))
  /\ phase \in {"finished", "closed", "raised"} => ChunkingIsInvisible

LEMMA FramedFacts ==
  ASSUME ParserTypeOK, NEW p \in Nat, Framed(p)
  PROVE  /\ p \in 0 .. Len(sent) /\ p \in Ends(sent) \cup {0}
         /\ \A n \in 0 .. Len(buffer) : SubSeq(sent, p + 1, p + n) = SubSeq(buffer, 1, n)
         /\ SubSeq(sent, p + 1, Len(sent)) = buffer
         /\ \A i \in 1 .. Len(buffer) : sent[p + i] = LF <=> i \in Ends(buffer)
<1>1. /\ buffer \in Seq(Bytes) /\ sent \in Seq(Bytes)
      /\ Len(buffer) \in Nat /\ Len(sent) \in Nat
  BY DEF ParserTypeOK
<1>2. p \in 0 .. Len(sent) /\ Len(sent) = p + Len(buffer)
      /\ \A i \in 1 .. Len(buffer) : sent[p + i] = buffer[i]
  BY DEF Framed
<1>3. p \in Ends(sent) \cup {0}
  <2>1. CASE p > 0
    <3>1. PICK j \in p .. p : sent[j] = LF
      BY <1>2, <2>1 DEF Framed
    <3>. QED
      BY <1>1, <1>2, <2>1, <3>1 DEF Ends
  <2>. QED
    BY <2>1
<1>4. \A n \in 0 .. Len(buffer) : SubSeq(sent, p + 1, p + n) = SubSeq(buffer, 1, n)
  BY <1>1, <1>2, Shifted
<1>5. SubSeq(sent, p + 1, Len(sent)) = buffer
  <2>1. SubSeq(buffer, 1, Len(buffer)) = buffer
    <3>1. /\ SubSeq(buffer, 1, Len(buffer)) \in Seq(Bytes)
          /\ Len(SubSeq(buffer, 1, Len(buffer))) = Len(buffer)
          /\ \A i \in 1 .. Len(buffer) : SubSeq(buffer, 1, Len(buffer))[i] = buffer[i]
      BY <1>1, SubSeqFacts
    <3>. QED
      BY <1>1, <3>1, SameSequence
  <2>2. Len(buffer) \in 0 .. Len(buffer)
    BY <1>1
  <2>. QED
    BY <1>2, <1>4, <2>1, <2>2
<1>6. \A i \in 1 .. Len(buffer) : sent[p + i] = LF <=> i \in Ends(buffer)
  BY <1>1, <1>2 DEF Ends
<1>. QED
  BY <1>2, <1>3, <1>4, <1>5, <1>6

(* A parser that holds no line it could take has reported what the reference *)
(* says, and holds what the reference leaves over.                           *)
LEMMA AtRest ==
  ASSUME ParserTypeOK, NEW p \in Nat, Framed(p), Pinned(sent, p, device),
         AcceptedUpTo(sent, p, device, accepted), RefusedUpTo(sent, p, device, refused),
         \A i \in Ends(buffer) : i > MaxLine + 1
  PROVE  /\ Len(accepted) = Cardinality(Records(sent))
         /\ \A i \in Records(sent) : accepted[Rank(Records(sent), i)] = Line(sent, i)
         /\ Len(refused) = Cardinality(Unwanted(sent))
         /\ \A i \in Unwanted(sent) :
              refused[Rank(Unwanted(sent), i)] = Rejection(Judged(sent, i), Line(sent, i))
         /\ \A i \in Unwanted(sent) : Rank(Unwanted(sent), i) \in 1 .. Len(refused)
         /\ Unframed(sent) = buffer /\ Raising(sent) = {}
<1>. USE ParserAssumption
<1>1. /\ sent \in Seq(Bytes) /\ Len(buffer) \in Nat /\ Len(sent) \in Nat
      /\ device \in Devices \cup {NoDevice} /\ MaxLine \in Nat
  BY DEF ParserTypeOK
<1>2. p \in 0 .. Len(sent) /\ p \in Ends(sent) \cup {0} /\ Len(sent) = p + Len(buffer)
  BY FramedFacts DEF Framed
<1>3. ASSUME NEW i \in Ends(sent), i > p PROVE i > p + MaxLine + 1
  <2>1. PICK k : k = i - p
    OBVIOUS
  <2>2. i \in 1 .. Len(sent) /\ sent[i] = LF
    BY DEF Ends
  <2>3. k \in 1 .. Len(buffer) /\ p + k = i
    BY <1>1, <1>2, <1>3, <2>1, <2>2
  <2>4. k \in Ends(buffer)
    BY <2>2, <2>3, FramedFacts
  <2>. QED
    BY <1>1, <2>3, <2>4
<1>4. /\ Records(sent) = Good(sent, p, device) /\ Unwanted(sent) = Bad(sent, p, device)
      /\ Raising(sent) = {}
      /\ \A i \in Unwanted(sent) : Judged(sent, i) = Verdict(Line(sent, i), device)
      /\ Unframed(sent) = SubSeq(sent, p + 1, Len(sent))
  BY <1>1, <1>2, <1>3, WholeStream
<1>5. \A i \in Unwanted(sent) : Rank(Unwanted(sent), i) \in 1 .. Len(refused)
  BY <1>1, <1>4, DoneFacts, RankType DEF RefusedUpTo
<1>. QED
  BY <1>4, <1>5, FramedFacts DEF AcceptedUpTo, RefusedUpTo

(* The line the parser looks at next is the next of the stream.              *)
LEMMA NextOfStream ==
  ASSUME ParserTypeOK, NEW p \in Nat, Framed(p), Ends(buffer) # {}, ~LineTooLong(NextLine),
         NEW q, q = p + FirstEnd(buffer)
  PROVE  /\ q \in 1 .. Len(sent) /\ p < q /\ sent[q] = LF
         /\ \A j \in p + 1 .. q - 1 : sent[j] # LF
         /\ Line(sent, q) = NextLine
         /\ NextLine \in Seq(Bytes) /\ Len(NextLine) <= MaxLine + 1
<1>1. /\ sent \in Seq(Bytes) /\ buffer \in Seq(Bytes) /\ Len(buffer) \in Nat /\ Len(sent) \in Nat
      /\ MaxLine \in Nat
  BY ParserAssumption DEF ParserTypeOK
<1>2. PICK e : e = FirstEnd(buffer)
  OBVIOUS
<1>3. /\ e \in 1 .. Len(buffer) /\ buffer[e] = LF
      /\ \A i \in 1 .. Len(buffer) : buffer[i] = LF => e <= i
  BY <1>1, <1>2, FirstEndFacts
<1>4. q = p + e
  BY <1>2
<1>5. Len(sent) = p + Len(buffer) /\ p \in Ends(sent) \cup {0}
  BY FramedFacts DEF Framed
<1>6. q \in 1 .. Len(sent) /\ p < q
  BY <1>1, <1>3, <1>4, <1>5
<1>7. sent[q] = LF
  BY <1>3, <1>4 DEF Framed
<1>8. ASSUME NEW j \in p + 1 .. q - 1 PROVE sent[j] # LF
  <2>1. PICK k : k = j - p
    OBVIOUS
  <2>2. k \in 1 .. Len(buffer) /\ p + k = j /\ k < e
    BY <1>1, <1>3, <1>4, <2>1
  <2>3. buffer[k] # LF
    BY <1>1, <1>3, <2>2
  <2>. QED
    BY <2>2, <2>3 DEF Framed
<1>9. Line(sent, q) = NextLine
  <2>1. \A j \in Ends(sent) : j < q => j <= p
    BY <1>1, <1>6, <1>8 DEF Ends
  <2>2. Line(sent, q) = SubSeq(sent, p + 1, q)
    BY <1>1, <1>5, <1>6, <2>1, LineIs
  <2>3. SubSeq(sent, p + 1, p + e) = SubSeq(buffer, 1, e)
    <3>1. e \in 0 .. Len(buffer)
      BY <1>1, <1>3
    <3>. QED
      BY <3>1, FramedFacts
  <2>. QED
    BY <1>2, <1>4, <2>2, <2>3 DEF NextLine
<1>10. NextLine \in Seq(Bytes) /\ Len(NextLine) <= MaxLine + 1
  <2>1. NextLine \in Seq(Bytes) /\ Len(NextLine) = e
    BY <1>1, <1>2, <1>3, SubSeqFacts DEF NextLine
  <2>. QED
    BY <1>1, <1>3, <2>1 DEF LineTooLong
<1>. QED
  BY <1>6, <1>7, <1>8, <1>9, <1>10

LEMMA LineByLine ==
  ASSUME ParserTypeOK, NEW p \in Nat, Framed(p), Pinned(sent, p, device),
         AcceptedUpTo(sent, p, device, accepted), RefusedUpTo(sent, p, device, refused), ParseLine
  PROVE  /\ Pinned(sent', p + FirstEnd(buffer), device')
         /\ AcceptedUpTo(sent', p + FirstEnd(buffer), device', accepted')
         /\ RefusedUpTo(sent', p + FirstEnd(buffer), device', refused')
<1>1. /\ sent \in Seq(Bytes) /\ Len(sent) \in Nat /\ device \in Devices \cup {NoDevice}
      /\ MaxLine \in Nat /\ accepted \in Seq(Seq(Bytes)) /\ refused \in Seq(Refusals)
  BY ParserAssumption DEF ParserTypeOK, Refusals
<1>2. PICK e : e = FirstEnd(buffer)
  OBVIOUS
<1>4. PICK q : q = p + e
  OBVIOUS
<1>5. Ends(buffer) # {} /\ ~LineTooLong(NextLine) /\ q = p + FirstEnd(buffer)
  BY <1>2, <1>4 DEF ParseLine
<1>6. q \in 1 .. Len(sent) /\ p < q
  BY <1>5, NextOfStream
<1>7. sent[q] = LF
  BY <1>5, NextOfStream
<1>8. \A j \in p + 1 .. q - 1 : sent[j] # LF
  BY <1>5, NextOfStream
<1>9. Line(sent, q) = NextLine
  BY <1>5, NextOfStream
<1>10. NextLine \in Seq(Bytes) /\ Len(NextLine) <= MaxLine + 1
  BY <1>5, NextOfStream
<1>11. \A j \in Done(sent, p) : j < q
  BY <1>1, <1>6, <1>7, <1>8, NextDone
<1>12. /\ Good(sent, p, device) \in SUBSET Nat /\ IsFiniteSet(Good(sent, p, device))
       /\ Bad(sent, p, device) \in SUBSET Nat /\ IsFiniteSet(Bad(sent, p, device))
       /\ \A j \in Good(sent, p, device) : j < q
       /\ \A j \in Bad(sent, p, device) : j < q
  BY <1>1, <1>11, DoneFacts DEF Good, Bad
<1>13. sent' = sent /\ q \in Nat
  BY <1>6 DEF ParseLine
<1>14. CASE Verdict(Line(sent, q), device) = "accepted"
  <2>1. /\ accepted' = Append(accepted, Line(sent, q)) /\ refused' = refused
        /\ device' \in Named(Line(sent, q))
    <3>1. "accepted" \notin Reasons
      BY DEF Reasons
    <3>. QED
      BY <1>9, <1>14, <3>1 DEF ParseLine
  <2>2. ASSUME NEW c \in Named(Line(sent, q))
        PROVE  /\ Pinned(sent, q, c) /\ Bad(sent, q, c) = Bad(sent, p, device)
               /\ Good(sent, q, c) = Good(sent, p, device) \cup {q}
               /\ \A i \in Done(sent, p) : Verdict(Line(sent, i), c) = Verdict(Line(sent, i), device)
    <3>1. Len(Line(sent, q)) <= MaxLine + 1
      BY <1>9, <1>10
    <3>2. sent \in Seq(Bytes) /\ device \in Devices \cup {NoDevice} /\ Pinned(sent, p, device)
      BY <1>1
    <3>. QED
      BY <1>6, <1>7, <1>8, <1>14, <3>1, <3>2, NextRecord
  <2>3. /\ Len(accepted') = Cardinality(Good(sent, p, device) \cup {q})
        /\ accepted'[Rank(Good(sent, p, device) \cup {q}, q)] = Line(sent, q)
        /\ \A i \in Good(sent, p, device) :
             accepted'[Rank(Good(sent, p, device) \cup {q}, i)] = accepted[Rank(Good(sent, p, device), i)]
    <3>1. Len(accepted) = Cardinality(Good(sent, p, device)) /\ Line(sent, q) \in Seq(Bytes)
      BY <1>9, <1>10 DEF AcceptedUpTo
    <3>2. PICK S : S = Good(sent, p, device)
      OBVIOUS
    <3>3. /\ S \in SUBSET Nat /\ IsFiniteSet(S) /\ \A j \in S : j < q
          /\ Len(accepted) = Cardinality(S)
      BY <1>12, <3>1, <3>2
    <3>4. /\ Len(Append(accepted, Line(sent, q))) = Cardinality(S \cup {q})
          /\ Append(accepted, Line(sent, q))[Rank(S \cup {q}, q)] = Line(sent, q)
          /\ \A i \in S : Append(accepted, Line(sent, q))[Rank(S \cup {q}, i)] = accepted[Rank(S, i)]
      <4>1. accepted \in Seq(Seq(Bytes)) /\ q \in Nat /\ Line(sent, q) \in Seq(Bytes)
        BY <1>1, <1>13, <3>1
      <4>2. PICK t : t = Append(accepted, Line(sent, q))
        OBVIOUS
      <4>3. /\ Len(t) = Len(accepted) + 1 /\ \A i \in 1 .. Len(accepted) : t[i] = accepted[i]
            /\ t[Len(accepted) + 1] = Line(sent, q)
        BY <4>1, <4>2, AppendFacts
      <4>4. /\ Cardinality(S \cup {q}) = Len(accepted) + 1 /\ Rank(S \cup {q}, q) = Len(accepted) + 1
            /\ \A i \in S : Rank(S \cup {q}, i) = Rank(S, i)
        BY <4>1, <3>3, RankFacts
      <4>5. \A i \in S : Rank(S, i) \in 1 .. Len(accepted)
        BY <3>3, RankType
      <4>. QED
        BY <4>2, <4>3, <4>4, <4>5
    <3>. QED
      BY <2>1, <3>2, <3>4
  <2>4. AcceptedUpTo(sent, q, device', accepted')
    BY <2>1, <2>2, <2>3 DEF AcceptedUpTo
  <2>5. RefusedUpTo(sent, q, device', refused')
    BY <2>1, <2>2 DEF RefusedUpTo, Bad
  <2>. QED
    BY <1>2, <1>4, <1>13, <2>1, <2>2, <2>4, <2>5
<1>15. CASE Verdict(Line(sent, q), device) # "accepted"
  <2>. DEFINE x == Rejection(Verdict(Line(sent, q), device), Line(sent, q))
  <2>1. /\ refused' = Append(refused, x) /\ device' = device /\ accepted' = accepted
        /\ Verdict(Line(sent, q), device) \in Reasons
    BY <1>9, <1>15 DEF ParseLine
  <2>2. x \in Refusals
    BY <1>9, <1>10, <2>1 DEF Rejection, Refusals
  <2>3. /\ Pinned(sent, q, device) /\ Good(sent, q, device) = Good(sent, p, device)
        /\ Bad(sent, q, device) = Bad(sent, p, device) \cup {q}
    <3>1. Len(Line(sent, q)) <= MaxLine + 1
      BY <1>9, <1>10
    <3>2. sent \in Seq(Bytes) /\ device \in Devices \cup {NoDevice} /\ Pinned(sent, p, device)
      BY <1>1
    <3>3. Verdict(Line(sent, q), device) \notin {"accepted", "raises"}
      BY <2>1 DEF Reasons
    <3>. QED
      BY <1>6, <1>7, <1>8, <3>1, <3>2, <3>3, NextReject
  <2>. HIDE DEF x
  <2>4. /\ Len(refused') = Cardinality(Bad(sent, p, device) \cup {q})
        /\ refused'[Rank(Bad(sent, p, device) \cup {q}, q)] = x
        /\ \A i \in Bad(sent, p, device) :
             refused'[Rank(Bad(sent, p, device) \cup {q}, i)] = refused[Rank(Bad(sent, p, device), i)]
    <3>1. Len(refused) = Cardinality(Bad(sent, p, device))
      BY DEF RefusedUpTo
    <3>2. PICK S : S = Bad(sent, p, device)
      OBVIOUS
    <3>3. /\ S \in SUBSET Nat /\ IsFiniteSet(S) /\ \A j \in S : j < q
          /\ Len(refused) = Cardinality(S)
      BY <1>12, <3>1, <3>2
    <3>4. /\ Len(Append(refused, x)) = Cardinality(S \cup {q})
          /\ Append(refused, x)[Rank(S \cup {q}, q)] = x
          /\ \A i \in S : Append(refused, x)[Rank(S \cup {q}, i)] = refused[Rank(S, i)]
      <4>1. refused \in Seq(Refusals) /\ q \in Nat /\ x \in Refusals
        BY <1>1, <1>13, <2>2
      <4>2. PICK t : t = Append(refused, x)
        OBVIOUS
      <4>3. /\ Len(t) = Len(refused) + 1 /\ \A i \in 1 .. Len(refused) : t[i] = refused[i]
            /\ t[Len(refused) + 1] = x
        BY <4>1, <4>2, AppendFacts
      <4>4. /\ Cardinality(S \cup {q}) = Len(refused) + 1 /\ Rank(S \cup {q}, q) = Len(refused) + 1
            /\ \A i \in S : Rank(S \cup {q}, i) = Rank(S, i)
        BY <4>1, <3>3, RankFacts
      <4>5. \A i \in S : Rank(S, i) \in 1 .. Len(refused)
        BY <3>3, RankType
      <4>. QED
        BY <4>2, <4>3, <4>4, <4>5
    <3>. QED
      BY <2>1, <3>2, <3>4
  <2>5. RefusedUpTo(sent, q, device, refused')
    BY <2>3, <2>4 DEF RefusedUpTo, x
  <2>6. AcceptedUpTo(sent, q, device, accepted')
    BY <2>1, <2>3 DEF AcceptedUpTo
  <2>. QED
    BY <1>2, <1>4, <1>13, <2>1, <2>3, <2>5, <2>6
<1>. QED
  BY <1>14, <1>15

(* The last rejection, of a line that is too long or not finished.           *)
LEMMA LastRejection ==
  ASSUME ParserTypeOK, NEW p \in Nat, Framed(p), Pinned(sent, p, device),
         AcceptedUpTo(sent, p, device, accepted), RefusedUpTo(sent, p, device, refused),
         \A i \in Ends(buffer) : i > MaxLine + 1,
         NEW x \in Refusals, refused' = Append(refused, x),
         accepted' = accepted, sent' = sent,
         \/ /\ phase' = "finished" /\ ~HasLongLine(sent)
            /\ buffer # <<>> /\ x = Rejection("incomplete_line", buffer)
         \/ /\ phase' = "closed" /\ HasLongLine(sent)
            /\ \E n \in MaxLine + 1 .. Len(buffer) :
                 x = Rejection("line_too_long", SubSeq(buffer, 1, n))
  PROVE  ChunkingIsInvisible'
<1>1. /\ Len(accepted) = Cardinality(Records(sent))
      /\ \A i \in Records(sent) : accepted[Rank(Records(sent), i)] = Line(sent, i)
      /\ Len(refused) = Cardinality(Unwanted(sent)) /\ Unframed(sent) = buffer
      /\ Raising(sent) = {}
      /\ \A i \in Unwanted(sent) :
           refused[Rank(Unwanted(sent), i)] = Rejection(Judged(sent, i), Line(sent, i))
      /\ \A i \in Unwanted(sent) : Rank(Unwanted(sent), i) \in 1 .. Len(refused)
  BY AtRest
<1>2. refused \in Seq(Refusals)
  BY DEF ParserTypeOK, Refusals
<1>3. PICK t : t = refused'
  OBVIOUS
<1>4. /\ Len(t) = Len(refused) + 1 /\ t[Len(refused) + 1] = x
      /\ \A i \in 1 .. Len(refused) : t[i] = refused[i]
  BY <1>2, <1>3, AppendFacts
<1>5. \A i \in Unwanted(sent) :
        t[Rank(Unwanted(sent), i)] = Rejection(Judged(sent, i), Line(sent, i))
  BY <1>1, <1>4
<1>6. t[Len(t)] = x /\ Len(t) = Cardinality(Unwanted(sent)) + 1
  BY <1>1, <1>4
<1>7. CASE phase' = "finished"
  <2>1. Heard' = sent
    BY <1>7 DEF Heard
  <2>. QED
    BY <1>1, <1>3, <1>5, <1>6, <1>7, <2>1 DEF ChunkingIsInvisible
<1>8. CASE phase' = "closed"
  <2>1. Heard' = sent
    BY <1>8 DEF Heard
  <2>. QED
    BY <1>1, <1>3, <1>5, <1>6, <1>8, <2>1 DEF ChunkingIsInvisible
<1>. QED
  BY <1>7, <1>8

(* The beginning of a sequence is that of one that grew from it.             *)
LEMMA BeginningStays ==
  ASSUME NEW S, NEW s \in Seq(S), NEW t \in Seq(S), Grown(s, t), NEW n \in 0 .. Len(s)
  PROVE  SubSeq(t, 1, n) = SubSeq(s, 1, n)
<1>1. Len(s) \in Nat /\ Len(t) \in Nat /\ n \in 0 .. Len(t) /\ \A i \in 1 .. n : t[i] = s[i]
  BY DEF Grown
<1>2. /\ SubSeq(s, 1, n) \in Seq(S) /\ Len(SubSeq(s, 1, n)) = n
      /\ \A i \in 1 .. n : SubSeq(s, 1, n)[i] = s[i]
  BY SubSeqFacts
<1>3. /\ SubSeq(t, 1, n) \in Seq(S) /\ Len(SubSeq(t, 1, n)) = n
      /\ \A i \in 1 .. n : SubSeq(t, 1, n)[i] = t[i]
  BY <1>1, SubSeqFacts
<1>. QED
  BY <1>1, <1>2, <1>3, SameSequence

LEMMA WholeIs ==
  ASSUME NEW S, NEW s \in Seq(S), NEW t \in Seq(S), Grown(s, t)
  PROVE  SubSeq(t, 1, Len(s)) = s
<1>1. /\ SubSeq(t, 1, Len(s)) \in Seq(S) /\ Len(SubSeq(t, 1, Len(s))) = Len(s)
      /\ \A i \in 1 .. Len(s) : SubSeq(t, 1, Len(s))[i] = t[i]
  <2>1. Len(s) \in 0 .. Len(t)
    BY DEF Grown
  <2>. QED
    BY <2>1, SubSeqFacts
<1>. QED
  BY <1>1, SameSequence DEF Grown

(* The first line that raises: the reports of the reads before stand.        *)
LEMMA RaisedAt ==
  ASSUME ParserTypeOK, ParserInv, Reporting, LineRaises
  PROVE  ChunkingIsInvisible'
<1>1. /\ phase = "feeding" /\ phase' = "raised" /\ Ends(buffer) # {} /\ ~LineTooLong(NextLine)
      /\ Verdict(NextLine, device) = "raises" /\ sent' = sent /\ before' = before
      /\ accepted' = SubSeq(accepted, 1, before.accepted)
      /\ refused' = SubSeq(refused, 1, before.refused)
  BY DEF LineRaises
<1>2. /\ sent \in Seq(Bytes) /\ device \in Devices \cup {NoDevice}
      /\ Len(sent) \in Nat /\ MaxLine \in Nat
  BY ParserAssumption DEF ParserTypeOK
<1>3. PICK p \in Nat : Framed(p) /\ Pinned(sent, p, device)
  BY <1>1 DEF Reporting
<1>4. PICK q : q = p + FirstEnd(buffer)
  OBVIOUS
<1>5. /\ q \in 1 .. Len(sent) /\ p < q /\ sent[q] = LF /\ \A j \in p + 1 .. q - 1 : sent[j] # LF
      /\ Line(sent, q) = NextLine /\ NextLine \in Seq(Bytes) /\ Len(NextLine) <= MaxLine + 1
  BY <1>1, <1>3, <1>4, NextOfStream
<1>6. q \in Fitting(sent)
  <2>1. Done(sent, q) = Done(sent, p) \cup {q}
    BY <1>2, <1>5, NextDone
  <2>2. \A j \in Ends(sent) : j <= q => Len(Line(sent, j)) <= MaxLine + 1
    BY <1>3, <1>5, <2>1 DEF Done, Pinned
  <2>3. q \in Ends(sent)
    BY <1>2, <1>5 DEF Ends
  <2>. QED
    BY <2>2, <2>3 DEF Fitting
<1>7. Judged(sent, q) = "raises"
  <2>1. Owner(sent) \in Devices \cup {NoDevice}
    BY <1>2, OwnerType
  <2>2. Verdict(NextLine, Owner(sent)) = "raises"
    BY <1>1, <1>2, <1>5, <2>1, VerdictFacts
  <2>. QED
    BY <1>5, <2>2 DEF Judged
<1>8. Raising(sent) # {}
  BY <1>6, <1>7 DEF Raising
<1>9. Faithful(SubSeq(sent, 1, before.sent), accepted', refused')
  BY <1>1 DEF Reporting
<1>10. Heard' = SubSeq(sent, 1, before.sent)
  BY <1>1 DEF Heard
<1>11. PICK h : h = SubSeq(sent, 1, before.sent)
  OBVIOUS
<1>12. Heard' = h /\ Faithful(h, accepted', refused')
  BY <1>9, <1>10, <1>11
<1>13. Len(refused') \in Nat
  <2>1. Marked
    BY DEF ParserInv
  <2>. QED
    BY <2>1, Cut
<1>14. /\ Raising(h) = {} /\ ~HasLongLine(h)
       /\ Len(accepted') = Cardinality(Records(h))
       /\ \A i \in Records(h) : accepted'[Rank(Records(h), i)] = Line(h, i)
       /\ Len(refused') = Cardinality(Unwanted(h)) + 0
       /\ \A i \in Unwanted(h) :
            refused'[Rank(Unwanted(h), i)] = Rejection(Judged(h, i), Line(h, i))
  BY <1>12, <1>13 DEF Faithful
<1>15. Raising(sent') # {} /\ phase' # "finished" /\ phase' # "closed" /\ phase' # "ready"
  BY <1>1, <1>8
<1>. QED
  BY <1>12, <1>14, <1>15 DEF ChunkingIsInvisible

LEMMA ReportingStep ==
  ASSUME ParserTypeOK, ParserInv, Reporting, [ParserNext]_parserVars, ParserTypeOK', ParserInv'
  PROVE  Reporting'
<1>a. /\ buffer \in Seq(Bytes) /\ sent \in Seq(Bytes) /\ Len(buffer) \in Nat /\ Len(sent) \in Nat
      /\ sent' \in Seq(Bytes) /\ Len(buffer') \in Nat /\ MaxLine \in Nat
  BY ParserAssumption DEF ParserTypeOK
<1>b. /\ accepted \in Seq(Seq(Bytes)) /\ accepted' \in Seq(Seq(Bytes))
      /\ refused \in Seq(Refusals) /\ refused' \in Seq(Refusals)
  BY DEF ParserTypeOK, Refusals
<1>c. before.accepted \in 0 .. Len(accepted) /\ before.refused \in 0 .. Len(refused)
  <2>1. Marked
    BY DEF ParserInv
  <2>. QED
    BY <1>b, <2>1 DEF Marked
<1>1. ASSUME NEW chunk \in Chunks, Feed(chunk) PROVE Reporting'
  <2>1. PICK n \in 1 .. MaxChunk : chunk \in [1 .. n -> Alphabet]
    BY DEF Chunks
  <2>2. chunk \in Seq(Bytes)
    BY <2>1, ParserAssumption DEF Bytes
  <2>3. /\ phase = "ready" /\ phase' = "feeding"
        /\ buffer' = buffer \o chunk /\ sent' = sent \o chunk
        /\ UNCHANGED <<device, accepted, refused>>
    BY <1>1 DEF Feed
  <2>4. PICK p \in Nat : /\ Framed(p) /\ Pinned(sent, p, device)
                         /\ AcceptedUpTo(sent, p, device, accepted) /\ RefusedUpTo(sent, p, device, refused)
    BY <2>3 DEF Reporting
  <2>5. PICK q \in Nat : Framed(q)'
    BY <2>3 DEF ParserInv
  <2>6. q = p
    <3>1. Len(sent') = q + Len(buffer') /\ Len(sent) = p + Len(buffer)
      BY <2>4, <2>5 DEF Framed
    <3>2. Len(sent') = Len(sent) + Len(chunk) /\ Len(buffer') = Len(buffer) + Len(chunk)
          /\ Len(chunk) \in Nat
      BY <1>a, <2>2, <2>3
    <3>. QED
      BY <1>a, <3>1, <3>2
  <2>7. Len(sent) <= Len(sent') /\ \A i \in 1 .. Len(sent) : sent'[i] = sent[i]
    BY <1>a, <2>2, <2>3
  <2>8. p \in 0 .. Len(sent)
    BY <2>4 DEF Framed
  <2>9. /\ Done(sent', p) = Done(sent, p) /\ Good(sent', p, device) = Good(sent, p, device)
        /\ Bad(sent', p, device) = Bad(sent, p, device)
        /\ \A i \in Done(sent, p) : Line(sent', i) = Line(sent, i)
    BY <1>a, <2>7, <2>8, ReportsStay
  <2>10. Pinned(sent', p, device)
    BY <2>4, <2>9 DEF Pinned, Good
  <2>11. AcceptedUpTo(sent', p, device, accepted) /\ RefusedUpTo(sent', p, device, refused)
    BY <2>4, <2>9 DEF AcceptedUpTo, RefusedUpTo, Good, Bad
  <2>12. Faithful(sent, accepted, refused)
    <3>1. Len(buffer) <= MaxLine /\ \A i \in Ends(buffer) : i > MaxLine + 1
      BY <2>3 DEF ParserInv
    <3>2. ~HasLongLine(sent)
      BY <2>4, <3>1, NoLongLine
    <3>. QED
      BY <2>4, <3>1, <3>2, AtRest DEF Faithful
  <2>13. /\ before'.accepted = Len(accepted) /\ before'.refused = Len(refused)
         /\ before'.sent = Len(sent)
    BY <1>1 DEF Feed, Mark
  <2>14. Grown(sent, sent') /\ Grown(accepted, accepted) /\ Grown(refused, refused)
    BY <1>b, <2>7 DEF Grown
  <2>15. /\ SubSeq(sent', 1, before'.sent) = sent
         /\ SubSeq(accepted', 1, before'.accepted) = accepted
         /\ SubSeq(refused', 1, before'.refused) = refused
    BY <1>a, <1>b, <2>3, <2>13, <2>14, WholeIs
  <2>16. Faithful(SubSeq(sent', 1, before'.sent), SubSeq(accepted', 1, before'.accepted),
                  SubSeq(refused', 1, before'.refused))
    BY <2>12, <2>15
  <2>. QED
    BY <2>3, <2>5, <2>6, <2>10, <2>11, <2>16 DEF Reporting
<1>2. CASE ParseLine
  <2>1. phase = "feeding" /\ phase' = phase /\ Ends(buffer) # {} /\ buffer' = Rest /\ sent' = sent
    BY <1>2 DEF ParseLine
  <2>2. PICK p \in Nat : /\ Framed(p) /\ Pinned(sent, p, device)
                         /\ AcceptedUpTo(sent, p, device, accepted) /\ RefusedUpTo(sent, p, device, refused)
    BY <2>1 DEF Reporting
  <2>3. PICK q \in Nat : Framed(q)'
    BY <2>1 DEF ParserInv
  <2>4. FirstEnd(buffer) \in 1 .. Len(buffer)
    BY <1>a, <2>1, FirstEndFacts
  <2>5. Len(buffer') = Len(buffer) - FirstEnd(buffer)
    BY <2>1, RestFacts
  <2>6. q = p + FirstEnd(buffer)
    <3>1. Len(sent') = q + Len(buffer') /\ Len(sent) = p + Len(buffer)
      BY <2>2, <2>3 DEF Framed
    <3>2. PICK e : e = FirstEnd(buffer)
      OBVIOUS
    <3>3. e \in Nat /\ Len(buffer') = Len(buffer) - e /\ Len(sent') = Len(sent)
      BY <1>a, <2>1, <2>4, <2>5, <3>2
    <3>4. q = p + e
      BY <1>a, <3>1, <3>3
    <3>. QED
      BY <3>2, <3>4
  <2>7. /\ Pinned(sent', q, device') /\ AcceptedUpTo(sent', q, device', accepted')
        /\ RefusedUpTo(sent', q, device', refused')
    BY <1>2, <2>2, <2>6, LineByLine
  <2>8. Grown(accepted, accepted') /\ Grown(refused, refused')
    <3>1. phase' # "raised"
      BY <2>1
    <3>. QED
      BY <3>1, ReportsGrow DEF LineRaises
  <2>9. /\ SubSeq(accepted', 1, before.accepted) = SubSeq(accepted, 1, before.accepted)
        /\ SubSeq(refused', 1, before.refused) = SubSeq(refused, 1, before.refused)
    BY <1>b, <1>c, <2>8, BeginningStays
  <2>10. Faithful(SubSeq(sent', 1, before'.sent), SubSeq(accepted', 1, before'.accepted),
                  SubSeq(refused', 1, before'.refused))
    <3>1. before' = before
      BY <1>2 DEF ParseLine
    <3>. QED
      BY <2>1, <2>9, <3>1 DEF Reporting
  <2>. QED
    BY <2>1, <2>3, <2>7, <2>10 DEF Reporting
<1>3. CASE KeepRemainder
  <2>1. UNCHANGED <<buffer, device, accepted, refused, sent>> /\ phase = "feeding" /\ phase' = "ready"
    BY <1>3 DEF KeepRemainder
  <2>2. PICK p \in Nat : /\ Framed(p) /\ Pinned(sent, p, device)
                         /\ AcceptedUpTo(sent, p, device, accepted) /\ RefusedUpTo(sent, p, device, refused)
    BY <2>1 DEF Reporting
  <2>3. Framed(p)'
    BY <2>1, <2>2 DEF Framed
  <2>. QED
    BY <2>1, <2>2, <2>3 DEF Reporting
<1>4. CASE RejectLongLine \/ RejectLongRemainder
  <2>1. /\ phase = "feeding" /\ phase' = "closed"
        /\ sent' = sent /\ accepted' = accepted
    BY <1>4 DEF RejectLongLine, RejectLongRemainder
  <2>2. PICK p \in Nat : /\ Framed(p) /\ Pinned(sent, p, device)
                         /\ AcceptedUpTo(sent, p, device, accepted) /\ RefusedUpTo(sent, p, device, refused)
    BY <2>1 DEF Reporting
  <2>3. PICK n \in MaxLine + 1 .. Len(buffer) :
          /\ refused' = Append(refused, Rejection("line_too_long", SubSeq(buffer, 1, n)))
          /\ \A i \in Ends(buffer) : i > MaxLine + 1
    <3>1. CASE RejectLongLine
      <4>1. /\ Ends(buffer) # {} /\ LineTooLong(NextLine)
            /\ refused' = Append(refused, Rejection("line_too_long", NextLine))
        BY <3>1 DEF RejectLongLine
      <4>2. /\ FirstEnd(buffer) \in 1 .. Len(buffer)
            /\ \A i \in 1 .. Len(buffer) : buffer[i] = LF => FirstEnd(buffer) <= i
        BY <1>a, <4>1, FirstEndFacts
      <4>3. Len(NextLine) = FirstEnd(buffer)
        BY <1>a, <4>2, SubSeqFacts DEF NextLine
      <4>4. FirstEnd(buffer) > MaxLine + 1
        BY <1>a, <4>1, <4>2, <4>3 DEF LineTooLong
      <4>5. \A i \in Ends(buffer) : i > MaxLine + 1
        BY <1>a, <4>2, <4>4 DEF Ends
      <4>. QED
        BY <1>a, <4>1, <4>2, <4>4, <4>5 DEF NextLine
    <3>2. CASE RejectLongRemainder
      <4>1. /\ Ends(buffer) = {} /\ Len(buffer) > MaxLine
            /\ refused' = Append(refused, Rejection("line_too_long", buffer))
        BY <3>2 DEF RejectLongRemainder
      <4>2. SubSeq(buffer, 1, Len(buffer)) = buffer
        BY <1>a, FramedFacts, <2>2
      <4>3. Len(buffer) \in MaxLine + 1 .. Len(buffer) /\ \A i \in Ends(buffer) : i > MaxLine + 1
        BY <1>a, <4>1
      <4>. QED
        BY <4>1, <4>2, <4>3
    <3>. QED
      BY <1>4, <3>1, <3>2
  <2>4. Rejection("line_too_long", SubSeq(buffer, 1, n)) \in Refusals
    <3>1. SubSeq(buffer, 1, n) \in Seq(Bytes)
      BY <1>a, SubSeqFacts
    <3>. QED
      BY <3>1 DEF Rejection, Refusals, Reasons
  <2>5. HasLongLine(sent)
    BY <2>1 DEF ParserInv
  <2>6. ChunkingIsInvisible'
    BY <2>1, <2>2, <2>3, <2>4, <2>5, LastRejection
  <2>. QED
    BY <2>1, <2>6 DEF Reporting
<1>5. CASE Finish
  <2>1. /\ phase = "ready" /\ phase' = "finished" /\ sent' = sent /\ accepted' = accepted
        /\ refused' = IF buffer = <<>> THEN refused
                      ELSE Append(refused, Rejection("incomplete_line", buffer))
    BY <1>5 DEF Finish
  <2>2. PICK p \in Nat : /\ Framed(p) /\ Pinned(sent, p, device)
                         /\ AcceptedUpTo(sent, p, device, accepted) /\ RefusedUpTo(sent, p, device, refused)
    BY <2>1 DEF Reporting
  <2>3. \A i \in Ends(buffer) : i > MaxLine + 1
    BY <2>1 DEF ParserInv
  <2>4. ~HasLongLine(sent)
    BY <2>1 DEF ParserInv
  <2>5. CASE buffer = <<>>
    <3>1. refused' = refused
      BY <2>1, <2>5
    <3>2. Heard' = sent
      BY <2>1 DEF Heard
    <3>3. ChunkingIsInvisible'
      BY <2>1, <2>2, <2>3, <2>4, <2>5, <3>1, <3>2, AtRest DEF ChunkingIsInvisible
    <3>. QED
      BY <2>1, <3>3 DEF Reporting
  <2>6. CASE buffer # <<>>
    <3>1. Rejection("incomplete_line", buffer) \in Refusals
      BY <1>a DEF Rejection, Refusals, Reasons
    <3>2. ChunkingIsInvisible'
      BY <2>1, <2>2, <2>3, <2>4, <2>6, <3>1, LastRejection
    <3>. QED
      BY <2>1, <3>2 DEF Reporting
  <2>. QED
    BY <2>5, <2>6
<1>6. CASE UNCHANGED parserVars
  <2>1. ASSUME NEW p \in Nat, Framed(p) PROVE Framed(p)'
    BY <1>6, <2>1 DEF parserVars, Framed
  <2>2. ASSUME ChunkingIsInvisible PROVE ChunkingIsInvisible'
    BY <1>6, <2>2 DEF parserVars, ChunkingIsInvisible, Heard
  <2>. QED
    BY <1>6, <2>1, <2>2 DEF parserVars, Reporting
<1>7. CASE LineRaises
  <2>1. phase' = "raised" /\ ChunkingIsInvisible'
    BY <1>7, RaisedAt DEF LineRaises
  <2>. QED
    BY <2>1 DEF Reporting
<1>. QED
  BY <1>1, <1>2, <1>3, <1>4, <1>5, <1>6, <1>7 DEF ParserNext, FeedLoop

(* The parser alone, of any stream in any chunks. *)
ParserSafe == ParserTypeOK /\ ParserInv /\ Reporting

THEOREM ParserInvariance == ParserSpec => []ParserSafe
<1>1. ParserInit => ParserSafe
  <2>. SUFFICES ASSUME ParserInit PROVE ParserSafe
    OBVIOUS
  <2>. USE DEF ParserInit
  <2>1. ParserTypeOK
    BY DEF ParserTypeOK
  <2>2. Framed(0)
    BY DEF Framed
  <2>3. ParserInv
    BY <2>2, ParserAssumption DEF ParserInv, Marked, Ends
  <2>4. Done(sent, 0) = {}
    BY DEF Done, Ends
  <2>5. Good(sent, 0, device) = {} /\ Bad(sent, 0, device) = {}
    BY <2>4 DEF Good, Bad
  <2>6. /\ Pinned(sent, 0, device) /\ AcceptedUpTo(sent, 0, device, accepted)
        /\ RefusedUpTo(sent, 0, device, refused)
    BY <2>4, <2>5, FS_EmptySet DEF Pinned, AcceptedUpTo, RefusedUpTo
  <2>. QED
    BY <2>1, <2>2, <2>3, <2>6 DEF ParserSafe, Reporting
<1>2. ParserSafe /\ [ParserNext]_parserVars => ParserSafe'
  BY ParserStep, ReportingStep DEF ParserSafe
<1>. QED
  BY <1>1, <1>2, PTL DEF ParserSpec

LEMMA ReportingSuffices == ParserSafe => ChunkingIsInvisible
<1>. SUFFICES ASSUME ParserSafe, phase = "ready" PROVE ChunkingIsInvisible
  BY DEF ParserSafe, ParserTypeOK, Reporting, ChunkingIsInvisible
<1>1. ParserTypeOK /\ ParserInv
  BY DEF ParserSafe
<1>2. PICK p \in Nat : /\ Framed(p) /\ Pinned(sent, p, device)
                       /\ AcceptedUpTo(sent, p, device, accepted) /\ RefusedUpTo(sent, p, device, refused)
  BY DEF ParserSafe, Reporting
<1>3. Len(buffer) <= MaxLine /\ \A i \in Ends(buffer) : i > MaxLine + 1
  BY <1>1 DEF ParserInv
<1>4. ~HasLongLine(sent)
  BY <1>1, <1>2, <1>3, NoLongLine
<1>5. Heard = sent
  BY DEF Heard
<1>. QED
  BY <1>1, <1>2, <1>3, <1>4, <1>5, AtRest DEF ChunkingIsInvisible

(* A connection reads its stream as its parser alone would.                  *)
THEOREM ReadsByItsParser == Spec => ParserSpec
<1>1. Init => ParserInit
  BY DEF Init
<1>. QED
  BY <1>1, ParserMoves, PTL DEF Spec, ParserSpec

\* However the client's bytes are cut into reads (protocol.py, feed), the records
\* and the rejections the parser has reported are those of the whole stream, up to
\* a line nested too deeply: that one costs the chunk it ends in, and no other.
THEOREM ChunksInvisible == Spec => []ChunkingIsInvisible
  BY ReadsByItsParser, ParserInvariance, ReportingSuffices, PTL
=============================================================================
