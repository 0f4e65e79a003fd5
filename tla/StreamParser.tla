---------------------------- MODULE StreamParser ----------------------------
(***************************************************************************)
(* JsonlStreamParser of protocol.py: one connection's bytes, read in       *)
(* chunks of any size, are framed into lines and each line is accepted or  *)
(* rejected. Network and operating system choose the chunks, so what the   *)
(* parser reports should not depend on them.                               *)
(*                                                                         *)
(* A byte is abstracted to what framing and validation tell apart: a       *)
(* newline, JSON white space (a carriage return is one), a byte that is    *)
(* not UTF-8, and bytes that stand for a whole JSON value: a scalar, an    *)
(* object without a deviceId, an object with the deviceId d, or a value    *)
(* nested too deeply for json.loads, which raises RecursionError. The body *)
(* of feed's loop is one action; the parser belongs to one thread, which   *)
(* gives it up when feed raises.                                           *)
(***************************************************************************)
EXTENDS Integers, Sequences, FiniteSets

CONSTANTS
  Devices,   \* device identifiers
  NoDevice,  \* _device_id before the first accepted record
  MaxLine,   \* max_line_bytes
  Alphabet,  \* the bytes a client sends
  MaxChunk,  \* bound: bytes one recv returns (read_buffer_bytes)
  MaxSent    \* bound: bytes a client sends

LF == "lf"
Marks == {LF, "blank", "not_utf8", "scalar", "anonymous", "nested"}

ASSUME ParserAssumption ==
  /\ NoDevice \notin Devices
  /\ MaxLine \in Nat \ {0}
  /\ MaxChunk \in Nat \ {0}
  /\ MaxSent \in Nat
  /\ Alphabet \subseteq Marks \cup Devices
  /\ Devices \cap Marks = {}

VARIABLES
  buffer,    \* _buffer
  device,    \* _device_id
  phase,     \* "ready", "feeding", "closed" (close_connection), "finished" or "raised"
  accepted,  \* raw lines of all records reported so far, this feed's included
  refused,   \* all rejections reported so far, with their raw bytes
  sent,      \* history: the bytes fed so far
  before     \* what there was of these three when feed or finish was last called

parserVars == <<buffer, device, phase, accepted, refused, sent, before>>

Bytes   == Marks \cup Devices
Reasons == {"line_too_long", "incomplete_line", "invalid_utf8", "invalid_json",
            "json_not_object", "missing_device_id", "device_id_changed"}

Rejection(why, raw) == [reason |-> why, raw |-> raw]

ParserTypeOK ==
  /\ buffer \in Seq(Bytes)
  /\ device \in Devices \cup {NoDevice}
  /\ phase \in {"ready", "feeding", "closed", "finished", "raised"}
  /\ accepted \in Seq(Seq(Bytes))
  /\ refused \in Seq([reason : Reasons, raw : Seq(Bytes)])
  /\ sent \in Seq(Bytes)
  /\ before \in [accepted : Nat, refused : Nat, sent : Nat]

ParserInit ==
  /\ buffer = <<>> /\ device = NoDevice /\ phase = "ready"
  /\ accepted = <<>> /\ refused = <<>> /\ sent = <<>>
  /\ before = [accepted |-> 0, refused |-> 0, sent |-> 0]

-----------------------------------------------------------------------------
(* _parse_line: the first check that fails names the reason. *)

Has(raw, byte) == \E i \in DOMAIN raw : raw[i] = byte
Named(raw)     == {d \in Devices : Has(raw, d)}
Values(raw)    == {i \in DOMAIN raw : raw[i] \notin {LF, "blank"}}

(* json.loads comes to a value nested too deeply before any other.           *)
TooDeep(raw) ==
  \E i \in Values(raw) : raw[i] = "nested" /\ \A j \in Values(raw) : i <= j

Verdict(raw, pinned) ==
  IF Has(raw, "not_utf8") THEN "invalid_utf8"
  ELSE IF TooDeep(raw) THEN "raises"
  ELSE IF Cardinality(Values(raw)) # 1 THEN "invalid_json"
  ELSE IF Has(raw, "scalar") THEN "json_not_object"
  ELSE IF Has(raw, "anonymous") THEN "missing_device_id"
  ELSE IF pinned # NoDevice /\ pinned \notin Named(raw) THEN "device_id_changed"
  ELSE "accepted"

-----------------------------------------------------------------------------
(* feed. The records and rejections of one call are reported when it returns.*)

Mark == before' = [accepted |-> Len(accepted), refused |-> Len(refused), sent |-> Len(sent)]

Ends(s)     == {i \in DOMAIN s : s[i] = LF}
FirstEnd(s) == CHOOSE i \in Ends(s) : \A j \in Ends(s) : i <= j

Feed(chunk) ==
  /\ phase = "ready" /\ Len(sent) + Len(chunk) <= MaxSent
  /\ buffer' = buffer \o chunk
  /\ sent' = sent \o chunk
  /\ phase' = "feeding" /\ Mark
  /\ UNCHANGED <<device, accepted, refused>>

(* The line up to the first newline, its newline included. *)
NextLine == SubSeq(buffer, 1, FirstEnd(buffer))
Rest     == SubSeq(buffer, FirstEnd(buffer) + 1, Len(buffer))

\* Mutant: the newline counts towards the length of a complete line.
BugLineTooLong(raw) == Len(raw) > MaxLine

LineTooLong(raw) == Len(raw) - 1 > MaxLine

ParseLine ==
  /\ phase = "feeding" /\ Ends(buffer) # {} /\ ~LineTooLong(NextLine)
  /\ buffer' = Rest
  /\ LET verdict == Verdict(NextLine, device) IN
       \/ /\ verdict = "accepted"
          /\ accepted' = Append(accepted, NextLine)
          /\ device' \in Named(NextLine)
          /\ UNCHANGED refused
       \/ /\ verdict \in Reasons
          /\ refused' = Append(refused, Rejection(verdict, NextLine))
          /\ UNCHANGED <<accepted, device>>
  /\ UNCHANGED <<phase, sent, before>>

(* The error leaves feed with the line already taken off the buffer, and     *)
(* what this call has found is lost with it.                                 *)
LineRaises ==
  /\ phase = "feeding" /\ Ends(buffer) # {} /\ ~LineTooLong(NextLine)
  /\ Verdict(NextLine, device) = "raises"
  /\ buffer' = Rest /\ phase' = "raised"
  /\ accepted' = SubSeq(accepted, 1, before.accepted)
  /\ refused' = SubSeq(refused, 1, before.refused)
  /\ UNCHANGED <<device, sent, before>>

RejectLongLine ==
  /\ phase = "feeding" /\ Ends(buffer) # {} /\ LineTooLong(NextLine)
  /\ buffer' = <<>>
  /\ refused' = Append(refused, Rejection("line_too_long", NextLine))
  /\ phase' = "closed"
  /\ UNCHANGED <<device, accepted, sent, before>>

\* Mutant: an unterminated line may grow without limit.
BugKeepRemainder ==
  /\ phase = "feeding" /\ Ends(buffer) = {}
  /\ phase' = "ready"
  /\ UNCHANGED <<buffer, device, accepted, refused, sent, before>>

KeepRemainder ==
  /\ phase = "feeding" /\ Ends(buffer) = {} /\ Len(buffer) <= MaxLine
  /\ phase' = "ready"
  /\ UNCHANGED <<buffer, device, accepted, refused, sent, before>>

RejectLongRemainder ==
  /\ phase = "feeding" /\ Ends(buffer) = {} /\ Len(buffer) > MaxLine
  /\ buffer' = <<>>
  /\ refused' = Append(refused, Rejection("line_too_long", buffer))
  /\ phase' = "closed"
  /\ UNCHANGED <<device, accepted, sent, before>>

FeedLoop == ParseLine \/ LineRaises \/ RejectLongLine \/ KeepRemainder \/ RejectLongRemainder

(* finish: the stream ended, on a record boundary or not. *)
Finish ==
  /\ phase = "ready"
  /\ refused' = IF buffer = <<>> THEN refused
                ELSE Append(refused, Rejection("incomplete_line", buffer))
  /\ buffer' = <<>> /\ phase' = "finished" /\ Mark
  /\ UNCHANGED <<device, accepted, sent>>

Chunks == UNION {[1..n -> Alphabet] : n \in 1..MaxChunk}

ParserNext == (\E chunk \in Chunks : Feed(chunk)) \/ FeedLoop \/ Finish

ParserSpec == ParserInit /\ [][ParserNext]_parserVars

-----------------------------------------------------------------------------
(* The reference: the whole stream s, read at once. A line is known by the   *)
(* place of its newline.                                                     *)

LastBefore(S, i) == CHOOSE b \in S \cup {0} : b < i /\ \A j \in S : j < i => j <= b
Rank(S, i)       == Cardinality({j \in S : j <= i})
Line(s, i)       == SubSeq(s, LastBefore(Ends(s), i) + 1, i)

(* The lines before the first whose content is longer than the limit, and    *)
(* what comes after them.                                                    *)
Fitting(s)     == {i \in Ends(s) : \A j \in Ends(s) : j <= i => Len(Line(s, j)) <= MaxLine + 1}
Unframed(s)    == SubSeq(s, LastBefore(Fitting(s), Len(s) + 1) + 1, Len(s))
HasLongLine(s) == \E i \in DOMAIN s : i + MaxLine <= Len(s) /\ Ends(SubSeq(s, i, i + MaxLine)) = {}

(* The device of the first line that is a valid record. *)
Valid(s)      == {i \in Ends(s) : Verdict(Line(s, i), NoDevice) = "accepted"}
FirstValid(s) == CHOOSE i \in Valid(s) : \A j \in Valid(s) : i <= j
Owner(s)      == IF Valid(s) = {} THEN NoDevice
                 ELSE CHOOSE d \in Named(Line(s, FirstValid(s))) : TRUE

Judged(s, i) == Verdict(Line(s, i), Owner(s))
Records(s)   == {i \in Fitting(s) : Judged(s, i) = "accepted"}
Unwanted(s)  == Fitting(s) \ Records(s)
Raising(s)   == {i \in Fitting(s) : Judged(s, i) = "raises"}

-----------------------------------------------------------------------------
(* What the reports must account for: all that was sent, but for the chunk   *)
(* of a feed that raised.                                                    *)
Heard == IF phase = "raised" THEN SubSeq(sent, 1, before.sent) ELSE sent

(* However the stream is cut into chunks, the records are those of the whole *)
(* stream, in order, and so are the rejections; the connection is ended      *)
(* exactly when some line's content passes the limit. Only how much of that  *)
(* line its rejection carries depends on the chunks: at least what shows it  *)
(* is too long, never more than what was read. A line that is too deeply     *)
(* nested takes with it the chunk that completes it, and no other: what was  *)
(* read before is reported in full, and nothing is reported after it.        *)
ChunkingIsInvisible ==
  phase # "feeding" =>
    /\ Raising(Heard) = {} /\ (phase = "raised" => Raising(sent) # {})
    /\ Len(accepted) = Cardinality(Records(Heard))
    /\ \A i \in Records(Heard) : accepted[Rank(Records(Heard), i)] = Line(Heard, i)
    /\ phase = "closed" <=> HasLongLine(Heard)
    /\ LET last == refused[Len(refused)]
           unended == phase = "finished" /\ Unframed(sent) # <<>>
       IN /\ Len(refused) = Cardinality(Unwanted(Heard)) + IF phase = "closed" \/ unended THEN 1 ELSE 0
          /\ phase = "ready" => buffer = Unframed(sent)
          /\ unended => last = Rejection("incomplete_line", Unframed(sent))
          /\ phase = "closed" =>
               \E n \in MaxLine + 1 .. Len(Unframed(sent)) :
                 last = Rejection("line_too_long", SubSeq(Unframed(sent), 1, n))
    /\ \A i \in Unwanted(Heard) :
         refused[Rank(Unwanted(Heard), i)] = Rejection(Judged(Heard, i), Line(Heard, i))

(* A client that never sends a newline cannot make the parser hold more than *)
(* one line's worth of bytes between two reads, nor more than that and one   *)
(* chunk during a feed or after one that raised.                             *)
BufferBounded ==
  /\ Len(buffer) <= MaxLine + MaxChunk
  /\ phase \notin {"feeding", "raised"} => Len(buffer) <= MaxLine
=============================================================================
