----------------------------- MODULE Connection -----------------------------
(***************************************************************************)
(* One client connection: CollectorRequestHandler of server.py reading     *)
(* into the parser of StreamParser and storing what it reports, records in *)
(* the device's archive, rejections in the connection's own diagnostic     *)
(* file (RejectedConnectionRecorder of storage.py). Any storage call may   *)
(* fail, the client may reset the connection, and server shutdown may end  *)
(* it.                                                                     *)
(*                                                                         *)
(* The archive's side of append_record is SessionStorage's, the diagnostic *)
(* directory's side of opening and closing is RejectedFiles': here each is *)
(* a call that returns or raises.                                          *)
(***************************************************************************)
EXTENDS StreamParser

CONSTANTS
  Faults,  \* TRUE when storage calls may raise
  Resets   \* TRUE when recv may raise something other than a timeout

ASSUME HandlerAssumption == {Faults, Resets} \subseteq BOOLEAN

VARIABLES
  pc,        \* where handle() is
  ending,    \* the close_reason this result leads to, "none" to go on reading
  reason,    \* close_reason
  taken,     \* records of accepted that the loop over result.records has passed
  noted,     \* rejections of refused that the second loop has passed
  archive,   \* what append_record has stored, in order
  recorder,  \* the diagnostic recorder: "none", "open" or "released"
  held,      \* handle() has the recorder in rejected_recorder
  created,   \* recorder_created
  recorded,  \* recorded_rejection
  file,      \* what each write left in the diagnostic file
  total,     \* writes counted in _total_bytes
  events,    \* the events about the diagnostic file, in order
  shutting   \* server shutdown has closed the request

handlerVars  == <<pc, ending, reason, taken, noted, held, created, recorded>>
recorderVars == <<recorder, file, total, events>>
vars == <<parserVars, handlerVars, archive, recorderVars, shutting>>

Endings      == {"eof", "socket_timeout", "line_too_long"}
CloseReasons == Endings \cup {"handler_error", "server_shutdown"}
Started(n)        == [event |-> "started", why |-> "none", total |-> n]
Rejected(why, n)  == [event |-> "rejected", why |-> why, total |-> n]
Closed(why, n)    == [event |-> "closed", why |-> why, total |-> n]

TypeOK ==
  /\ ParserTypeOK
  /\ pc \in {"recv", "feed", "append", "reject", "note", "finally", "done"}
  /\ ending \in Endings \cup {"none"}
  /\ reason \in Endings \cup {"handler_error"}
  /\ taken \in Nat /\ noted \in Nat
  /\ archive \in Seq(Seq(Bytes))
  /\ recorder \in {"none", "open", "released"}
  /\ {held, created, recorded, shutting} \subseteq BOOLEAN
  /\ file \in Seq(Seq(Bytes)) /\ total \in Nat
  /\ events \in Seq([event : {"started", "rejected", "closed"},
                     why : Reasons \cup CloseReasons \cup {"none"}, total : Nat])

Init ==
  /\ ParserInit
  /\ pc = "recv" /\ ending = "none" /\ reason = "handler_error"
  /\ taken = 0 /\ noted = 0
  /\ archive = <<>>
  /\ recorder = "none" /\ held = FALSE /\ created = FALSE /\ recorded = FALSE
  /\ file = <<>> /\ total = 0 /\ events = <<>>
  /\ shutting = FALSE

-----------------------------------------------------------------------------
(* recv, and what handle() does with its outcome. *)

Receive(chunk) ==
  /\ pc = "recv" /\ Feed(chunk)
  /\ pc' = "feed"
  /\ UNCHANGED <<ending, reason, taken, noted, held, created, recorded, archive,
                 recorderVars, shutting>>

\* Mutant: a line that is too long ends the handler before its result is stored.
BugParseMore ==
  /\ pc = "feed" /\ FeedLoop
  /\ pc' = CASE phase' = "feeding" -> "feed" [] phase' \in {"closed", "raised"} -> "finally"
             [] OTHER -> "append"
  /\ reason' = IF phase' = "closed" THEN "line_too_long" ELSE reason
  /\ ending' = "none"
  /\ UNCHANGED <<taken, noted, held, created, recorded, archive,
                 recorderVars, shutting>>

(* When feed raises, handle() logs it and ends: reason is handler_error.     *)
ParseMore ==
  /\ pc = "feed" /\ FeedLoop
  /\ pc' = CASE phase' = "feeding" -> "feed" [] phase' = "raised" -> "finally"
             [] OTHER -> "append"
  /\ ending' = IF phase' = "closed" THEN "line_too_long" ELSE "none"
  /\ UNCHANGED <<reason, taken, noted, held, created, recorded, archive,
                 recorderVars, shutting>>

(* recv returns nothing, because the client or the shutdown ended the        *)
(* stream, or times out: the parser is finished and its result stored.       *)
ReceiveEnd(how) ==
  /\ pc = "recv" /\ Finish
  /\ pc' = "append" /\ ending' = how
  /\ UNCHANGED <<reason, taken, noted, held, created, recorded, archive,
                 recorderVars, shutting>>

(* Any other error: handle() logs it. The parser is not finished. *)
ReceiveFails ==
  /\ Resets /\ pc = "recv"
  /\ pc' = "finally"
  /\ UNCHANGED <<parserVars, ending, reason, taken, noted, held, created,
                 recorded, archive, recorderVars, shutting>>

(* _close_active_requests_and_wait shuts the socket down. *)
ShutRequest ==
  /\ ~shutting /\ pc # "done"
  /\ shutting' = TRUE
  /\ UNCHANGED <<parserVars, handlerVars, archive, recorderVars>>

-----------------------------------------------------------------------------
(* _store_feed_result: the records first. *)

StoreRecord ==
  /\ pc = "append" /\ taken < Len(accepted)
  /\ archive' = Append(archive, accepted[taken + 1])
  /\ taken' = taken + 1
  /\ UNCHANGED <<parserVars, pc, ending, reason, noted, held, created, recorded,
                 recorderVars, shutting>>

\* Mutant: a record that cannot be stored is skipped.
BugStoreFails ==
  /\ Faults /\ pc = "append" /\ taken < Len(accepted)
  /\ taken' = taken + 1
  /\ UNCHANGED <<parserVars, pc, ending, reason, noted, held, created, recorded,
                 archive, recorderVars, shutting>>

(* append_record raises: the rest of this result is dropped. *)
StoreFails ==
  /\ Faults /\ pc = "append" /\ taken < Len(accepted)
  /\ pc' = "finally"
  /\ UNCHANGED <<parserVars, ending, reason, taken, noted, held, created, recorded,
                 archive, recorderVars, shutting>>

RecordsStored ==
  /\ pc = "append" /\ taken = Len(accepted)
  /\ pc' = "reject" /\ created' = FALSE /\ recorded' = FALSE
  /\ UNCHANGED <<parserVars, ending, reason, taken, noted, held, archive,
                 recorderVars, shutting>>

-----------------------------------------------------------------------------
(* The rejections: the recorder is opened with the first of them. *)

OpenRecorder ==
  /\ pc = "reject" /\ noted < Len(refused) /\ recorder = "none"
  /\ recorder' = "open" /\ created' = TRUE
  /\ events' = Append(events, Started(0))
  /\ UNCHANGED <<parserVars, pc, ending, reason, taken, noted, held, recorded,
                 archive, file, total, shutting>>

(* open_rejected_connection raises, having undone what it did. *)
OpenFails ==
  /\ Faults /\ pc = "reject" /\ noted < Len(refused) /\ recorder = "none"
  /\ pc' = "finally"
  /\ UNCHANGED <<parserVars, ending, reason, taken, noted, held, created, recorded,
                 archive, recorderVars, shutting>>

(* RejectedConnectionRecorder.record_rejected: the bytes, then the event. *)
WriteRejected ==
  /\ pc = "reject" /\ noted < Len(refused) /\ recorder = "open"
  /\ file' = Append(file, refused[noted + 1].raw)
  /\ total' = total + 1
  /\ pc' = "note"
  /\ UNCHANGED <<parserVars, ending, reason, taken, noted, held, created, recorded,
                 archive, recorder, events, shutting>>

NoteRejected ==
  /\ pc = "note"
  /\ events' = Append(events, Rejected(refused[noted + 1].reason, total))
  /\ noted' = noted + 1 /\ recorded' = TRUE
  /\ pc' = "reject"
  /\ UNCHANGED <<parserVars, ending, reason, taken, held, created, archive,
                 recorder, file, total, shutting>>

(* The error path of _store_feed_result: a recorder this result created is   *)
(* closed, or abandoned without an event when it has recorded nothing. A     *)
(* recorder of an earlier result is left to handle().                        *)
Release ==
  /\ pc' = "finally"
  /\ recorder' = IF created THEN "released" ELSE recorder
  /\ \/ /\ created /\ recorded
        /\ events' = Append(events, Closed("handler_error", total))
     \/ UNCHANGED events

\* Mutant: a rejection that cannot be written is reported as written.
BugIgnoreWriteFails ==
  /\ Faults /\ pc = "reject" /\ noted < Len(refused) /\ recorder = "open"
  /\ pc' = "note" /\ total' = total + 1
  /\ UNCHANGED <<parserVars, ending, reason, taken, noted, held, created, recorded,
                 archive, recorder, file, events, shutting>>

(* The write or the flush raises, with any part of the bytes in the file. *)
WriteFails ==
  /\ Faults /\ pc = "reject" /\ noted < Len(refused) /\ recorder = "open"
  /\ \E n \in 0..Len(refused[noted + 1].raw) :
       file' = IF n = 0 THEN file ELSE Append(file, SubSeq(refused[noted + 1].raw, 1, n))
  /\ Release
  /\ UNCHANGED <<parserVars, ending, reason, taken, noted, held, created, recorded,
                 archive, total, shutting>>

NoteFails ==
  /\ Faults /\ pc = "note"
  /\ Release
  /\ UNCHANGED <<parserVars, ending, reason, taken, noted, held, created, recorded,
                 archive, file, total, shutting>>

(* _store_feed_result returns the recorder to handle(), which reads on or    *)
(* returns with its close reason.                                            *)
ResultStored ==
  /\ pc = "reject" /\ noted = Len(refused)
  /\ held' = (recorder = "open")
  /\ pc' = IF ending = "none" THEN "recv" ELSE "finally"
  /\ reason' = IF ending = "none" THEN reason ELSE ending
  /\ UNCHANGED <<parserVars, ending, taken, noted, created, recorded, archive,
                 recorderVars, shutting>>

-----------------------------------------------------------------------------
(* The finally clause: the recorder is closed with the reason of the return, *)
(* or with server_shutdown when that is what ended the request. Its event    *)
(* may be lost to an error.                                                  *)
CloseReason == IF shutting THEN "server_shutdown" ELSE reason

HandlerReturns ==
  /\ pc = "finally"
  /\ pc' = "done"
  /\ recorder' = IF held THEN "released" ELSE recorder
  /\ \/ held /\ events' = Append(events, Closed(CloseReason, total))
     \/ (held => Faults) /\ UNCHANGED events
  /\ UNCHANGED <<parserVars, ending, reason, taken, noted, held, created, recorded,
                 archive, file, total, shutting>>

Handle ==
  \/ ParseMore \/ StoreRecord \/ StoreFails \/ RecordsStored
  \/ OpenRecorder \/ OpenFails \/ WriteRejected \/ NoteRejected
  \/ WriteFails \/ NoteFails \/ ResultStored \/ HandlerReturns

Next ==
  \/ \E chunk \in Chunks : Receive(chunk)
  \/ \E how \in {"eof", "socket_timeout"} : ReceiveEnd(how)
  \/ ReceiveFails \/ ShutRequest \/ Handle

Spec == Init /\ [][Next]_vars

-----------------------------------------------------------------------------
Raws(rejections) == [k \in DOMAIN rejections |-> rejections[k].raw]
Prefix(s, n) == SubSeq(s, 1, n)
IsPrefixOf(s, t) == Len(s) <= Len(t) /\ s = Prefix(t, Len(s))
Failed == pc \in {"finally", "done"} /\ reason = "handler_error"

(* The archive holds the records of this connection in the order they were   *)
(* sent and without a gap, and a failing call costs at most what the last    *)
(* read brought: nothing is stored after a record that was not, and every    *)
(* record and rejection of the reads before it is stored.                    *)
LossIsOneRead ==
  /\ IsPrefixOf(archive, accepted)
  /\ IsPrefixOf(Prefix(accepted, before.accepted), archive)
  /\ IsPrefixOf(Prefix(Raws(refused), before.refused), file)

(* A handler that waits for bytes, or that ends with a reason other than     *)
(* handler_error, has stored all the parser reported, the unfinished last    *)
(* line included.                                                            *)
CleanEndIsComplete ==
  pc = "recv" \/ (pc \in {"finally", "done"} /\ ~Failed) =>
    archive = accepted /\ file = Raws(refused)

(* The ledger is true of the diagnostic file. A record_rejected event never  *)
(* claims what the file does not hold: the events follow its bytes one for   *)
(* one, with the reason the parser gave; started comes first, closed at most *)
(* once and last. The close reason is what happened: a line was too long,    *)
(* the client ended the stream, the handler failed, the server shut down.    *)
LedgerIsTrue ==
  \A k \in DOMAIN events :
    /\ events[k].event = "started" <=> k = 1
    /\ events[k].event = "rejected" =>
         /\ k - 1 <= Len(file) /\ file[k - 1] = refused[k - 1].raw
         /\ events[k].why = refused[k - 1].reason /\ events[k].total = k - 1
    /\ events[k].event = "closed" =>
         /\ k = Len(events) /\ k > 2
         /\ CASE events[k].why = "line_too_long"   -> HasLongLine(sent)
              [] events[k].why \in {"eof", "socket_timeout"} ->
                   phase = "finished" /\ ~HasLongLine(sent)
              [] events[k].why = "handler_error"   -> Failed
              [] events[k].why = "server_shutdown" -> shutting

=============================================================================
