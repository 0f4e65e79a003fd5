------------------------ MODULE RejectedFilesProofs ------------------------
(***************************************************************************)
(* The properties of RejectedFiles for any number of connections, any      *)
(* retention period and any dates.                                         *)
(***************************************************************************)
EXTENDS RejectedFiles, TLAPS

(* A stream is open exactly while its handler is between the open and the    *)
(* close, and a file comes into being with its stream.                       *)
StreamFollowsHandler ==
  \A c \in Conns :
    /\ stream[c] = "open" <=> pc[c] \in Opening \cup {"recording"}
    /\ pc[c] \in {"idle", "mkdir", "isdir", "open"} => stream[c] = "unused"
    /\ stream[c] = "unused" => c \notin onDisk

(* Only a start that failed of its own is undone, and only that takes the    *)
(* directory away.                                                           *)
UndoneIsFaulted ==
  \A c \in Conns :
    /\ pc[c] \in {"unlink", "rmdir", "failed"} => faulted
    /\ pc[c] \in {"isdir", "open"} => dir \/ faulted

(* The sweep's time is past; a file not yet active is young.                 *)
OpeningIsYoung ==
  /\ now <= clock
  /\ \A c \in Conns : pc[c] \in Opening => clock - mtime[c] <= RetentionDays

(* What the sweep does not know to be active, though it is, is too young for *)
(* its cutoff: the cutoff is the sweep's own and does not move.              *)
UnsparedIsYoung ==
  \A c \in Conns : stream[c] = "open" =>
    /\ loop = "list" /\ c \notin spared => mtime[c] >= now - RetentionDays
    /\ loop = "sweep" /\ c \in todo => mtime[c] >= now - RetentionDays

IndInv ==
  /\ TypeOK /\ StreamFollowsHandler /\ UndoneIsFaulted /\ OpeningIsYoung
  /\ UnsparedIsYoung /\ OpenFileIsLinked /\ ActiveIsInUse

(* Every action keeps the types. *)
LEMMA TypeStep ==
  TypeOK /\ [Next]_vars => TypeOK'
<1> SUFFICES ASSUME TypeOK, [Next]_vars PROVE TypeOK'
  OBVIOUS
<1> USE Assumption DEF TypeOK, Steps, Opening, Never
<1>1. ASSUME NEW c \in Conns, Begin(c) PROVE TypeOK'
  BY <1>1 DEF Begin, Go, fileVars, loopVars
<1>2. ASSUME NEW c \in Conns, MakeDirectory(c) PROVE TypeOK'
  BY <1>2 DEF MakeDirectory, Go, fileVars, loopVars
<1>3. ASSUME NEW c \in Conns, IsDirectory(c) PROVE TypeOK'
  BY <1>3 DEF IsDirectory, Go, fileVars, loopVars
<1>4. ASSUME NEW c \in Conns, OpenFile(c) PROVE TypeOK'
  BY <1>4 DEF OpenFile, Go, fileVars, loopVars
<1>5. ASSUME NEW c \in Conns, CreateFails(c) PROVE TypeOK'
  BY <1>5 DEF CreateFails, Raises, Go, fileVars, loopVars
<1>6. ASSUME NEW c \in Conns, WriteStarted(c) PROVE TypeOK'
  BY <1>6 DEF WriteStarted, Go, fileVars, loopVars
<1>7. ASSUME NEW c \in Conns, Activate(c) PROVE TypeOK'
  BY <1>7 DEF Activate, Go, fileVars, loopVars
<1>8. ASSUME NEW c \in Conns, StartedFails(c) PROVE TypeOK'
  BY <1>8 DEF StartedFails, Go, fileVars, loopVars
<1>9. ASSUME NEW c \in Conns, UndoFile(c) PROVE TypeOK'
  BY <1>9 DEF UndoFile, Go, fileVars, loopVars
<1>10. ASSUME NEW c \in Conns, UndoDirectory(c) PROVE TypeOK'
  BY <1>10 DEF UndoDirectory, Go, fileVars, loopVars
<1>11. ASSUME NEW c \in Conns, RecordRejected(c) PROVE TypeOK'
  BY <1>11 DEF RecordRejected, fileVars, loopVars
<1>12. ASSUME NEW c \in Conns, CloseStream(c) PROVE TypeOK'
  BY <1>12 DEF CloseStream, Go, fileVars, loopVars
<1>13. ASSUME NEW c \in Conns, Release(c) PROVE TypeOK'
  BY <1>13 DEF Release, Go, fileVars, loopVars
<1>14. CASE BeginSweep
  BY <1>14 DEF BeginSweep, fileVars, loopVars
<1>15. CASE Snapshot
  BY <1>15 DEF Snapshot, fileVars, loopVars
<1>16. CASE List
  BY <1>16 DEF List, fileVars, loopVars
<1>17. ASSUME NEW c \in Conns, SweepFile(c) PROVE TypeOK'
  BY <1>17 DEF SweepFile, Old, fileVars, loopVars
<1>18. CASE EndSweep
  BY <1>18 DEF EndSweep, fileVars, loopVars
<1>19. CASE Crash
  BY <1>19 DEF Crash, fileVars, loopVars
<1>20. CASE Tick
  BY <1>20 DEF Tick, Prompt, fileVars, loopVars
<1>21. CASE UNCHANGED vars
  BY <1>21 DEF vars, fileVars, loopVars
<1>. QED
  BY Zenon, <1>1, <1>2, <1>3, <1>4, <1>5, <1>6, <1>7, <1>8, <1>9, <1>10, <1>11, <1>12,
      <1>13, <1>14, <1>15, <1>16, <1>17, <1>18, <1>19, <1>20, <1>21 DEF Next, Handler,
      Sweeper

(* Every action preserves the relation of handler, stream and file. *)
LEMMA StreamFollowsHandlerStep ==
  IndInv /\ TypeOK' /\ [Next]_vars => StreamFollowsHandler'
<1> SUFFICES ASSUME IndInv, TypeOK', [Next]_vars PROVE StreamFollowsHandler'
  OBVIOUS
<1> USE Assumption DEF IndInv, TypeOK, Steps, Opening, Never, StreamFollowsHandler
<1>1. ASSUME NEW c \in Conns, Begin(c) PROVE StreamFollowsHandler'
  BY <1>1 DEF Begin, Go, fileVars, loopVars
<1>2. ASSUME NEW c \in Conns, MakeDirectory(c) PROVE StreamFollowsHandler'
  BY <1>2 DEF MakeDirectory, Go, fileVars, loopVars
<1>3. ASSUME NEW c \in Conns, IsDirectory(c) PROVE StreamFollowsHandler'
  BY <1>3 DEF IsDirectory, Go, fileVars, loopVars
<1>4. ASSUME NEW c \in Conns, OpenFile(c) PROVE StreamFollowsHandler'
  BY <1>4 DEF OpenFile, Go, fileVars, loopVars
<1>5. ASSUME NEW c \in Conns, CreateFails(c) PROVE StreamFollowsHandler'
  BY <1>5 DEF CreateFails, Raises, Go, fileVars, loopVars
<1>6. ASSUME NEW c \in Conns, WriteStarted(c) PROVE StreamFollowsHandler'
  BY <1>6 DEF WriteStarted, Go, fileVars, loopVars
<1>7. ASSUME NEW c \in Conns, Activate(c) PROVE StreamFollowsHandler'
  BY <1>7 DEF Activate, Go, fileVars, loopVars
<1>8. ASSUME NEW c \in Conns, StartedFails(c) PROVE StreamFollowsHandler'
  BY <1>8 DEF StartedFails, Go, fileVars, loopVars
<1>9. ASSUME NEW c \in Conns, UndoFile(c) PROVE StreamFollowsHandler'
  BY <1>9 DEF UndoFile, Go, fileVars, loopVars
<1>10. ASSUME NEW c \in Conns, UndoDirectory(c) PROVE StreamFollowsHandler'
  BY <1>10 DEF UndoDirectory, Go, fileVars, loopVars
<1>11. ASSUME NEW c \in Conns, RecordRejected(c) PROVE StreamFollowsHandler'
  BY <1>11 DEF RecordRejected, fileVars, loopVars
<1>12. ASSUME NEW c \in Conns, CloseStream(c) PROVE StreamFollowsHandler'
  BY <1>12 DEF CloseStream, Go, fileVars, loopVars
<1>13. ASSUME NEW c \in Conns, Release(c) PROVE StreamFollowsHandler'
  BY <1>13 DEF Release, Go, fileVars, loopVars
<1>14. CASE BeginSweep
  BY <1>14 DEF BeginSweep, fileVars, loopVars
<1>15. CASE Snapshot
  BY <1>15 DEF Snapshot, fileVars, loopVars
<1>16. CASE List
  BY <1>16 DEF List, fileVars, loopVars
<1>17. ASSUME NEW c \in Conns, SweepFile(c) PROVE StreamFollowsHandler'
  BY <1>17 DEF SweepFile, Old, fileVars, loopVars
<1>18. CASE EndSweep
  BY <1>18 DEF EndSweep, fileVars, loopVars
<1>19. CASE Crash
  BY <1>19 DEF Crash, fileVars, loopVars
<1>20. CASE Tick
  BY <1>20 DEF Tick, Prompt, fileVars, loopVars
<1>21. CASE UNCHANGED vars
  BY <1>21 DEF vars, fileVars, loopVars
<1>. QED
  BY Zenon, <1>1, <1>2, <1>3, <1>4, <1>5, <1>6, <1>7, <1>8, <1>9, <1>10, <1>11, <1>12,
      <1>13, <1>14, <1>15, <1>16, <1>17, <1>18, <1>19, <1>20, <1>21 DEF Next, Handler,
      Sweeper

(* Every action preserves that only faults undo. *)
LEMMA UndoneIsFaultedStep ==
  IndInv /\ TypeOK' /\ [Next]_vars => UndoneIsFaulted'
<1> SUFFICES ASSUME IndInv, TypeOK', [Next]_vars PROVE UndoneIsFaulted'
  OBVIOUS
<1> USE Assumption DEF IndInv, TypeOK, Steps, Opening, Never, UndoneIsFaulted
<1>1. ASSUME NEW c \in Conns, Begin(c) PROVE UndoneIsFaulted'
  BY <1>1 DEF Begin, Go, fileVars, loopVars
<1>2. ASSUME NEW c \in Conns, MakeDirectory(c) PROVE UndoneIsFaulted'
  BY <1>2 DEF MakeDirectory, Go, fileVars, loopVars
<1>3. ASSUME NEW c \in Conns, IsDirectory(c) PROVE UndoneIsFaulted'
  BY <1>3 DEF IsDirectory, Go, fileVars, loopVars
<1>4. ASSUME NEW c \in Conns, OpenFile(c) PROVE UndoneIsFaulted'
  BY <1>4 DEF OpenFile, Go, fileVars, loopVars
<1>5. ASSUME NEW c \in Conns, CreateFails(c) PROVE UndoneIsFaulted'
  BY <1>5 DEF CreateFails, Raises, Go, fileVars, loopVars
<1>6. ASSUME NEW c \in Conns, WriteStarted(c) PROVE UndoneIsFaulted'
  BY <1>6 DEF WriteStarted, Go, fileVars, loopVars
<1>7. ASSUME NEW c \in Conns, Activate(c) PROVE UndoneIsFaulted'
  BY <1>7 DEF Activate, Go, fileVars, loopVars
<1>8. ASSUME NEW c \in Conns, StartedFails(c) PROVE UndoneIsFaulted'
  BY <1>8 DEF StartedFails, Go, fileVars, loopVars
<1>9. ASSUME NEW c \in Conns, UndoFile(c) PROVE UndoneIsFaulted'
  BY <1>9 DEF UndoFile, Go, fileVars, loopVars
<1>10. ASSUME NEW c \in Conns, UndoDirectory(c) PROVE UndoneIsFaulted'
  BY <1>10 DEF UndoDirectory, Go, fileVars, loopVars
<1>11. ASSUME NEW c \in Conns, RecordRejected(c) PROVE UndoneIsFaulted'
  BY <1>11 DEF RecordRejected, fileVars, loopVars
<1>12. ASSUME NEW c \in Conns, CloseStream(c) PROVE UndoneIsFaulted'
  BY <1>12 DEF CloseStream, Go, fileVars, loopVars
<1>13. ASSUME NEW c \in Conns, Release(c) PROVE UndoneIsFaulted'
  BY <1>13 DEF Release, Go, fileVars, loopVars
<1>14. CASE BeginSweep
  BY <1>14 DEF BeginSweep, fileVars, loopVars
<1>15. CASE Snapshot
  BY <1>15 DEF Snapshot, fileVars, loopVars
<1>16. CASE List
  BY <1>16 DEF List, fileVars, loopVars
<1>17. ASSUME NEW c \in Conns, SweepFile(c) PROVE UndoneIsFaulted'
  BY <1>17 DEF SweepFile, Old, fileVars, loopVars
<1>18. CASE EndSweep
  BY <1>18 DEF EndSweep, fileVars, loopVars
<1>19. CASE Crash
  BY <1>19 DEF Crash, fileVars, loopVars
<1>20. CASE Tick
  BY <1>20 DEF Tick, Prompt, fileVars, loopVars
<1>21. CASE UNCHANGED vars
  BY <1>21 DEF vars, fileVars, loopVars
<1>. QED
  BY Zenon, <1>1, <1>2, <1>3, <1>4, <1>5, <1>6, <1>7, <1>8, <1>9, <1>10, <1>11, <1>12,
      <1>13, <1>14, <1>15, <1>16, <1>17, <1>18, <1>19, <1>20, <1>21 DEF Next, Handler,
      Sweeper

(* Every action preserves the age of what is being opened. *)
LEMMA OpeningIsYoungStep ==
  IndInv /\ TypeOK' /\ [Next]_vars => OpeningIsYoung'
<1> SUFFICES ASSUME IndInv, TypeOK', [Next]_vars PROVE OpeningIsYoung'
  OBVIOUS
<1> USE Assumption DEF IndInv, TypeOK, Steps, Opening, Never, OpeningIsYoung
<1>1. ASSUME NEW c \in Conns, Begin(c) PROVE OpeningIsYoung'
  BY <1>1 DEF Begin, Go, fileVars, loopVars
<1>2. ASSUME NEW c \in Conns, MakeDirectory(c) PROVE OpeningIsYoung'
  BY <1>2 DEF MakeDirectory, Go, fileVars, loopVars
<1>3. ASSUME NEW c \in Conns, IsDirectory(c) PROVE OpeningIsYoung'
  BY <1>3 DEF IsDirectory, Go, fileVars, loopVars
<1>4. ASSUME NEW c \in Conns, OpenFile(c) PROVE OpeningIsYoung'
  BY <1>4 DEF OpenFile, Go, fileVars, loopVars
<1>5. ASSUME NEW c \in Conns, CreateFails(c) PROVE OpeningIsYoung'
  BY <1>5 DEF CreateFails, Raises, Go, fileVars, loopVars
<1>6. ASSUME NEW c \in Conns, WriteStarted(c) PROVE OpeningIsYoung'
  BY <1>6 DEF WriteStarted, Go, fileVars, loopVars
<1>7. ASSUME NEW c \in Conns, Activate(c) PROVE OpeningIsYoung'
  BY <1>7 DEF Activate, Go, fileVars, loopVars
<1>8. ASSUME NEW c \in Conns, StartedFails(c) PROVE OpeningIsYoung'
  BY <1>8 DEF StartedFails, Go, fileVars, loopVars
<1>9. ASSUME NEW c \in Conns, UndoFile(c) PROVE OpeningIsYoung'
  BY <1>9 DEF UndoFile, Go, fileVars, loopVars
<1>10. ASSUME NEW c \in Conns, UndoDirectory(c) PROVE OpeningIsYoung'
  BY <1>10 DEF UndoDirectory, Go, fileVars, loopVars
<1>11. ASSUME NEW c \in Conns, RecordRejected(c) PROVE OpeningIsYoung'
  BY <1>11 DEF RecordRejected, fileVars, loopVars
<1>12. ASSUME NEW c \in Conns, CloseStream(c) PROVE OpeningIsYoung'
  BY <1>12 DEF CloseStream, Go, fileVars, loopVars
<1>13. ASSUME NEW c \in Conns, Release(c) PROVE OpeningIsYoung'
  BY <1>13 DEF Release, Go, fileVars, loopVars
<1>14. CASE BeginSweep
  BY <1>14 DEF BeginSweep, fileVars, loopVars
<1>15. CASE Snapshot
  BY <1>15 DEF Snapshot, fileVars, loopVars
<1>16. CASE List
  BY <1>16 DEF List, fileVars, loopVars
<1>17. ASSUME NEW c \in Conns, SweepFile(c) PROVE OpeningIsYoung'
  BY <1>17 DEF SweepFile, Old, fileVars, loopVars
<1>18. CASE EndSweep
  BY <1>18 DEF EndSweep, fileVars, loopVars
<1>19. CASE Crash
  BY <1>19 DEF Crash, fileVars, loopVars
<1>20. CASE Tick
  BY <1>20 DEF Tick, Prompt, fileVars, loopVars
<1>21. CASE UNCHANGED vars
  BY <1>21 DEF vars, fileVars, loopVars
<1>. QED
  BY Zenon, <1>1, <1>2, <1>3, <1>4, <1>5, <1>6, <1>7, <1>8, <1>9, <1>10, <1>11, <1>12,
      <1>13, <1>14, <1>15, <1>16, <1>17, <1>18, <1>19, <1>20, <1>21 DEF Next, Handler,
      Sweeper

(* Every action preserves what the sweep may not know. *)
LEMMA UnsparedIsYoungStep ==
  IndInv /\ TypeOK' /\ [Next]_vars => UnsparedIsYoung'
<1> SUFFICES ASSUME IndInv, TypeOK', [Next]_vars PROVE UnsparedIsYoung'
  OBVIOUS
<1> USE Assumption DEF IndInv, TypeOK, Steps, Opening, Never, UnsparedIsYoung,
    OpeningIsYoung, ActiveIsInUse, StreamFollowsHandler
<1>1. ASSUME NEW c \in Conns, Begin(c) PROVE UnsparedIsYoung'
  BY <1>1 DEF Begin, Go, fileVars, loopVars
<1>2. ASSUME NEW c \in Conns, MakeDirectory(c) PROVE UnsparedIsYoung'
  BY <1>2 DEF MakeDirectory, Go, fileVars, loopVars
<1>3. ASSUME NEW c \in Conns, IsDirectory(c) PROVE UnsparedIsYoung'
  BY <1>3 DEF IsDirectory, Go, fileVars, loopVars
<1>4. ASSUME NEW c \in Conns, OpenFile(c) PROVE UnsparedIsYoung'
  BY <1>4 DEF OpenFile, Go, fileVars, loopVars
<1>5. ASSUME NEW c \in Conns, CreateFails(c) PROVE UnsparedIsYoung'
  BY <1>5 DEF CreateFails, Raises, Go, fileVars, loopVars
<1>6. ASSUME NEW c \in Conns, WriteStarted(c) PROVE UnsparedIsYoung'
  BY <1>6 DEF WriteStarted, Go, fileVars, loopVars
<1>7. ASSUME NEW c \in Conns, Activate(c) PROVE UnsparedIsYoung'
  BY <1>7 DEF Activate, Go, fileVars, loopVars
<1>8. ASSUME NEW c \in Conns, StartedFails(c) PROVE UnsparedIsYoung'
  BY <1>8 DEF StartedFails, Go, fileVars, loopVars
<1>9. ASSUME NEW c \in Conns, UndoFile(c) PROVE UnsparedIsYoung'
  BY <1>9 DEF UndoFile, Go, fileVars, loopVars
<1>10. ASSUME NEW c \in Conns, UndoDirectory(c) PROVE UnsparedIsYoung'
  BY <1>10 DEF UndoDirectory, Go, fileVars, loopVars
<1>11. ASSUME NEW c \in Conns, RecordRejected(c) PROVE UnsparedIsYoung'
  BY <1>11 DEF RecordRejected, fileVars, loopVars
<1>12. ASSUME NEW c \in Conns, CloseStream(c) PROVE UnsparedIsYoung'
  BY <1>12 DEF CloseStream, Go, fileVars, loopVars
<1>13. ASSUME NEW c \in Conns, Release(c) PROVE UnsparedIsYoung'
  BY <1>13 DEF Release, Go, fileVars, loopVars
<1>14. CASE BeginSweep
  BY <1>14 DEF BeginSweep, fileVars, loopVars
<1>15. CASE Snapshot
  BY <1>15 DEF Snapshot, fileVars, loopVars
<1>16. CASE List
  BY <1>16 DEF List, fileVars, loopVars
<1>17. ASSUME NEW c \in Conns, SweepFile(c) PROVE UnsparedIsYoung'
  BY <1>17 DEF SweepFile, Old, fileVars, loopVars
<1>18. CASE EndSweep
  BY <1>18 DEF EndSweep, fileVars, loopVars
<1>19. CASE Crash
  BY <1>19 DEF Crash, fileVars, loopVars
<1>20. CASE Tick
  BY <1>20 DEF Tick, Prompt, fileVars, loopVars
<1>21. CASE UNCHANGED vars
  BY <1>21 DEF vars, fileVars, loopVars
<1>. QED
  BY Zenon, <1>1, <1>2, <1>3, <1>4, <1>5, <1>6, <1>7, <1>8, <1>9, <1>10, <1>11, <1>12,
      <1>13, <1>14, <1>15, <1>16, <1>17, <1>18, <1>19, <1>20, <1>21 DEF Next, Handler,
      Sweeper

(* Every action preserves the open files. *)
LEMMA OpenFileIsLinkedStep ==
  IndInv /\ TypeOK' /\ [Next]_vars => OpenFileIsLinked'
<1> SUFFICES ASSUME IndInv, TypeOK', [Next]_vars PROVE OpenFileIsLinked'
  OBVIOUS
<1> USE Assumption DEF IndInv, TypeOK, Steps, Opening, Never, OpenFileIsLinked,
    StreamFollowsHandler, UnsparedIsYoung
<1>1. ASSUME NEW c \in Conns, Begin(c) PROVE OpenFileIsLinked'
  BY <1>1 DEF Begin, Go, fileVars, loopVars
<1>2. ASSUME NEW c \in Conns, MakeDirectory(c) PROVE OpenFileIsLinked'
  BY <1>2 DEF MakeDirectory, Go, fileVars, loopVars
<1>3. ASSUME NEW c \in Conns, IsDirectory(c) PROVE OpenFileIsLinked'
  BY <1>3 DEF IsDirectory, Go, fileVars, loopVars
<1>4. ASSUME NEW c \in Conns, OpenFile(c) PROVE OpenFileIsLinked'
  BY <1>4 DEF OpenFile, Go, fileVars, loopVars
<1>5. ASSUME NEW c \in Conns, CreateFails(c) PROVE OpenFileIsLinked'
  BY <1>5 DEF CreateFails, Raises, Go, fileVars, loopVars
<1>6. ASSUME NEW c \in Conns, WriteStarted(c) PROVE OpenFileIsLinked'
  BY <1>6 DEF WriteStarted, Go, fileVars, loopVars
<1>7. ASSUME NEW c \in Conns, Activate(c) PROVE OpenFileIsLinked'
  BY <1>7 DEF Activate, Go, fileVars, loopVars
<1>8. ASSUME NEW c \in Conns, StartedFails(c) PROVE OpenFileIsLinked'
  BY <1>8 DEF StartedFails, Go, fileVars, loopVars
<1>9. ASSUME NEW c \in Conns, UndoFile(c) PROVE OpenFileIsLinked'
  BY <1>9 DEF UndoFile, Go, fileVars, loopVars
<1>10. ASSUME NEW c \in Conns, UndoDirectory(c) PROVE OpenFileIsLinked'
  BY <1>10 DEF UndoDirectory, Go, fileVars, loopVars
<1>11. ASSUME NEW c \in Conns, RecordRejected(c) PROVE OpenFileIsLinked'
  BY <1>11 DEF RecordRejected, fileVars, loopVars
<1>12. ASSUME NEW c \in Conns, CloseStream(c) PROVE OpenFileIsLinked'
  BY <1>12 DEF CloseStream, Go, fileVars, loopVars
<1>13. ASSUME NEW c \in Conns, Release(c) PROVE OpenFileIsLinked'
  BY <1>13 DEF Release, Go, fileVars, loopVars
<1>14. CASE BeginSweep
  BY <1>14 DEF BeginSweep, fileVars, loopVars
<1>15. CASE Snapshot
  BY <1>15 DEF Snapshot, fileVars, loopVars
<1>16. CASE List
  BY <1>16 DEF List, fileVars, loopVars
<1>17. ASSUME NEW c \in Conns, SweepFile(c) PROVE OpenFileIsLinked'
  BY <1>17 DEF SweepFile, Old, fileVars, loopVars
<1>18. CASE EndSweep
  BY <1>18 DEF EndSweep, fileVars, loopVars
<1>19. CASE Crash
  BY <1>19 DEF Crash, fileVars, loopVars
<1>20. CASE Tick
  BY <1>20 DEF Tick, Prompt, fileVars, loopVars
<1>21. CASE UNCHANGED vars
  BY <1>21 DEF vars, fileVars, loopVars
<1>. QED
  BY Zenon, <1>1, <1>2, <1>3, <1>4, <1>5, <1>6, <1>7, <1>8, <1>9, <1>10, <1>11, <1>12,
      <1>13, <1>14, <1>15, <1>16, <1>17, <1>18, <1>19, <1>20, <1>21 DEF Next, Handler,
      Sweeper

(* Every action preserves the active set. *)
LEMMA ActiveIsInUseStep ==
  IndInv /\ TypeOK' /\ [Next]_vars => ActiveIsInUse'
<1> SUFFICES ASSUME IndInv, TypeOK', [Next]_vars PROVE ActiveIsInUse'
  OBVIOUS
<1> USE Assumption DEF IndInv, TypeOK, Steps, Opening, Never, ActiveIsInUse
<1>1. ASSUME NEW c \in Conns, Begin(c) PROVE ActiveIsInUse'
  BY <1>1 DEF Begin, Go, fileVars, loopVars
<1>2. ASSUME NEW c \in Conns, MakeDirectory(c) PROVE ActiveIsInUse'
  BY <1>2 DEF MakeDirectory, Go, fileVars, loopVars
<1>3. ASSUME NEW c \in Conns, IsDirectory(c) PROVE ActiveIsInUse'
  BY <1>3 DEF IsDirectory, Go, fileVars, loopVars
<1>4. ASSUME NEW c \in Conns, OpenFile(c) PROVE ActiveIsInUse'
  BY <1>4 DEF OpenFile, Go, fileVars, loopVars
<1>5. ASSUME NEW c \in Conns, CreateFails(c) PROVE ActiveIsInUse'
  BY <1>5 DEF CreateFails, Raises, Go, fileVars, loopVars
<1>6. ASSUME NEW c \in Conns, WriteStarted(c) PROVE ActiveIsInUse'
  BY <1>6 DEF WriteStarted, Go, fileVars, loopVars
<1>7. ASSUME NEW c \in Conns, Activate(c) PROVE ActiveIsInUse'
  BY <1>7 DEF Activate, Go, fileVars, loopVars
<1>8. ASSUME NEW c \in Conns, StartedFails(c) PROVE ActiveIsInUse'
  BY <1>8 DEF StartedFails, Go, fileVars, loopVars
<1>9. ASSUME NEW c \in Conns, UndoFile(c) PROVE ActiveIsInUse'
  BY <1>9 DEF UndoFile, Go, fileVars, loopVars
<1>10. ASSUME NEW c \in Conns, UndoDirectory(c) PROVE ActiveIsInUse'
  BY <1>10 DEF UndoDirectory, Go, fileVars, loopVars
<1>11. ASSUME NEW c \in Conns, RecordRejected(c) PROVE ActiveIsInUse'
  BY <1>11 DEF RecordRejected, fileVars, loopVars
<1>12. ASSUME NEW c \in Conns, CloseStream(c) PROVE ActiveIsInUse'
  BY <1>12 DEF CloseStream, Go, fileVars, loopVars
<1>13. ASSUME NEW c \in Conns, Release(c) PROVE ActiveIsInUse'
  BY <1>13 DEF Release, Go, fileVars, loopVars
<1>14. CASE BeginSweep
  BY <1>14 DEF BeginSweep, fileVars, loopVars
<1>15. CASE Snapshot
  BY <1>15 DEF Snapshot, fileVars, loopVars
<1>16. CASE List
  BY <1>16 DEF List, fileVars, loopVars
<1>17. ASSUME NEW c \in Conns, SweepFile(c) PROVE ActiveIsInUse'
  BY <1>17 DEF SweepFile, Old, fileVars, loopVars
<1>18. CASE EndSweep
  BY <1>18 DEF EndSweep, fileVars, loopVars
<1>19. CASE Crash
  BY <1>19 DEF Crash, fileVars, loopVars
<1>20. CASE Tick
  BY <1>20 DEF Tick, Prompt, fileVars, loopVars
<1>21. CASE UNCHANGED vars
  BY <1>21 DEF vars, fileVars, loopVars
<1>. QED
  BY Zenon, <1>1, <1>2, <1>3, <1>4, <1>5, <1>6, <1>7, <1>8, <1>9, <1>10, <1>11, <1>12,
      <1>13, <1>14, <1>15, <1>16, <1>17, <1>18, <1>19, <1>20, <1>21 DEF Next, Handler,
      Sweeper

(* The invariant holds in every state of every behaviour: typing first, then *)
(* each conjunct by its lemma.                                               *)
THEOREM Invariance == Spec => []IndInv
<1>1. Init => IndInv
  <2> SUFFICES ASSUME Init PROVE IndInv
    OBVIOUS
  <2>1. TypeOK
    BY DEF Init, TypeOK, Steps, Opening, Never
  <2>2. StreamFollowsHandler /\ UndoneIsFaulted /\ UnsparedIsYoung
    BY DEF Init, StreamFollowsHandler, UndoneIsFaulted, UnsparedIsYoung, Opening
  <2>3. OpeningIsYoung /\ OpenFileIsLinked /\ ActiveIsInUse
    BY DEF Init, OpeningIsYoung, OpenFileIsLinked, ActiveIsInUse, Opening
  <2>. QED
    BY <2>1, <2>2, <2>3 DEF IndInv
<1>2. IndInv /\ [Next]_vars => IndInv'
  <2> SUFFICES ASSUME IndInv, [Next]_vars PROVE IndInv'
    OBVIOUS
  <2>1. TypeOK'
    BY TypeStep DEF IndInv
  <2>. QED
    BY <2>1, StreamFollowsHandlerStep, UndoneIsFaultedStep, OpeningIsYoungStep,
        UnsparedIsYoungStep,
       OpenFileIsLinkedStep, ActiveIsInUseStep DEF IndInv
<1>. QED
  BY <1>1, <1>2, PTL DEF Spec

(* Every variable has its type. *)
THEOREM TypeCorrect == Spec => []TypeOK
  BY Invariance, PTL DEF IndInv

(* While a recorder writes to its file, the file is on disk: no sweep and no *)
(* undone start of another connection takes it or its directory away.        *)
THEOREM OpenFilesKept == Spec => []OpenFileIsLinked
  BY Invariance, PTL DEF IndInv

(* The active set is that of the recorders in use. *)
THEOREM ActiveSetExact == Spec => []ActiveIsInUse
  BY Invariance, PTL DEF IndInv

(* No connection is dropped over its diagnostic file unless a call failed of *)
(* its own somewhere.                                                        *)
THEOREM FailuresCaused == Spec => []FailureHasACause
<1>1. IndInv => FailureHasACause
  BY DEF IndInv, UndoneIsFaulted, FailureHasACause
<1>. QED
  BY <1>1, Invariance, PTL

(* A sweep removes only files whose recorders are done with them and which   *)
(* were not written to for longer than the retention period. Of the actions  *)
(* that remove files, UndoFile does so at "unlink" only.                     *)
THEOREM SweepIsCareful == Spec => SweptIsOldAndClosed
<1> DEFINE Kept == \A c \in onDisk \ onDisk' : pc[c] # "unlink" =>
                     stream[c] = "closed" /\ clock - mtime[c] > RetentionDays
<1>1. IndInv /\ [Next]_vars => Kept
  <2> SUFFICES ASSUME IndInv, [Next]_vars PROVE Kept
    OBVIOUS
  <2>1. ASSUME NEW c \in Conns, UndoFile(c) PROVE Kept
    BY <2>1 DEF UndoFile
  <2>2. ASSUME NEW c \in Conns, SweepFile(c) PROVE Kept
    <3> SUFFICES ASSUME NEW d \in onDisk \ onDisk'
                 PROVE  stream[d] = "closed" /\ clock - mtime[d] > RetentionDays
      OBVIOUS
    <3>1. d = c /\ Old(c)
      BY <2>2 DEF SweepFile
    <3>2. stream[c] # "open" /\ stream[c] # "unused"
      BY <2>2, <3>1, Assumption
      DEF SweepFile, Old, IndInv, TypeOK, UnsparedIsYoung, StreamFollowsHandler
    <3>. QED
      BY <3>1, <3>2, Assumption DEF Old, IndInv, TypeOK, OpeningIsYoung
  <2>3. (\E c \in Conns : UndoFile(c) \/ SweepFile(c)) \/ onDisk \subseteq onDisk'
    BY DEF Next, Handler, Sweeper, vars, fileVars, Begin, MakeDirectory, IsDirectory,
        OpenFile, CreateFails, WriteStarted, Activate, StartedFails, UndoDirectory,
        RecordRejected, CloseStream, Release, BeginSweep, Snapshot, List, EndSweep,
        Crash, Tick
  <2>. QED
    BY <2>1, <2>2, <2>3
<1>. QED
  BY <1>1, Invariance, PTL DEF Spec, SweptIsOldAndClosed, Kept
=============================================================================
