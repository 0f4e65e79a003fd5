--------------------------- MODULE FileScanProofs ---------------------------
(***************************************************************************)
(* The properties of FileScan for any lines, any number of scans, restarts *)
(* and failures: what is told of a recording is true, only grows, and      *)
(* names one zone that the file bears witness to.                          *)
(***************************************************************************)
EXTENDS FileScan, TLAPS

Line == [ok : BOOLEAN, time : Times, fix : Zones \cup {NoZone, NoFix}]

(* The lines' type. *)
LEMMA LineType == Lines \subseteq Line
  BY LinesAssumption DEF Line, Times

(* placeTime belongs to the place. *)
Dated(f, s) ==
  IF Fixed(f, s.read) = {} THEN s.placeTime = NoTime ELSE s.placeTime = f[s.place].time

(* A scan that has met no torn line. *)
Clean(f, s) == s.size = 2 * s.read /\ (s.bad <=> Sound(f, s.read) # 1..s.read)

(* What the first n lines of f have to do with what a zone has counted: the  *)
(* candidate's first and last sample, and one between them once there are    *)
(* three.                                                                    *)
Backed(f, n, z) ==
  /\ z.name # NoZone => Witnessed(f, n, z.name)
  /\ z.candidate = NoZone => z.count = 0 /\ z.first = NoTime /\ z.last = NoTime
  /\ z.candidate # NoZone =>
       /\ z.count > 0
       /\ \E i \in Samples(f, n, z.candidate) : f[i].time = z.first
       /\ \E i \in Samples(f, n, z.candidate) : f[i].time = z.last
       /\ z.count = 1 => z.first = z.last
       /\ z.count > 1 => z.first < z.last
       /\ z.count > 2 => \E i \in Samples(f, n, z.candidate) :
                           z.first < f[i].time /\ f[i].time < z.last

-----------------------------------------------------------------------------
(* The reference definitions look at a file's first n lines only.            *)

LEMMA PrefixDecides ==
  ASSUME NEW f, NEW g, NEW n \in Nat, \A i \in 1..n : f[i] = g[i]
  PROVE  /\ Sound(f, n) = Sound(g, n)
         /\ Timed(f, n) = Timed(g, n)
         /\ Fixed(f, n) = Fixed(g, n)
         /\ \A z : Samples(f, n, z) = Samples(g, n, z)
<1>1. Sound(f, n) = Sound(g, n)
  BY DEF Sound
<1>2. Timed(f, n) = Timed(g, n)
  BY <1>1 DEF Timed, Sound
<1>3. Fixed(f, n) = Fixed(g, n)
  BY <1>2 DEF Fixed, Timed, Sound
<1>4. \A z : Samples(f, n, z) = Samples(g, n, z)
  BY <1>3 DEF Samples, Fixed, Timed, Sound
<1>. QED
  BY <1>1, <1>2, <1>3, <1>4

(* What the statistics say of a file depends on the lines they count. *)
LEMMA PrefixDescribes ==
  ASSUME NEW f, NEW g, NEW s \in Stats, \A i \in 1..s.read : f[i] = g[i]
  PROVE  /\ Describes(f, s) => Describes(g, s)
         /\ Dated(f, s) /\ Describes(f, s) => Dated(g, s)
         /\ Clean(f, s) => Clean(g, s)
<1>. DEFINE n == s.read
<1>0. n \in Nat
  BY DEF Stats
<1>1. /\ Sound(f, n) = Sound(g, n) /\ Timed(f, n) = Timed(g, n) /\ Fixed(f, n) = Fixed(g, n)
  BY <1>0, PrefixDecides
<1>2. Timed(f, n) \subseteq 1..n /\ Fixed(f, n) \subseteq 1..n
  BY DEF Timed, Fixed, Sound
<1>3. \A i \in 1..n : f[i] = g[i]
  OBVIOUS
<1>4. /\ Earliest(f, n, s.first) => Earliest(g, n, s.first)
      /\ Latest(f, n, s.last) => Latest(g, n, s.last)
  BY <1>1, <1>2, <1>3 DEF Earliest, Latest
<1>5. NewestPlace(f, n, s.place) => NewestPlace(g, n, s.place)
  BY <1>1, <1>2, <1>3 DEF NewestPlace
<1>6. Dated(f, s) /\ NewestPlace(f, n, s.place) => Dated(g, s)
  BY <1>1, <1>2, <1>3 DEF Dated, NewestPlace
<1>7. Clean(f, s) => Clean(g, s)
  BY <1>1 DEF Clean
<1>. QED
  BY <1>4, <1>5, <1>6, <1>7 DEF Describes

(* So do a zone's witnesses. *)
LEMMA PrefixBacks ==
  ASSUME NEW f, NEW g, NEW n \in Nat, \A i \in 1..n : f[i] = g[i]
  PROVE  /\ \A z : Witnessed(f, n, z) => Witnessed(g, n, z)
         /\ \A z : Backed(f, n, z) => Backed(g, n, z)
<1>1. \A z : Samples(f, n, z) = Samples(g, n, z) /\ Samples(f, n, z) \subseteq 1..n
  <2>1. \A z : Samples(f, n, z) \subseteq 1..n
    BY DEF Samples, Fixed, Timed, Sound
  <2>. QED
    BY <2>1, PrefixDecides
<1>2. \A z : Witnessed(f, n, z) => Witnessed(g, n, z)
  BY <1>1 DEF Witnessed
<1>3. ASSUME NEW z, Backed(f, n, z) PROVE Backed(g, n, z)
  <2>1. z.name # NoZone => Witnessed(g, n, z.name)
    BY <1>2, <1>3 DEF Backed
  <2>. QED
    BY <1>1, <1>3, <2>1 DEF Backed
<1>. QED
  BY <1>2, <1>3

(* More lines keep the witnesses. *)
LEMMA MoreLinesBack ==
  ASSUME NEW f, NEW n \in Nat, NEW m \in Nat, n <= m
  PROVE  /\ \A z : Witnessed(f, n, z) => Witnessed(f, m, z)
         /\ \A z : Backed(f, n, z) => Backed(f, m, z)
<1>1. \A z : Samples(f, n, z) \subseteq Samples(f, m, z)
  BY DEF Samples, Fixed, Timed, Sound
<1>2. \A z : Witnessed(f, n, z) => Witnessed(f, m, z)
  BY <1>1 DEF Witnessed
<1>3. ASSUME NEW z, Backed(f, n, z) PROVE Backed(f, m, z)
  <2>1. z.name # NoZone => Witnessed(f, m, z.name)
    BY <1>2, <1>3 DEF Backed
  <2>. QED
    BY <1>1, <1>3, <2>1 DEF Backed
<1>. QED
  BY <1>2, <1>3

-----------------------------------------------------------------------------
(* One line read: what Record makes of the statistics.                       *)

(* Record, field by field. *)
LEMMA RecordFields ==
  ASSUME NEW s \in Stats, NEW l \in Line
  PROVE  LET r     == Record(s, l)
             timed == l.ok /\ l.time # NoTime
             fixed == l.ok /\ Placed(s, l)
         IN /\ r \in Stats
            /\ r.read = s.read + 1 /\ r.size = s.size + 2 /\ r.bad = (s.bad \/ ~l.ok)
            /\ r.first = IF timed THEN Least(s.first, l.time) ELSE s.first
            /\ r.last = IF timed THEN Greatest(s.last, l.time) ELSE s.last
            /\ r.place = IF fixed THEN s.read + 1 ELSE s.place
            /\ r.placeTime = IF fixed THEN l.time ELSE s.placeTime
<1>. DEFINE n       == s.read + 1
            counted == [s EXCEPT !.read = n, !.size = @ + 2, !.bad = @ \/ ~l.ok]
            timed   == IF ~l.ok \/ l.time = NoTime THEN counted
                       ELSE [counted EXCEPT !.first = Least(@, l.time),
                                            !.last = Greatest(@, l.time)]
<1>1. counted \in Stats /\ counted.read = n /\ counted.size = s.size + 2
      /\ counted.bad = (s.bad \/ ~l.ok) /\ counted.first = s.first /\ counted.last = s.last
      /\ counted.place = s.place /\ counted.placeTime = s.placeTime
  <2>. DEFINE size == s.size + 2
              bad  == s.bad \/ ~l.ok
  <2>1. bad \in BOOLEAN /\ n \in Nat /\ size \in Nat
    BY DEF Stats, Line
  <2>2. counted = [s EXCEPT !.read = n, !.size = size, !.bad = bad]
    BY DEF Stats
  <2>. HIDE DEF counted, n, size, bad
  <2>3. counted \in Stats
    BY Zenon, <2>1, <2>2 DEF Stats
  <2>4. /\ counted.read = n /\ counted.size = s.size + 2 /\ counted.first = s.first
        /\ counted.last = s.last /\ counted.place = s.place /\ counted.placeTime = s.placeTime
    BY <2>2 DEF Stats, size
  <2>5. counted.bad = (s.bad \/ ~l.ok)
    BY Zenon, <2>2 DEF Stats, bad
  <2>. QED
    BY <2>3, <2>4, <2>5
<1>2. Least(s.first, l.time) \in Times /\ Greatest(s.last, l.time) \in Times
  BY DEF Stats, Line, Times, Least, Greatest, NoTime
<1>3. n \in Nat /\ l.time \in Times
  BY DEF Stats, Line
<1>. HIDE DEF counted, n
<1>4. timed \in Stats /\ timed.read = n /\ timed.size = s.size + 2
      /\ timed.bad = (s.bad \/ ~l.ok) /\ timed.place = s.place /\ timed.placeTime = s.placeTime
      /\ timed.first = (IF l.ok /\ l.time # NoTime THEN Least(s.first, l.time) ELSE s.first)
      /\ timed.last = (IF l.ok /\ l.time # NoTime THEN Greatest(s.last, l.time) ELSE s.last)
  BY <1>1, <1>2 DEF Stats
<1>. HIDE DEF timed
<1>5. Record(s, l) = IF l.ok /\ Placed(s, l)
                     THEN [timed EXCEPT !.place = n, !.placeTime = l.time] ELSE timed
  BY DEF Record, timed, counted, n
<1>. QED
  BY <1>3, <1>4, <1>5 DEF Stats, n

(* If the statistics are true of the lines before, they are with this one. *)
LEMMA RecordDescribes ==
  ASSUME NEW f, NEW s \in Stats, f[s.read + 1] \in Line,
         \A i \in 1..s.read : f[i] \in Line,
         Describes(f, s), Dated(f, s)
  PROVE  LET r == Record(s, f[s.read + 1]) IN
           /\ Describes(f, r) /\ Dated(f, r)
           /\ Clean(f, s) => Clean(f, r)
<1>. DEFINE n == s.read
            l == f[s.read + 1]
            r == Record(s, f[s.read + 1])
<1>0. n \in Nat /\ s.first \in Times /\ s.last \in Times /\ s.placeTime \in Times /\ s.place \in Nat
  BY DEF Stats
<1>1. /\ r.read = n + 1 /\ r.size = s.size + 2 /\ r.bad = (s.bad \/ ~l.ok)
      /\ r.first = IF l.ok /\ l.time # NoTime THEN Least(s.first, l.time) ELSE s.first
      /\ r.last = IF l.ok /\ l.time # NoTime THEN Greatest(s.last, l.time) ELSE s.last
      /\ r.place = IF l.ok /\ Placed(s, l) THEN n + 1 ELSE s.place
      /\ r.placeTime = IF l.ok /\ Placed(s, l) THEN l.time ELSE s.placeTime
  BY RecordFields
<1>2. Sound(f, n + 1) = Sound(f, n) \cup (IF l.ok THEN {n + 1} ELSE {})
  BY <1>0 DEF Sound
<1>3. Timed(f, n + 1) = Timed(f, n) \cup (IF l.ok /\ l.time # NoTime THEN {n + 1} ELSE {})
  BY <1>0, <1>2 DEF Timed
<1>4. Fixed(f, n + 1) = Fixed(f, n) \cup (IF l.ok /\ l.time # NoTime /\ l.fix # NoFix
                                          THEN {n + 1} ELSE {})
  BY <1>0, <1>3 DEF Fixed
<1>5. /\ Timed(f, n) \subseteq 1..n /\ Fixed(f, n) \subseteq Timed(f, n)
      /\ \A i \in Timed(f, n) : f[i].time \in Nat
  BY DEF Timed, Fixed, Sound, Line, Times
<1>6. l.time \in Times /\ (l.time # NoTime => l.time \in Nat) /\ l.ok \in BOOLEAN
  BY DEF Line, Times
<1>7. Earliest(f, n, s.first) /\ Latest(f, n, s.last) /\ NewestPlace(f, n, s.place)
  BY DEF Describes
<1>. HIDE DEF l, r, n
<1>8. Earliest(f, n + 1, r.first) /\ Latest(f, n + 1, r.last)
  <2>1. CASE ~(l.ok /\ l.time # NoTime)
    BY <1>1, <1>3, <1>7, <2>1 DEF Earliest, Latest
  <2>2. CASE l.ok /\ l.time # NoTime
    <3>1. /\ Timed(f, n + 1) = Timed(f, n) \cup {n + 1}
          /\ l.time \in Nat /\ f[n + 1].time = l.time
          /\ r.first = Least(s.first, l.time) /\ r.last = Greatest(s.last, l.time)
      BY <1>1, <1>3, <1>6, <2>2 DEF l, n
    <3>2. CASE Timed(f, n) = {}
      <4>1. s.first = NoTime /\ s.last = NoTime
        BY <1>7, <3>2 DEF Earliest, Latest
      <4>2. r.first = l.time /\ r.last = l.time
        BY <3>1, <4>1 DEF Least, Greatest, NoTime
      <4>. QED
        BY <3>1, <3>2, <4>2 DEF Earliest, Latest
    <3>3. CASE Timed(f, n) # {}
      <4>1. /\ \E i \in Timed(f, n) : f[i].time = s.first
            /\ \A i \in Timed(f, n) : s.first <= f[i].time
        BY <1>7, <3>3 DEF Earliest
      <4>2. /\ \E i \in Timed(f, n) : f[i].time = s.last
            /\ \A i \in Timed(f, n) : s.last >= f[i].time
        BY <1>7, <3>3 DEF Latest
      <4>3. s.first \in Nat /\ s.last \in Nat
        BY <1>5, <4>1, <4>2
      <4>4. Earliest(f, n + 1, r.first)
        BY <1>5, <3>1, <4>1, <4>3 DEF Earliest, Least, NoTime
      <4>5. Latest(f, n + 1, r.last)
        BY <1>5, <3>1, <4>2, <4>3 DEF Latest, Greatest
      <4>. QED
        BY <4>4, <4>5
    <3>. QED
      BY <3>2, <3>3
  <2>. QED
    BY <2>1, <2>2
<1>10. NewestPlace(f, n + 1, r.place) /\ Dated(f, r)
  BY <1>0, <1>1, <1>4, <1>5, <1>6, <1>7 DEF NewestPlace, Dated, Placed, Times, NoTime, l, n
<1>11. ASSUME Clean(f, s) PROVE Clean(f, r)
  <2>1. r.size = 2 * r.read
    BY <1>0, <1>1, <1>11 DEF Clean, n
  <2>2. r.bad <=> Sound(f, n + 1) # 1..(n + 1)
    <3>1. Sound(f, n) \subseteq 1..n /\ 1..(n + 1) = 1..n \cup {n + 1} /\ n + 1 \notin 1..n
      BY <1>0 DEF Sound
    <3>. QED
      BY <1>0, <1>1, <1>2, <1>6, <1>11, <3>1 DEF Clean, n
  <2>. QED
    BY <1>1, <2>1, <2>2 DEF Clean
<1>. QED
  BY <1>1, <1>8, <1>10, <1>11 DEF Describes, l, r, n

-----------------------------------------------------------------------------
(* One sample more: what observe makes of the zone.                          *)

(* The zone keeps its type. *)
LEMMA ObserveType ==
  ASSUME NEW z \in Zone, NEW l \in Line, NEW name \in Names
  PROVE  Observe(z, l, name) \in Zone
<1>. USE DEF Zone, Line, Names
<1>1. Reset(z) \in Zone
  BY DEF Reset, Times
<1>2. [z EXCEPT !.conflicts = @ + 1] \in Zone
  BY DEF Times
<1>3. Follow(z, name, l.time) \in Zone
  BY <1>1 DEF Follow
<1>4. Sample(z, name, l.time) \in Zone
  <2>. DEFINE followed == Follow(z, name, l.time)
              count    == followed.count + 1
              locked   == count >= 3 /\ l.time - followed.first >= Span
  <2>1. Sample(z, name, l.time) =
          [followed EXCEPT !.last = l.time, !.count = count,
                           !.name = IF locked THEN name ELSE @]
    BY DEF Sample
  <2>2. followed \in Zone /\ count \in Nat /\ l.time \in Times
    BY <1>3
  <2>. HIDE DEF followed, count, locked
  <2>. QED
    BY <2>1, <2>2
<1>. QED
  BY <1>1, <1>2, <1>4 DEF Observe

(* A reset forgets the candidate only. *)
LEMMA ResetBacked ==
  ASSUME NEW f, NEW n, NEW z \in Zone, Backed(f, n, z)
  PROVE  Backed(f, n, Reset(z))
BY DEF Backed, Reset, Zone, Times, Names

(* A zone that rests on the first n lines still does after one of them. *)
LEMMA ObserveBacked ==
  ASSUME NEW f, NEW n \in Nat, NEW p \in 1..n, NEW z \in Zone, NEW name \in Names,
         f[p] \in Line, f[p].ok, name # NoZone => name = f[p].fix,
         \A i \in 1..n : f[i] \in Line, NoFix \notin Names, Backed(f, n, z)
  PROVE  Backed(f, n, Observe(z, f[p], name))
<1>. DEFINE l == f[p]
            time == f[p].time
<1>1. CASE ~Eligible(l) \/ name = NoZone
  BY <1>1, ResetBacked DEF Observe
<1>2. CASE Eligible(l) /\ name # NoZone /\ z.name # NoZone
  BY <1>2 DEF Observe, Backed, Zone
<1>3. CASE Eligible(l) /\ name # NoZone /\ z.name = NoZone /\ z.last # NoTime /\ time <= z.last
  BY <1>3, ResetBacked DEF Observe
<1>4. CASE Eligible(l) /\ name # NoZone /\ z.name = NoZone /\ ~(z.last # NoTime /\ time <= z.last)
  <2>1. Observe(z, l, name) = Sample(z, name, time)
    BY <1>4 DEF Observe
  <2>2. p \in Samples(f, n, name) /\ time \in Nat
    BY <1>4 DEF Eligible, Samples, Fixed, Timed, Sound, Line, Times
  <2>3. z.first \in Times /\ z.last \in Times /\ z.count \in Nat
    BY DEF Zone
  <2>4. \A i \in Samples(f, n, name) : f[i].time \in Nat
    BY DEF Samples, Fixed, Timed, Sound, Line, Times
  <2>. DEFINE y == Sample(z, name, time)
  <2>5. CASE name # z.candidate
    <3>1. /\ y.name = NoZone /\ y.candidate = name /\ y.count = 1
          /\ y.first = time /\ y.last = time
      BY <1>4, <2>2, <2>5 DEF Sample, Follow, Reset, Zone
    <3>. HIDE DEF y
    <3>2. Backed(f, n, y)
      BY <1>4, <2>2, <3>1 DEF Backed
    <3>. QED
      BY <2>1, <3>2 DEF y
  <2>6. CASE name = z.candidate
    <3>1. /\ y.candidate = name /\ y.count = z.count + 1 /\ y.first = z.first /\ y.last = time
          /\ y.name = IF z.count + 1 >= 3 /\ time - z.first >= Span THEN name ELSE NoZone
      BY <1>4, <2>2, <2>6 DEF Sample, Follow, Zone
    <3>2. /\ z.count > 0
          /\ \E i \in Samples(f, n, name) : f[i].time = z.first
          /\ \E i \in Samples(f, n, name) : f[i].time = z.last
          /\ z.count = 1 => z.first = z.last
          /\ z.count > 1 => z.first < z.last
      BY <1>4, <2>6 DEF Backed
    <3>3. z.first \in Nat /\ z.last \in Nat /\ z.last < time /\ z.first < time
      <4>1. z.first \in Nat /\ z.last \in Nat
        BY <2>4, <3>2
      <4>2. z.last < time
        BY <1>4, <2>2, <4>1 DEF NoTime
      <4>3. z.first = z.last \/ z.first < z.last
        BY <2>3, <3>2
      <4>. QED
        BY <2>2, <4>1, <4>2, <4>3
    <3>. HIDE DEF y
    <3>4. y.count > 2 => \E i \in Samples(f, n, name) : y.first < f[i].time /\ f[i].time < y.last
      BY <2>3, <3>1, <3>2, <3>3
    <3>5. y.name # NoZone => Witnessed(f, n, y.name)
      BY <2>2, <2>3, <3>1, <3>2, <3>3, <3>4 DEF Witnessed
    <3>6. Backed(f, n, y)
      BY <1>4, <2>2, <2>3, <3>1, <3>2, <3>3, <3>4, <3>5 DEF Backed
    <3>. QED
      BY <2>1, <3>6 DEF y
  <2>. QED
    BY <2>5, <2>6
<1>. QED
  BY <1>1, <1>2, <1>3, <1>4

-----------------------------------------------------------------------------
(* The invariant.                                                            *)

(* A scan is of a recording that is not done with, and its statistics never  *)
(* get ahead of the file; a file scanned after closing does not change.      *)
ScanIsInFile ==
  /\ pc # "idle" => state \in {"OPEN", "CLOSED"} /\ (final => state = "CLOSED")
  /\ stats.read <= Len(file)
  /\ pc \in {"scan", "report"} => stats.read <= limit /\ limit <= Len(file)
  /\ pc = "report" => stats.read = limit
  /\ pc \in {"scan", "report"} /\ final => limit = Len(file) /\ torn = tail

(* A torn line counts at the end of a scan after closing, and such           *)
(* statistics are not scanned on with.                                       *)
Complete(s) ==
  /\ s.size = 2 * s.read + (IF tail THEN 1 ELSE 0)
  /\ s.bad <=> tail \/ Sound(file, s.read) # 1..s.read
Spoilt == state # "OPEN" /\ (pc = "idle" \/ (pc = "fstat" /\ final))
StatsAreTrue ==
  /\ Describes(file, stats) /\ Dated(file, stats)
  /\ IF pc = "report" /\ final THEN Complete(stats) ELSE Clean(file, stats) \/ Spoilt

(* The zone rests on lines of the file, and on those counted so far unless   *)
(* they are counted anew.                                                    *)
ZoneIsBacked ==
  /\ Backed(file, Len(file), zone)
  /\ state = "OPEN" \/ (pc # "idle" /\ ~final) => Backed(file, stats.read, zone)

(* What the ledger keeps of the notifications.                               *)
LedgerIsKept ==
  /\ \A k \in DOMAIN told :
       /\ state \in {"OPEN", "CLOSED"} => told[k].phase = "update"
       /\ told[k].stats.size <= lastSize
       /\ told[k].zone \in {NoZone, audit.name}
  /\ audit.name # NoZone => \E k \in DOMAIN told : told[k].zone = audit.name

(* A notification's size bounds the lines it counts, and of an open file     *)
(* nothing was lost.                                                         *)
ToldIsInFile ==
  \A k \in DOMAIN told :
    /\ 2 * told[k].stats.read <= told[k].stats.size
    /\ state = "OPEN" => told[k].stats.read <= Len(file)

IndInv ==
  /\ TypeOK /\ ScanIsInFile /\ StatsAreTrue /\ ZoneIsBacked /\ LedgerIsKept /\ ToldIsInFile
  /\ ToldOnlyGrows /\ OneZone /\ ZoneIsWitnessed /\ ToldIsTrue

-----------------------------------------------------------------------------
(* What the steps have in common.                                            *)

(* The lines the file had and has are the same, and only an open file        *)
(* changes.                                                                  *)
FileIsKept ==
  /\ Len(file) \in Nat /\ Len(file') \in Nat
  /\ \A i \in 1..Len(file) : i <= Len(file') => file'[i] = file[i]
  /\ state # "OPEN" => state' # "OPEN" /\ file' = file /\ tail' = tail
  /\ Len(file') < Len(file) => state' # "OPEN"

(* Every action keeps it so. *)
LEMMA FileSteps ==
  TypeOK /\ [Next]_vars => FileIsKept
<1> SUFFICES ASSUME TypeOK, [Next]_vars PROVE FileIsKept
  OBVIOUS
<1>1. file \in Seq(Lines) /\ Len(file) \in Nat
  BY DEF TypeOK
<1>2. ASSUME NEW l \in Lines, AppendLine(l) PROVE FileIsKept
  <2>1. file' = Append(file, l) /\ state = "OPEN" /\ state' = state
    BY <1>2 DEF AppendLine, ledgerVars
  <2>. QED
    BY <1>1, <2>1 DEF FileIsKept
<1>3. CASE Crash
  <2>1. state' # "OPEN" /\ (state # "OPEN" => file' = file /\ tail' = tail)
    BY <1>3 DEF Crash, fileVars
  <2>2. file' = file \/ \E n \in 0..Len(file) : file' = SubSeq(file, 1, n)
    BY <1>3 DEF Crash, fileVars
  <2>3. ASSUME NEW n \in 0..Len(file), file' = SubSeq(file, 1, n)
        PROVE  Len(file') = n /\ \A i \in 1..n : file'[i] = file[i]
    BY <1>1, <2>3
  <2>. QED
    BY <1>1, <2>1, <2>2, <2>3 DEF FileIsKept
<1>4. CASE WritePart \/ Close
  BY <1>1, <1>4 DEF FileIsKept, WritePart, Close, fileVars, ledgerVars
<1>5. CASE ReadRow \/ Fstat \/ ReadLine \/ EndScan \/ EnqueueFails \/ UNCHANGED vars
  BY <1>1, <1>5
  DEF FileIsKept, ReadRow, Fstat, ReadLine, EndScan, EnqueueFails, vars, fileVars, ledgerVars
<1>6. CASE ScanFails \/ ReportShrunk \/ ReportClose \/ ReportUpdate \/ Deliver
  BY <1>1, <1>6
  DEF FileIsKept, ScanFails, ReportShrunk, ReportClose, ReportUpdate, Deliver, Block, fileVars
<1>. QED
  BY <1>2, <1>3, <1>4, <1>5, <1>6 DEF Next

(* What is told, beside what was told before. *)
LEMMA Enqueued ==
  ASSUME TypeOK, NEW phase \in {"update", "close"}, Enqueue(phase)
  PROVE  /\ DOMAIN told = 1..Len(told) /\ DOMAIN told' = 1..(Len(told) + 1) /\ Len(told) \in Nat
         /\ \A k \in DOMAIN told : told'[k] = told[k]
         /\ told'[Len(told) + 1] = [phase |-> phase, stats |-> stats, zone |-> Reported]
         /\ lastSize' = stats.size /\ audit'.name = Reported
<1>1. told \in Seq(Notification)
  BY DEF TypeOK
<1>2. told' = Append(told, [phase |-> phase, stats |-> stats, zone |-> Reported])
  BY DEF Enqueue
<1>3. audit'.name = Reported
  BY DEF Enqueue, NextAudit, Reported, TypeOK, Audit
<1>. QED
  BY <1>1, <1>2, <1>3 DEF Enqueue

(* Its types. *)
LEMMA EnqueueType ==
  ASSUME TypeOK, NEW phase \in {"update", "close"}, Enqueue(phase)
  PROVE  told' \in Seq(Notification) /\ lastSize' \in Nat /\ audit' \in Audit
<1>1. Reported \in Names
  BY DEF TypeOK, Reported, Audit, Zone
<1>2. [phase |-> phase, stats |-> stats, zone |-> Reported] \in Notification
  BY <1>1 DEF TypeOK, Notification
<1>3. audit' \in Audit
  BY DEF TypeOK, Enqueue, NextAudit, Audit, Zone, Greatest
<1>4. lastSize' \in Nat
  BY DEF TypeOK, Enqueue, Stats
<1>. QED
  BY <1>2, <1>3, <1>4 DEF TypeOK, Enqueue

(* What a line read does to the statistics and the zone. *)
LEMMA LineRead ==
  ASSUME TypeOK, ScanIsInFile, ReadLine
  PROVE  /\ pc = "scan" /\ pc' = "scan" /\ UNCHANGED <<fileVars, ledgerVars, final, limit, torn>>
         /\ stats.read \in Nat /\ stats.read + 1 \in 1..Len(file) /\ stats.read + 1 <= limit
         /\ \A i \in 1..Len(file) : file[i] \in Line
         /\ stats' = Record(stats, file[stats.read + 1])
         /\ \E name \in Names :
              /\ name # NoZone => name = file[stats.read + 1].fix
              /\ zone' = IF file[stats.read + 1].ok
                         THEN Observe(zone, file[stats.read + 1], name) ELSE zone
<1>. DEFINE l == file[stats.read + 1]
<1>1. stats.read \in Nat /\ limit \in Nat /\ Len(file) \in Nat
  BY DEF TypeOK, Stats
<1>2. pc = "scan" /\ stats.read < limit /\ limit <= Len(file)
  BY DEF ReadLine, ScanIsInFile
<1>3. \A i \in 1..Len(file) : file[i] \in Line
  BY LineType DEF TypeOK
<1>4. l \in Line
  BY <1>1, <1>2, <1>3
<1>5. PICK name \in (IF l.fix = NoFix THEN {NoZone} ELSE {l.fix})
                      \cup (IF Faults THEN {NoZone} ELSE {}) :
        zone' = IF l.ok THEN Observe(zone, l, name) ELSE zone
  BY DEF ReadLine
<1>6. name \in Names /\ (name # NoZone => name = l.fix)
  BY <1>4 DEF Line, Names
<1>. QED
  BY <1>1, <1>2, <1>3, <1>5, <1>6 DEF ReadLine

(* The initial values have their types. *)
LEMMA FreshType == Fresh \in Stats /\ Unknown \in Zone /\ NoAudit \in Audit
  BY DEF Fresh, Unknown, NoAudit, Stats, Zone, Audit, Times, Names

(* Every action keeps the types. *)
LEMMA TypeStep ==
  TypeOK /\ ScanIsInFile /\ [Next]_vars => TypeOK'
<1> SUFFICES ASSUME TypeOK, ScanIsInFile, [Next]_vars PROVE TypeOK'
  OBVIOUS
<1>. USE FreshType
<1>1. ASSUME NEW l \in Lines, AppendLine(l) PROVE TypeOK'
  <2>1. file \in Seq(Lines) /\ file' = Append(file, l)
    BY <1>1 DEF AppendLine, TypeOK
  <2>2. file' \in Seq(Lines)
    BY <2>1
  <2>. QED
    BY <1>1, <2>2 DEF AppendLine, TypeOK, ledgerVars, scanVars
<1>2. CASE WritePart \/ Close \/ ReadRow \/ EnqueueFails \/ Deliver \/ UNCHANGED vars
  BY <1>2
  DEF WritePart, Close, ReadRow, EnqueueFails, Deliver, TypeOK, vars, fileVars, ledgerVars, scanVars
<1>3. CASE Fstat
  BY <1>3 DEF Fstat, Scanner, TypeOK, fileVars, ledgerVars
<1>4. CASE ReadLine
  <2>1. stats' \in Stats
    <3>1. file[stats.read + 1] \in Line /\ stats' = Record(stats, file[stats.read + 1])
      BY <1>4, LineRead
    <3>. QED
      BY <3>1, RecordFields DEF TypeOK
  <2>2. zone' \in Zone
    <3>1. PICK name \in Names :
            zone' = IF file[stats.read + 1].ok
                    THEN Observe(zone, file[stats.read + 1], name) ELSE zone
      BY <1>4, LineRead
    <3>2. file[stats.read + 1] \in Line
      BY <1>4, LineRead
    <3>. QED
      BY <3>1, <3>2, ObserveType DEF TypeOK
  <2>. QED
    BY <1>4, <2>1, <2>2 DEF ReadLine, TypeOK, fileVars, ledgerVars
<1>5. CASE EndScan
  <2>1. stats' \in Stats
    <3>. DEFINE size == stats.size + 1
    <3>1. stats \in Stats /\ size \in Nat
      BY DEF TypeOK, Stats
    <3>2. stats' = stats \/ stats' = [stats EXCEPT !.bad = TRUE, !.size = size]
      BY <1>5 DEF EndScan
    <3>. HIDE DEF size
    <3>. QED
      BY Zenon, <3>1, <3>2 DEF Stats
  <2>. QED
    BY <1>5, <2>1 DEF EndScan, TypeOK, fileVars, ledgerVars
<1>6. CASE ScanFails \/ ReportShrunk
  BY <1>6 DEF ScanFails, ReportShrunk, Block, Forget, TypeOK, fileVars
<1>7. CASE ReportClose
  <2>1. told' \in Seq(Notification) /\ lastSize' \in Nat /\ audit' \in Audit
    BY <1>7, EnqueueType DEF ReportClose
  <2>. QED
    BY <1>7, <2>1 DEF ReportClose, Forget, TypeOK, fileVars
<1>8. CASE ReportUpdate
  <2>1. told' \in Seq(Notification) /\ lastSize' \in Nat /\ audit' \in Audit /\ unsent' \in BOOLEAN
    <3>1. CASE Worth
      BY <1>8, <3>1, EnqueueType DEF ReportUpdate
    <3>2. CASE ~Worth
      BY <1>8, <3>2 DEF ReportUpdate, TypeOK
    <3>. QED
      BY <3>1, <3>2
  <2>. QED
    BY <1>8, <2>1 DEF ReportUpdate, TypeOK, fileVars
<1>9. CASE Crash
  <2>1. file' \in Seq(Lines) /\ tail' \in BOOLEAN
    <3>1. file \in Seq(Lines) /\ tail \in BOOLEAN
      BY DEF TypeOK
    <3>2. file' = file \/ \E n \in 0..Len(file) : file' = SubSeq(file, 1, n)
      BY <1>9 DEF Crash, fileVars
    <3>3. ASSUME NEW n \in 0..Len(file), file' = SubSeq(file, 1, n) PROVE file' \in Seq(Lines)
      BY <3>1, <3>3
    <3>4. tail' \in BOOLEAN
      BY <1>9, <3>1 DEF Crash, fileVars
    <3>. QED
      BY <3>1, <3>2, <3>3, <3>4
  <2>. QED
    BY <1>9, <2>1 DEF Crash, Forget, TypeOK
<1>. QED
  BY <1>1, <1>2, <1>3, <1>4, <1>5, <1>6, <1>7, <1>8, <1>9 DEF Next

(* Every action keeps the scan inside the file. *)
LEMMA ScanStep ==
  TypeOK /\ ScanIsInFile /\ [Next]_vars => ScanIsInFile'
<1> SUFFICES ASSUME TypeOK, ScanIsInFile, [Next]_vars PROVE ScanIsInFile'
  OBVIOUS
<1>0. stats.read \in Nat /\ limit \in Nat /\ Len(file) \in Nat /\ Fresh.read = 0
      /\ file \in Seq(Lines)
  BY DEF TypeOK, Stats, Fresh
<1>. USE DEF ScanIsInFile
<1>1. ASSUME NEW l \in Lines, AppendLine(l) PROVE ScanIsInFile'
  <2>1. Len(file') = Len(file) + 1
    BY <1>0, <1>1 DEF AppendLine
  <2>2. state = "OPEN" /\ UNCHANGED <<state, pc, final, limit, stats>>
    BY <1>1 DEF AppendLine, ledgerVars, scanVars
  <2>3. stats.read <= Len(file') /\ (limit <= Len(file) => limit <= Len(file'))
    BY <1>0, <2>1
  <2>. QED
    BY <2>2, <2>3
<1>2. CASE WritePart \/ Close \/ EnqueueFails \/ Deliver \/ UNCHANGED vars
  BY <1>0, <1>2
  DEF WritePart, Close, EnqueueFails, Deliver, vars, fileVars, ledgerVars, scanVars
<1>10. CASE ReadRow
  <2>1. /\ pc' = "fstat" /\ state' = state /\ state \in {"OPEN", "CLOSED"}
        /\ stats' = stats /\ file' = file
    BY <1>10 DEF ReadRow, fileVars, ledgerVars
  <2>2. final' => state = "CLOSED"
    BY <1>10 DEF ReadRow
  <2>. QED
    BY <2>1, <2>2
<1>3. CASE Fstat
  BY <1>0, <1>3 DEF Fstat, Scanner, fileVars, ledgerVars
<1>4. CASE ReadLine
  <2>1. stats'.read = stats.read + 1 /\ stats.read + 1 <= limit
    BY <1>4, LineRead, RecordFields DEF TypeOK
  <2>2. pc' = "scan" /\ pc = "scan" /\ UNCHANGED <<file, tail, state, final, limit, torn>>
    BY <1>4, LineRead DEF fileVars, ledgerVars
  <2>. QED
    BY <1>0, <2>1, <2>2
<1>5. CASE EndScan
  <2>1. stats'.read = stats.read
    BY <1>5 DEF EndScan, TypeOK, Stats
  <2>. QED
    BY <1>0, <1>5, <2>1 DEF EndScan, fileVars, ledgerVars
<1>6. CASE ScanFails \/ ReportShrunk
  BY <1>0, <1>6 DEF ScanFails, ReportShrunk, Block, Forget, fileVars
<1>7. CASE ReportClose
  BY <1>0, <1>7 DEF ReportClose, Forget, fileVars
<1>8. CASE ReportUpdate
  BY <1>0, <1>8 DEF ReportUpdate, fileVars
<1>9. CASE Crash
  <2>1. pc' = "idle" /\ stats' = Fresh /\ Len(file') \in Nat
    BY <1>9, FileSteps DEF Crash, Forget, FileIsKept
  <2>. QED
    BY <1>0, <2>1
<1>. QED
  BY <1>1, <1>2, <1>3, <1>4, <1>5, <1>6, <1>7, <1>8, <1>9, <1>10 DEF Next

-----------------------------------------------------------------------------
(* Each part of the invariant is preserved.                                  *)

(* Nothing counted, nothing claimed. *)
LEMMA FreshIsTrue ==
  \A f : /\ Describes(f, Fresh) /\ Dated(f, Fresh) /\ Clean(f, Fresh)
         /\ \A n : Backed(f, n, Unknown)
<1>1. ASSUME NEW f PROVE Describes(f, Fresh) /\ Dated(f, Fresh) /\ Clean(f, Fresh)
  <2>1. Sound(f, 0) = {} /\ Timed(f, 0) = {} /\ Fixed(f, 0) = {}
    BY DEF Sound, Timed, Fixed
  <2>. QED
    BY <2>1 DEF Describes, Dated, Clean, Earliest, Latest, NewestPlace, Fresh
<1>2. ASSUME NEW f, NEW n PROVE Backed(f, n, Unknown)
  BY DEF Backed, Unknown
<1>. QED
  BY <1>1, <1>2

(* What was true of the statistics' lines stays so while they are in the file. *)
LEMMA StatsHeld ==
  ASSUME TypeOK, ScanIsInFile, [Next]_vars, stats.read <= Len(file')
  PROVE  /\ Describes(file, stats) /\ Dated(file, stats) =>
              Describes(file', stats) /\ Dated(file', stats)
         /\ Clean(file, stats) => Clean(file', stats)
<1>1. stats \in Stats /\ stats.read \in Nat
  BY DEF TypeOK, Stats
<1>2. \A i \in 1..stats.read : file[i] = file'[i]
  BY <1>1, FileSteps DEF FileIsKept, ScanIsInFile
<1>. QED
  BY <1>1, <1>2, PrefixDescribes

(* Every action keeps the statistics true. *)
LEMMA StatsStep ==
  TypeOK /\ ScanIsInFile /\ StatsAreTrue /\ [Next]_vars => StatsAreTrue'
<1> SUFFICES ASSUME TypeOK, ScanIsInFile, StatsAreTrue, [Next]_vars PROVE StatsAreTrue'
  OBVIOUS
<1>0. stats \in Stats /\ stats.read \in Nat /\ Len(file) \in Nat
  BY DEF TypeOK, Stats
<1>. USE DEF StatsAreTrue, Spoilt
<1>1. ASSUME state = "OPEN", pc' = pc, final' = final, stats' = stats, Len(file) <= Len(file')
      PROVE  StatsAreTrue'
  <2>1. ~(pc = "report" /\ final) /\ Clean(file, stats)
    BY <1>1 DEF ScanIsInFile
  <2>2. stats.read <= Len(file')
    BY <1>0, <1>1, FileSteps DEF ScanIsInFile, FileIsKept
  <2>. QED
    BY <1>1, <2>1, <2>2, StatsHeld
<1>2. ASSUME NEW l \in Lines, AppendLine(l) PROVE StatsAreTrue'
  <2>1. file' = Append(file, l) /\ file \in Seq(Lines)
    BY <1>2 DEF AppendLine, TypeOK
  <2>2. Len(file) <= Len(file')
    BY <2>1
  <2>. QED
    BY <1>1, <1>2, <2>2 DEF AppendLine, scanVars
<1>3. CASE WritePart \/ Close
  BY <1>0, <1>1, <1>3 DEF WritePart, Close, fileVars, scanVars
<1>4. CASE ReadRow
  <2>1. /\ UNCHANGED <<file, state, stats>> /\ pc = "idle" /\ pc' = "fstat"
        /\ state # "OPEN" => state = "CLOSED"
    BY <1>4 DEF ReadRow, fileVars, ledgerVars
  <2>2. state = "CLOSED" => final'
    BY <1>4 DEF ReadRow
  <2>. QED
    BY <2>1, <2>2
<1>5. CASE Fstat
  BY <1>5, FreshIsTrue DEF Fstat, Scanner, fileVars
<1>6. CASE ReadLine
  <2>. DEFINE l == file[stats.read + 1]
  <2>1. /\ pc = "scan" /\ pc' = "scan" /\ file' = file /\ stats' = Record(stats, l)
        /\ l \in Line /\ \A i \in 1..stats.read : file[i] \in Line
    BY <1>0, <1>6, LineRead DEF fileVars
  <2>2. Describes(file, stats) /\ Dated(file, stats) /\ Clean(file, stats)
    BY <2>1
  <2>3. Describes(file, stats') /\ Dated(file, stats') /\ Clean(file, stats')
    BY <1>0, <2>1, <2>2, RecordDescribes
  <2>. QED
    BY <2>1, <2>3
<1>7. CASE EndScan
  <2>1. /\ pc = "scan" /\ pc' = "report" /\ UNCHANGED <<file, tail, final>>
        /\ Describes(file, stats) /\ Dated(file, stats) /\ Clean(file, stats)
    BY <1>7 DEF EndScan, fileVars
  <2>2. /\ stats'.read = stats.read /\ stats'.first = stats.first /\ stats'.last = stats.last
        /\ stats'.place = stats.place /\ stats'.placeTime = stats.placeTime
    BY <1>0, <1>7 DEF EndScan, Stats
  <2>3. Describes(file, stats') /\ Dated(file, stats')
    BY <2>1, <2>2 DEF Describes, Dated
  <2>4. ~final => stats' = stats
    BY <1>7 DEF EndScan
  <2>5. ASSUME final PROVE Complete(stats')
    <3>1. torn = tail
      BY <2>1, <2>5 DEF ScanIsInFile
    <3>2. CASE tail
      <4>1. stats' = [stats EXCEPT !.bad = TRUE, !.size = stats.size + 1]
        BY <1>7, <2>5, <3>1, <3>2 DEF EndScan
      <4>2. stats'.bad = TRUE
        BY Zenon, <1>0, <4>1 DEF Stats
      <4>3. stats'.size = stats.size + 1
        BY <1>0, <4>1 DEF Stats
      <4>. QED
        BY <2>1, <2>2, <3>2, <4>2, <4>3 DEF Complete, Clean
    <3>3. CASE ~tail
      <4>1. stats' = stats
        BY <1>7, <3>1, <3>3 DEF EndScan
      <4>2. stats.size \in Nat
        BY <1>0 DEF Stats
      <4>. QED
        BY <1>0, <2>1, <3>3, <4>1, <4>2 DEF Complete, Clean
    <3>. QED
      BY <3>2, <3>3
  <2>6. final' => Complete(stats)'
    BY <2>1, <2>5 DEF Complete
  <2>. QED
    BY <2>1, <2>3, <2>4, <2>6
<1>8. CASE ScanFails \/ ReportShrunk \/ ReportClose \/ Crash
  <2>1. pc' = "idle" /\ stats' = Fresh
    BY <1>8 DEF ScanFails, ReportShrunk, ReportClose, Crash, Block, Forget
  <2>. QED
    BY <2>1, FreshIsTrue
<1>9. CASE ReportUpdate
  BY <1>9 DEF ReportUpdate, fileVars
<1>10. CASE EnqueueFails
  <2>1. pc = "report" /\ pc' = "idle" /\ UNCHANGED <<file, tail, state, stats>>
    BY <1>10 DEF EnqueueFails, fileVars, ledgerVars
  <2>2. final => state' # "OPEN"
    BY <2>1 DEF ScanIsInFile
  <2>. QED
    BY <2>1, <2>2
<1>11. CASE Deliver \/ UNCHANGED vars
  <2>1. UNCHANGED <<file, tail, state, stats, pc, final>>
    BY <1>11 DEF Deliver, vars, fileVars, ledgerVars, scanVars
  <2>2. Complete(stats) => Complete(stats)'
    BY <2>1 DEF Complete
  <2>. QED
    BY <2>1, <2>2
<1>. QED
  BY <1>2, <1>3, <1>4, <1>5, <1>6, <1>7, <1>8, <1>9, <1>10, <1>11 DEF Next

(* Every action keeps the zone backed. *)
LEMMA ZoneStep ==
  TypeOK /\ ScanIsInFile /\ ZoneIsBacked /\ [Next]_vars => ZoneIsBacked'
<1> SUFFICES ASSUME TypeOK, ScanIsInFile, ZoneIsBacked, [Next]_vars PROVE ZoneIsBacked'
  OBVIOUS
<1>0. /\ stats.read \in Nat /\ Len(file) \in Nat /\ Len(file') \in Nat /\ stats.read <= Len(file)
      /\ zone \in Zone
  BY FileSteps DEF TypeOK, Stats, ScanIsInFile, FileIsKept
<1>. USE DEF ZoneIsBacked
<1>1. CASE pc' = "idle" /\ zone' = Unknown /\ stats' = Fresh
  BY <1>1, FreshIsTrue
<1>2. CASE ReadLine
  <2>. DEFINE p == stats.read + 1
              l == file[p]
  <2>1. /\ pc = "scan" /\ p \in 1..Len(file) /\ \A i \in 1..Len(file) : file[i] \in Line
        /\ stats'.read = p /\ UNCHANGED <<pc, file, state, final>>
    BY <1>2, LineRead, RecordFields DEF fileVars, ledgerVars, TypeOK
  <2>2. PICK name \in Names :
          /\ name # NoZone => name = l.fix
          /\ zone' = IF l.ok THEN Observe(zone, l, name) ELSE zone
    BY <1>2, LineRead
  <2>3. NoFix \notin Names
    BY LinesAssumption DEF Names
  <2>4. ASSUME NEW n \in Nat, p <= n, n <= Len(file), Backed(file, n, zone)
        PROVE  Backed(file, n, zone')
    <3>1. CASE l.ok
      BY <1>0, <2>1, <2>2, <2>3, <2>4, <3>1, ObserveBacked
    <3>2. CASE ~l.ok
      BY <2>2, <2>4, <3>2
    <3>. QED
      BY <3>1, <3>2
  <2>5. Backed(file, Len(file), zone')
    BY <1>0, <2>1, <2>4
  <2>6. state = "OPEN" \/ ~final => Backed(file, p, zone')
    <3>1. Backed(file, stats.read, zone) => Backed(file, p, zone)
      <4>1. p \in Nat /\ stats.read <= p
        BY <1>0
      <4>. HIDE DEF p
      <4>. QED
        BY <1>0, <4>1, MoreLinesBack
    <3>. QED
      BY <1>0, <2>1, <2>4, <3>1
  <2>. QED
    BY <2>1, <2>5, <2>6
<1>3. CASE /\ zone' = zone /\ stats'.read = stats.read /\ Len(file) <= Len(file')
           /\ state' = "OPEN" \/ (pc' # "idle" /\ ~final') =>
                state = "OPEN" \/ (pc # "idle" /\ ~final)
  <2>1. \A i \in 1..Len(file) : file[i] = file'[i]
    BY <1>0, <1>3, FileSteps DEF FileIsKept
  <2>2. Backed(file', Len(file), zone)
    BY <1>0, <2>1, PrefixBacks
  <2>3. Backed(file', Len(file'), zone)
    BY <1>0, <1>3, <2>2, MoreLinesBack
  <2>4. Backed(file, stats.read, zone) => Backed(file', stats.read, zone)
    BY <1>0, <2>1, PrefixBacks
  <2>. QED
    BY <1>3, <2>3, <2>4
<1>4. CASE Fstat
  <2>1. /\ UNCHANGED <<file, state, zone, final>> /\ pc = "fstat" /\ pc' = "scan"
        /\ ~final => stats' = stats
    BY <1>4 DEF Fstat, Scanner, fileVars, ledgerVars
  <2>2. final => state # "OPEN"
    BY <2>1 DEF ScanIsInFile
  <2>. QED
    BY <2>1, <2>2
<1>5. ASSUME NEW l \in Lines, AppendLine(l) PROVE ZoneIsBacked'
  <2>1. file' = Append(file, l) /\ file \in Seq(Lines)
    BY <1>5 DEF AppendLine, TypeOK
  <2>2. Len(file) <= Len(file')
    BY <2>1
  <2>. QED
    BY <1>3, <1>5, <2>2 DEF AppendLine, ledgerVars, scanVars
<1>6. CASE WritePart \/ Close \/ ReportUpdate \/ EnqueueFails \/ Deliver \/ UNCHANGED vars
  BY <1>0, <1>3, <1>6
  DEF WritePart, Close, ReportUpdate, EnqueueFails, Deliver, vars, fileVars, ledgerVars, scanVars
<1>7. CASE ReadRow
  <2>1. /\ UNCHANGED <<file, state, zone, stats>>
        /\ state # "OPEN" => state = "CLOSED"
    BY <1>7 DEF ReadRow, fileVars, ledgerVars
  <2>2. state = "CLOSED" => final'
    BY <1>7 DEF ReadRow
  <2>. QED
    BY <1>0, <1>3, <2>1, <2>2
<1>8. CASE EndScan
  <2>1. UNCHANGED <<file, state, zone, final>> /\ pc = "scan"
    BY <1>8 DEF EndScan, fileVars, ledgerVars
  <2>2. stats'.read = stats.read
    BY <1>8 DEF EndScan, TypeOK, Stats
  <2>. QED
    BY <1>0, <1>3, <2>1, <2>2
<1>9. CASE ScanFails \/ ReportShrunk \/ ReportClose \/ Crash
  BY <1>1, <1>9 DEF ScanFails, ReportShrunk, ReportClose, Crash, Block, Forget
<1>. QED
  BY <1>2, <1>4, <1>5, <1>6, <1>7, <1>8, <1>9 DEF Next

-----------------------------------------------------------------------------
(* The notifications. Only two actions add one.                              *)

Reports(phase) ==
  /\ pc = "report" /\ ~Shrunk /\ Enqueue(phase) /\ UNCHANGED fileVars
  /\ phase = "close" => final /\ state' = "FINALIZED"
  /\ phase = "update" => ~final /\ Worth /\ state' = state

(* Every action reports or leaves what was told alone. *)
LEMMA ToldSteps ==
  [Next]_vars =>
    \/ /\ UNCHANGED <<told, lastSize, audit>>
       /\ state' \in {"OPEN", "CLOSED"} => state \in {"OPEN", "CLOSED"}
    \/ \E phase \in {"update", "close"} : Reports(phase)
<1> SUFFICES ASSUME [Next]_vars
             PROVE  \/ /\ UNCHANGED <<told, lastSize, audit>>
                       /\ state' \in {"OPEN", "CLOSED"} => state \in {"OPEN", "CLOSED"}
                    \/ \E phase \in {"update", "close"} : Reports(phase)
  OBVIOUS
<1>1. CASE ReportClose
  BY <1>1 DEF ReportClose, Reports
<1>2. CASE ReportUpdate
  <2>1. CASE Worth
    BY <1>2, <2>1 DEF ReportUpdate, Reports
  <2>2. CASE ~Worth
    BY <1>2, <2>2 DEF ReportUpdate
  <2>. QED
    BY <2>1, <2>2
<1>3. CASE (\E l \in Lines : AppendLine(l)) \/ WritePart \/ Close \/ ReadRow \/ Fstat \/ ReadLine
  BY <1>3 DEF AppendLine, WritePart, Close, ReadRow, Fstat, ReadLine, ledgerVars
<1>4. CASE EndScan \/ ScanFails \/ ReportShrunk \/ EnqueueFails \/ Deliver \/ Crash
  BY <1>4
  DEF EndScan, ScanFails, ReportShrunk, EnqueueFails, Deliver, Crash, Block, ledgerVars
<1>. QED
  BY <1>1, <1>2, <1>3, <1>4 DEF Next, vars, ledgerVars

(* Every action keeps the ledger in agreement with what was told. *)
LEMMA LedgerStep ==
  TypeOK /\ LedgerIsKept /\ [Next]_vars => LedgerIsKept'
<1> SUFFICES ASSUME TypeOK, LedgerIsKept, [Next]_vars PROVE LedgerIsKept'
  OBVIOUS
<1>1. CASE /\ UNCHANGED <<told, lastSize, audit>>
           /\ state' \in {"OPEN", "CLOSED"} => state \in {"OPEN", "CLOSED"}
  BY <1>1 DEF LedgerIsKept
<1>2. ASSUME NEW phase \in {"update", "close"}, Reports(phase) PROVE LedgerIsKept'
  <2>. DEFINE n == Len(told) + 1
  <2>1. /\ DOMAIN told = 1..Len(told) /\ DOMAIN told' = 1..n /\ Len(told) \in Nat
        /\ \A k \in DOMAIN told : told'[k] = told[k]
        /\ told'[n] = [phase |-> phase, stats |-> stats, zone |-> Reported]
        /\ lastSize' = stats.size /\ audit'.name = Reported
    BY <1>2, Enqueued DEF Reports
  <2>2. lastSize <= stats.size /\ lastSize \in Nat /\ stats.size \in Nat
    BY <1>2 DEF Reports, Shrunk, TypeOK, Stats
  <2>3. audit.name # NoZone => Reported = audit.name
    BY DEF Reported
  <2>4. state' \in {"OPEN", "CLOSED"} => phase = "update" /\ state \in {"OPEN", "CLOSED"}
    BY <1>2 DEF Reports
  <2>5. \A k \in DOMAIN told : told[k].stats.size \in Nat
    <3>1. \A k \in DOMAIN told : told[k] \in Notification
      BY DEF TypeOK
    <3>. QED
      BY <3>1 DEF Notification, Stats
  <2>6. ASSUME NEW k \in DOMAIN told'
        PROVE  /\ state' \in {"OPEN", "CLOSED"} => told'[k].phase = "update"
               /\ told'[k].stats.size <= lastSize'
               /\ told'[k].zone \in {NoZone, audit'.name}
    <3>1. CASE k = n
      BY <2>1, <2>2, <2>4, <3>1
    <3>2. CASE k \in DOMAIN told
      BY <2>1, <2>2, <2>3, <2>4, <2>5, <3>2 DEF LedgerIsKept
    <3>. QED
      BY <2>1, <3>1, <3>2
  <2>7. audit'.name # NoZone => \E k \in DOMAIN told' : told'[k].zone = audit'.name
    BY <2>1
  <2>. QED
    BY <2>6, <2>7 DEF LedgerIsKept
<1>. QED
  BY <1>1, <1>2, ToldSteps

(* The lines a report counts, and its size. *)
LEMMA ReportedStats ==
  ASSUME TypeOK, ScanIsInFile, StatsAreTrue, NEW phase \in {"update", "close"}, Reports(phase)
  PROVE  /\ stats.read \in Nat /\ stats.size \in Nat /\ stats.read <= Len(file)
         /\ 2 * stats.read <= stats.size /\ stats.size <= 2 * stats.read + 1
         /\ Describes(file, stats)
         /\ phase = "close" => Complete(stats) /\ stats.read = Len(file)
<1>1. stats.read \in Nat /\ stats.size \in Nat
  BY DEF TypeOK, Stats
<1>2. pc = "report" /\ (phase = "close" => final) /\ (phase = "update" => ~final)
  BY DEF Reports
<1>3. IF final THEN Complete(stats) ELSE Clean(file, stats)
  BY <1>2 DEF StatsAreTrue, Spoilt
<1>4. 2 * stats.read <= stats.size /\ stats.size <= 2 * stats.read + 1
  BY <1>1, <1>3 DEF Complete, Clean
<1>. QED
  BY <1>1, <1>2, <1>3, <1>4 DEF StatsAreTrue, ScanIsInFile

(* Every action keeps the sizes told in line with the lines counted. *)
LEMMA ToldInFileStep ==
  TypeOK /\ ScanIsInFile /\ StatsAreTrue /\ ToldIsInFile /\ [Next]_vars => ToldIsInFile'
<1> SUFFICES ASSUME TypeOK, ScanIsInFile, StatsAreTrue, ToldIsInFile, [Next]_vars
             PROVE  ToldIsInFile'
  OBVIOUS
<1>0. /\ state' = "OPEN" => state = "OPEN" /\ Len(file) <= Len(file')
      /\ Len(file) \in Nat /\ Len(file') \in Nat
  BY FileSteps DEF FileIsKept
<1>1. \A k \in DOMAIN told : told[k].stats.read \in Nat
  <2>1. \A k \in DOMAIN told : told[k] \in Notification
    BY DEF TypeOK
  <2>. QED
    BY <2>1 DEF Notification, Stats
<1>2. CASE UNCHANGED told
  BY <1>0, <1>1, <1>2 DEF ToldIsInFile
<1>3. ASSUME NEW phase \in {"update", "close"}, Reports(phase) PROVE ToldIsInFile'
  <2>. DEFINE n == Len(told) + 1
  <2>1. /\ DOMAIN told = 1..Len(told) /\ DOMAIN told' = 1..n /\ Len(told) \in Nat
        /\ \A k \in DOMAIN told : told'[k] = told[k]
        /\ told'[n] = [phase |-> phase, stats |-> stats, zone |-> Reported]
    BY <1>3, Enqueued DEF Reports
  <2>2. 2 * stats.read <= stats.size /\ stats.read <= Len(file) /\ stats.read \in Nat
    BY <1>3, ReportedStats
  <2>3. ASSUME NEW k \in DOMAIN told'
        PROVE  /\ 2 * told'[k].stats.read <= told'[k].stats.size
               /\ state' = "OPEN" => told'[k].stats.read <= Len(file')
    <3>1. CASE k = n
      BY <1>0, <2>1, <2>2, <3>1
    <3>2. CASE k \in DOMAIN told
      BY <1>0, <1>1, <2>1, <3>2 DEF ToldIsInFile
    <3>. QED
      BY <2>1, <3>1, <3>2
  <2>. QED
    BY <2>3 DEF ToldIsInFile
<1>. QED
  BY <1>2, <1>3, ToldSteps

(* Every action lets what is told only grow. *)
LEMMA GrowthStep ==
  TypeOK /\ ScanIsInFile /\ LedgerIsKept /\ ToldOnlyGrows /\ [Next]_vars => ToldOnlyGrows'
<1> SUFFICES ASSUME TypeOK, ScanIsInFile, LedgerIsKept, ToldOnlyGrows, [Next]_vars
             PROVE  ToldOnlyGrows'
  OBVIOUS
<1>1. CASE UNCHANGED told
  BY <1>1 DEF ToldOnlyGrows
<1>2. ASSUME NEW phase \in {"update", "close"}, Reports(phase) PROVE ToldOnlyGrows'
  <2>. DEFINE n == Len(told) + 1
  <2>1. /\ DOMAIN told = 1..Len(told) /\ DOMAIN told' = 1..n /\ Len(told) \in Nat
        /\ \A k \in DOMAIN told : told'[k] = told[k]
        /\ told'[n] = [phase |-> phase, stats |-> stats, zone |-> Reported]
    BY <1>2, Enqueued DEF Reports
  <2>2. ASSUME NEW j \in DOMAIN told
        PROVE  /\ told[j].phase = "update" /\ told[j].stats.size <= stats.size
               /\ phase = "update" => told[j].stats.size < stats.size
    <3>1. told[j].phase = "update" /\ told[j].stats.size <= lastSize
      BY <1>2 DEF LedgerIsKept, Reports, ScanIsInFile
    <3>2. told[j].stats.size \in Nat /\ lastSize \in Nat /\ stats.size \in Nat
      <4>1. told[j] \in Notification
        BY DEF TypeOK
      <4>. QED
        BY <4>1 DEF TypeOK, Notification, Stats
    <3>3. lastSize <= stats.size /\ (phase = "update" => lastSize < stats.size)
      BY <1>2, <3>2 DEF Reports, Shrunk, Worth
    <3>. QED
      BY <3>1, <3>2, <3>3
  <2>3. ASSUME NEW j \in DOMAIN told', NEW k \in DOMAIN told', j < k
        PROVE  /\ told'[j].phase = "update"
               /\ told'[j].stats.size <= told'[k].stats.size
               /\ told'[k].phase = "update" => told'[j].stats.size < told'[k].stats.size
    <3>1. j \in DOMAIN told
      BY <2>1, <2>3
    <3>2. CASE k = n
      BY <2>1, <2>2, <3>1, <3>2
    <3>3. CASE k \in DOMAIN told
      BY <2>1, <2>3, <3>1, <3>3 DEF ToldOnlyGrows
    <3>. QED
      BY <2>1, <3>2, <3>3
  <2>. QED
    BY <2>3 DEF ToldOnlyGrows
<1>. QED
  BY <1>1, <1>2, ToldSteps

(* Every action keeps to one zone. *)
LEMMA OneZoneStep ==
  TypeOK /\ LedgerIsKept /\ OneZone /\ [Next]_vars => OneZone'
<1> SUFFICES ASSUME TypeOK, LedgerIsKept, OneZone, [Next]_vars PROVE OneZone'
  OBVIOUS
<1>1. CASE UNCHANGED told
  BY <1>1 DEF OneZone
<1>2. ASSUME NEW phase \in {"update", "close"}, Reports(phase) PROVE OneZone'
  <2>. DEFINE n == Len(told) + 1
  <2>1. /\ DOMAIN told = 1..Len(told) /\ DOMAIN told' = 1..n /\ Len(told) \in Nat
        /\ \A k \in DOMAIN told : told'[k] = told[k]
        /\ told'[n] = [phase |-> phase, stats |-> stats, zone |-> Reported]
    BY <1>2, Enqueued DEF Reports
  <2>2. ASSUME NEW j \in DOMAIN told, told[j].zone # NoZone PROVE told[j].zone = Reported
    BY <2>2 DEF LedgerIsKept, Reported
  <2>3. ASSUME NEW j \in DOMAIN told', NEW k \in DOMAIN told', j < k, told'[j].zone # NoZone
        PROVE  told'[k].zone = told'[j].zone
    <3>1. j \in DOMAIN told
      BY <2>1, <2>3
    <3>2. CASE k = n
      BY <2>1, <2>2, <2>3, <3>1, <3>2
    <3>3. CASE k \in DOMAIN told
      BY <2>1, <2>3, <3>1, <3>3 DEF OneZone
    <3>. QED
      BY <2>1, <3>2, <3>3
  <2>. QED
    BY <2>3 DEF OneZone
<1>. QED
  BY <1>1, <1>2, ToldSteps

(* What a notification counts and the file still has, the file had. *)
LEMMA ToldHeld ==
  ASSUME TypeOK, ToldIsInFile, [Next]_vars, NEW k \in DOMAIN told,
         told[k].stats.read <= Len(file')
  PROVE  /\ told[k] \in Notification /\ told[k].stats \in Stats /\ told[k].stats.read \in Nat
         /\ told[k].stats.read <= Len(file)
         /\ \A i \in 1..told[k].stats.read : file[i] = file'[i]
<1>1. told[k] \in Notification
  BY DEF TypeOK
<1>2. told[k].stats \in Stats /\ told[k].stats.read \in Nat
  BY <1>1 DEF Notification, Stats
<1>3. told[k].stats.read <= Len(file)
  BY FileSteps DEF FileIsKept, ToldIsInFile
<1>. QED
  BY <1>1, <1>2, <1>3, FileSteps DEF FileIsKept

(* Every action keeps the zones named witnessed. *)
LEMMA WitnessStep ==
  TypeOK /\ ScanIsInFile /\ StatsAreTrue /\ ZoneIsBacked /\ LedgerIsKept /\ ToldIsInFile
  /\ ZoneIsWitnessed /\ [Next]_vars => ZoneIsWitnessed'
<1> SUFFICES ASSUME TypeOK, ScanIsInFile, StatsAreTrue, ZoneIsBacked, LedgerIsKept, ToldIsInFile,
                    ZoneIsWitnessed, [Next]_vars
             PROVE  ZoneIsWitnessed'
  OBVIOUS
<1>1. ASSUME NEW k \in DOMAIN told, told[k].zone # NoZone, told[k].stats.read <= Len(file')
      PROVE  Witnessed(file', told[k].stats.read, told[k].zone)
  <2>1. /\ told[k].stats.read \in Nat /\ told[k].stats.read <= Len(file)
        /\ \A i \in 1..told[k].stats.read : file[i] = file'[i]
    BY <1>1, ToldHeld
  <2>2. Witnessed(file, told[k].stats.read, told[k].zone)
    BY <1>1, <2>1 DEF ZoneIsWitnessed
  <2>. QED
    BY <2>1, <2>2, PrefixBacks
<1>2. CASE UNCHANGED told
  BY <1>1, <1>2 DEF ZoneIsWitnessed
<1>3. ASSUME NEW phase \in {"update", "close"}, Reports(phase) PROVE ZoneIsWitnessed'
  <2>. DEFINE n == Len(told) + 1
  <2>1. /\ DOMAIN told = 1..Len(told) /\ DOMAIN told' = 1..n /\ Len(told) \in Nat
        /\ \A k \in DOMAIN told : told'[k] = told[k]
        /\ told'[n] = [phase |-> phase, stats |-> stats, zone |-> Reported]
    BY <1>3, Enqueued DEF Reports
  <2>2. /\ stats.read \in Nat /\ stats.size \in Nat /\ stats.read <= Len(file)
        /\ stats.size <= 2 * stats.read + 1 /\ file' = file
    BY <1>3, ReportedStats DEF Reports, fileVars
  <2>3. ASSUME Reported # NoZone PROVE Witnessed(file, stats.read, Reported)
    <3>1. CASE audit.name # NoZone
      <4>1. Reported = audit.name
        BY <3>1 DEF Reported
      <4>2. PICK k \in DOMAIN told : told[k].zone = audit.name
        BY <3>1 DEF LedgerIsKept
      <4>. DEFINE r == told[k].stats.read
      <4>3. r \in Nat /\ told[k].stats.size \in Nat /\ lastSize \in Nat
        <5>1. told[k] \in Notification
          BY DEF TypeOK
        <5>. QED
          BY <5>1 DEF Notification, Stats, TypeOK
      <4>4. 2 * r <= told[k].stats.size /\ told[k].stats.size <= lastSize
        BY DEF ToldIsInFile, LedgerIsKept
      <4>5. lastSize <= stats.size
        BY <1>3, <2>2, <4>3 DEF Reports, Shrunk
      <4>6. r <= stats.read
        BY <2>2, <4>3, <4>4, <4>5
      <4>7. Witnessed(file, r, audit.name)
        <5>1. Len(file) \in Nat
          BY DEF TypeOK
        <5>2. r <= Len(file)
          BY <2>2, <4>3, <4>6, <5>1
        <5>. QED
          BY <3>1, <4>2, <5>2 DEF ZoneIsWitnessed
      <4>. QED
        BY <2>2, <4>1, <4>3, <4>6, <4>7, MoreLinesBack
    <3>2. CASE audit.name = NoZone
      <4>1. Reported = zone.name
        BY <3>2 DEF Reported
      <4>2. Backed(file, stats.read, zone)
        <5>1. CASE phase = "close"
          BY <1>3, <5>1, ReportedStats DEF ZoneIsBacked
        <5>2. CASE phase = "update"
          BY <1>3, <5>2 DEF ZoneIsBacked, Reports
        <5>. QED
          BY <5>1, <5>2
      <4>. QED
        BY <2>3, <4>1, <4>2 DEF Backed
    <3>. QED
      BY <3>1, <3>2
  <2>4. ASSUME NEW k \in DOMAIN told', told'[k].zone # NoZone, told'[k].stats.read <= Len(file')
        PROVE  Witnessed(file', told'[k].stats.read, told'[k].zone)
    <3>1. CASE k = n
      BY <2>1, <2>2, <2>3, <2>4, <3>1
    <3>2. CASE k \in DOMAIN told
      BY <1>1, <2>1, <2>4, <3>2
    <3>. QED
      BY <2>1, <3>1, <3>2
  <2>. QED
    BY <2>4 DEF ZoneIsWitnessed
<1>. QED
  BY <1>2, <1>3, ToldSteps

(* Every action keeps what was told true. *)
LEMMA TruthStep ==
  TypeOK /\ ScanIsInFile /\ StatsAreTrue /\ LedgerIsKept /\ ToldIsInFile /\ ToldIsTrue
  /\ [Next]_vars => ToldIsTrue'
<1> SUFFICES ASSUME TypeOK, ScanIsInFile, StatsAreTrue, LedgerIsKept, ToldIsInFile, ToldIsTrue,
                    [Next]_vars
             PROVE  ToldIsTrue'
  OBVIOUS
<1>. DEFINE Whole(f, t, s) ==
              /\ s.read = Len(f)
              /\ s.size = 2 * Len(f) + (IF t THEN 1 ELSE 0)
              /\ Valid(s) <=> ~t /\ Sound(f, Len(f)) = 1..Len(f) /\ Timed(f, Len(f)) # {}
<1>. HIDE DEF Whole
<1>1. ASSUME NEW k \in DOMAIN told, told[k].stats.read <= Len(file')
      PROVE  Describes(file', told[k].stats)
  <2>1. /\ told[k].stats \in Stats /\ told[k].stats.read <= Len(file)
        /\ \A i \in 1..told[k].stats.read : file[i] = file'[i]
    BY <1>1, ToldHeld
  <2>2. Describes(file, told[k].stats)
    BY <2>1 DEF ToldIsTrue
  <2>. QED
    BY <2>1, <2>2, PrefixDescribes
<1>2. ASSUME NEW k \in DOMAIN told, told[k].phase = "close"
      PROVE  Whole(file', tail', told[k].stats)
  <2>1. state # "OPEN"
    BY <1>2 DEF LedgerIsKept
  <2>2. file' = file /\ tail' = tail
    BY <2>1, FileSteps DEF FileIsKept
  <2>. QED
    BY <1>2, <2>2 DEF ToldIsTrue, Whole
<1>3. CASE UNCHANGED told
  BY <1>1, <1>2, <1>3 DEF ToldIsTrue, Whole
<1>4. ASSUME NEW phase \in {"update", "close"}, Reports(phase) PROVE ToldIsTrue'
  <2>. DEFINE n == Len(told) + 1
  <2>1. /\ DOMAIN told = 1..Len(told) /\ DOMAIN told' = 1..n /\ Len(told) \in Nat
        /\ \A k \in DOMAIN told : told'[k] = told[k]
        /\ told'[n] = [phase |-> phase, stats |-> stats, zone |-> Reported]
    BY <1>4, Enqueued DEF Reports
  <2>2. /\ Describes(file, stats) /\ file' = file /\ tail' = tail
        /\ phase = "close" => Complete(stats) /\ stats.read = Len(file)
    BY <1>4, ReportedStats DEF Reports, fileVars
  <2>3. ASSUME phase = "close" PROVE Whole(file, tail, stats)
    <3>1. Sound(file, Len(file)) \subseteq 1..Len(file) /\ Len(file) \in Nat
      BY DEF Sound, TypeOK
    <3>2. stats.first # NoTime <=> Timed(file, Len(file)) # {}
      BY <2>2, <2>3 DEF Describes, Earliest, Timed
    <3>3. Timed(file, Len(file)) # {} => stats.read > 0
      BY <2>2, <2>3, <3>1 DEF Timed
    <3>. QED
      BY <2>2, <2>3, <3>2, <3>3 DEF Complete, Whole, Valid
  <2>4. ASSUME NEW k \in DOMAIN told'
        PROVE  /\ told'[k].stats.read <= Len(file') => Describes(file', told'[k].stats)
               /\ told'[k].phase = "close" => Whole(file', tail', told'[k].stats)
    <3>1. CASE k = n
      BY <2>1, <2>2, <2>3, <3>1
    <3>2. CASE k \in DOMAIN told
      BY <1>1, <1>2, <2>1, <3>2
    <3>. QED
      BY <2>1, <3>1, <3>2
  <2>. QED
    BY <2>4 DEF ToldIsTrue, Whole
<1>. QED
  BY <1>3, <1>4, ToldSteps

-----------------------------------------------------------------------------
(* The invariant holds in every state of every behaviour. *)
THEOREM Invariance == Spec => []IndInv
<1>1. Init => IndInv
  <2> SUFFICES ASSUME Init PROVE IndInv
    OBVIOUS
  <2>1. TypeOK /\ ScanIsInFile
    <3>1. TypeOK
      <4>1. file \in Seq(Lines) /\ told \in Seq(Notification) /\ audit \in Audit
        BY FreshType DEF Init
      <4>2. stats \in Stats /\ zone \in Zone
        BY FreshType DEF Init
      <4>. QED
        BY <4>1, <4>2 DEF Init, TypeOK
    <3>2. Len(file) = 0 /\ stats.read = 0 /\ pc = "idle"
      BY DEF Init, Fresh
    <3>. QED
      BY <3>1, <3>2 DEF ScanIsInFile
  <2>2. StatsAreTrue /\ ZoneIsBacked
    BY FreshIsTrue DEF Init, StatsAreTrue, ZoneIsBacked
  <2>3. LedgerIsKept /\ ToldIsInFile /\ ToldOnlyGrows /\ OneZone /\ ZoneIsWitnessed /\ ToldIsTrue
    BY DEF Init, LedgerIsKept, ToldIsInFile, ToldOnlyGrows, OneZone, ZoneIsWitnessed, ToldIsTrue,
           NoAudit
  <2>. QED
    BY <2>1, <2>2, <2>3 DEF IndInv
<1>2. IndInv /\ [Next]_vars => IndInv'
  <2> SUFFICES ASSUME IndInv, [Next]_vars PROVE IndInv'
    OBVIOUS
  <2>1. TypeOK' /\ ScanIsInFile' /\ StatsAreTrue' /\ ZoneIsBacked'
    BY TypeStep, ScanStep, StatsStep, ZoneStep DEF IndInv
  <2>2. LedgerIsKept' /\ ToldIsInFile' /\ ToldOnlyGrows' /\ OneZone'
    BY LedgerStep, ToldInFileStep, GrowthStep, OneZoneStep DEF IndInv
  <2>3. ZoneIsWitnessed' /\ ToldIsTrue'
    BY WitnessStep, TruthStep DEF IndInv
  <2>. QED
    BY <2>1, <2>2, <2>3 DEF IndInv
<1>. QED
  BY <1>1, <1>2, PTL DEF Spec

(* Every variable has its type. *)
THEOREM TypeCorrect == Spec => []TypeOK
  BY Invariance, PTL DEF IndInv

(* What an update says is true of the lines it counts, and what the close    *)
(* says of the whole file.                                                   *)
THEOREM ToldTrue == Spec => []ToldIsTrue
  BY Invariance, PTL DEF IndInv

(* The Web never hears of a smaller recording than before, nor of anything   *)
(* after the close.                                                          *)
THEOREM ToldGrows == Spec => []ToldOnlyGrows
  BY Invariance, PTL DEF IndInv

(* Once a notification has named a zone, every later one names the same. *)
THEOREM ZoneIsOne == Spec => []OneZone
  BY Invariance, PTL DEF IndInv

(* A zone that is named has three agreeing samples among the lines counted. *)
THEOREM ZoneWitnessed == Spec => []ZoneIsWitnessed
  BY Invariance, PTL DEF IndInv

(* The ledger's zone never changes once it is known, and its conflict count  *)
(* never goes back. Only a notification changes either.                      *)
THEOREM AuditGrows == Spec => AuditOnlyGrows
<1> DEFINE Kept == audit.name # NoZone =>
                     audit'.name = audit.name /\ audit'.conflicts >= audit.conflicts
<1>1. IndInv /\ [Next]_vars => Kept
  <2> SUFFICES ASSUME IndInv, [Next]_vars, audit.name # NoZone
               PROVE  audit'.name = audit.name /\ audit'.conflicts >= audit.conflicts
    OBVIOUS
  <2>1. audit \in Audit /\ audit.conflicts \in Nat /\ zone.conflicts \in Nat
    BY DEF IndInv, TypeOK, Audit, Zone
  <2>2. audit' = audit \/ audit' = NextAudit
    BY ToldSteps DEF Reports, Enqueue
  <2>. QED
    BY <2>1, <2>2 DEF NextAudit, Audit, Greatest
<1>. QED
  BY <1>1, Invariance, PTL DEF Spec, AuditOnlyGrows, Kept
=============================================================================
