------------------------- MODULE LocalManifestProofs -------------------------
(***************************************************************************)
(* Proofs about LocalManifest, for every set of paths and uploads and every *)
(* bound.  TypeCorrect holds whatever the disk does; the other theorems     *)
(* suppose that a write which reports an error changed nothing, since the   *)
(* code does not survive two torn checkpoints (LocalManifestTorn).          *)
(***************************************************************************)
EXTENDS LocalManifest, WellFoundedInduction, TLAPS

-----------------------------------------------------------------------------
(* The greatest of some positions of a list. *)

LEMMA GreatestExists ==
  ASSUME NEW k \in Nat, NEW ns \in SUBSET (0..k), ns # {}
  PROVE  Max(ns) \in ns /\ \A m \in ns : m <= Max(ns)
<1> DEFINE down == {k - n : n \in ns}
<1>1. down \subseteq Nat /\ down # {}
  <2>1. \A n \in ns : k - n \in Nat
    OBVIOUS
  <2>2. PICK n \in ns : TRUE
    OBVIOUS
  <2>3. k - n \in down
    OBVIOUS
  <2> QED BY <2>1, <2>3
<1>2. PICK x \in down : \A y \in down : <<y, x>> \notin OpToRel(<, Nat)
  <2> HIDE DEF down
  <2> QED BY <1>1, NatLessThanWellFounded, WFMin
<1>3. \A y \in down : ~(y < x)
  BY <1>1, <1>2 DEF OpToRel
<1>4. PICK n \in ns : x = k - n
  OBVIOUS
<1>5. \A m \in ns : n >= m
  <2> SUFFICES ASSUME NEW m \in ns PROVE n >= m
    OBVIOUS
  <2>1. k - m \in down
    OBVIOUS
  <2>2. ~(k - m < k - n)
    BY <1>3, <1>4, <2>1
  <2> QED BY <2>2
<1>6. Max(ns) \in ns /\ \A m \in ns : Max(ns) >= m
  BY <1>5 DEF Max
<1>7. ns \subseteq Int
  OBVIOUS
<1> QED BY <1>6, <1>7

LEMMA GreatestIs ==
  ASSUME NEW k \in Nat, NEW ns \in SUBSET (0..k), NEW n \in ns, \A m \in ns : m <= n
  PROVE  Max(ns) = n
<1>1. Max(ns) \in ns /\ n <= Max(ns)
  BY GreatestExists
<1>2. ns \subseteq Int
  OBVIOUS
<1>3. Max(ns) <= n /\ Max(ns) \in Int /\ n \in Int
  BY <1>1, <1>2
<1> QED BY <1>1, <1>3

-----------------------------------------------------------------------------
(* What replaying a list of records yields. *)

LEMMA Bounds ==
  /\ MaxEdits \in Nat /\ MaxGeneration \in Nat /\ WriteErrorsTear \in BOOLEAN
  /\ UploadPath \in [Upload -> Path] /\ Absent \notin Upload
BY BoundAssumption, UploadAssumption

LEMMA EmptyTyped == Empty \in Checkpoint
BY Bounds DEF Empty, Checkpoint, Version

(* What is no marker is a checkpoint or a log. *)
LEMMA WholeTyped ==
  /\ \A c \in Checkpoint : Whole(c)
  /\ \A l \in ChangeLog : Whole(l)
  /\ ~Whole(Absent) /\ ~Whole(Torn) /\ Absent # Torn
BY MarkerAssumption DEF Whole

LEMMA RecordParts ==
  ASSUME NEW r \in LogRecord
  PROVE  /\ r.generation \in 0..MaxGeneration /\ DOMAIN r.set \subseteq Path
         /\ \A p \in DOMAIN r.set : r.set[p] \in Version
         /\ r.settled # Absent => r.settled \in SUBSET Upload
BY DEF LogRecord

(* The records that replace the entry of p, and those that replace the receipts *)
Sets(records, p) == {i \in DOMAIN records : p \in DOMAIN records[i].set}

Settles(records) == {i \in DOMAIN records : records[i].settled # Absent}

LEMMA ReplayParts ==
  ASSUME NEW c, NEW records
  PROVE  /\ Replay(c, records).generation = c.generation + Len(records)
         /\ \A p \in Path : Replay(c, records).entries[p] =
              IF Sets(records, p) = {} THEN c.entries[p] ELSE records[Max(Sets(records, p))].set[p]
         /\ Replay(c, records).settled =
              IF Settles(records) = {} THEN c.settled ELSE records[Max(Settles(records))].settled
BY Zenon DEF Replay, Sets, Settles

LEMMA ReplayTyped ==
  ASSUME NEW c \in Checkpoint, NEW records \in Seq(LogRecord), c.generation + Len(records) <= MaxGeneration
  PROVE  Replay(c, records) \in Checkpoint
<1>1. Len(records) \in Nat /\ DOMAIN records = 1..Len(records)
  OBVIOUS
<1>2. \A i \in DOMAIN records : records[i] \in LogRecord
  OBVIOUS
<1>3. ASSUME NEW p \in Path, Sets(records, p) # {}
      PROVE  records[Max(Sets(records, p))].set[p] \in Version
  <2> DEFINE ns == Sets(records, p)
  <2>1. ns \in SUBSET (0..Len(records)) /\ ns # {}
    BY <1>1, <1>3 DEF Sets
  <2>2. Max(ns) \in ns
    <3> HIDE DEF ns
    <3> QED BY <1>1, <2>1, GreatestExists
  <2>3. Max(ns) \in DOMAIN records /\ p \in DOMAIN records[Max(ns)].set
    BY <2>2 DEF Sets
  <2> QED BY <1>2, <2>3, RecordParts
<1>4. ASSUME Settles(records) # {}
      PROVE  records[Max(Settles(records))].settled \in SUBSET Upload
  <2> DEFINE ns == Settles(records)
  <2>1. ns \in SUBSET (0..Len(records)) /\ ns # {}
    BY <1>1, <1>4 DEF Settles
  <2>2. Max(ns) \in ns
    <3> HIDE DEF ns
    <3> QED BY <1>1, <2>1, GreatestExists
  <2>3. Max(ns) \in DOMAIN records /\ records[Max(ns)].settled # Absent
    BY <2>2 DEF Settles
  <2> QED BY <1>2, <2>3, RecordParts
<1>5. c.generation \in Nat /\ c.entries \in [Path -> Version] /\ c.settled \in SUBSET Upload
  BY DEF Checkpoint
<1>6. c.generation + Len(records) \in 0..MaxGeneration
  BY <1>1, <1>5, Bounds
<1>7. [p \in Path |-> IF Sets(records, p) = {} THEN c.entries[p]
                      ELSE records[Max(Sets(records, p))].set[p]] \in [Path -> Version]
  BY <1>3, <1>5
<1>8. (IF Settles(records) = {} THEN c.settled ELSE records[Max(Settles(records))].settled) \in SUBSET Upload
  BY <1>4, <1>5
<1> DEFINE entriesOf == [p \in Path |-> IF Sets(records, p) = {} THEN c.entries[p]
                                        ELSE records[Max(Sets(records, p))].set[p]]
           settledOf == IF Settles(records) = {} THEN c.settled ELSE records[Max(Settles(records))].settled
<1>9. Replay(c, records) = [generation |-> c.generation + Len(records), entries |-> entriesOf, settled |-> settledOf]
  BY Zenon DEF Replay, Sets, Settles
<1> HIDE DEF entriesOf, settledOf
<1> QED BY <1>6, <1>7, <1>8, <1>9 DEF Checkpoint, entriesOf, settledOf

(* One more record at the end *)
LEMMA ReplayAppend ==
  ASSUME NEW c, NEW records \in Seq(LogRecord), NEW r \in LogRecord
  PROVE  LET before == Replay(c, records)
             after == Replay(c, Append(records, r))
         IN  /\ after.generation = c.generation + (Len(records) + 1)
             /\ \A p \in Path : after.entries[p] = IF p \in DOMAIN r.set THEN r.set[p] ELSE before.entries[p]
             /\ after.settled = IF r.settled # Absent THEN r.settled ELSE before.settled
<1> DEFINE longer == Append(records, r)
           k == Len(records)
<1>1. /\ k \in Nat /\ Len(longer) = k + 1 /\ DOMAIN longer = 1..(k + 1) /\ DOMAIN records = 1..k
      /\ longer[k + 1] = r /\ \A i \in 1..k : longer[i] = records[i]
  OBVIOUS
<1>2. k + 1 \in Nat
  BY <1>1
<1> HIDE DEF longer, k
<1>3. ASSUME NEW p \in Path
      PROVE  Replay(c, longer).entries[p] = IF p \in DOMAIN r.set THEN r.set[p] ELSE Replay(c, records).entries[p]
  <2>1. CASE p \in DOMAIN r.set
    <3> DEFINE ns == Sets(longer, p)
    <3>1. ns \in SUBSET (0..(k + 1)) /\ k + 1 \in ns /\ \A m \in ns : m <= k + 1
      BY <1>1, <2>1 DEF Sets
    <3>2. Max(ns) = k + 1
      <4> HIDE DEF ns
      <4> QED BY <1>2, <3>1, GreatestIs
    <3> QED BY <1>1, <2>1, <3>1, <3>2, ReplayParts
  <2>2. CASE p \notin DOMAIN r.set
    <3>1. Sets(longer, p) = Sets(records, p)
      BY <1>1, <2>2 DEF Sets
    <3>2. Sets(records, p) # {} => longer[Max(Sets(records, p))] = records[Max(Sets(records, p))]
      <4> DEFINE ns == Sets(records, p)
      <4>1. ns \in SUBSET (0..k) /\ ns \subseteq 1..k
        BY <1>1 DEF Sets
      <4>2. ns # {} => Max(ns) \in 1..k
        <5> HIDE DEF ns
        <5> QED BY <1>1, <4>1, GreatestExists
      <4> QED BY <1>1, <4>2
    <3> QED BY <2>2, <3>1, <3>2, ReplayParts
  <2> QED BY <2>1, <2>2
<1>4. Replay(c, longer).settled = IF r.settled # Absent THEN r.settled ELSE Replay(c, records).settled
  <2>1. CASE r.settled # Absent
    <3> DEFINE ns == Settles(longer)
    <3>1. ns \in SUBSET (0..(k + 1)) /\ k + 1 \in ns /\ \A m \in ns : m <= k + 1
      BY <1>1, <2>1 DEF Settles
    <3>2. Max(ns) = k + 1
      <4> HIDE DEF ns
      <4> QED BY <1>2, <3>1, GreatestIs
    <3> QED BY <1>1, <2>1, <3>1, <3>2, ReplayParts
  <2>2. CASE r.settled = Absent
    <3>1. Settles(longer) = Settles(records)
      BY <1>1, <2>2 DEF Settles
    <3>2. Settles(records) # {} => longer[Max(Settles(records))] = records[Max(Settles(records))]
      <4> DEFINE ns == Settles(records)
      <4>1. ns \in SUBSET (0..k) /\ ns \subseteq 1..k
        BY <1>1 DEF Settles
      <4>2. ns # {} => Max(ns) \in 1..k
        <5> HIDE DEF ns
        <5> QED BY <1>1, <4>1, GreatestExists
      <4> QED BY <1>1, <4>2
    <3> QED BY <2>2, <3>1, <3>2, ReplayParts
  <2> QED BY <2>1, <2>2
<1>5. Replay(c, longer).generation = c.generation + (k + 1)
  BY <1>1, ReplayParts
<1> QED BY <1>3, <1>4, <1>5 DEF longer, k

(* No record changes nothing. *)
LEMMA ReplayNone == ASSUME NEW c \in Checkpoint PROVE Replay(c, <<>>) = c
<1>1. /\ c.generation \in Nat /\ c.entries \in [Path -> Version]
      /\ c = [generation |-> c.generation, entries |-> c.entries, settled |-> c.settled]
  BY DEF Checkpoint
<1>2. Settles(<<>>) = {} /\ \A p \in Path : Sets(<<>>, p) = {}
  BY DEF Settles, Sets
<1>3. [p \in Path |-> IF Sets(<<>>, p) = {} THEN c.entries[p] ELSE <<>>[Max(Sets(<<>>, p))].set[p]] = c.entries
  BY <1>1, <1>2
<1>4. c.generation + Len(<<>>) = c.generation
  BY <1>1
<1> QED BY <1>1, <1>2, <1>3, <1>4, Zenon DEF Replay, Sets, Settles

-----------------------------------------------------------------------------
(* Type correctness.  A load adopts a generation counted along the log, so the *)
(* types need the shape of the log.                                            *)

LogShape ==
  /\ Whole(log) =>
       /\ log.tail \in {"line", "torn", "open"}
       /\ \A i \in 1..Len(log.records) : log.records[i].generation = log.base + i
  /\ logActive /\ logStarted =>
       Whole(log) /\ log.tail = "line" /\ generation = log.base + Len(log.records)
  /\ step = "append" => logActive /\ data.generation = generation + 1

TypeInv == TypeOK /\ LogShape

LEMMA FieldsTyped ==
  ASSUME TypeOK
  PROVE  /\ data.generation \in 0..MaxGeneration /\ data.entries \in [Path -> Version]
         /\ data.settled \in SUBSET Upload /\ generation \in 0..MaxGeneration /\ generation \in Nat
         /\ Whole(main) => main \in Checkpoint /\ main.generation \in Nat
         /\ Whole(tmp) => tmp \in Checkpoint /\ tmp.generation \in Nat
         /\ Whole(log) => /\ log \in ChangeLog /\ log.base \in 0..MaxGeneration /\ log.base \in Nat
                          /\ log.records \in Seq(LogRecord) /\ Len(log.records) \in Nat
                          /\ log.tail \in LogEnd
<1>1. data \in Checkpoint /\ generation \in 0..MaxGeneration
  BY DEF TypeOK
<1>2. data.generation \in 0..MaxGeneration /\ data.entries \in [Path -> Version] /\ data.settled \in SUBSET Upload
  BY <1>1 DEF Checkpoint
<1>3. /\ Whole(main) => main \in Checkpoint
      /\ Whole(tmp) => tmp \in Checkpoint
      /\ Whole(log) => log \in ChangeLog
  BY DEF TypeOK, Whole
<1>4. \A c \in Checkpoint : c.generation \in Nat
  BY Bounds DEF Checkpoint
<1>5. \A l \in ChangeLog : /\ l.base \in 0..MaxGeneration /\ l.base \in Nat /\ l.records \in Seq(LogRecord)
                           /\ l.tail \in LogEnd
  BY Bounds DEF ChangeLog
<1>6. \A rs \in Seq(LogRecord) : Len(rs) \in Nat
  OBVIOUS
<1> QED BY <1>1, <1>2, <1>3, <1>4, <1>5, <1>6

(* The record of a save *)
LEMMA RecordTyped ==
  ASSUME TypeOK
  PROVE  /\ Record \in LogRecord /\ DOMAIN Record.set = taken
         /\ \A p \in taken : Record.set[p] = data.entries[p]
         /\ Record.generation = data.generation
         /\ Record.settled = IF data.settled = persisted THEN Absent ELSE data.settled
<1>1. /\ data.generation \in 0..MaxGeneration /\ data.entries \in [Path -> Version]
      /\ data.settled \in SUBSET Upload /\ taken \in SUBSET Path
  BY FieldsTyped DEF TypeOK
<1>2. [p \in taken |-> data.entries[p]] \in [taken -> Version]
  BY <1>1
<1>3. [p \in taken |-> data.entries[p]] \in UNION {[S -> Version] : S \in SUBSET Path}
  BY <1>1, <1>2
<1> QED BY <1>1, <1>3 DEF Record, LogRecord

(* What a write to the log leaves: the record at its end, whole or without its newline *)
LEMMA WrittenShape ==
  ASSUME TypeInv, step = "append", NEW tail \in {"line", "open"}
  PROVE  LET new == WrittenLog(tail)
         IN  /\ new \in ChangeLog /\ Whole(new) /\ new.tail = tail
             /\ new.base = IF logStarted THEN log.base ELSE generation
             /\ new.records = IF logStarted THEN Append(log.records, Record) ELSE <<Record>>
             /\ new.base + Len(new.records) = data.generation
             /\ \A i \in 1..Len(new.records) : new.records[i].generation = new.base + i
<1> DEFINE new == WrittenLog(tail)
<1>1. /\ Record \in LogRecord /\ Record.generation = data.generation /\ tail \in LogEnd
      /\ data.generation = generation + 1 /\ generation \in 0..MaxGeneration /\ logActive
  BY RecordTyped, FieldsTyped DEF TypeInv, LogShape, LogEnd
<1>2. CASE logStarted
  <2>1. /\ Whole(log) /\ log.tail = "line" /\ generation = log.base + Len(log.records)
        /\ \A i \in 1..Len(log.records) : log.records[i].generation = log.base + i
    BY <1>1, <1>2 DEF TypeInv, LogShape
  <2>2. log \in ChangeLog /\ log.base \in Nat /\ log.records \in Seq(LogRecord)
    BY <2>1, FieldsTyped DEF TypeInv
  <2>3. new = [log EXCEPT !.records = Append(@, Record), !.tail = tail]
    BY <1>2, <2>1 DEF WrittenLog, AppendLine
  <2>4. Append(log.records, Record) \in Seq(LogRecord)
    BY <1>1, <2>2
  <2>5. /\ new \in ChangeLog /\ new.tail = tail /\ new.base = log.base
        /\ new.records = Append(log.records, Record)
    <3> HIDE DEF new
    <3> QED BY <1>1, <2>2, <2>3, <2>4 DEF ChangeLog
  <2>6. /\ Len(new.records) = Len(log.records) + 1 /\ new.records[Len(log.records) + 1] = Record
        /\ \A i \in 1..Len(log.records) : new.records[i] = log.records[i]
    <3> HIDE DEF new
    <3> QED BY <1>1, <2>2, <2>5
  <2>7. \A i \in 1..Len(new.records) : new.records[i].generation = new.base + i
    <3> HIDE DEF new
    <3> SUFFICES ASSUME NEW i \in 1..Len(new.records) PROVE new.records[i].generation = new.base + i
      OBVIOUS
    <3>1. CASE i \in 1..Len(log.records)
      BY <2>1, <2>5, <2>6, <3>1
    <3>2. CASE i = Len(log.records) + 1
      <4>1. new.records[i] = Record /\ Record.generation = generation + 1 /\ generation = log.base + Len(log.records)
        BY <1>1, <2>1, <2>6, <3>2
      <4>2. Len(log.records) \in Nat /\ log.base \in Nat
        BY <2>2
      <4> QED BY <2>5, <3>2, <4>1, <4>2
    <3>3. Len(log.records) \in Nat
      BY <2>2
    <3> QED BY <2>6, <3>1, <3>2, <3>3
  <2>8. new.base + Len(new.records) = data.generation
    <3>1. Len(log.records) \in Nat /\ log.base \in Nat
      BY <2>2
    <3> HIDE DEF new
    <3> QED BY <1>1, <2>1, <2>5, <2>6, <3>1
  <2>9. Whole(new)
    <3> HIDE DEF new
    <3> QED BY <2>5, WholeTyped
  <2> QED BY <1>2, <2>5, <2>7, <2>8, <2>9
<1>3. CASE ~logStarted
  <2>1. new = [base |-> generation, records |-> <<Record>>, tail |-> tail]
    BY <1>3 DEF WrittenLog, NewLog
  <2>2. <<Record>> \in Seq(LogRecord) /\ Len(<<Record>>) = 1 /\ <<Record>>[1] = Record
    BY <1>1
  <2>3. new \in ChangeLog
    BY <1>1, <2>1, <2>2 DEF ChangeLog
  <2>4. new.base = generation /\ new.records = <<Record>> /\ new.tail = tail
    BY <2>1
  <2>5. Whole(new)
    <3> HIDE DEF new
    <3> QED BY <2>3, WholeTyped
  <2>6. new.base + Len(new.records) = data.generation /\ \A i \in 1..Len(new.records) : new.records[i].generation = new.base + i
    <3> HIDE DEF new
    <3> QED BY <1>1, <2>2, <2>4
  <2> QED BY <1>3, <2>3, <2>4, <2>5, <2>6
<1> QED BY <1>2, <1>3

(* A log as whole writes and interrupted ones leave it *)
Shaped(l) ==
  Whole(l) => /\ l.tail \in {"line", "torn", "open"}
              /\ \A i \in 1..Len(l.records) : l.records[i].generation = l.base + i

LEMMA UnfinishedShape ==
  ASSUME TypeInv, step = "append", NEW new \in UnfinishedLog
  PROVE  new \in ChangeLog \cup {Absent, Torn} /\ Shaped(new)
<1>1. log \in ChangeLog \cup {Absent, Torn} /\ Shaped(log) /\ generation \in 0..MaxGeneration
  BY DEF TypeInv, TypeOK, LogShape, Shaped
<1>2. CASE new \in {log, WrittenLog("open"), WrittenLog("line")}
  BY <1>1, <1>2, WrittenShape DEF Shaped
<1>3. CASE new = Torn
  BY <1>3, WholeTyped DEF Shaped
<1>4. CASE new \in {NewLog(<<>>, "torn"), NewLog(<<>>, "line")}
  <2>1. new.base = generation /\ new.records = <<>> /\ new.tail \in {"torn", "line"}
    BY <1>4 DEF NewLog
  <2>2. new \in ChangeLog
    <3>1. CASE new = NewLog(<<>>, "torn")
      BY <1>1, <3>1 DEF NewLog, ChangeLog, LogEnd
    <3>2. CASE new = NewLog(<<>>, "line")
      BY <1>1, <3>2 DEF NewLog, ChangeLog, LogEnd
    <3> QED BY <1>4, <3>1, <3>2
  <2> QED BY <2>1, <2>2 DEF Shaped
<1>5. CASE logStarted /\ new = [log EXCEPT !.tail = IF @ = "line" THEN "torn" ELSE @]
  <2>1. Whole(log) /\ log.tail = "line"
    BY <1>5 DEF TypeInv, LogShape
  <2>2. log \in ChangeLog /\ new = [log EXCEPT !.tail = "torn"]
    BY <1>5, <2>1, FieldsTyped DEF TypeInv
  <2>3. new \in ChangeLog /\ new.tail = "torn" /\ new.base = log.base /\ new.records = log.records
    BY <2>2 DEF ChangeLog, LogEnd
  <2> QED BY <1>1, <2>1, <2>3 DEF Shaped
<1> QED BY <1>2, <1>3, <1>4, <1>5 DEF UnfinishedLog

(* What a load finds *)
LEMMA RecoveredTyped ==
  ASSUME TypeInv
  PROVE  /\ Recovered \in Checkpoint /\ Recovered.generation \in 0..MaxGeneration
         /\ Recovered.entries \in [Path -> Version] /\ Recovered.settled \in SUBSET Upload
         /\ Extends => /\ Recovered = Replay(main, log.records)
                       /\ Recovered.generation = log.base + Len(log.records)
<1>1. RecoverTmp => Recovered \in Checkpoint /\ ~Extends
  BY FieldsTyped DEF TypeInv, Recovered, RecoverTmp, Extends
<1>2. CASE Extends
  <2>1. /\ Whole(main) /\ Whole(log) /\ log.base = main.generation /\ ~RecoverTmp
        /\ main \in Checkpoint /\ log.records \in Seq(LogRecord) /\ Len(log.records) \in Nat
        /\ main.generation \in 0..MaxGeneration
    BY <1>2, FieldsTyped DEF Extends, TypeInv
  <2>2. main.generation + Len(log.records) <= MaxGeneration
    <3>1. CASE Len(log.records) = 0
      BY <2>1, <3>1, Bounds
    <3>2. CASE Len(log.records) # 0
      <4> DEFINE n == Len(log.records)
      <4>1. n \in 1..n
        BY <2>1, <3>2
      <4>2. log.records[n] \in LogRecord
        <5> HIDE DEF LogRecord
        <5> QED BY <2>1, <4>1
      <4>3. log.records[n].generation = log.base + n
        BY <2>1, <4>1 DEF TypeInv, LogShape
      <4>4. log.records[n].generation \in 0..MaxGeneration
        BY <4>2, RecordParts
      <4> QED BY <2>1, <4>3, <4>4, Bounds
    <3> QED BY <3>1, <3>2
  <2>3. Recovered = Replay(main, log.records)
    BY <2>1, <1>2 DEF Recovered
  <2>4. Replay(main, log.records) \in Checkpoint
    BY <2>1, <2>2, ReplayTyped
  <2>5. Replay(main, log.records).generation = main.generation + Len(log.records)
    BY ReplayParts
  <2> QED BY <2>1, <2>3, <2>4, <2>5 DEF Checkpoint
<1>3. ~RecoverTmp /\ ~Extends => Recovered \in Checkpoint
  BY FieldsTyped, EmptyTyped DEF TypeInv, Recovered
<1>4. Recovered \in Checkpoint => /\ Recovered.generation \in 0..MaxGeneration
        /\ Recovered.entries \in [Path -> Version] /\ Recovered.settled \in SUBSET Upload
  BY DEF Checkpoint
<1> QED BY <1>1, <1>2, <1>3, <1>4

(* Steps that leave the log and its counters alone *)
LEMMA ShapeStays ==
  ASSUME TypeInv, UNCHANGED <<log, logActive, logStarted, generation>>,
         step' = "append" => step = "append" /\ data' = data
  PROVE  LogShape'
BY DEF TypeInv, LogShape, Whole

LEMMA EntryTyped ==
  ASSUME TypeOK, NEW p \in Path, SetEntry(p)
  PROVE  /\ entries' \in [Path -> Version] /\ changed' \subseteq Path /\ edits' \in Version
         /\ edits + 1 \in Version /\ dirty' \in BOOLEAN /\ touched' \in BOOLEAN
<1>1. edits \in 0..MaxEdits /\ edits < MaxEdits /\ MaxEdits \in Nat
  BY Bounds DEF SetEntry, TypeOK, Version
<1>2. edits + 1 \in Version
  BY <1>1 DEF Version
<1> QED BY <1>2 DEF TypeOK, SetEntry, MarkChanged

LEMMA ChangesTyped ==
  ASSUME TypeInv, (\E p \in Path : Change(p)) \/ Touch \/ PrepareRename \/ PrepareFails
  PROVE  TypeInv'
<1>0. TypeOK /\ UNCHANGED <<logState, progress, files>>
  BY DEF TypeInv, Change, Touch, PrepareRename, PrepareFails
<1>1. LogShape'
  BY <1>0, ShapeStays DEF logState, progress, files
<1>2. CASE \E p \in Path : Change(p)
  <2>1. PICK p \in Path : Change(p)
    BY <1>2
  <2>2. SetEntry(p)
    BY <2>1 DEF Change
  <2> QED BY <1>0, <1>1, <2>1, <2>2, EntryTyped
          DEF TypeInv, TypeOK, Change, logState, receipts, transfers, progress, files
<1>3. CASE Touch
  BY <1>0, <1>1, <1>3 DEF TypeInv, TypeOK, Touch, MarkChanged, logState, receipts, transfers, progress, files, history
<1>4. CASE PrepareRename
  BY <1>0, <1>1, <1>4 DEF TypeInv, TypeOK, PrepareRename, MarkChanged, logState, receipts, transfers, progress, files, history
<1>5. CASE PrepareFails
  BY <1>0, <1>1, <1>5 DEF TypeInv, TypeOK, PrepareFails, baseline, logState, receipts, transfers, progress, files, history
<1> QED BY <1>2, <1>3, <1>4, <1>5

LEMMA TransferTyped ==
  ASSUME TypeInv, NEW u \in Upload, Transfer(u)
  PROVE  TypeInv'
<1>0. TypeOK /\ UNCHANGED <<logState, progress, files>>
  BY DEF TypeInv, Transfer, PrepareWrite, Dispatch, AcceptCommitted, AcceptRefused, AnswerLost
<1>1. LogShape'
  BY <1>0, ShapeStays DEF logState, progress, files
<1> USE DEF TypeInv, TypeOK, logState, progress, files
<1>2. CASE PrepareWrite(u)
  BY <1>0, <1>1, <1>2 DEF PrepareWrite, baseline, receipts, history
<1>3. CASE Dispatch(u)
  BY <1>0, <1>1, <1>3 DEF Dispatch, MarkChanged, receipts
<1>4. CASE AcceptCommitted(u)
  <2>1. SetEntry(UploadPath[u]) /\ UploadPath[u] \in Path
    BY <1>4, Bounds DEF AcceptCommitted
  <2>2. /\ entries' \in [Path -> Version] /\ changed' \subseteq Path /\ edits' \in Version
        /\ edits + 1 \in Version /\ dirty' \in BOOLEAN /\ touched' \in BOOLEAN
    BY <1>0, <2>1, EntryTyped
  <2> QED BY <1>0, <1>1, <1>4, <2>2 DEF AcceptCommitted, Complete
<1>5. CASE AcceptRefused(u)
  BY <1>0, <1>1, <1>5 DEF AcceptRefused, Complete, MarkChanged
<1>6. CASE AnswerLost(u)
  BY <1>0, <1>1, <1>6 DEF AnswerLost, MarkChanged, receipts, history
<1> QED BY <1>2, <1>3, <1>4, <1>5, <1>6 DEF Transfer

LEMMA SavingTyped ==
  ASSUME TypeInv, BeginSave \/ StartAppend \/ StartCompact \/ EndPersist \/ EndSave \/ \E u \in Upload : Prune(u)
  PROVE  TypeInv'
<1>1. CASE BeginSave \/ EndPersist \/ EndSave \/ \E u \in Upload : Prune(u)
  <2>1. LogShape'
    BY <1>1, ShapeStays DEF BeginSave, EndPersist, EndSave, Prune, logState, files
  <2>2. dirty' \in BOOLEAN /\ touched' \in BOOLEAN /\ UNCHANGED <<entries, changed>>
    BY <1>1 DEF TypeInv, TypeOK, BeginSave, EndPersist, EndSave, Prune, MarkChanged, baseline
  <2> QED BY <1>1, <2>1, <2>2 DEF TypeInv, TypeOK, BeginSave, EndPersist, EndSave, Prune, logState, receipts,
               transfers, files, history
<1>2. CASE StartAppend \/ StartCompact
  <2>1. /\ TakeChanges /\ logActive' \in BOOLEAN
        /\ UNCHANGED <<entries, dirty, logStarted, persisted, receipts, transfers, pruning, files, journal, history>>
    BY <1>2 DEF StartAppend, StartCompact, logState, TypeInv, TypeOK
  <2>2. generation \in 0..MaxGeneration /\ generation < MaxGeneration /\ generation + 1 \in 0..MaxGeneration
    BY <2>1, Bounds DEF TakeChanges, TypeInv, TypeOK
  <2>3. data' \in Checkpoint /\ data'.generation = generation + 1
    BY <2>1, <2>2 DEF TakeChanges, TypeInv, TypeOK, Checkpoint
  <2>4. /\ taken' \subseteq Path /\ changed' = {} /\ touched' \in BOOLEAN
    BY <2>1 DEF TakeChanges, TypeInv, TypeOK
  <2>5. generation' \in 0..MaxGeneration /\ step' \in {"append", "tmp"}
    BY <1>2, <2>2 DEF StartAppend, StartCompact, logState
  <2>6. LogShape'
    <3>1. CASE StartAppend
      BY <2>1, <2>3, <3>1 DEF StartAppend, TypeInv, LogShape, Whole, logState, files
    <3>2. CASE StartCompact
      BY <2>1, <3>2 DEF StartCompact, TypeInv, LogShape, Whole, files
    <3> QED BY <1>2, <3>1, <3>2
  <2> HIDE DEF TakeChanges
  <2> QED BY <2>1, <2>3, <2>4, <2>5, <2>6 DEF TypeInv, TypeOK, receipts, transfers, files, history
<1> QED BY <1>1, <1>2

LEMMA WritingTyped ==
  ASSUME TypeInv, FinishAppend \/ FinishTmp \/ FinishMain \/ FinishCompact
  PROVE  TypeInv'
<1>0. TypeOK /\ data.generation \in 0..MaxGeneration /\ data.settled \in SUBSET Upload
  BY FieldsTyped DEF TypeInv
<1>1. CASE FinishAppend
  <2>1. /\ log' = WrittenLog("line") /\ generation' = data.generation /\ logStarted' /\ step' = "head"
        /\ step = "append"
    BY <1>1 DEF FinishAppend
  <2>2. /\ log' \in ChangeLog /\ Whole(log') /\ log'.tail = "line" /\ generation' = log'.base + Len(log'.records)
        /\ \A i \in 1..Len(log'.records) : log'.records[i].generation = log'.base + i
    BY <2>1, WrittenShape
  <2>3. LogShape'
    BY <2>1, <2>2 DEF LogShape, Whole
  <2> QED BY <1>0, <1>1, <2>2, <2>3 DEF TypeInv, TypeOK, FinishAppend, receipts, transfers, history
<1>2. CASE FinishTmp \/ FinishMain
  <2>1. LogShape'
    BY <1>2, ShapeStays DEF FinishTmp, FinishMain, logState
  <2> QED BY <1>0, <1>2, <2>1 DEF TypeInv, TypeOK, FinishTmp, FinishMain, baseline, logState, receipts, transfers, history
<1>3. CASE FinishCompact
  <2>1. LogShape'
    BY <1>3 DEF FinishCompact, TypeInv, LogShape, Whole
  <2> QED BY <1>0, <1>3, <2>1 DEF TypeInv, TypeOK, FinishCompact, receipts, transfers, history
<1> QED BY <1>1, <1>2, <1>3

(* What interrupted writes leave *)
LEMMA InterruptTyped ==
  ASSUME TypeInv, NEW changes \in BOOLEAN, Interrupt(changes)
  PROVE  /\ main' \in Checkpoint \cup {Absent, Torn} /\ tmp' \in Checkpoint \cup {Absent, Torn}
         /\ log' \in ChangeLog \cup {Absent, Torn} /\ Shaped(log')
<1>1. /\ main \in Checkpoint \cup {Absent, Torn} /\ tmp \in Checkpoint \cup {Absent, Torn}
      /\ log \in ChangeLog \cup {Absent, Torn} /\ Shaped(log) /\ data \in Checkpoint
  BY DEF TypeInv, TypeOK, LogShape, Shaped
<1>2. Serialized \in Checkpoint
  BY DEF Serialized, Checkpoint, TypeInv, TypeOK
<1>3. log' \in ChangeLog \cup {Absent, Torn} /\ Shaped(log')
  BY <1>1, UnfinishedShape DEF Interrupt
<1>4. main' \in {main, Torn, data, Serialized} /\ tmp' \in {tmp, Torn, data}
  BY DEF Interrupt, Unfinished
<1> QED BY <1>1, <1>2, <1>3, <1>4

LEMMA FailingTyped ==
  ASSUME TypeInv, WriteFails \/ Crash \/ PromoteFails
  PROVE  TypeInv'
<1>0. TypeOK /\ \E changes \in BOOLEAN : Interrupt(changes)
  BY Bounds DEF TypeInv, WriteFails, Crash, PromoteFails
<1>1. /\ main' \in Checkpoint \cup {Absent, Torn} /\ tmp' \in Checkpoint \cup {Absent, Torn}
      /\ log' \in ChangeLog \cup {Absent, Torn} /\ Shaped(log')
  BY <1>0, InterruptTyped
<1>2. ~logActive' /\ step' \in {"idle", "stopped"}
  BY DEF WriteFails, Crash, PromoteFails, Forget
<1>3. LogShape'
  BY <1>1, <1>2 DEF LogShape, Shaped, Whole
<1>4. CASE WriteFails
  BY <1>0, <1>1, <1>3, <1>4 DEF TypeInv, TypeOK, WriteFails, receipts, transfers, history
<1>5. CASE Crash \/ PromoteFails
  <2>1. Forget /\ journal' \in [Upload -> {"none", "partial", "final"}]
    BY <1>0, <1>5 DEF Crash, PromoteFails, TypeOK
  <2>2. 0 \in 0..MaxGeneration /\ Empty.entries \in [Path -> Version] /\ Empty \in Checkpoint
    BY EmptyTyped, Bounds DEF Checkpoint
  <2> QED BY <1>0, <1>1, <1>3, <2>1, <2>2 DEF TypeInv, TypeOK, Forget, history
<1> QED BY <1>4, <1>5

LEMMA LoadTyped ==
  ASSUME TypeInv, BeginLoad \/ Promote \/ RemoveStale
  PROVE  TypeInv'
<1>0. TypeOK
  BY DEF TypeInv
<1>1. CASE BeginLoad
  <2> DEFINE adopted == IF Extends THEN log.tail \in {"line", "junk"} ELSE FALSE
             settled == {u \in Recovered.settled : journal[u] = "final"}
  <2>1. /\ entries' = Recovered.entries /\ acked' = Recovered.entries /\ generation' = Recovered.generation
        /\ persisted' = Recovered.settled /\ logActive' = adopted /\ logStarted' = adopted
        /\ completed' = settled /\ held' = {u \in Upload : journal[u] = "final"} \ settled
        /\ step' \in {"promote", "removeStale"}
        /\ UNCHANGED <<changed, dirty, touched, transfers, taken, data, pruning, files,
                       edits, sent, accepted, refused>>
    BY <1>1, Zenon DEF BeginLoad
  <2>2. journal' \in [Upload -> {"none", "partial", "final"}]
    <3>1. PICK gone \in SUBSET Upload : journal' = [u \in Upload |-> IF u \in gone THEN "none" ELSE journal[u]]
      BY <1>1 DEF BeginLoad
    <3> QED BY <1>0, <3>1 DEF TypeOK
  <2>3. adopted \in BOOLEAN
    <3>1. (log.tail \in {"line", "junk"}) \in BOOLEAN
      OBVIOUS
    <3> HIDE DEF Extends
    <3>2. CASE Extends
      BY <3>1, <3>2, Zenon
    <3>3. CASE ~Extends
      BY <3>3, Zenon
    <3> QED BY <3>2, <3>3
  <2>4. settled \subseteq Upload
    BY RecoveredTyped
  <2>5. LogShape'
    <3>1. adopted => /\ Whole(log) /\ log.tail = "line" /\ Recovered.generation = log.base + Len(log.records)
      BY WholeTyped, RecoveredTyped DEF Extends, TypeInv, LogShape
    <3> HIDE DEF adopted
    <3> QED BY <2>1, <3>1 DEF LogShape, TypeInv, Whole, files
  <2> HIDE DEF adopted, settled
  <2> QED BY <1>0, <2>1, <2>2, <2>3, <2>4, <2>5, RecoveredTyped DEF TypeInv, TypeOK, transfers, files
<1>2. CASE Promote
  <2>1. Serialized \in Checkpoint
    BY <1>0 DEF Serialized, Checkpoint, TypeOK
  <2>2. LogShape'
    BY <1>2, ShapeStays DEF Promote, logState
  <2> QED BY <1>0, <1>2, <2>1, <2>2 DEF TypeInv, TypeOK, Promote, baseline, logState, receipts, transfers, history
<1>3. CASE RemoveStale
  <2>1. LogShape'
    BY <1>3, ShapeStays DEF RemoveStale, logState
  <2> QED BY <1>0, <1>3, <2>1 DEF TypeInv, TypeOK, RemoveStale, baseline, logState, receipts, transfers, history
<1> QED BY <1>1, <1>2, <1>3

LEMMA TypeInit == Init => TypeInv
<1>1. 0 \in 0..MaxGeneration /\ Empty.entries \in [Path -> Version] /\ Empty \in Checkpoint /\ 0 \in Version
  BY EmptyTyped, Bounds DEF Checkpoint, Version
<1> QED BY <1>1, WholeTyped DEF Init, TypeInv, TypeOK, LogShape

LEMMA TypeStep == TypeInv /\ [Next]_vars => TypeInv'
<1> SUFFICES ASSUME TypeInv, [Next]_vars PROVE TypeInv'
  OBVIOUS
<1>1. CASE (\E p \in Path : Change(p)) \/ Touch \/ PrepareRename \/ PrepareFails
  BY <1>1, ChangesTyped
<1>2. CASE \E u \in Upload : Transfer(u)
  BY <1>2, TransferTyped
<1>3. CASE Save
  BY <1>3, SavingTyped, WritingTyped, FailingTyped DEF Save
<1>4. CASE Crash \/ Load
  BY <1>4, FailingTyped, LoadTyped DEF Load
<1>5. CASE UNCHANGED vars
  BY <1>5 DEF vars, baseline, logState, receipts, transfers, progress, files, history, TypeInv, TypeOK,
              LogShape, Whole
<1> QED BY <1>1, <1>2, <1>3, <1>4, <1>5 DEF Next

(* In every reachable state the types hold: a generation never passes the bound the
   writes keep, although a load counts it along the log it finds. *)
THEOREM TypeCorrect == Spec => []TypeOK
<1>1. TypeInv => TypeOK
  BY DEF TypeInv
<1> QED BY <1>1, TypeInit, TypeStep, PTL DEF Spec

-----------------------------------------------------------------------------
(* What the files keep.  A write that reports an error is taken to have changed *)
(* nothing (~WriteErrorsTear); a crash may leave any part of a write.           *)

Extending == Whole(main) /\ Whole(log) /\ log.base = main.generation

(* What a load would find if there were no temporary checkpoint *)
Base == IF Extending THEN Replay(main, log.records) ELSE IF Whole(main) THEN main ELSE Empty

Writing == step \in {"append", "tmp", "main", "removeTmp"}

Open == step \notin {"stopped", "promote"}

(* The server refused u, or what is found has its effect or a later one. *)
Outcome(u, found) == u \in refused \/ (accepted[u] # 0 /\ found[UploadPath[u]] >= accepted[u])

(* A checkpoint that would forget nothing *)
Good(c) ==
  /\ \A p \in Path : acked[p] <= c.entries[p] /\ c.entries[p] <= edits
  /\ c.settled \subseteq sent
  /\ \A u \in sent : (journal[u] = "final" /\ u \notin c.settled) \/ Outcome(u, c.entries)

(* The checkpoint is torn only while its temporary copy is whole, two checkpoints of one
   generation are the same, the log extends none that is newer than its own, and a
   temporary checkpoint that would be recovered settles no upload without its journal. *)
DiskOK ==
  /\ main = Torn => Whole(tmp)
  /\ main = Absent => log = Absent
  /\ Whole(main) /\ Whole(tmp) /\ main.generation = tmp.generation => main = tmp
  /\ Whole(log) /\ Whole(main) => log.base <= main.generation
  /\ Whole(log) /\ RecoverTmp => log.base < tmp.generation
  /\ RecoverTmp => \A u \in tmp.settled : journal[u] = "final"

MemoryOK ==
  step # "stopped" =>
    /\ \A p \in Path : acked[p] <= entries[p] /\ entries[p] <= edits
    /\ completed \subseteq sent /\ held \cap completed = {} /\ pruning \subseteq completed
    /\ \A u \in held \cup completed : journal[u] = "final"
    /\ active \subseteq held \cap sent
    /\ \A u \in sent : u \in held \/ Outcome(u, entries)
    /\ held \cap Recovered.settled = {}

StillOK == ~Running => preparing = Absent /\ active = {} /\ ~dirty /\ pruning = {}

PreparingOK ==
  preparing # Absent =>
    preparing \notin held \cup completed \cup sent /\ journal[preparing] = "partial"

(* Once the files were loaded, the checkpoint with its log forgets nothing on its own. *)
OpenOK ==
  Open =>
    /\ main # Torn /\ Good(Base) /\ held \cap Base.settled = {}
    /\ ~dirty => ~RecoverTmp /\ entries = Base.entries

(* A log that is appended to extends the checkpoint, and what it lacks is to be written. *)
LogOK ==
  Open /\ logActive =>
    /\ Whole(main) /\ ~RecoverTmp
    /\ step \in {"removeStale", "idle", "head", "append", "prune"}
    /\ IF logStarted THEN Extending ELSE ~Extending /\ generation = main.generation
    /\ persisted = Base.settled
    /\ \A p \in Path \ changed :
         entries[p] = IF step = "append" THEN data.entries[p] ELSE Base.entries[p]
    /\ step = "append" => \A p \in Path \ taken : data.entries[p] = Base.entries[p]

(* The snapshot being written *)
DataOK ==
  Writing =>
    /\ dirty /\ Good(data) /\ held \cap data.settled = {}
    /\ \A u \in data.settled : journal[u] = "final"
    /\ ~touched => entries = data.entries
    /\ \A p \in Path \ changed : entries[p] = data.entries[p]

(* No file is newer than the memory, and the snapshot is newer than every file. *)
GenerationOK ==
  step # "stopped" =>
    /\ Whole(main) => main.generation <= generation
    /\ Whole(tmp) => tmp.generation <= generation
    /\ Whole(log) => log.base <= generation
    /\ step \in {"tmp", "main", "removeTmp"} =>
         data.generation = generation /\ (Whole(log) => log.base < generation)
    /\ step = "tmp" =>
         (Whole(main) => main.generation < generation) /\ (Whole(tmp) => tmp.generation < generation)
    /\ step = "main" => tmp = data /\ (Whole(main) => main.generation < generation)
    /\ step = "removeTmp" => main = data /\ tmp = data
    /\ step = "promote" => RecoverTmp /\ ~logActive /\ tmp = Serialized
    /\ step = "removeStale" => ~RecoverTmp

(* A journal file is removed only for an outcome that the checkpoint and its log have. *)
PruneOK == step = "prune" => ~RecoverTmp /\ \A u \in pruning : Outcome(u, Base.entries)

KeepInv ==
  /\ DiskOK /\ Good(Recovered) /\ MemoryOK /\ StillOK /\ PreparingOK
  /\ OpenOK /\ LogOK /\ DataOK /\ GenerationOK /\ PruneOK

(* The temporary checkpoint if it is newer, else the checkpoint and its log *)
LEMMA RecoveredIs == Recovered = IF RecoverTmp THEN tmp ELSE Base
BY DEF Recovered, Extends, Extending, Base, RecoverTmp

LEMMA FilesStay ==
  UNCHANGED files =>
    /\ Recovered' = Recovered /\ Base' = Base /\ (RecoverTmp' <=> RecoverTmp) /\ (Extending' <=> Extending)
    /\ (Whole(main)' <=> Whole(main)) /\ (Whole(tmp)' <=> Whole(tmp)) /\ (Whole(log)' <=> Whole(log))
BY DEF files, Recovered, RecoverTmp, Extends, Base, Extending, Whole

LEMMA BaseTyped ==
  ASSUME TypeInv
  PROVE  /\ Base \in Checkpoint /\ Base.entries \in [Path -> Version] /\ Base.settled \in SUBSET Upload
         /\ Base.generation \in Nat
<1>1. CASE Extending
  <2>1. /\ main \in Checkpoint /\ log.records \in Seq(LogRecord) /\ Len(log.records) \in Nat
        /\ main.generation \in 0..MaxGeneration /\ log.base = main.generation /\ Whole(log)
    BY <1>1, FieldsTyped DEF Extending, TypeInv
  <2>2. main.generation + Len(log.records) <= MaxGeneration
    <3>1. CASE Len(log.records) = 0
      BY <2>1, <3>1, Bounds
    <3>2. CASE Len(log.records) # 0
      <4> DEFINE n == Len(log.records)
      <4>1. n \in 1..n
        BY <2>1, <3>2
      <4>2. log.records[n] \in LogRecord
        <5> HIDE DEF LogRecord
        <5> QED BY <2>1, <4>1
      <4>3. log.records[n].generation = log.base + n
        BY <2>1, <4>1 DEF TypeInv, LogShape
      <4>4. log.records[n].generation \in 0..MaxGeneration
        BY <4>2, RecordParts
      <4> QED BY <2>1, <4>3, <4>4, Bounds
    <3> QED BY <3>1, <3>2
  <2>3. Base \in Checkpoint
    BY <1>1, <2>1, <2>2, ReplayTyped DEF Base
  <2> QED BY <2>3, Bounds DEF Checkpoint
<1>2. CASE ~Extending
  <2>1. Base \in Checkpoint
    BY <1>2, FieldsTyped, EmptyTyped DEF TypeInv, Base
  <2> QED BY <2>1, Bounds DEF Checkpoint
<1> QED BY <1>1, <1>2

(* What the types say of the numbers the proofs compare *)
LEMMA NumbersTyped ==
  ASSUME TypeOK
  PROVE  /\ edits \in Nat /\ \A p \in Path : entries[p] \in Nat /\ acked[p] \in Nat
         /\ \A u \in Upload : accepted[u] \in Nat /\ UploadPath[u] \in Path
         /\ \A c \in Checkpoint : c.generation \in Nat /\ \A p \in Path : c.entries[p] \in Nat
         /\ sent \subseteq Upload /\ held \subseteq Upload /\ completed \subseteq Upload
         /\ active \subseteq Upload /\ pruning \subseteq Upload /\ refused \subseteq Upload
<1>1. Version \subseteq Nat
  BY Bounds DEF Version
<1> QED BY <1>1, Bounds DEF TypeOK, Checkpoint

-----------------------------------------------------------------------------
(* Steps in memory. *)

(* What such a step may change: entries move forward and are noted as changed; a held
   upload may be sent, and one under way may be settled with its outcome; the upload
   that was being prepared may be held. *)
Mild ==
  /\ UNCHANGED <<files, logState, step, taken, data, pruning, acked>> /\ Running
  /\ edits <= edits' /\ edits' \in Nat
  /\ \A p \in Path : \/ entries'[p] = entries[p]
                     \/ edits < entries'[p] /\ entries'[p] <= edits' /\ p \in changed'
  /\ changed \subseteq changed' /\ (dirty => dirty') /\ (touched => touched')
  /\ entries' # entries => dirty' /\ touched'
  /\ sent \subseteq sent' /\ sent' \subseteq sent \cup held /\ refused \subseteq refused'
  /\ \A u \in Upload : journal[u] = "final" => journal'[u] = "final"
  /\ \A u \in Upload :
       \/ accepted'[u] = accepted[u]
       \/ u \in active /\ accepted'[u] # 0 /\ accepted'[u] <= entries'[UploadPath[u]]
  /\ completed \subseteq completed'
  /\ \A u \in completed' \ completed :
       /\ u \in active /\ u \notin held'
       /\ u \in refused' \/ (accepted'[u] # 0 /\ accepted'[u] <= entries'[UploadPath[u]])
  /\ \A u \in held \ held' : u \in completed'
  /\ \A u \in held' \ held : u = preparing /\ journal'[u] = "final"
  /\ active' \subseteq (active \cup (held \cap sent')) \ (completed' \ completed)

LEMMA MildGood ==
  ASSUME TypeInv, TypeOK', KeepInv, Mild, NEW c, c \in Checkpoint, Good(c), held \cap c.settled = {}
  PROVE  Good(c)' /\ held' \cap c.settled = {}
<1>1. /\ edits \in Nat /\ \A p \in Path : c.entries[p] \in Nat /\ acked[p] \in Nat
      /\ sent' \subseteq Upload /\ held' \subseteq Upload
  BY NumbersTyped DEF TypeInv, TypeOK
<1>2. \A p \in Path : acked'[p] <= c.entries[p] /\ c.entries[p] <= edits'
  BY <1>1 DEF Mild, Good
<1>3. c.settled \subseteq sent'
  BY DEF Mild, Good
<1>4. step # "stopped" /\ active \subseteq held \cap sent /\ \A u \in held \cup completed : journal[u] = "final"
  BY DEF Mild, Running, KeepInv, MemoryOK
<1>5. ASSUME NEW u \in sent'
      PROVE  (journal'[u] = "final" /\ u \notin c.settled) \/ Outcome(u, c.entries)'
  <2>1. CASE u \in held
    BY <1>1, <1>4, <2>1 DEF Mild
  <2>2. CASE u \notin held
    <3>1. u \in sent /\ accepted'[u] = accepted[u] /\ u \in Upload
      BY <1>1, <1>4, <2>2 DEF Mild
    <3> QED BY <3>1 DEF Mild, Good, Outcome
  <2> QED BY <2>1, <2>2
<1>6. held' \cap c.settled = {}
  <2> SUFFICES ASSUME NEW u \in held', u \in c.settled PROVE FALSE
    OBVIOUS
  <2>1. u \in sent /\ u \notin held
    BY DEF Good
  <2>2. preparing = u /\ u \in Upload
    BY <1>1, <2>1 DEF Mild
  <2>3. preparing # Absent
    BY <2>2, Bounds
  <2> QED BY <2>1, <2>2, <2>3 DEF KeepInv, PreparingOK
<1> QED BY <1>2, <1>3, <1>5, <1>6 DEF Good

LEMMA MildKept ==
  ASSUME TypeInv, TypeInv', KeepInv, Mild, PreparingOK'
  PROVE  KeepInv'
<1> USE DEF KeepInv
<1>0. /\ UNCHANGED files /\ UNCHANGED <<logState, step, taken, data, pruning, acked>> /\ step # "stopped" /\ step # "promote"
      /\ Running /\ Running' /\ Open /\ Open'
  BY DEF Mild, Running, Open
<1>1. /\ Recovered' = Recovered /\ Base' = Base /\ (RecoverTmp' <=> RecoverTmp) /\ (Extending' <=> Extending)
      /\ (Whole(main)' <=> Whole(main)) /\ (Whole(tmp)' <=> Whole(tmp)) /\ (Whole(log)' <=> Whole(log))
      /\ UNCHANGED <<main, tmp, log>>
  BY <1>0, FilesStay DEF files
<1>2. TypeOK /\ TypeOK' /\ Recovered \in Checkpoint /\ Base \in Checkpoint /\ data \in Checkpoint
  BY RecoveredTyped, BaseTyped DEF TypeInv, TypeOK
<1>3. /\ \A p \in Path : acked[p] <= entries[p] /\ entries[p] <= edits
      /\ completed \subseteq sent /\ held \cap completed = {} /\ pruning \subseteq completed
      /\ \A u \in held \cup completed : journal[u] = "final"
      /\ active \subseteq held \cap sent
      /\ \A u \in sent : u \in held \/ Outcome(u, entries)
      /\ held \cap Recovered.settled = {}
      /\ main # Torn /\ Good(Base) /\ held \cap Base.settled = {}
      /\ ~dirty => ~RecoverTmp /\ entries = Base.entries
  BY <1>0 DEF MemoryOK, OpenOK
<1>4. Good(Recovered)' /\ held' \cap Recovered'.settled = {}
  <2>1. PICK c : c = Recovered
    OBVIOUS
  <2>2. Good(c)' /\ held' \cap c.settled = {}
    BY <1>2, <1>3, <2>1, MildGood
  <2> QED BY <1>1, <2>1, <2>2
<1>5. Good(Base)' /\ held' \cap Base'.settled = {}
  <2>1. PICK c : c = Base
    OBVIOUS
  <2>2. Good(c)' /\ held' \cap c.settled = {}
    BY <1>2, <1>3, <2>1, MildGood
  <2> QED BY <1>1, <2>1, <2>2
<1>6. DiskOK'
  <2>1. RecoverTmp => \A u \in tmp.settled : u \in Upload
    BY FieldsTyped DEF TypeInv, RecoverTmp, Checkpoint
  <2> QED BY <1>1, <2>1 DEF DiskOK, Mild
<1>7. MemoryOK'
  <2>0. /\ edits \in Nat /\ \A p \in Path : entries[p] \in Nat /\ acked[p] \in Nat
        /\ \A u \in Upload : accepted[u] \in Nat /\ UploadPath[u] \in Path
        /\ sent' \subseteq Upload /\ held' \subseteq Upload /\ completed' \subseteq Upload
    BY <1>2, NumbersTyped DEF TypeOK
  <2>1. \A p \in Path : entries[p] <= entries'[p] /\ entries'[p] <= edits' /\ acked'[p] <= entries'[p]
    <3> SUFFICES ASSUME NEW p \in Path
                 PROVE  entries[p] <= entries'[p] /\ entries'[p] <= edits' /\ acked'[p] <= entries'[p]
      OBVIOUS
    <3>1. /\ acked'[p] = acked[p] /\ acked[p] <= entries[p] /\ entries[p] <= edits /\ edits <= edits' /\ edits' \in Nat
          /\ entries[p] \in Nat /\ acked[p] \in Nat /\ edits \in Nat /\ entries'[p] \in Nat
      <4>1. entries'[p] \in Nat
        BY <1>2, Bounds DEF TypeOK, Version
      <4> QED BY <1>3, <2>0, <4>1 DEF Mild
    <3>2. entries'[p] = entries[p] \/ (edits < entries'[p] /\ entries'[p] <= edits')
      BY DEF Mild
    <3> QED BY <3>1, <3>2
  <2>2. completed' \subseteq sent' /\ held' \cap completed' = {} /\ pruning' \subseteq completed'
    <3>1. completed' \subseteq sent' /\ pruning' \subseteq completed'
      BY <1>0, <1>3 DEF Mild
    <3>2. ASSUME NEW u \in held', u \in completed'
          PROVE  FALSE
      <4>1. u \in completed /\ u \notin held
        BY <1>3, <3>2 DEF Mild
      <4>2. u = preparing /\ preparing # Absent
        BY <2>0, <3>2, <4>1, Bounds DEF Mild
      <4> QED BY <4>1, <4>2 DEF PreparingOK
    <3> QED BY <3>1, <3>2
  <2>3. \A u \in held' \cup completed' : journal'[u] = "final"
    BY <1>3, <2>0 DEF Mild
  <2>4. active' \subseteq held' \cap sent'
    <3> SUFFICES ASSUME NEW u \in active' PROVE u \in held' /\ u \in sent'
      OBVIOUS
    <3>1. u \in held /\ u \in sent' /\ ~(u \in completed' /\ u \notin completed)
      BY <1>3 DEF Mild
    <3>2. u \notin completed
      BY <1>3, <3>1
    <3> QED BY <3>1, <3>2 DEF Mild
  <2>5. ASSUME NEW u \in sent'
        PROVE  u \in held' \/ Outcome(u, entries)'
    <3>0. u \in Upload /\ UploadPath[u] \in Path /\ accepted[u] \in Nat
      BY <2>0
    <3>1. CASE u \in held
      <4>1. CASE u \in held'
        BY <4>1
      <4>2. CASE u \notin held'
        <5>1. u \in completed' \ completed
          BY <1>3, <3>1, <4>2 DEF Mild
        <5>2. u \in refused' \/ (accepted'[u] # 0 /\ accepted'[u] <= entries'[UploadPath[u]])
          BY <5>1 DEF Mild
        <5>3. accepted'[u] \in Nat /\ entries'[UploadPath[u]] \in Nat
          BY <1>2, <3>0, Bounds DEF TypeOK, Version
        <5> QED BY <5>2, <5>3 DEF Outcome
      <4> QED BY <4>1, <4>2
    <3>2. CASE u \notin held
      <4>1. u \in sent /\ accepted'[u] = accepted[u] /\ Outcome(u, entries)
        BY <1>3, <3>0, <3>2 DEF Mild
      <4>2. entries[UploadPath[u]] <= entries'[UploadPath[u]] /\ entries[UploadPath[u]] \in Nat
            /\ entries'[UploadPath[u]] \in Nat
        BY <1>2, <2>0, <2>1, <3>0, Bounds DEF TypeOK, Version
      <4> QED BY <3>0, <4>1, <4>2 DEF Outcome, Mild
    <3> QED BY <3>1, <3>2
  <2> QED BY <1>4, <2>1, <2>2, <2>3, <2>4, <2>5 DEF MemoryOK
<1>8. StillOK'
  BY <1>0 DEF StillOK
<1>9. OpenOK'
  BY <1>1, <1>3, <1>5 DEF OpenOK, Mild
<1>10. LogOK'
  <2> SUFFICES ASSUME logActive PROVE LogOK'
    BY <1>0 DEF LogOK, logState
  <2>1. LogOK /\ Open /\ logActive
    BY <1>0
  <2>2. Whole(main) /\ ~RecoverTmp /\ step \in {"removeStale", "idle", "head", "append", "prune"} /\ persisted = Base.settled
    BY <2>1 DEF LogOK
  <2>3. (logStarted => Extending) /\ (~logStarted => ~Extending /\ generation = main.generation)
    BY <2>1, Zenon DEF LogOK
  <2>4. \A p \in Path \ changed : entries[p] = IF step = "append" THEN data.entries[p] ELSE Base.entries[p]
    BY <2>1, Zenon DEF LogOK
  <2>5. step = "append" => \A p \in Path \ taken : data.entries[p] = Base.entries[p]
    BY <2>1, Zenon DEF LogOK
  <2>6. \A p \in Path \ changed' : p \notin changed /\ entries'[p] = entries[p]
    BY DEF Mild
  <2>7. \A p \in Path \ changed' : entries'[p] = IF step' = "append" THEN data'.entries[p] ELSE Base'.entries[p]
    BY <1>0, <1>1, <2>4, <2>6
  <2>8. (logStarted' => Extending') /\ (~logStarted' => ~Extending' /\ generation' = main'.generation)
    BY <1>0, <1>1, <2>3 DEF logState
  <2>9. /\ Whole(main)' /\ ~RecoverTmp' /\ step' \in {"removeStale", "idle", "head", "append", "prune"}
        /\ persisted' = Base'.settled
        /\ step' = "append" => \A p \in Path \ taken' : data'.entries[p] = Base'.entries[p]
    BY <1>0, <1>1, <2>2, <2>5 DEF logState
  <2> QED BY <2>7, <2>8, <2>9, Zenon DEF LogOK
<1>11. DataOK'
  <2>1. CASE Writing
    <3>1. /\ dirty /\ Good(data) /\ held \cap data.settled = {}
          /\ \A u \in data.settled : journal[u] = "final"
          /\ ~touched => entries = data.entries
          /\ \A p \in Path \ changed : entries[p] = data.entries[p]
      BY <2>1 DEF DataOK
    <3>2. Good(data)' /\ held' \cap data'.settled = {}
      <4>1. PICK c : c = data
        OBVIOUS
      <4>2. Good(c)' /\ held' \cap c.settled = {}
        BY <1>2, <3>1, <4>1, MildGood
      <4> QED BY <1>0, <4>1, <4>2
    <3>3. \A u \in data.settled : u \in Upload
      BY <1>2 DEF Checkpoint
    <3>4. /\ dirty' /\ \A u \in data'.settled : journal'[u] = "final"
          /\ ~touched' => entries' = data'.entries
          /\ \A p \in Path \ changed' : entries'[p] = data'.entries[p]
      BY <1>0, <3>1, <3>3 DEF Mild
    <3> QED BY <3>2, <3>4 DEF DataOK
  <2>2. CASE ~Writing
    BY <1>0, <2>2 DEF DataOK, Writing
  <2> QED BY <2>1, <2>2
<1>12. GenerationOK'
  BY <1>0, <1>1 DEF GenerationOK, logState, Running
<1>13. PruneOK'
  <2>1. ASSUME step = "prune", NEW u \in pruning
        PROVE  Outcome(u, Base.entries)'
    <3>1. u \in completed /\ u \in Upload /\ u \notin active /\ Outcome(u, Base.entries)
      BY <1>2, <1>3, <2>1, NumbersTyped DEF PruneOK
    <3>2. accepted'[u] = accepted[u] /\ refused \subseteq refused'
      BY <3>1 DEF Mild
    <3> QED BY <1>1, <3>1, <3>2 DEF Outcome
  <2> QED BY <1>0, <1>1, <2>1 DEF PruneOK
<1> QED BY <1>4, <1>6, <1>7, <1>8, <1>9, <1>10, <1>11, <1>12, <1>13

(* The steps of memory are such steps. *)
LEMMA EntryMild ==
  ASSUME TypeInv, KeepInv, NEW p \in Path, SetEntry(p)
  PROVE  /\ edits <= edits' /\ edits' \in Nat /\ edits' = edits + 1 /\ entries'[p] = edits + 1
         /\ \A q \in Path : \/ entries'[q] = entries[q]
                            \/ edits < entries'[q] /\ entries'[q] <= edits' /\ q \in changed'
         /\ changed \subseteq changed' /\ dirty' /\ touched'
<1>1. edits \in Nat /\ entries \in [Path -> Version]
  BY NumbersTyped DEF TypeInv, TypeOK
<1> QED BY <1>1 DEF SetEntry, MarkChanged

LEMMA ChangesKept ==
  ASSUME TypeInv, TypeInv', KeepInv, (\E p \in Path : Change(p)) \/ Touch \/ PrepareRename \/ PrepareFails
  PROVE  KeepInv'
<1>0. /\ edits \in Nat /\ preparing \in Upload \cup {Absent} /\ Absent \notin Upload
      /\ journal \in [Upload -> {"none", "partial", "final"}] /\ active \subseteq held \cap sent
  <2>1. step # "stopped"
    BY DEF KeepInv, StillOK, Change, Touch, PrepareRename, PrepareFails, Running
  <2> QED BY <2>1, NumbersTyped, Bounds DEF TypeInv, TypeOK, KeepInv, MemoryOK
<1>1. CASE \E p \in Path : Change(p)
  <2>1. PICK p \in Path : Change(p)
    BY <1>1
  <2>2. SetEntry(p)
    BY <2>1 DEF Change
  <2>3. Mild /\ PreparingOK'
    BY <1>0, <2>1, <2>2, EntryMild DEF Change, Mild, KeepInv, PreparingOK, logState, progress, receipts, transfers
  <2> QED BY <2>3, MildKept
<1>2. CASE Touch
  <2>1. Mild /\ PreparingOK'
    BY <1>0, <1>2 DEF Touch, MarkChanged, Mild, KeepInv, PreparingOK, logState, progress, receipts, transfers, history
  <2> QED BY <2>1, MildKept
<1>3. CASE PrepareRename
  <2>1. Running /\ preparing \in Upload
    BY <1>0, <1>3 DEF PrepareRename, KeepInv, StillOK
  <2>2. Mild /\ PreparingOK'
    BY <1>0, <1>3, <2>1 DEF PrepareRename, MarkChanged, Mild, KeepInv, PreparingOK, logState, progress, history
  <2> QED BY <2>2, MildKept
<1>4. CASE PrepareFails
  <2>1. Running /\ preparing \in Upload /\ journal[preparing] = "partial"
    BY <1>0, <1>4 DEF PrepareFails, KeepInv, StillOK, PreparingOK
  <2>2. Mild /\ PreparingOK'
    BY <1>0, <1>4, <2>1 DEF PrepareFails, Mild, KeepInv, PreparingOK, baseline, logState, progress, receipts, history
  <2> QED BY <2>2, MildKept
<1> QED BY <1>1, <1>2, <1>3, <1>4

LEMMA TransferKept ==
  ASSUME TypeInv, TypeInv', KeepInv, NEW u \in Upload, Transfer(u)
  PROVE  KeepInv'
<1>0. /\ edits \in Nat /\ preparing \in Upload \cup {Absent} /\ Absent \notin Upload /\ UploadPath[u] \in Path
      /\ journal \in [Upload -> {"none", "partial", "final"}] /\ Running
      /\ active \subseteq held \cap sent /\ held \cap completed = {} /\ preparing \notin held \cup completed \cup sent
      /\ entries \in [Path -> Version] /\ accepted \in [Upload -> Version]
  <2>1. Running
    BY DEF KeepInv, StillOK, Transfer, PrepareWrite, Dispatch, AcceptCommitted, AcceptRefused, AnswerLost
  <2>2. Absent \notin held \cup completed \cup sent
    BY NumbersTyped, Bounds DEF TypeInv
  <2> QED BY <2>1, <2>2, NumbersTyped, Bounds DEF TypeInv, TypeOK, KeepInv, MemoryOK, PreparingOK, Running
<1>1. CASE PrepareWrite(u)
  <2>1. Mild
    BY <1>0, <1>1 DEF PrepareWrite, Mild, baseline, logState, progress, receipts, history
  <2>2. PreparingOK'
    BY <1>0, <1>1 DEF PrepareWrite, PreparingOK, receipts, history
  <2> QED BY <2>1, <2>2, MildKept
<1>2. CASE Dispatch(u)
  <2>1. Mild
    BY <1>0, <1>2 DEF Dispatch, MarkChanged, Mild, logState, progress, receipts
  <2>2. PreparingOK'
    BY <1>0, <1>2 DEF Dispatch, PreparingOK, KeepInv, receipts
  <2> QED BY <2>1, <2>2, MildKept
<1>3. CASE AcceptCommitted(u)
  <2>1. SetEntry(UploadPath[u])
    BY <1>3 DEF AcceptCommitted
  <2>2. accepted'[u] = edits + 1 /\ entries'[UploadPath[u]] = edits + 1 /\ accepted'[u] # 0
        /\ \A v \in Upload \ {u} : accepted'[v] = accepted[v]
    BY <1>0, <1>3, <2>1, EntryMild DEF AcceptCommitted
  <2>3. Mild
    BY <1>0, <1>3, <2>1, <2>2, EntryMild DEF AcceptCommitted, Complete, Mild, logState, progress
  <2>4. PreparingOK'
    BY <1>0, <1>3 DEF AcceptCommitted, Complete, PreparingOK, KeepInv
  <2> QED BY <2>3, <2>4, MildKept
<1>4. CASE AcceptRefused(u)
  <2>0. /\ completed' = completed \cup {u} /\ held' = held \ {u} /\ dirty' /\ touched' /\ active' = active \ {u}
        /\ refused' = refused \cup {u} /\ u \in active
        /\ UNCHANGED <<entries, changed, logState, preparing, progress, files, journal, edits, acked, sent, accepted>>
    BY <1>4 DEF AcceptRefused, Complete, MarkChanged
  <2>1. Mild
    <3>1. \A v \in completed' \ completed : v = u
      BY <2>0
    <3>2. u \notin held' /\ u \in refused' /\ u \in completed' /\ (u \in held => u \notin completed)
      BY <1>0, <2>0
    <3>3. \A v \in completed' \ completed : v \in active /\ v \notin held' /\ v \in refused'
      BY <2>0, <3>1, <3>2
    <3>4. /\ \A v \in held \ held' : v \in completed'
          /\ held' \ held = {} /\ completed \subseteq completed' /\ refused \subseteq refused'
      BY <2>0
    <3>5. active' \subseteq (active \cup (held \cap sent')) \ (completed' \ completed)
      BY <2>0
    <3>6. /\ edits <= edits' /\ edits' \in Nat /\ UNCHANGED <<files, logState, step, taken, data, pruning, acked>>
          /\ sent' \subseteq sent \cup held /\ entries' = entries /\ changed' = changed
      BY <1>0, <2>0 DEF progress
    <3>7. /\ \A v \in Upload : journal'[v] = journal[v] /\ accepted'[v] = accepted[v]
          /\ \A p \in Path : entries'[p] = entries[p]
          /\ changed \subseteq changed' /\ dirty' /\ touched' /\ sent \subseteq sent' /\ ~(entries' # entries)
      BY <2>0
    <3> QED BY <1>0, <2>0, <3>3, <3>4, <3>5, <3>6, <3>7 DEF Mild
  <2>2. PreparingOK'
    BY <1>0, <1>4 DEF AcceptRefused, Complete, PreparingOK, KeepInv
  <2> QED BY <2>1, <2>2, MildKept
<1>5. CASE AnswerLost(u)
  <2>1. Mild
    BY <1>0, <1>5 DEF AnswerLost, MarkChanged, Mild, logState, progress, receipts, history
  <2>2. PreparingOK'
    BY <1>0, <1>5 DEF AnswerLost, PreparingOK, KeepInv, receipts, history
  <2> QED BY <2>1, <2>2, MildKept
<1> QED BY <1>1, <1>2, <1>3, <1>4, <1>5 DEF Transfer

-----------------------------------------------------------------------------
(* The steps of a save that leave the files alone. *)

LEMMA GoodStays ==
  ASSUME UNCHANGED <<acked, edits, sent, journal, refused, accepted>>, NEW c, Good(c)
  PROVE  Good(c)'
BY DEF Good, Outcome

(* What such a step keeps when it only moves on *)
LEMMA MovingOn ==
  ASSUME TypeInv, KeepInv, Running, Running',
         UNCHANGED <<files, journal, history, receipts, transfers, entries>>, dirty => dirty',
         pruning' \subseteq completed
  PROVE  DiskOK' /\ Good(Recovered)' /\ MemoryOK' /\ StillOK' /\ PreparingOK' /\ OpenOK'
<1>0. /\ UNCHANGED <<acked, edits, sent, journal, refused, accepted, completed, held, preparing, active, main, tmp, log>>
      /\ Open /\ Open' /\ step # "stopped" /\ DiskOK /\ Good(Recovered) /\ MemoryOK /\ PreparingOK /\ OpenOK
  BY DEF files, history, receipts, transfers, KeepInv, Running, Open
<1>1. /\ Recovered' = Recovered /\ Base' = Base /\ (RecoverTmp' <=> RecoverTmp)
      /\ (Whole(main)' <=> Whole(main)) /\ (Whole(tmp)' <=> Whole(tmp)) /\ (Whole(log)' <=> Whole(log))
  BY FilesStay
<1>2. Good(Recovered)'
  <2>1. PICK c : c = Recovered
    OBVIOUS
  <2>2. Good(c)'
    BY <1>0, <2>1, GoodStays
  <2> QED BY <1>1, <2>1, <2>2
<1>3. Good(Base)'
  <2>1. PICK c : c = Base
    OBVIOUS
  <2>2. Good(c)'
    BY <1>0, <2>1, GoodStays DEF OpenOK
  <2> QED BY <1>1, <2>1, <2>2
<1>4. DiskOK'
  BY <1>0, <1>1 DEF DiskOK
<1>5. MemoryOK'
  BY <1>0, <1>1 DEF MemoryOK, Outcome
<1>6. StillOK' /\ PreparingOK'
  BY <1>0 DEF StillOK, PreparingOK
<1>7. OpenOK'
  BY <1>0, <1>1, <1>3 DEF OpenOK
<1> QED BY <1>2, <1>4, <1>5, <1>6, <1>7

LEMMA SavingKept ==
  ASSUME TypeInv, TypeInv', KeepInv, BeginSave \/ EndSave
  PROVE  KeepInv'
<1>0. /\ UNCHANGED <<files, journal, history, receipts, transfers, entries, changed, logState, taken, data>>
      /\ dirty => dirty'
      /\ step \in {"idle", "prune"} /\ step' \in {"idle", "head"} /\ pruning' \subseteq completed
      /\ LogOK /\ GenerationOK
  BY DEF BeginSave, EndSave, MarkChanged, baseline, KeepInv
<1>1. /\ UNCHANGED <<entries, changed, generation, logActive, logStarted, persisted, main>>
      /\ Recovered' = Recovered /\ Base' = Base /\ (RecoverTmp' <=> RecoverTmp) /\ (Extending' <=> Extending)
      /\ (Whole(main)' <=> Whole(main)) /\ (Whole(tmp)' <=> Whole(tmp)) /\ (Whole(log)' <=> Whole(log))
      /\ UNCHANGED <<main, tmp, log>> /\ Running /\ Running' /\ Open /\ Open'
  BY <1>0, FilesStay DEF logState, files, Running, Open
<1>2. DiskOK' /\ Good(Recovered)' /\ MemoryOK' /\ StillOK' /\ PreparingOK' /\ OpenOK'
  BY <1>0, <1>1, MovingOn
<1>3. LogOK'
  BY <1>0, <1>1 DEF LogOK
<1>4. DataOK' /\ PruneOK'
  BY <1>0 DEF DataOK, Writing, PruneOK
<1>5. GenerationOK'
  BY <1>0, <1>1 DEF GenerationOK
<1> QED BY <1>2, <1>3, <1>4, <1>5 DEF KeepInv

LEMMA SnapshotKept ==
  ASSUME TypeInv, TypeInv', KeepInv, StartAppend \/ StartCompact
  PROVE  KeepInv'
<1>0. /\ UNCHANGED <<files, journal, history, receipts, transfers, pruning, entries, dirty, logStarted, persisted>>
      /\ step = "head" /\ dirty /\ taken' = changed /\ changed' = {} /\ touched' = FALSE
      /\ data' = [generation |-> generation + 1, entries |-> entries, settled |-> completed]
      /\ \/ logActive /\ step' = "append" /\ UNCHANGED <<logActive, generation>>
         \/ logActive' = FALSE /\ generation' = generation + 1 /\ step' = "tmp"
  BY DEF StartAppend, StartCompact, TakeChanges, logState
<1>1. /\ Recovered' = Recovered /\ Base' = Base /\ (RecoverTmp' <=> RecoverTmp) /\ (Extending' <=> Extending)
      /\ (Whole(main)' <=> Whole(main)) /\ (Whole(tmp)' <=> Whole(tmp)) /\ (Whole(log)' <=> Whole(log))
      /\ UNCHANGED <<main, tmp, log, acked, edits, sent, accepted, refused, completed, held>>
      /\ Running /\ Running' /\ Open /\ Open' /\ dirty'
  BY <1>0, FilesStay DEF files, history, receipts, Running, Open
<1>2. data'.generation = generation + 1 /\ data'.entries = entries /\ data'.settled = completed
  BY <1>0
<1>3. MemoryOK /\ LogOK /\ GenerationOK /\ pruning \subseteq completed
  BY <1>0 DEF KeepInv, MemoryOK
<1>4. DiskOK' /\ Good(Recovered)' /\ MemoryOK' /\ StillOK' /\ PreparingOK' /\ OpenOK'
  BY <1>0, <1>1, <1>3, MovingOn
<1>5. LogOK'
  <2>1. CASE logActive' = FALSE
    BY <2>1 DEF LogOK
  <2>2. CASE logActive /\ step' = "append" /\ UNCHANGED <<logActive, generation>>
    <3>1. /\ Whole(main) /\ ~RecoverTmp /\ persisted = Base.settled
          /\ \A p \in Path \ changed : entries[p] = Base.entries[p]
      BY <1>0, <1>1, <1>3, <2>2 DEF LogOK
    <3>2. (logStarted => Extending) /\ (~logStarted => ~Extending /\ generation = main.generation)
      BY <1>1, <1>3, <2>2, Zenon DEF LogOK
    <3>3. \A p \in Path \ changed' : entries'[p] = IF step' = "append" THEN data'.entries[p] ELSE Base'.entries[p]
      BY <1>0, <1>2, <2>2
    <3>4. (logStarted' => Extending') /\ (~logStarted' => ~Extending' /\ generation' = main'.generation)
      BY <1>0, <1>1, <2>2, <3>2
    <3>5. /\ Whole(main)' /\ ~RecoverTmp' /\ step' \in {"removeStale", "idle", "head", "append", "prune"}
          /\ persisted' = Base'.settled
          /\ step' = "append" => \A p \in Path \ taken' : data'.entries[p] = Base'.entries[p]
      BY <1>0, <1>1, <1>2, <2>2, <3>1
    <3> QED BY <3>3, <3>4, <3>5, Zenon DEF LogOK
  <2> QED BY <1>0, <2>1, <2>2
<1>6. DataOK'
  <2>1. /\ \A p \in Path : acked[p] <= entries[p] /\ entries[p] <= edits
        /\ completed \subseteq sent /\ held \cap completed = {}
        /\ \A u \in held \cup completed : journal[u] = "final"
        /\ \A u \in sent : u \in held \/ Outcome(u, entries)
    BY <1>0, <1>3 DEF MemoryOK
  <2>2. \A u \in sent : (journal[u] = "final" /\ u \notin completed) \/ Outcome(u, entries)
    BY <2>1
  <2>3. UNCHANGED <<journal, acked, edits, sent, accepted, refused>>
    BY <1>0, <1>1
  <2>4. Good(data)'
    BY <1>0, <1>2, <2>1, <2>2, <2>3 DEF Good, Outcome
  <2> QED BY <1>0, <1>1, <1>2, <2>1, <2>4 DEF DataOK
<1>7. GenerationOK'
  <2>1. /\ Whole(main) => main.generation <= generation
        /\ Whole(tmp) => tmp.generation <= generation
        /\ Whole(log) => log.base <= generation
    BY <1>0, <1>3 DEF GenerationOK
  <2>2. /\ Whole(main) => main.generation \in Nat
        /\ Whole(tmp) => tmp.generation \in Nat
        /\ Whole(log) => log.base \in Nat
        /\ generation \in Nat
    BY FieldsTyped DEF TypeInv
  <2> QED BY <1>0, <1>1, <1>2, <2>1, <2>2 DEF GenerationOK
<1>8. PruneOK'
  BY <1>0 DEF PruneOK
<1> QED BY <1>4, <1>5, <1>6, <1>7, <1>8 DEF KeepInv

(* A save that ends has everything in the checkpoint and its log. *)
LEMMA EndPersistKept ==
  ASSUME TypeInv, TypeInv', KeepInv, EndPersist
  PROVE  KeepInv'
<1>0. /\ UNCHANGED <<files, journal, edits, sent, accepted, refused, receipts, transfers, baseline, logState,
                     taken, data, pruning>>
      /\ step = "head" /\ step' = "prune" /\ ~dirty /\ acked' = entries
  BY DEF EndPersist
<1>1. /\ Recovered' = Recovered /\ Base' = Base /\ (RecoverTmp' <=> RecoverTmp) /\ (Extending' <=> Extending)
      /\ (Whole(main)' <=> Whole(main)) /\ (Whole(tmp)' <=> Whole(tmp)) /\ (Whole(log)' <=> Whole(log))
      /\ UNCHANGED <<main, tmp, log, completed, held, preparing, active, entries, dirty, changed,
                     generation, logActive, logStarted, persisted>>
      /\ Running /\ Running' /\ Open /\ Open'
  BY <1>0, FilesStay DEF files, receipts, transfers, baseline, logState, Running, Open
<1>2. DiskOK /\ MemoryOK /\ PreparingOK /\ OpenOK /\ LogOK /\ GenerationOK
  BY DEF KeepInv
<1>3. ~RecoverTmp /\ entries = Base.entries /\ Good(Base) /\ Recovered = Base
  BY <1>0, <1>1, <1>2, RecoveredIs DEF OpenOK
<1>4. /\ \A p \in Path : acked[p] <= entries[p] /\ entries[p] <= edits
      /\ completed \subseteq sent /\ held \cap completed = {} /\ pruning \subseteq completed
      /\ \A u \in sent : u \in held \/ Outcome(u, entries)
  BY <1>0, <1>2 DEF MemoryOK
<1>5. \A p \in Path : entries[p] \in Nat
  BY NumbersTyped DEF TypeInv
<1>6. Good(Base)' /\ Good(Recovered)'
  <2>1. PICK c : c = Base
    OBVIOUS
  <2>2. Good(c)'
    BY <1>0, <1>3, <1>4, <1>5, <2>1 DEF Good, Outcome
  <2> QED BY <1>1, <1>3, <2>1, <2>2
<1>7. DiskOK'
  BY <1>0, <1>1, <1>2 DEF DiskOK
<1>8. MemoryOK'
  BY <1>0, <1>1, <1>2, <1>5 DEF MemoryOK, Outcome
<1>9. StillOK' /\ PreparingOK' /\ OpenOK'
  BY <1>0, <1>1, <1>2, <1>6 DEF StillOK, PreparingOK, OpenOK
<1>10. LogOK'
  BY <1>0, <1>1, <1>2 DEF LogOK
<1>11. DataOK'
  BY <1>0 DEF DataOK, Writing
<1>12. GenerationOK'
  BY <1>0, <1>1, <1>2 DEF GenerationOK
<1>13. PruneOK'
  <2>1. \A u \in pruning : Outcome(u, Base.entries)
    BY <1>3, <1>4
  <2> QED BY <1>0, <1>1, <1>3, <2>1 DEF PruneOK, Outcome
<1> QED BY <1>6, <1>7, <1>8, <1>9, <1>10, <1>11, <1>12, <1>13 DEF KeepInv

LEMMA PruneKept ==
  ASSUME TypeInv, TypeInv', KeepInv, NEW u \in Upload, Prune(u)
  PROVE  KeepInv'
<1>0. /\ UNCHANGED <<files, history, transfers, baseline, logState, step, taken, data>>
      /\ step = "prune" /\ u \in pruning /\ pruning' = pruning \ {u}
      /\ \/ /\ journal' = [journal EXCEPT ![u] = "none"]
            /\ completed' = completed \ {u} /\ held' = held \ {u}
         \/ UNCHANGED <<journal, receipts>>
  BY DEF Prune
<1>1. /\ Recovered' = Recovered /\ Base' = Base /\ (RecoverTmp' <=> RecoverTmp) /\ (Extending' <=> Extending)
      /\ (Whole(main)' <=> Whole(main)) /\ (Whole(tmp)' <=> Whole(tmp)) /\ (Whole(log)' <=> Whole(log))
      /\ UNCHANGED <<main, tmp, log, preparing, active, entries, dirty, changed, acked, edits, sent, accepted, refused,
                     generation, logActive, logStarted, persisted>>
      /\ Running /\ Running' /\ Open /\ Open'
  BY <1>0, FilesStay DEF files, history, transfers, baseline, logState, Running, Open
<1>2. DiskOK /\ MemoryOK /\ PreparingOK /\ OpenOK /\ LogOK /\ GenerationOK /\ PruneOK
  BY DEF KeepInv
<1>3. /\ completed \subseteq sent /\ held \cap completed = {} /\ pruning \subseteq completed
      /\ \A v \in held \cup completed : journal[v] = "final"
      /\ active \subseteq held \cap sent
      /\ ~RecoverTmp /\ \A v \in pruning : Outcome(v, Base.entries)
      /\ Good(Base) /\ Recovered = Base
  BY <1>0, <1>1, <1>2, RecoveredIs DEF MemoryOK, OpenOK, PruneOK
<1>4. /\ held' = held /\ completed' \subseteq completed /\ pruning' \subseteq completed'
      /\ \A v \in Upload : v # u => journal'[v] = journal[v]
      /\ \A v \in completed' : journal'[v] = "final"
      /\ \A v \in held : v # u
  <2>1. journal \in [Upload -> {"none", "partial", "final"}] /\ completed \subseteq Upload /\ u \in completed /\ u \notin held
    BY <1>0, <1>3 DEF TypeInv, TypeOK
  <2> QED BY <1>0, <1>3, <2>1 DEF receipts
<1>5. held \subseteq Upload /\ sent \subseteq Upload /\ preparing \in Upload \cup {Absent}
  BY DEF TypeInv, TypeOK
<1>6. Good(Base)' /\ Good(Recovered)'
  <2>1. PICK c : c = Base
    OBVIOUS
  <2>2. \A v \in sent : (journal'[v] = "final" /\ v \notin c.settled) \/ Outcome(v, c.entries)
    <3> SUFFICES ASSUME NEW v \in sent
                 PROVE  (journal'[v] = "final" /\ v \notin c.settled) \/ Outcome(v, c.entries)
      OBVIOUS
    <3>1. CASE v = u
      BY <1>0, <1>3, <2>1, <3>1
    <3>2. CASE v # u
      BY <1>3, <1>4, <1>5, <2>1, <3>2 DEF Good
    <3> QED BY <3>1, <3>2
  <2>3. Good(c)'
    BY <1>1, <1>3, <2>1, <2>2 DEF Good, Outcome
  <2> QED BY <1>1, <1>3, <2>1, <2>3
<1>7. DiskOK'
  BY <1>1, <1>2, <1>3 DEF DiskOK
<1>8. MemoryOK'
  BY <1>0, <1>1, <1>2, <1>3, <1>4, <1>5 DEF MemoryOK, Outcome
<1>9. StillOK' /\ OpenOK'
  BY <1>0, <1>1, <1>2, <1>4, <1>6 DEF StillOK, OpenOK
<1>10. PreparingOK'
  <2>1. preparing # Absent => preparing # u /\ preparing \in Upload
    BY <1>0, <1>2, <1>3, <1>5 DEF PreparingOK
  <2> QED BY <1>1, <1>2, <1>4, <2>1 DEF PreparingOK
<1>11. LogOK'
  BY <1>0, <1>1, <1>2 DEF LogOK
<1>12. DataOK'
  BY <1>0 DEF DataOK, Writing
<1>13. GenerationOK'
  BY <1>0, <1>1, <1>2 DEF GenerationOK
<1>14. PruneOK'
  BY <1>0, <1>1, <1>3 DEF PruneOK, Outcome
<1> QED BY <1>6, <1>7, <1>8, <1>9, <1>10, <1>11, <1>12, <1>13, <1>14 DEF KeepInv

-----------------------------------------------------------------------------
(* What the writes of a save leave on disk, finished or not. *)

LEMMA SameCheckpoint ==
  ASSUME NEW c \in Checkpoint, NEW d \in Checkpoint, c.generation = d.generation, c.settled = d.settled,
         \A p \in Path : c.entries[p] = d.entries[p]
  PROVE  c = d
<1>1. c.entries \in [Path -> Version] /\ d.entries \in [Path -> Version]
  BY DEF Checkpoint
<1>2. c.entries = d.entries
  BY <1>1
<1>3. /\ c = [generation |-> c.generation, entries |-> c.entries, settled |-> c.settled]
      /\ d = [generation |-> d.generation, entries |-> d.entries, settled |-> d.settled]
  BY DEF Checkpoint
<1> QED BY <1>2, <1>3

(* While a record is appended, the checkpoint is whole and the log is the one it takes. *)
LEMMA Appending ==
  ASSUME TypeInv, KeepInv, step = "append"
  PROVE  /\ logActive /\ Open /\ Writing /\ Whole(main) /\ ~RecoverTmp /\ persisted = Base.settled
         /\ logStarted => Extending
         /\ ~logStarted => ~Extending /\ generation = main.generation
         /\ \A p \in Path \ taken : data.entries[p] = Base.entries[p]
         /\ Recovered = Base /\ dirty
<1>1. logActive /\ Open /\ Writing /\ LogOK /\ DataOK
  BY DEF TypeInv, LogShape, Open, Writing, KeepInv
<1>2. (logStarted => Extending) /\ (~logStarted => ~Extending /\ generation = main.generation)
  BY <1>1, Zenon DEF LogOK
<1>3. Whole(main) /\ ~RecoverTmp /\ persisted = Base.settled
  BY <1>1, Zenon DEF LogOK
<1>4. \A p \in Path \ taken : data.entries[p] = Base.entries[p]
  BY <1>1, Zenon DEF LogOK
<1> QED BY <1>1, <1>2, <1>3, <1>4, RecoveredIs DEF DataOK

(* The checkpoint with the record appended is the snapshot of the save. *)
LEMMA AppendedIs ==
  ASSUME TypeInv, KeepInv, step = "append", NEW tail \in {"line", "open"}
  PROVE  LET new == WrittenLog(tail)
         IN  Whole(new) /\ new.base = main.generation /\ Replay(main, new.records) = data
<1> DEFINE new == WrittenLog(tail)
<1>1. /\ new \in ChangeLog /\ Whole(new) /\ new.base = IF logStarted THEN log.base ELSE generation
      /\ new.records = IF logStarted THEN Append(log.records, Record) ELSE <<Record>>
      /\ new.base + Len(new.records) = data.generation
  BY WrittenShape
<1>2. /\ Whole(main) /\ persisted = Base.settled /\ main \in Checkpoint /\ data \in Checkpoint
      /\ logStarted => Extending
      /\ ~logStarted => ~Extending /\ generation = main.generation
      /\ \A p \in Path \ taken : data.entries[p] = Base.entries[p]
  BY Appending, FieldsTyped DEF TypeInv, TypeOK
<1>3. new.base = main.generation
  BY <1>1, <1>2 DEF Extending
<1>4. PICK before \in Seq(LogRecord) : new.records = Append(before, Record) /\ Replay(main, before) = Base
  <2>1. CASE logStarted
    <3>1. Extending /\ log.records \in Seq(LogRecord)
      BY <1>2, <2>1, FieldsTyped DEF Extending, TypeInv
    <3>2. Base = Replay(main, log.records)
      BY <3>1 DEF Base
    <3> QED BY <1>1, <2>1, <3>1, <3>2
  <2>2. CASE ~logStarted
    <3>1. Base = main
      BY <1>2, <2>2 DEF Base
    <3>2. Replay(main, <<>>) = main
      BY <1>2, ReplayNone
    <3>3. new.records = <<Record>>
      BY <1>1, <2>2
    <3>4. <<>> \in Seq(LogRecord) /\ <<Record>> = Append(<<>>, Record)
      OBVIOUS
    <3> QED BY <3>1, <3>2, <3>3, <3>4
  <2> QED BY <2>1, <2>2
<1>5. /\ Record \in LogRecord /\ DOMAIN Record.set = taken
      /\ \A p \in taken : Record.set[p] = data.entries[p]
      /\ Record.settled = IF data.settled = persisted THEN Absent ELSE data.settled
  BY RecordTyped DEF TypeInv
<1> HIDE DEF new
<1> DEFINE after == Replay(main, new.records)
<1>6. /\ after.generation = main.generation + (Len(before) + 1)
      /\ \A p \in Path : after.entries[p] = IF p \in DOMAIN Record.set THEN Record.set[p] ELSE Base.entries[p]
      /\ after.settled = IF Record.settled # Absent THEN Record.settled ELSE Base.settled
  BY <1>4, <1>5, ReplayAppend
<1>7. Len(new.records) = Len(before) + 1
  <2> HIDE DEF LogRecord
  <2> QED BY <1>4, <1>5
<1>8. after.generation = data.generation
  BY <1>1, <1>3, <1>6, <1>7
<1>9. \A p \in Path : after.entries[p] = data.entries[p]
  BY <1>2, <1>5, <1>6
<1>10. after.settled = data.settled
  <2>1. data.settled # Absent
    BY <1>2, MarkerAssumption DEF Checkpoint
  <2> QED BY <1>2, <1>5, <1>6, <2>1
<1>11. after \in Checkpoint
  <2>1. new.records \in Seq(LogRecord)
    BY <1>1 DEF ChangeLog
  <2>2. data.generation <= MaxGeneration
    BY <1>2, Bounds DEF Checkpoint
  <2> QED BY <1>1, <1>2, <1>3, <2>1, <2>2, ReplayTyped
<1>12. after = data
  <2> HIDE DEF after
  <2> QED BY <1>2, <1>8, <1>9, <1>10, <1>11, SameCheckpoint
<1> QED BY <1>1, <1>3, <1>12 DEF new

(* However far an append came, the checkpoint and its log are the old ones or the snapshot. *)
LEMMA LogAfter ==
  ASSUME TypeInv, KeepInv, step = "append", NEW l \in UnfinishedLog
  PROVE  /\ Whole(l) => l.base <= main.generation
         /\ (IF Whole(l) /\ l.base = main.generation THEN Replay(main, l.records) ELSE main) \in {Base, data}
<1>1. /\ Whole(main) /\ main \in Checkpoint /\ main.generation \in Nat
      /\ logStarted => Extending
      /\ ~logStarted => ~Extending /\ generation = main.generation
  BY Appending, FieldsTyped DEF TypeInv
<1>2. /\ Extending => Base = Replay(main, log.records)
      /\ ~Extending => Base = main
  BY <1>1 DEF Base
<1>3. CASE l = log
  <2>1. Whole(l) => l.base <= main.generation
    BY <1>1, <1>3 DEF KeepInv, DiskOK
  <2> QED BY <1>1, <1>2, <1>3, <2>1 DEF Extending
<1>4. CASE l \in {WrittenLog("open"), WrittenLog("line")}
  <2>1. PICK tail \in {"line", "open"} : l = WrittenLog(tail)
    BY <1>4
  <2>2. Whole(l) /\ l.base = main.generation /\ Replay(main, l.records) = data
    BY <2>1, AppendedIs
  <2> QED BY <1>1, <2>2
<1>5. CASE ~logStarted /\ l = Torn
  BY <1>1, <1>2, <1>5, WholeTyped
<1>6. CASE ~logStarted /\ l \in {NewLog(<<>>, "torn"), NewLog(<<>>, "line")}
  <2>1. l.base = main.generation /\ l.records = <<>>
    BY <1>1, <1>6 DEF NewLog
  <2>2. Replay(main, l.records) = main
    BY <1>1, <2>1, ReplayNone
  <2> QED BY <1>1, <1>2, <1>6, <2>1, <2>2
<1>7. CASE logStarted /\ l = [log EXCEPT !.tail = IF @ = "line" THEN "torn" ELSE @]
  <2>1. Extending /\ log \in ChangeLog
    BY <1>1, <1>7, FieldsTyped DEF Extending, TypeInv
  <2>2. l.base = log.base /\ l.records = log.records /\ Whole(l)
    <3>1. l \in ChangeLog /\ l.base = log.base /\ l.records = log.records
      BY <1>7, <2>1 DEF ChangeLog, LogEnd
    <3> QED BY <3>1, WholeTyped
  <2>3. log.base = main.generation
    BY <2>1 DEF Extending
  <2> QED BY <1>1, <1>2, <2>1, <2>2, <2>3
<1> QED BY <1>3, <1>4, <1>5, <1>6, <1>7 DEF UnfinishedLog

(* Interrupted writes leave the files in order, and what a load would find is what it was,
   the snapshot of the save, or what the checkpoint has without a torn temporary one. *)
LEMMA InterruptLeaves ==
  ASSUME TypeInv, KeepInv, NEW changes \in BOOLEAN, Interrupt(changes),
         \A u \in Upload : journal[u] = "final" => journal'[u] = "final"
  PROVE  /\ DiskOK'
         /\ \/ Recovered' = Recovered
            \/ Writing /\ Recovered' = data
            \/ step = "tmp" /\ tmp' = Torn /\ UNCHANGED <<main, log>> /\ Recovered' = Base
<1>0. /\ DiskOK /\ GenerationOK /\ OpenOK /\ DataOK /\ data \in Checkpoint /\ Whole(data)
      /\ ~Whole(Torn) /\ ~Whole(Absent) /\ Torn # Absent
  BY WholeTyped DEF KeepInv, TypeInv, TypeOK
<1>1. /\ (Whole(main) => main \in Checkpoint /\ main.generation \in Nat)
      /\ (Whole(tmp) => tmp \in Checkpoint /\ tmp.generation \in Nat)
      /\ (Whole(log) => log.base \in Nat)
      /\ data.generation \in Nat /\ generation \in Nat
  BY <1>0, NumbersTyped, FieldsTyped DEF TypeInv
<1>2. RecoverTmp => \A u \in tmp.settled : u \in Upload
  BY <1>1 DEF RecoverTmp, Checkpoint
<1>3. \A u \in data.settled : u \in Upload
  BY <1>0 DEF Checkpoint
<1>4. CASE step \notin {"append", "tmp", "main", "promote"}
  <2>1. UNCHANGED <<main, tmp, log>>
    BY <1>4 DEF Interrupt
  <2>2. Recovered' = Recovered /\ (RecoverTmp' <=> RecoverTmp) /\ (Whole(main)' <=> Whole(main))
        /\ (Whole(tmp)' <=> Whole(tmp)) /\ (Whole(log)' <=> Whole(log))
    BY <2>1, FilesStay DEF files
  <2> QED BY <1>0, <1>2, <2>1, <2>2 DEF DiskOK
<1>5. CASE step = "append"
  <2>1. UNCHANGED <<main, tmp>> /\ log' \in UnfinishedLog
    BY <1>5 DEF Interrupt
  <2>2. /\ Whole(main) /\ ~RecoverTmp /\ Recovered = Base /\ Writing
    BY <1>5, Appending
  <2>3. /\ Whole(log') => log'.base <= main.generation
        /\ (IF Whole(log') /\ log'.base = main.generation THEN Replay(main, log'.records) ELSE main) \in {Base, data}
    <3>1. PICK l \in UnfinishedLog : l = log'
      BY <2>1
    <3> QED BY <1>5, <3>1, LogAfter
  <2>4. ~RecoverTmp' /\ Whole(main)' /\ (Whole(tmp)' <=> Whole(tmp)) /\ (Whole(log)' <=> Whole(log'))
    BY <2>1, <2>2 DEF RecoverTmp, Whole
  <2>5. Recovered' = IF Whole(log') /\ log'.base = main.generation THEN Replay(main, log'.records) ELSE main
    BY <2>1, <2>4 DEF Recovered, Extends
  <2>6. DiskOK'
    BY <1>0, <2>1, <2>2, <2>3, <2>4 DEF DiskOK, Whole
  <2> QED BY <2>2, <2>3, <2>5, <2>6
<1>6. CASE step = "tmp"
  <2>1. UNCHANGED <<main, log>> /\ tmp' \in {tmp, Torn, data}
    BY <1>6 DEF Interrupt, Unfinished
  <2>2. /\ main # Torn /\ Writing /\ data.generation = generation
        /\ Whole(log) => log.base < generation
        /\ Whole(main) => main.generation < generation
        /\ \A u \in data.settled : journal[u] = "final"
    BY <1>0, <1>6 DEF OpenOK, Open, Writing, GenerationOK, DataOK
  <2>3. (Whole(main)' <=> Whole(main)) /\ (Whole(log)' <=> Whole(log)) /\ Base' = Base
    BY <2>1 DEF Whole, Base, Extending
  <2>4. CASE tmp' = tmp
    <3>1. Recovered' = Recovered /\ (RecoverTmp' <=> RecoverTmp) /\ (Whole(tmp)' <=> Whole(tmp))
      BY <2>1, <2>4, FilesStay DEF files
    <3> QED BY <1>0, <1>2, <2>1, <2>3, <2>4, <3>1 DEF DiskOK
  <2>5. CASE tmp' = Torn
    <3>1. ~Whole(tmp)' /\ ~RecoverTmp'
      BY <1>0, <2>5 DEF RecoverTmp, Whole
    <3>2. Recovered' = Base
      BY <2>1, <2>3, <3>1 DEF Recovered, Extends, Base, Extending, Whole
    <3>3. DiskOK'
      BY <1>0, <2>1, <2>2, <2>3, <3>1 DEF DiskOK
    <3> QED BY <1>6, <2>1, <2>5, <3>2, <3>3
  <2>6. CASE tmp' = data
    <3>1. Whole(tmp)' /\ RecoverTmp'
      BY <1>0, <1>1, <2>1, <2>2, <2>6 DEF RecoverTmp, Whole
    <3>2. Recovered' = data
      BY <2>6, <3>1 DEF Recovered
    <3>3. DiskOK'
      BY <1>0, <1>1, <1>3, <2>1, <2>2, <2>3, <2>6, <3>1 DEF DiskOK
    <3> QED BY <2>2, <3>2, <3>3
  <2> QED BY <2>1, <2>4, <2>5, <2>6
<1>7. CASE step = "main"
  <2>1. UNCHANGED <<tmp, log>> /\ main' \in {main, Torn, data}
    BY <1>7 DEF Interrupt, Unfinished
  <2>2. /\ Writing /\ data.generation = generation /\ tmp = data
        /\ Whole(log) => log.base < generation
        /\ Whole(main) => main.generation < generation
        /\ \A u \in data.settled : journal[u] = "final"
    BY <1>0, <1>7 DEF Writing, GenerationOK, DataOK
  <2>3. (Whole(tmp)' <=> Whole(tmp)) /\ (Whole(log)' <=> Whole(log)) /\ Whole(tmp)
    BY <1>0, <2>1, <2>2 DEF Whole
  <2>4. CASE main' = main
    <3>1. Recovered' = Recovered /\ (RecoverTmp' <=> RecoverTmp) /\ (Whole(main)' <=> Whole(main))
      BY <2>1, <2>4, FilesStay DEF files
    <3> QED BY <1>0, <1>2, <2>1, <2>3, <2>4, <3>1 DEF DiskOK
  <2>5. CASE main' = Torn
    <3>1. ~Whole(main)' /\ RecoverTmp' /\ Recovered' = data
      BY <1>0, <2>1, <2>2, <2>3, <2>5 DEF RecoverTmp, Whole, Recovered
    <3>2. DiskOK'
      BY <1>0, <1>3, <2>1, <2>2, <2>3, <2>5, <3>1 DEF DiskOK
    <3> QED BY <2>2, <3>1, <3>2
  <2>6. CASE main' = data
    <3>1. Whole(main)' /\ ~RecoverTmp'
      BY <1>0, <1>1, <2>1, <2>2, <2>6 DEF RecoverTmp, Whole
    <3>2. Whole(log)' => log'.base < main'.generation
      BY <2>1, <2>2, <2>3, <2>6
    <3>3. Recovered' = data
      <4>1. Whole(log)' => log'.base # main'.generation
        BY <1>1, <2>1, <2>2, <2>3, <2>6, <3>2
      <4> QED BY <2>6, <3>1, <4>1 DEF Recovered, Extends
    <3>4. DiskOK'
      BY <1>0, <1>1, <2>1, <2>2, <2>3, <2>6, <3>1, <3>2 DEF DiskOK
    <3> QED BY <2>2, <3>3, <3>4
  <2> QED BY <2>1, <2>4, <2>5, <2>6
<1>8. CASE step = "promote"
  <2>1. UNCHANGED <<tmp, log>> /\ main' \in {main, Torn, tmp} /\ RecoverTmp /\ Recovered = tmp /\ Whole(tmp)
    BY <1>0, <1>8 DEF Interrupt, Unfinished, GenerationOK, Recovered, RecoverTmp
  <2>2. (Whole(tmp)' <=> Whole(tmp)) /\ (Whole(log)' <=> Whole(log)) /\ (Whole(log) => log.base < tmp.generation)
    BY <1>0, <2>1 DEF Whole, DiskOK
  <2>3. CASE main' = main
    <3>1. Recovered' = Recovered /\ (RecoverTmp' <=> RecoverTmp) /\ (Whole(main)' <=> Whole(main))
      BY <2>1, <2>3, FilesStay DEF files
    <3> QED BY <1>0, <1>2, <2>1, <2>2, <2>3, <3>1 DEF DiskOK
  <2>4. CASE main' = Torn
    <3>1. ~Whole(main)' /\ RecoverTmp' /\ Recovered' = tmp
      BY <1>0, <2>1, <2>2, <2>4 DEF RecoverTmp, Whole, Recovered
    <3>2. DiskOK'
      BY <1>0, <1>2, <2>1, <2>2, <2>4, <3>1 DEF DiskOK
    <3> QED BY <2>1, <3>1, <3>2
  <2>5. CASE main' = tmp
    <3>1. Whole(main)' /\ ~RecoverTmp'
      BY <1>1, <2>1, <2>5 DEF RecoverTmp, Whole
    <3>2. Whole(log)' => log'.base < main'.generation
      BY <2>1, <2>2, <2>5
    <3>3. Recovered' = tmp
      <4>1. Whole(log)' => log'.base # main'.generation
        BY <1>1, <2>1, <2>2, <2>5, <3>2
      <4> QED BY <2>5, <3>1, <4>1 DEF Recovered, Extends
    <3>4. DiskOK'
      BY <1>0, <1>1, <2>1, <2>2, <2>5, <3>1, <3>2 DEF DiskOK
    <3> QED BY <2>1, <3>3, <3>4
  <2> QED BY <2>1, <2>3, <2>4, <2>5
<1> QED BY <1>4, <1>5, <1>6, <1>7, <1>8

LEMMA FinishKept ==
  ASSUME TypeInv, TypeInv', KeepInv, FinishAppend \/ FinishTmp \/ FinishMain \/ FinishCompact
  PROVE  KeepInv'
<1>0. /\ DiskOK /\ Good(Recovered) /\ MemoryOK /\ PreparingOK /\ OpenOK /\ LogOK /\ DataOK /\ GenerationOK
      /\ data \in Checkpoint /\ Whole(data) /\ ~Whole(Absent) /\ Absent # Torn
  BY WholeTyped DEF KeepInv, TypeInv, TypeOK
<1>1. /\ (Whole(main) => main \in Checkpoint /\ main.generation \in Nat)
      /\ (Whole(tmp) => tmp \in Checkpoint /\ tmp.generation \in Nat)
      /\ (Whole(log) => log.base \in Nat)
      /\ data.generation \in Nat /\ generation \in Nat
  BY <1>0, NumbersTyped, FieldsTyped DEF TypeInv
<1>2. /\ Writing /\ Open /\ Running /\ Running' /\ Open' /\ step # "stopped" /\ step' \in {"head", "main", "removeTmp"}
      /\ UNCHANGED <<entries, changed, touched, receipts, transfers, taken, data, pruning, journal, history>>
  BY DEF FinishAppend, FinishTmp, FinishMain, FinishCompact, Writing, Open, Running, baseline
<1>3. /\ dirty /\ Good(data) /\ held \cap data.settled = {}
      /\ \A u \in data.settled : journal[u] = "final" /\ u \in Upload
      /\ ~touched => entries = data.entries
      /\ \A p \in Path \ changed : entries[p] = data.entries[p]
  BY <1>0, <1>2 DEF DataOK, Checkpoint
<1>4. /\ UNCHANGED <<acked, edits, sent, accepted, refused, completed, held, preparing, active>>
      /\ main # Torn /\ Good(Base) /\ held \cap Base.settled = {}
  BY <1>0, <1>2 DEF receipts, transfers, history, OpenOK
<1>5. Good(data)' /\ held' \cap data'.settled = {}
  <2>1. PICK c : c = data
    OBVIOUS
  <2>2. Good(c)'
    BY <1>2, <1>3, <1>4, <2>1, GoodStays
  <2> QED BY <1>2, <1>3, <1>4, <2>1, <2>2
<1>6. Good(Base)' \/ Base' # Base
  <2>1. PICK c : c = Base
    OBVIOUS
  <2>2. Good(c)'
    BY <1>2, <1>4, <2>1, GoodStays
  <2> QED BY <2>1, <2>2
<1>7. StillOK' /\ PreparingOK' /\ PruneOK'
  BY <1>0, <1>2, <1>4 DEF StillOK, PreparingOK, PruneOK
<1>8. Recovered' = data => Good(Recovered)' /\ MemoryOK'
  <2> SUFFICES ASSUME Recovered' = data PROVE Good(Recovered)' /\ MemoryOK'
    OBVIOUS
  <2>1. Good(Recovered)' /\ held' \cap Recovered'.settled = {}
    BY <1>2, <1>5
  <2> QED BY <1>0, <1>2, <1>4, <2>1 DEF MemoryOK, Outcome
<1>9. CASE FinishAppend
  <2>1. /\ step = "append" /\ step' = "head" /\ log' = WrittenLog("line") /\ generation' = data.generation
        /\ logStarted' /\ persisted' = data.settled /\ dirty' = touched /\ UNCHANGED <<main, tmp, logActive>>
    BY <1>9 DEF FinishAppend
  <2>2. Whole(log') /\ log'.base = main.generation /\ Replay(main, log'.records) = data
    BY <2>1, AppendedIs
  <2>3. Whole(main) /\ ~RecoverTmp /\ data.generation = generation + 1
    BY <2>1, Appending DEF TypeInv, LogShape
  <2>4. /\ Whole(main)' /\ ~RecoverTmp' /\ (Whole(tmp)' <=> Whole(tmp)) /\ Extending'
        /\ Base' = data /\ Recovered' = data
    BY <2>1, <2>2, <2>3 DEF RecoverTmp, Whole, Extending, Base, Recovered, Extends
  <2>5. DiskOK'
    BY <1>0, <1>1, <2>1, <2>2, <2>3, <2>4 DEF DiskOK
  <2>6. OpenOK'
    BY <1>2, <1>3, <1>4, <1>5, <2>1, <2>4 DEF OpenOK
  <2>7. LogOK'
    BY <1>2, <1>3, <2>1, <2>3, <2>4 DEF LogOK
  <2>8. DataOK'
    BY <2>1 DEF DataOK, Writing
  <2>9. GenerationOK'
    <3>1. /\ Whole(main) => main.generation <= generation
          /\ Whole(tmp) => tmp.generation <= generation
      BY <1>0, <1>2 DEF GenerationOK
    <3> QED BY <1>1, <2>1, <2>2, <2>3, <2>4, <3>1 DEF GenerationOK
  <2> QED BY <1>7, <1>8, <2>4, <2>5, <2>6, <2>7, <2>8, <2>9 DEF KeepInv
<1>10. CASE FinishTmp
  <2>1. /\ step = "tmp" /\ step' = "main" /\ tmp' = data
        /\ UNCHANGED <<main, log, dirty, generation, logActive, logStarted, persisted>>
    BY <1>10 DEF FinishTmp, baseline, logState
  <2>2. /\ data.generation = generation
        /\ Whole(log) => log.base < generation
        /\ Whole(main) => main.generation < generation
    BY <1>0, <2>1 DEF GenerationOK
  <2>3. /\ (Whole(main)' <=> Whole(main)) /\ (Whole(log)' <=> Whole(log)) /\ Base' = Base /\ Whole(tmp)'
    BY <1>0, <2>1 DEF Whole, Base, Extending
  <2>4. RecoverTmp' /\ Recovered' = data
    BY <1>1, <2>1, <2>2, <2>3 DEF RecoverTmp, Recovered
  <2>5. DiskOK'
    BY <1>0, <1>1, <1>2, <1>3, <1>4, <2>1, <2>2, <2>3 DEF DiskOK
  <2>6. OpenOK'
    BY <1>2, <1>3, <1>4, <1>6, <2>1, <2>3 DEF OpenOK
  <2>7. LogOK'
    BY <1>0, <1>2, <2>1 DEF LogOK
  <2>8. DataOK'
    BY <1>2, <1>3, <1>4, <1>5, <2>1 DEF DataOK
  <2>9. GenerationOK'
    <3>1. /\ Whole(main) => main.generation <= generation
          /\ Whole(log) => log.base <= generation
      BY <1>0, <1>2 DEF GenerationOK
    <3> QED BY <1>1, <1>2, <2>1, <2>2, <2>3, <3>1 DEF GenerationOK
  <2> QED BY <1>7, <1>8, <2>4, <2>5, <2>6, <2>7, <2>8, <2>9 DEF KeepInv
<1>11. CASE FinishMain
  <2>1. /\ step = "main" /\ step' = "removeTmp" /\ main' = data
        /\ UNCHANGED <<tmp, log, dirty, generation, logActive, logStarted, persisted>>
    BY <1>11 DEF FinishMain, baseline, logState
  <2>2. /\ data.generation = generation /\ tmp = data
        /\ Whole(log) => log.base < generation
    BY <1>0, <2>1 DEF GenerationOK
  <2>3. /\ (Whole(tmp)' <=> Whole(tmp)) /\ (Whole(log)' <=> Whole(log)) /\ Whole(main)'
        /\ Whole(log) => log.base # data.generation
    BY <1>0, <1>1, <2>1, <2>2 DEF Whole
  <2>4. ~RecoverTmp' /\ ~Extending' /\ Base' = data /\ Recovered' = data
    BY <1>1, <2>1, <2>2, <2>3 DEF RecoverTmp, Recovered, Extends, Extending, Base
  <2>5. DiskOK'
    BY <1>0, <1>1, <1>2, <2>1, <2>2, <2>3, <2>4 DEF DiskOK
  <2>6. OpenOK'
    BY <1>0, <1>2, <1>3, <1>4, <1>5, <2>1, <2>4, WholeTyped DEF OpenOK, Whole
  <2>7. LogOK'
    BY <1>0, <1>2, <2>1 DEF LogOK
  <2>8. DataOK'
    BY <1>2, <1>3, <1>4, <1>5, <2>1 DEF DataOK
  <2>9. GenerationOK'
    <3>1. /\ Whole(tmp) => tmp.generation <= generation
          /\ Whole(log) => log.base <= generation
      BY <1>0, <1>2 DEF GenerationOK
    <3> QED BY <1>1, <1>2, <2>1, <2>2, <2>3, <3>1 DEF GenerationOK
  <2> QED BY <1>7, <1>8, <2>4, <2>5, <2>6, <2>7, <2>8, <2>9 DEF KeepInv
<1>12. CASE FinishCompact
  <2>1. /\ step = "removeTmp" /\ step' = "head" /\ tmp' \in {tmp, Absent} /\ ~logStarted' /\ logActive'
        /\ persisted' = data.settled /\ dirty' = touched /\ UNCHANGED <<main, log, generation>>
    BY <1>12 DEF FinishCompact
  <2>2. /\ data.generation = generation /\ main = data /\ tmp = data
        /\ Whole(log) => log.base < generation
    BY <1>0, <2>1 DEF GenerationOK
  <2>3. /\ (Whole(main)' <=> Whole(main)) /\ Whole(main) /\ (Whole(log)' <=> Whole(log))
        /\ Whole(log) => log.base # data.generation
        /\ Whole(tmp)' => tmp' = data
    BY <1>0, <1>1, <2>1, <2>2 DEF Whole
  <2>4. ~RecoverTmp' /\ ~Extending' /\ Base' = data /\ Recovered' = data
    BY <1>1, <2>1, <2>2, <2>3 DEF RecoverTmp, Recovered, Extends, Extending, Base
  <2>5. DiskOK'
    BY <1>0, <1>1, <1>4, <2>1, <2>2, <2>3, <2>4 DEF DiskOK
  <2>6. OpenOK'
    BY <1>2, <1>3, <1>4, <1>5, <2>1, <2>4 DEF OpenOK
  <2>7. LogOK'
    BY <1>2, <1>3, <2>1, <2>2, <2>3, <2>4 DEF LogOK
  <2>8. DataOK'
    BY <2>1 DEF DataOK, Writing
  <2>9. GenerationOK'
    <3>1. /\ Whole(main) => main.generation <= generation
          /\ Whole(log) => log.base <= generation
      BY <1>0, <1>2 DEF GenerationOK
    <3> QED BY <1>1, <2>1, <2>2, <2>3, <3>1 DEF GenerationOK
  <2> QED BY <1>7, <1>8, <2>4, <2>5, <2>6, <2>7, <2>8, <2>9 DEF KeepInv
<1> QED BY <1>9, <1>10, <1>11, <1>12

-----------------------------------------------------------------------------
(* Failed writes, crashes and loads. *)

LEMMA WriteFailsKept ==
  ASSUME TypeInv, TypeInv', KeepInv, ~WriteErrorsTear, WriteFails
  PROVE  KeepInv'
<1>0. /\ MemoryOK /\ PreparingOK /\ OpenOK /\ DataOK /\ GenerationOK
  BY DEF KeepInv
<1>1. /\ step \in {"append", "tmp", "main"} /\ Interrupt(FALSE) /\ ~logActive' /\ step' = "idle"
      /\ UNCHANGED <<entries, dirty, touched, generation, receipts, transfers, data, pruning, journal, history>>
  <2>1. WriteErrorsTear = FALSE
    BY Bounds
  <2> QED BY <2>1 DEF WriteFails
<1>2. /\ Writing /\ Open /\ Open' /\ Running /\ Running' /\ step # "stopped"
      /\ UNCHANGED <<acked, edits, sent, accepted, refused, completed, held, preparing, active, main, tmp>>
      /\ log' \in IF step = "append" THEN UnfinishedLog ELSE {log}
  BY <1>1 DEF Writing, Open, Running, receipts, transfers, history, Interrupt, Unfinished
<1>3. /\ dirty /\ Good(data) /\ held \cap data.settled = {}
      /\ main # Torn /\ Good(Base) /\ held \cap Base.settled = {}
      /\ Good(Recovered) /\ held \cap Recovered.settled = {}
  BY <1>0, <1>2 DEF DataOK, OpenOK, MemoryOK, KeepInv
<1>4. DiskOK' /\ Recovered' \in {Recovered, data, Base}
  BY <1>1, InterruptLeaves
<1>5. ASSUME NEW c, c \in {Recovered, data, Base}
      PROVE  Good(c)' /\ held' \cap c.settled = {}
  BY <1>1, <1>2, <1>3, <1>5, GoodStays
<1>6. Good(Recovered)' /\ held' \cap Recovered'.settled = {}
  <2>1. PICK c : c = Recovered'
    OBVIOUS
  <2>2. Good(c)' /\ held' \cap c.settled = {}
    BY <1>4, <1>5, <2>1
  <2> QED BY <2>1, <2>2
<1>7. /\ (Whole(main)' <=> Whole(main)) /\ (Whole(tmp)' <=> Whole(tmp))
      /\ Base' \in {Base, data} /\ (Whole(log)' => log'.base <= generation)
  <2>1. (Whole(main)' <=> Whole(main)) /\ (Whole(tmp)' <=> Whole(tmp))
    BY <1>2 DEF Whole
  <2>2. CASE step = "append"
    <3>1. PICK l \in UnfinishedLog : l = log'
      BY <1>2, <2>2
    <3>2. /\ Whole(l) => l.base <= main.generation
          /\ (IF Whole(l) /\ l.base = main.generation THEN Replay(main, l.records) ELSE main) \in {Base, data}
      BY <2>2, <3>1, LogAfter
    <3>3. Whole(main) /\ main.generation <= generation /\ main.generation \in Nat /\ generation \in Nat
      BY <1>0, <1>2, <2>2, Appending, FieldsTyped DEF GenerationOK, TypeInv
    <3>4. Base' = IF Whole(l) /\ l.base = main.generation THEN Replay(main, l.records) ELSE main
      BY <1>2, <2>1, <3>1, <3>3 DEF Base, Extending, Whole
    <3>5. Whole(l) => l.base <= generation
      <4>1. Whole(l) => l.base \in Nat
        <5>1. l \in ChangeLog \cup {Absent, Torn}
          BY <2>2, UnfinishedShape
        <5> QED BY <5>1, Bounds DEF Whole, ChangeLog
      <4> QED BY <3>2, <3>3, <4>1
    <3> QED BY <2>1, <3>1, <3>2, <3>4, <3>5 DEF Whole
  <2>3. CASE step # "append"
    <3>1. UNCHANGED files
      BY <1>2, <2>3 DEF files
    <3> QED BY <1>0, <1>2, <2>1, <3>1, FilesStay DEF GenerationOK, files
  <2> QED BY <2>2, <2>3
<1>8. Good(Base)' /\ held' \cap Base'.settled = {}
  <2>1. PICK c : c = Base'
    OBVIOUS
  <2>2. Good(c)' /\ held' \cap c.settled = {}
    BY <1>5, <1>7, <2>1
  <2> QED BY <2>1, <2>2
<1>9. MemoryOK'
  BY <1>0, <1>1, <1>2, <1>6 DEF MemoryOK, Outcome
<1>10. StillOK' /\ PreparingOK' /\ OpenOK'
  BY <1>0, <1>1, <1>2, <1>3, <1>8 DEF StillOK, PreparingOK, OpenOK
<1>11. LogOK' /\ DataOK' /\ PruneOK'
  BY <1>1 DEF LogOK, DataOK, Writing, PruneOK
<1>12. GenerationOK'
  <2>1. /\ Whole(main) => main.generation <= generation
        /\ Whole(tmp) => tmp.generation <= generation
    BY <1>0, <1>2 DEF GenerationOK
  <2> QED BY <1>1, <1>2, <1>7, <2>1 DEF GenerationOK
<1> QED BY <1>4, <1>6, <1>9, <1>10, <1>11, <1>12 DEF KeepInv

LEMMA StopKept ==
  ASSUME TypeInv, KeepInv, Crash \/ PromoteFails
  PROVE  KeepInv'
<1>1. /\ \E changes \in BOOLEAN : Interrupt(changes)
      /\ Forget /\ \A u \in Upload : journal[u] = "final" => journal'[u] = "final"
  BY Bounds DEF Crash, PromoteFails, TypeInv, TypeOK
<1>2. /\ step' = "stopped" /\ preparing' = Absent /\ active' = {} /\ ~dirty' /\ pruning' = {}
      /\ UNCHANGED <<acked, edits, sent, accepted, refused>>
  BY <1>1 DEF Forget, history
<1>3. /\ DiskOK'
      /\ Recovered' = Recovered \/ (Writing /\ Recovered' = data) \/ (step = "tmp" /\ Recovered' = Base)
  BY <1>1, InterruptLeaves
<1>4. Good(Recovered')
  BY <1>3 DEF KeepInv, DataOK, OpenOK, Open
<1>5. Good(Recovered)'
  <2>1. PICK c : c = Recovered'
    OBVIOUS
  <2>2. Good(c) /\ sent \subseteq Upload
    BY <1>4, <2>1 DEF TypeInv, TypeOK
  <2>3. Good(c)'
    BY <1>1, <1>2, <2>2 DEF Good, Outcome
  <2> QED BY <2>1, <2>3
<1>6. /\ MemoryOK' /\ StillOK' /\ PreparingOK' /\ OpenOK' /\ LogOK' /\ DataOK' /\ GenerationOK' /\ PruneOK'
  BY <1>2 DEF MemoryOK, StillOK, PreparingOK, OpenOK, LogOK, DataOK, GenerationOK, PruneOK, Open, Writing
<1> QED BY <1>3, <1>5, <1>6 DEF KeepInv

(* A load adopts what the files have and keeps the uploads whose receipts they lack. *)
LEMMA BeginLoadKept ==
  ASSUME TypeInv, TypeInv', KeepInv, BeginLoad
  PROVE  KeepInv'
<1> DEFINE settled == {u \in Recovered.settled : journal[u] = "final"}
<1>0. /\ step = "stopped" /\ Readable
      /\ entries' = Recovered.entries /\ acked' = Recovered.entries /\ generation' = Recovered.generation
      /\ persisted' = Recovered.settled /\ completed' = settled
      /\ held' = {u \in Upload : journal[u] = "final"} \ settled
      /\ step' = IF RecoverTmp THEN "promote" ELSE "removeStale"
      /\ UNCHANGED <<changed, dirty, touched, transfers, taken, data, pruning, files,
                     edits, sent, accepted, refused>>
  BY Zenon DEF BeginLoad
<1>1. (logActive' => Extends) /\ (logActive' => logStarted')
  BY Zenon DEF BeginLoad
<1>2. \A u \in Upload : journal'[u] = "final" <=> journal[u] = "final"
  <2>1. PICK gone \in SUBSET {u \in Upload : journal[u] = "partial"} :
          journal' = [u \in Upload |-> IF u \in gone THEN "none" ELSE journal[u]]
    BY DEF BeginLoad
  <2> QED BY <2>1
<1>3. /\ DiskOK /\ Good(Recovered) /\ preparing = Absent /\ active = {} /\ ~dirty /\ pruning = {}
      /\ UNCHANGED <<preparing, active, main, tmp, log>>
  BY <1>0 DEF KeepInv, StillOK, Running, transfers, files
<1>4. /\ Recovered' = Recovered /\ Base' = Base /\ (RecoverTmp' <=> RecoverTmp) /\ (Extending' <=> Extending)
      /\ (Whole(main)' <=> Whole(main)) /\ (Whole(tmp)' <=> Whole(tmp)) /\ (Whole(log)' <=> Whole(log))
  BY <1>0, FilesStay
<1>5. /\ Recovered \in Checkpoint /\ Recovered.settled \subseteq Upload /\ sent \subseteq Upload
      /\ \A p \in Path : Recovered.entries[p] \in Nat
  BY RecoveredTyped, NumbersTyped DEF TypeInv, TypeOK
<1>6. /\ (Whole(main) => main \in Checkpoint /\ main.generation \in Nat)
      /\ (Whole(tmp) => tmp \in Checkpoint /\ tmp.generation \in Nat)
      /\ (Whole(log) => log.base \in Nat /\ Len(log.records) \in Nat)
  BY FieldsTyped DEF TypeInv
<1>7. held' \cap Recovered.settled = {}
  BY <1>0
<1>8. Good(Recovered)'
  <2>1. PICK c : c = Recovered
    OBVIOUS
  <2>2. Good(c) /\ \A p \in Path : acked'[p] = c.entries[p] /\ c.entries[p] \in Nat
    BY <1>0, <1>3, <1>5, <2>1
  <2>3. Good(c)'
    BY <1>0, <1>2, <1>5, <2>2 DEF Good, Outcome
  <2> QED BY <1>4, <2>1, <2>3
<1>9. DiskOK'
  <2>1. RecoverTmp => \A u \in tmp.settled : u \in Upload
    BY <1>6 DEF RecoverTmp, Checkpoint
  <2> QED BY <1>2, <1>3, <1>4, <2>1 DEF DiskOK
<1>10. MemoryOK'
  <2>1. \A p \in Path : acked'[p] <= entries'[p] /\ entries'[p] <= edits'
    BY <1>0, <1>3, <1>5 DEF Good
  <2>2. completed' \subseteq sent' /\ held' \cap completed' = {} /\ pruning' \subseteq completed'
    BY <1>0, <1>3 DEF Good
  <2>3. \A u \in held' \cup completed' : journal'[u] = "final"
    BY <1>0, <1>2, <1>5
  <2>4. \A u \in sent' : u \in held' \/ Outcome(u, entries)'
    BY <1>0, <1>3, <1>5 DEF Good, Outcome
  <2> QED BY <1>3, <1>4, <1>7, <2>1, <2>2, <2>3, <2>4 DEF MemoryOK
<1>11. StillOK' /\ PreparingOK'
  BY <1>0, <1>3 DEF StillOK, PreparingOK
<1>12. ~RecoverTmp => Recovered = Base
  BY RecoveredIs
<1>13. OpenOK'
  <2> SUFFICES ASSUME ~RecoverTmp PROVE OpenOK'
    BY <1>0 DEF OpenOK, Open
  <2>1. main # Torn
    BY <1>3 DEF DiskOK, RecoverTmp, Whole
  <2>2. Good(Base)'
    <3>1. PICK c : c = Recovered'
      OBVIOUS
    <3>2. Base' = c /\ Good(c)'
      BY <1>4, <1>8, <1>12, <3>1
    <3> QED BY <3>2
  <2> QED BY <1>0, <1>3, <1>4, <1>7, <1>12, <2>1, <2>2 DEF OpenOK
<1>14. LogOK'
  <2> SUFFICES ASSUME logActive' PROVE LogOK'
    BY DEF LogOK
  <2>1. Whole(main) /\ ~RecoverTmp /\ Extending /\ logStarted' /\ step' = "removeStale"
    BY <1>0, <1>1 DEF Extends, Extending
  <2>2. persisted' = Base'.settled /\ entries' = Base'.entries
    BY <1>0, <1>4, <1>12, <2>1
  <2> QED BY <1>4, <2>1, <2>2 DEF LogOK
<1>15. DataOK' /\ PruneOK'
  BY <1>0 DEF DataOK, Writing, PruneOK
<1>16. GenerationOK'
  <2>1. CASE RecoverTmp
    <3>1. Recovered = tmp /\ Whole(tmp) /\ (Whole(main) => main.generation < tmp.generation) /\ ~logActive'
      BY <1>1, <1>6, <2>1 DEF Recovered, RecoverTmp, Extends
    <3>2. Whole(log) => log.base < tmp.generation
      BY <1>3, <2>1 DEF DiskOK
    <3>3. settled = tmp.settled
      BY <1>3, <2>1, <3>1 DEF DiskOK
    <3>4. tmp' = Serialized'
      <4>1. tmp = [generation |-> tmp.generation, entries |-> tmp.entries, settled |-> tmp.settled]
        BY <1>6, <3>1 DEF Checkpoint
      <4>2. generation' = tmp.generation /\ entries' = tmp.entries /\ completed' = tmp.settled
        BY <1>0, <3>1, <3>3
      <4> QED BY <1>3, <4>1, <4>2 DEF Serialized
    <3> QED BY <1>0, <1>3, <1>4, <1>6, <2>1, <3>1, <3>2, <3>4 DEF GenerationOK
  <2>2. CASE ~RecoverTmp
    <3>1. /\ Whole(tmp) => Whole(main) /\ tmp.generation <= main.generation
          /\ Whole(log) => Whole(main) /\ log.base <= main.generation
      BY <1>3, <1>6, <2>2, WholeTyped DEF RecoverTmp, DiskOK, Whole
    <3>2. Whole(main) => main.generation <= generation'
      <4>1. CASE Extends
        <5>1. generation' = log.base + Len(log.records) /\ Whole(log) /\ log.base = main.generation
          BY <1>0, <4>1, RecoveredTyped DEF Extends
        <5> QED BY <1>6, <5>1
      <4>2. CASE ~Extends
        BY <1>0, <1>6, <2>2, <4>2 DEF Recovered
      <4> QED BY <4>1, <4>2
    <3>3. generation' \in Nat
      BY FieldsTyped, Bounds DEF TypeInv, TypeOK
    <3> QED BY <1>0, <1>3, <1>4, <1>6, <2>2, <3>1, <3>2, <3>3 DEF GenerationOK
  <2> QED BY <2>1, <2>2
<1> QED BY <1>8, <1>9, <1>10, <1>11, <1>13, <1>14, <1>15, <1>16 DEF KeepInv

LEMMA PromoteKept ==
  ASSUME TypeInv, TypeInv', KeepInv, Promote
  PROVE  KeepInv'
<1>0. /\ step = "promote" /\ main' = Serialized /\ step' = "removeStale"
      /\ UNCHANGED <<baseline, logState, receipts, transfers, data, pruning, tmp, log, journal, history>>
      /\ DiskOK /\ Good(Recovered) /\ MemoryOK /\ GenerationOK
  BY DEF Promote, KeepInv
<1>1. /\ RecoverTmp /\ ~logActive /\ tmp = Serialized /\ Whole(tmp) /\ Recovered = tmp /\ main' = tmp
      /\ tmp.entries = entries /\ tmp.generation = generation
      /\ Whole(log) => log.base < tmp.generation
  <2>1. RecoverTmp /\ ~logActive /\ tmp = Serialized
    BY <1>0 DEF GenerationOK
  <2> QED BY <1>0, <2>1 DEF RecoverTmp, Recovered, Serialized, DiskOK
<1>2. /\ preparing = Absent /\ active = {} /\ ~dirty /\ pruning = {}
      /\ UNCHANGED <<entries, dirty, generation, logActive, completed, held, preparing, active,
                     acked, edits, sent, accepted, refused>>
  BY <1>0 DEF KeepInv, StillOK, Running, baseline, logState, receipts, transfers, history
<1>3. /\ tmp \in Checkpoint /\ tmp.generation \in Nat /\ tmp # Torn /\ tmp # Absent
      /\ Whole(log) => log.base \in Nat
  BY <1>1, FieldsTyped DEF TypeInv, Whole
<1>4. /\ Whole(main)' /\ Whole(tmp)' /\ (Whole(log)' <=> Whole(log)) /\ ~RecoverTmp' /\ ~Extending' /\ ~Extends'
  BY <1>0, <1>1, <1>3 DEF Whole, RecoverTmp, Extending, Extends
<1>5. Recovered' = Recovered /\ Base' = Recovered
  BY <1>1, <1>4 DEF Recovered, Base
<1>6. Good(Recovered)' /\ Good(Base)'
  <2>1. PICK c : c = Recovered
    OBVIOUS
  <2>2. Good(c)'
    BY <1>0, <1>2, <2>1, GoodStays
  <2> QED BY <1>5, <2>1, <2>2
<1>7. DiskOK'
  BY <1>0, <1>1, <1>3, <1>4 DEF DiskOK
<1>8. MemoryOK'
  BY <1>0, <1>2, <1>5 DEF MemoryOK, Outcome
<1>9. StillOK' /\ PreparingOK' /\ DataOK' /\ PruneOK'
  BY <1>0, <1>2 DEF StillOK, PreparingOK, DataOK, Writing, PruneOK
<1>10. OpenOK'
  <2>1. held \cap Recovered.settled = {}
    BY <1>0 DEF MemoryOK
  <2> QED BY <1>1, <1>2, <1>3, <1>4, <1>5, <1>6, <2>1 DEF OpenOK
<1>11. LogOK'
  BY <1>1, <1>2 DEF LogOK
<1>12. GenerationOK'
  <2>1. Whole(log) => log.base <= generation
    BY <1>0 DEF GenerationOK
  <2> QED BY <1>0, <1>1, <1>2, <1>3, <1>4, <2>1 DEF GenerationOK
<1> QED BY <1>6, <1>7, <1>8, <1>9, <1>10, <1>11, <1>12 DEF KeepInv

(* Removing a temporary checkpoint that would not be recovered changes nothing. *)
LEMMA TemporaryGone ==
  ASSUME ~RecoverTmp, UNCHANGED <<main, log>>, tmp' \in {tmp, Absent}
  PROVE  /\ ~RecoverTmp' /\ Recovered' = Recovered /\ Base' = Base /\ (Extending' <=> Extending)
         /\ (Whole(main)' <=> Whole(main)) /\ (Whole(log)' <=> Whole(log))
         /\ Whole(tmp)' => tmp' = tmp /\ Whole(tmp)
<1>1. (Whole(main)' <=> Whole(main)) /\ (Whole(log)' <=> Whole(log)) /\ (Whole(tmp)' => tmp' = tmp /\ Whole(tmp))
  BY DEF Whole
<1>2. ~RecoverTmp'
  BY <1>1 DEF RecoverTmp
<1> QED BY <1>1, <1>2 DEF Recovered, Base, Extends, Extending

LEMMA RemoveStaleKept ==
  ASSUME TypeInv, TypeInv', KeepInv, RemoveStale
  PROVE  KeepInv'
<1>0. /\ step = "removeStale" /\ step' = "idle" /\ tmp' \in {tmp, Absent}
      /\ UNCHANGED <<baseline, logState, receipts, transfers, data, pruning, main, log, journal, history>>
      /\ DiskOK /\ Good(Recovered) /\ MemoryOK /\ PreparingOK /\ OpenOK /\ LogOK /\ GenerationOK
  BY DEF RemoveStale, KeepInv
<1>1. ~RecoverTmp /\ Open /\ Open'
  BY <1>0 DEF GenerationOK, Open
<1>2. /\ ~RecoverTmp' /\ Recovered' = Recovered /\ Base' = Base /\ (Extending' <=> Extending)
      /\ (Whole(main)' <=> Whole(main)) /\ (Whole(log)' <=> Whole(log))
      /\ Whole(tmp)' => tmp' = tmp /\ Whole(tmp)
  BY <1>0, <1>1, TemporaryGone
<1>3. /\ UNCHANGED <<entries, dirty, changed, generation, logActive, logStarted, persisted, completed, held,
                     preparing, active, acked, edits, sent, accepted, refused, main, log>>
  BY <1>0 DEF baseline, logState, receipts, transfers, history
<1>4. Good(Recovered)' /\ Good(Base)'
  <2>1. PICK c : c = Recovered
    OBVIOUS
  <2>2. Good(c)'
    BY <1>0, <1>3, <2>1, GoodStays
  <2>3. Base = Recovered
    BY <1>1, RecoveredIs
  <2> QED BY <1>2, <2>1, <2>2, <2>3
<1>5. DiskOK'
  BY <1>0, <1>1, <1>2, <1>3 DEF DiskOK, OpenOK
<1>6. MemoryOK'
  BY <1>0, <1>2, <1>3 DEF MemoryOK, Outcome
<1>7. StillOK' /\ PreparingOK' /\ DataOK' /\ PruneOK'
  BY <1>0, <1>3 DEF StillOK, Running, PreparingOK, DataOK, Writing, PruneOK
<1>8. OpenOK'
  BY <1>0, <1>1, <1>2, <1>3, <1>4 DEF OpenOK
<1>9. LogOK'
  BY <1>0, <1>1, <1>2, <1>3 DEF LogOK
<1>10. GenerationOK'
  BY <1>0, <1>2, <1>3 DEF GenerationOK
<1> QED BY <1>4, <1>5, <1>6, <1>7, <1>8, <1>9, <1>10 DEF KeepInv

LEMMA KeepInit == Init => KeepInv
<1> SUFFICES ASSUME Init PROVE KeepInv
  OBVIOUS
<1>1. /\ step = "stopped" /\ main = Absent /\ tmp = Absent /\ log = Absent /\ preparing = Absent
      /\ active = {} /\ dirty = FALSE /\ pruning = {} /\ sent = {} /\ edits = 0 /\ acked = Empty.entries
  BY DEF Init
<1>2. Recovered = Empty /\ ~RecoverTmp /\ ~Whole(main) /\ ~Whole(tmp) /\ ~Whole(log) /\ Absent # Torn
  BY <1>1, WholeTyped DEF Recovered, RecoverTmp, Extends
<1>3. Good(Empty)
  BY <1>1 DEF Good, Empty
<1> QED BY <1>1, <1>2, <1>3 DEF KeepInv, DiskOK, MemoryOK, StillOK, Running, PreparingOK, OpenOK, Open, LogOK,
           DataOK, Writing, GenerationOK, PruneOK

LEMMA KeepStep == ~WriteErrorsTear /\ TypeInv /\ KeepInv /\ [Next]_vars => KeepInv'
<1> SUFFICES ASSUME ~WriteErrorsTear, TypeInv, KeepInv, [Next]_vars PROVE KeepInv'
  OBVIOUS
<1>0. TypeInv'
  BY TypeStep
<1>1. CASE (\E p \in Path : Change(p)) \/ Touch \/ PrepareRename \/ PrepareFails
  BY <1>0, <1>1, ChangesKept
<1>2. CASE \E u \in Upload : Transfer(u)
  BY <1>0, <1>2, TransferKept
<1>3. CASE Save
  BY <1>0, <1>3, SavingKept, SnapshotKept, FinishKept, WriteFailsKept, EndPersistKept, PruneKept DEF Save
<1>4. CASE Crash \/ Load
  BY <1>0, <1>4, StopKept, BeginLoadKept, PromoteKept, RemoveStaleKept DEF Load
<1>5. CASE UNCHANGED vars
  <2>1. UNCHANGED <<files, logState, progress, history, transfers, baseline, receipts, journal>>
    BY <1>5 DEF vars
  <2>2. /\ Recovered' = Recovered /\ Base' = Base /\ (RecoverTmp' <=> RecoverTmp) /\ (Extending' <=> Extending)
        /\ (Whole(main)' <=> Whole(main)) /\ (Whole(tmp)' <=> Whole(tmp)) /\ (Whole(log)' <=> Whole(log))
    BY <2>1, FilesStay
  <2>3. UNCHANGED <<main, tmp, log, generation, logActive, logStarted, persisted, step, taken, data, pruning, edits, acked,
                    sent, accepted, refused, preparing, active, entries, changed, dirty, touched, completed, held, journal>>
    BY <2>1 DEF files, logState, progress, history, transfers, baseline, receipts
  <2>4. Good(Recovered)' /\ Good(Base)' = Good(Base) /\ Good(data)' = Good(data)
    BY <2>2, <2>3 DEF KeepInv, Good, Outcome
  <2> QED BY <2>2, <2>3, <2>4 DEF KeepInv, DiskOK, MemoryOK, StillOK, Running, PreparingOK, OpenOK, Open, LogOK,
             DataOK, Writing, GenerationOK, PruneOK, Serialized, Outcome
<1> QED BY <1>1, <1>2, <1>3, <1>4, <1>5 DEF Next

-----------------------------------------------------------------------------
(* What the device promises, if a write that reports an error changed nothing. *)

LEMMA KeepAlways == ASSUME ~WriteErrorsTear PROVE Spec => [](TypeInv /\ KeepInv)
<1>1. Init => TypeInv /\ KeepInv
  BY TypeInit, KeepInit
<1>2. (TypeInv /\ KeepInv) /\ [Next]_vars => (TypeInv /\ KeepInv)'
  BY TypeStep, KeepStep
<1> QED BY <1>1, <1>2, PTL DEF Spec

(* Once the device has a checkpoint, whatever crashes and failed writes leave, the next load
   is not refused: one of the two checkpoints is whole, they do not conflict, and the log
   that extends them is not damaged. *)
THEOREM CheckpointStaysReadable == ASSUME ~WriteErrorsTear PROVE Spec => []CheckpointReadable
<1>1. TypeInv /\ KeepInv => CheckpointReadable
  <2> SUFFICES ASSUME TypeInv, KeepInv, main # Absent PROVE Readable
    BY DEF CheckpointReadable
  <2>1. DiskOK
    BY DEF KeepInv
  <2>2. Whole(main) \/ Whole(tmp)
    BY <2>1 DEF DiskOK, Whole
  <2>3. ~Conflicting
    BY <2>1 DEF DiskOK, Conflicting
  <2>4. ~DamagedLog
    <3> SUFFICES ASSUME Extends PROVE ~DamagedLog
      BY DEF DamagedLog
    <3>1. Whole(log) /\ log.records \in Seq(LogRecord)
      BY FieldsTyped DEF Extends, TypeInv
    <3>2. DOMAIN log.records = 1..Len(log.records)
      BY <3>1
    <3>3. log.tail # "damaged" /\ \A i \in 1..Len(log.records) : log.records[i].generation = log.base + i
      BY <3>1 DEF TypeInv, LogShape
    <3> QED BY <3>2, <3>3 DEF DamagedLog
  <2> QED BY <2>2, <2>3, <2>4 DEF Readable
<1> QED BY <1>1, KeepAlways, PTL

(* What a finished save or a load told its caller is kept is never lost: a load finds
   every entry as it was then or as a later change made it. *)
THEOREM SavedStaysDurable == ASSUME ~WriteErrorsTear PROVE Spec => []SavedIsDurable
<1>1. TypeInv /\ KeepInv => SavedIsDurable
  <2> SUFFICES ASSUME TypeInv, KeepInv, NEW p \in Path PROVE Recovered.entries[p] >= acked[p]
    BY DEF SavedIsDurable
  <2>1. acked[p] <= Recovered.entries[p]
    BY DEF KeepInv, Good
  <2>2. acked[p] \in Nat /\ Recovered.entries[p] \in Nat
    BY RecoveredTyped, NumbersTyped DEF TypeInv
  <2> QED BY <2>1, <2>2
<1> QED BY <1>1, KeepAlways, PTL

(* The outcome of an upload that was sent is never forgotten: its journal file will be
   replayed, or it was refused, or its effect is in what a load would find.  A journal
   file goes only after a save kept the receipt, whatever crash or failure comes between. *)
THEOREM SentUploadsAreHeld == ASSUME ~WriteErrorsTear PROVE Spec => []ReceiptsHeld
<1>1. TypeInv /\ KeepInv => ReceiptsHeld
  BY DEF KeepInv, Good, Outcome, ReceiptsHeld
<1> QED BY <1>1, KeepAlways, PTL

(* A checkpoint or a log record takes effect as a whole: no step changes what a load would
   find but to the snapshot its save took, unless it tore the temporary checkpoint. *)
THEOREM CheckpointsChangeAsAWhole == ASSUME ~WriteErrorsTear PROVE Spec => CheckpointsAtomic
<1> DEFINE Atomic == Recovered' \in {Recovered, data} \/ (tmp' = Torn /\ UNCHANGED <<main, log>>)
<1>1. ASSUME TypeInv, KeepInv, [Next]_vars
      PROVE  [Atomic]_vars
  <2>1. ASSUME NEW changes \in BOOLEAN, Interrupt(changes),
               \A u \in Upload : journal[u] = "final" => journal'[u] = "final"
        PROVE  Atomic
    BY <1>1, <2>1, InterruptLeaves
  <2>2. CASE UNCHANGED files
    BY <2>2, FilesStay
  <2>3. CASE Crash \/ PromoteFails \/ WriteFails
    <3>1. /\ \E changes \in BOOLEAN : Interrupt(changes)
          /\ \A u \in Upload : journal[u] = "final" => journal'[u] = "final"
      BY <1>1, <2>3, Bounds DEF Crash, PromoteFails, WriteFails, TypeInv, TypeOK
    <3> QED BY <2>1, <3>1
  <2>4. CASE FinishAppend \/ FinishTmp \/ FinishMain \/ Promote
    <3>1. journal' = journal
      BY <2>4 DEF FinishAppend, FinishTmp, FinishMain, Promote
    <3>2. Interrupt(TRUE)
      BY <2>4 DEF FinishAppend, FinishTmp, FinishMain, Promote, Interrupt, Unfinished, UnfinishedLog
    <3> QED BY <2>1, <3>1, <3>2
  <2>5. CASE FinishCompact \/ RemoveStale
    <3>1. ~RecoverTmp
      BY <1>1, <2>5, FieldsTyped DEF FinishCompact, RemoveStale, KeepInv, GenerationOK, RecoverTmp, TypeInv, Whole
    <3>2. UNCHANGED <<main, log>> /\ tmp' \in {tmp, Absent}
      BY <2>5 DEF FinishCompact, RemoveStale
    <3> QED BY <3>1, <3>2, TemporaryGone
  <2>6. CASE (\E p \in Path : Change(p)) \/ Touch \/ PrepareRename \/ PrepareFails \/ \E u \in Upload : Transfer(u)
    <3>1. UNCHANGED files
      BY <2>6 DEF Change, Touch, PrepareRename, PrepareFails, Transfer, PrepareWrite, Dispatch, AcceptCommitted,
                  AcceptRefused, AnswerLost
    <3> QED BY <2>2, <3>1
  <2>7. CASE BeginSave \/ StartAppend \/ StartCompact \/ EndPersist \/ EndSave \/ BeginLoad \/ \E u \in Upload : Prune(u)
    <3>1. UNCHANGED files
      BY <2>7 DEF BeginSave, StartAppend, StartCompact, EndPersist, EndSave, BeginLoad, Prune
    <3> QED BY <2>2, <3>1
  <2>8. CASE UNCHANGED vars
    BY <2>8
  <2> QED BY <1>1, <2>3, <2>4, <2>5, <2>6, <2>7, <2>8 DEF Next, Save, Load
<1>2. (TypeInv /\ KeepInv) /\ [Next]_vars => [Atomic]_vars
  BY <1>1
<1>3. Spec => [][Atomic]_vars
  <2> HIDE DEF Atomic
  <2> QED BY <1>2, KeepAlways, PTL DEF Spec
<1> QED BY <1>3 DEF CheckpointsAtomic

==============================================================================
