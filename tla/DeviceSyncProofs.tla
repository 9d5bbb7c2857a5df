------------------------- MODULE DeviceSyncProofs --------------------------
(* Type correctness of DeviceSync, and that a sync plans from the server of one instant,
   for every set of paths and every bound. *)
EXTENDS DeviceSync, WellFoundedInduction, TLAPS

-----------------------------------------------------------------------------
(* The newest line among some. *)

(* Natural numbers below a bound have a greatest one. *)
LEMMA NewestExists ==
  ASSUME NEW k \in Nat, NEW ns \in SUBSET (0..k), ns # {}
  PROVE  Newest(ns) \in ns /\ \A m \in ns : m <= Newest(ns)
<1> DEFINE down == {k - n : n \in ns}
<1>1. down \subseteq Nat /\ down # {}
  <2>1. \A n \in ns : k - n \in Nat
    OBVIOUS
  <2>2. PICK n \in ns : TRUE
    OBVIOUS
  <2>3. k - n \in down
    OBVIOUS
  <2> QED BY <2>1, <2>3
<1>2. PICK x \in down : \A y \in down : <<y, x>> \notin OpToRel(<, Nat)
  <2> HIDE DEF down
  <2> QED BY <1>1, NatLessThanWellFounded, WFMin
<1>3. \A y \in down : ~(y < x)
  BY <1>1, <1>2 DEF OpToRel
<1>4. PICK n \in ns : x = k - n
  OBVIOUS
<1>5. \A m \in ns : m <= n
  <2> SUFFICES ASSUME NEW m \in ns PROVE m <= n
    OBVIOUS
  <2>1. k - m \in down
    OBVIOUS
  <2>2. ~(k - m < k - n)
    BY <1>3, <1>4, <2>1
  <2> QED BY <2>2
<1>6. QED
  BY <1>5 DEF Newest

-----------------------------------------------------------------------------
(* What the fields of a typed sync are. *)

LEMMA Bounds ==
  /\ MaxMade \in Nat /\ MaxSeq \in Nat /\ MaxTries \in Nat \ {0} /\ MaxCopies \in Nat \ {0}
  /\ MaxRemovals \in Nat /\ MaxStops \in Nat /\ ChangesPage \in Nat \ {0}
BY BoundAssumption

LEMMA NothingTyped ==
  /\ Gone \in Version /\ NoPlan \in Plan /\ Done \in Job
  /\ \A t \in 0..MaxTries : Todo(t) \in Job /\ Todo(t).copies = 0 /\ Todo(t).stage = "todo"
  /\ Idle \in SyncRun
<1>1. Gone \in Version /\ NoPlan \in Plan /\ Done \in Job
  BY Bounds DEF Gone, Version, Content, NoPlan, Plan, Action, Done, Job
<1>2. ASSUME NEW t \in 0..MaxTries
      PROVE  Todo(t) \in Job /\ Todo(t).copies = 0 /\ Todo(t).stage = "todo"
  <2>1. Done.copies = 0
    BY DEF Done
  <2> QED BY <1>1, <2>1 DEF Todo, Job
<1>3. 0 \in 0..MaxSeq /\ 0 \in Content
  BY Bounds DEF Content
<1> QED BY <1>1, <1>2, <1>3 DEF Idle, SyncRun, Phase

(* Decisions and the baselines they leave *)
LEMMA DecisionTyped ==
  ASSUME NEW l \in Content, NEW r \in Version, NEW b \in Version
  PROVE  Decision(l, r, b) \in Plan /\ Agreed(l, r, b) \in Version
BY NothingTyped DEF Decision, Agreed, Plan, Action, Version

LEMMA UploadTyped == ASSUME NEW c \in Content PROVE UploadOver(c) \in Plan
BY NothingTyped DEF UploadOver, Plan, NoPlan, Action

LEMMA SyncFields ==
  ASSUME TypeOK
  PROVE  /\ sync.pc \in Phase /\ sync.full \in BOOLEAN /\ sync.after \in Path \cup {0}
         /\ sync.remote \in [Path -> Version] /\ sync.changed \subseteq Path
         /\ sync.scanned \in BOOLEAN /\ sync.local \in [Path -> Content]
         /\ sync.todo \subseteq Path /\ sync.plan \in [Path -> Plan] /\ sync.job \in [Path -> Job]
         /\ sync.failed \in BOOLEAN /\ sync.quiet \in BOOLEAN
         /\ {sync.since, sync.snapshot, sync.last} \subseteq 0..MaxSeq
         /\ {sync.since, sync.snapshot, sync.last} \subseteq 0..Last /\ Last \in Nat
BY DEF TypeOK, SyncRun, Last

(* What a step that applies a decision leaves of the sync *)
Apart ==
  <<sync.pc, sync.full, sync.since, sync.snapshot, sync.after, sync.last, sync.remote,
    sync.changed, sync.scanned, sync.local, sync.todo, sync.quiet>>

(* A conflict has its copies only once it was preserved. *)
Counted(job) == job.stage # "copied" => job.copies = 0

(* The progress of one path *)
LEMMA Progress ==
  ASSUME TypeOK, NEW p \in Path, NEW j \in Job, NEW f \in BOOLEAN, NEW d \in Plan, Counted(j),
         sync' \in {[sync EXCEPT !.job[p] = j], [sync EXCEPT !.job[p] = j, !.failed = f],
                    [sync EXCEPT !.plan[p] = d], [sync EXCEPT !.plan[p] = d, !.job[p] = j]}
  PROVE  /\ sync' \in SyncRun /\ UNCHANGED Apart
         /\ \A q \in Path : Counted(sync'.job[q])
         /\ \A q \in Path \ {p} : sync'.plan[q] = sync.plan[q] /\ sync'.job[q] = sync.job[q]
<1>1. sync \in SyncRun /\ \A q \in Path : Counted(sync.job[q])
  BY DEF TypeOK, Counted
<1>2. sync' \in SyncRun
  <2>1. CASE sync' = [sync EXCEPT !.job[p] = j]
    BY <1>1, <2>1 DEF SyncRun
  <2>2. CASE sync' = [sync EXCEPT !.job[p] = j, !.failed = f]
    BY <1>1, <2>2 DEF SyncRun
  <2>3. CASE sync' = [sync EXCEPT !.plan[p] = d]
    BY <1>1, <2>3 DEF SyncRun
  <2>4. CASE sync' = [sync EXCEPT !.plan[p] = d, !.job[p] = j]
    BY <1>1, <2>4 DEF SyncRun
  <2> QED BY <2>1, <2>2, <2>3, <2>4
<1>3. UNCHANGED Apart
  BY <1>1 DEF SyncRun, Apart
<1>4. sync'.plan \in {sync.plan, [sync.plan EXCEPT ![p] = d]}
  BY <1>1 DEF SyncRun
<1>5. sync'.job \in {sync.job, [sync.job EXCEPT ![p] = j]}
  BY <1>1 DEF SyncRun
<1>6. sync.plan \in [Path -> Plan] /\ sync.job \in [Path -> Job]
  BY <1>1 DEF SyncRun
<1>7. \A q \in Path : Counted(sync'.job[q])
  BY <1>1, <1>5, <1>6
<1> QED BY <1>2, <1>3, <1>4, <1>5, <1>6, <1>7

(* What a publication or deletion does to the server *)
LEMMA Publishes ==
  ASSUME TypeOK, NEW p \in Path, NEW hash \in Content, Publish(p, hash)
  PROVE  /\ rows' \in [Path -> Version] /\ log' \in Seq([path : Path, hash : Content])
         /\ Last' = Last + 1 /\ Last' <= MaxSeq /\ pruned' \in 0..Last'
         /\ rows'[p].hash = hash /\ \A q \in Path \ {p} : rows'[q] = rows[q]
         /\ log'[Last + 1] = [path |-> p, hash |-> hash] /\ \A n \in 1..Last : log'[n] = log[n]
<1>1. log \in Seq([path : Path, hash : Content]) /\ Last \in Nat /\ Last <= MaxSeq /\ pruned \in 0..Last
  BY DEF TypeOK, Last
<1>2. /\ log' = Append(log, [path |-> p, hash |-> hash]) /\ Last < MaxSeq /\ pruned' = pruned
      /\ rows' = [rows EXCEPT ![p] = IF hash = 0 THEN Gone ELSE [hash |-> hash, rev |-> Last + 1]]
  BY DEF Publish
<1>3. /\ log' \in Seq([path : Path, hash : Content]) /\ Last' = Last + 1
      /\ log'[Last + 1] = [path |-> p, hash |-> hash] /\ \A n \in 1..Last : log'[n] = log[n]
  BY <1>1, <1>2 DEF Last
<1>4. rows \in [Path -> Version] /\ Gone \in Version /\ Gone.hash = 0
  BY NothingTyped DEF TypeOK, Gone
<1>5. [hash |-> hash, rev |-> Last + 1] \in Version
  BY <1>1, <1>2, Bounds DEF Version
<1>6. rows' \in [Path -> Version] /\ \A q \in Path \ {p} : rows'[q] = rows[q]
  BY <1>2, <1>4, <1>5
<1>7. rows'[p].hash = hash
  BY <1>2, <1>4
<1>8. Last' <= MaxSeq /\ pruned' \in 0..Last'
  BY <1>1, <1>2, <1>3, Bounds
<1> QED BY <1>1, <1>3, <1>6, <1>7, <1>8

(* What a new content does to the history *)
LEMMA Makes ==
  ASSUME TypeOK, NEW from \in SUBSET Content, Make(from)
  PROVE  /\ made \in Nat /\ made' = made + 1 /\ made' \in Content
         /\ origins' \in [Content -> SUBSET Content]
         /\ origins'[made + 1] = {made + 1} \cup UNION {origins[c] : c \in from}
         /\ \A c \in Content \ {made + 1} : origins'[c] = origins[c]
<1>1. /\ made \in Nat /\ made < MaxMade /\ made' = made + 1
      /\ origins \in [Content -> SUBSET Content] /\ made' \in Content
      /\ origins' = [origins EXCEPT ![made'] = {made'} \cup UNION {origins[c] : c \in from}]
  BY Bounds DEF TypeOK, Make, Content
<1>2. {made'} \cup UNION {origins[c] : c \in from} \subseteq Content
  BY <1>1
<1> QED BY <1>1, <1>2

(* What the decision of a path that lost a race leaves *)
LEMMA LosesTyped ==
  ASSUME TypeOK, NEW p \in Path, NEW b \in Version, AgainFrom(p, b) \/ LosesFrom(p, b)
  PROVE  /\ base' \in [Path -> Version] /\ sync' \in SyncRun /\ UNCHANGED Apart
         /\ \A q \in Path : Counted(sync'.job[q])
<1> USE NothingTyped
<1>1. /\ base \in [Path -> Version] /\ disk[p] \in Content /\ rows[p] \in Version
      /\ sync.job[p].tries \in 0..MaxTries
  BY SyncFields DEF TypeOK, Job
<1>2. Decision(disk[p], rows[p], b) \in Plan /\ Agreed(disk[p], rows[p], b) \in Version
  BY <1>1, DecisionTyped
<1>3. Counted(Done) /\ \A t \in 0..MaxTries : Counted(Todo(t))
  BY DEF Counted, Done
<1>4. CASE Fail(p) /\ SetBase(p, b)
  BY <1>1, <1>3, <1>4, Progress DEF Fail, SetBase
<1>5. CASE AgainFrom(p, b) /\ ~(sync.job[p].tries + 1 > MaxTries)
  <2>1. base' = [base EXCEPT ![p] = Agreed(disk[p], rows[p], b)]
    BY <1>5 DEF AgainFrom, SetBase
  <2> DEFINE j == IF Decision(disk[p], rows[p], b).act = "none" THEN Done ELSE Todo(sync.job[p].tries + 1)
  <2>2. j \in Job /\ Counted(j)
    BY <1>1, <1>3, <1>5, Bounds
  <2>3. sync' = [sync EXCEPT !.plan[p] = Decision(disk[p], rows[p], b), !.job[p] = j]
    BY <1>5 DEF AgainFrom
  <2> HIDE DEF j
  <2> QED BY <1>1, <1>2, <2>1, <2>2, <2>3, Progress
<1> QED BY <1>4, <1>5 DEF AgainFrom, LosesFrom

-----------------------------------------------------------------------------
(* Type correctness. *)

(* The initial states are typed. *)
LEMMA TypeInit == Init => TypeOK
<1> SUFFICES ASSUME Init PROVE TypeOK
  OBVIOUS
<1>0. PICK count \in 0..Lesser(MaxMade, MaxSeq), synced \in BOOLEAN : \E file \in [1..count -> Path] :
    /\ \A n \in 1..count : \A m \in 1..(n - 1) : file[m] < file[n]
    /\ log = [n \in 1..count |-> [path |-> file[n], hash |-> n]] /\ pruned = 0
    /\ rows \in [Path -> {Gone} \cup {[hash |-> n, rev |-> n] : n \in 1..count}]
    /\ \A p \in Path, n \in 1..count : rows[p].rev = n <=> file[n] = p
    /\ disk = [p \in Path |-> IF synced THEN rows[p].hash ELSE 0]
    /\ base = [p \in Path |-> IF synced THEN rows[p] ELSE Gone] /\ saved = base
    /\ cursor = IF synced THEN count ELSE 0
    /\ copies = {} /\ sync = Idle
    /\ made = count /\ origins = [c \in Content |-> IF c \in 1..count THEN {c} ELSE {}]
    /\ dropped = {} /\ used = [removals |-> 0, stops |-> 0]
  BY Zenon DEF Init
<1>1. count \in Nat /\ count <= MaxMade /\ count <= MaxSeq /\ 1..count \subseteq Content
  BY Bounds DEF Lesser, Content
<1>2. rows \in [Path -> Version]
  <2>1. \A n \in 1..count : [hash |-> n, rev |-> n] \in Version
    BY <1>1, Bounds DEF Version
  <2> QED BY <1>0, <2>1, NothingTyped
<1>3. base \in [Path -> Version] /\ disk \in [Path -> Content]
  BY <1>0, <1>2, NothingTyped, Bounds DEF Version, Content
<1>4. log \in Seq([path : Path, hash : Content]) /\ Last = count
  <2>0. PICK file \in [1..count -> Path] : log = [n \in 1..count |-> [path |-> file[n], hash |-> n]]
    BY <1>0
  <2>1. \A n \in 1..count : [path |-> file[n], hash |-> n] \in [path : Path, hash : Content]
    BY <1>1
  <2> QED BY <1>1, <2>0, <2>1 DEF Last
<1>5. Idle.since = 0 /\ Idle.snapshot = 0 /\ Idle.last = 0 /\ Idle.todo = {} /\ Idle.changed = {}
      /\ \A p \in Path : Idle.job[p] = Done
  BY DEF Idle
<1>6. origins \in [Content -> SUBSET Content] /\ made \in Content
  BY <1>0, <1>1 DEF Content
<1>7. used \in [removals : 0..MaxRemovals, stops : 0..MaxStops]
  BY <1>0, Bounds
<1> QED BY <1>0, <1>1, <1>2, <1>3, <1>4, <1>5, <1>6, <1>7, NothingTyped DEF TypeOK, Done

(* What TypeOK says of the server, of the device, of the history and of the sync *)
ServerTyped ==
  /\ rows \in [Path -> Version] /\ log \in Seq([path : Path, hash : Content])
  /\ Last <= MaxSeq /\ pruned \in 0..Last

DeviceTyped ==
  /\ disk \in [Path -> Content] /\ base \in [Path -> Version] /\ saved \in [Path -> Version]
  /\ copies \subseteq Content /\ cursor \in 0..Last

HistoryTyped ==
  /\ made \in Content /\ origins \in [Content -> SUBSET Content] /\ dropped \subseteq Content
  /\ used \in [removals : 0..MaxRemovals, stops : 0..MaxStops]

SyncTyped ==
  /\ sync \in SyncRun /\ {sync.since, sync.snapshot, sync.last} \subseteq 0..Last
  /\ sync.todo \subseteq sync.changed /\ \A p \in Path : Counted(sync.job[p])

LEMMA TypeParts == TypeOK <=> ServerTyped /\ DeviceTyped /\ HistoryTyped /\ SyncTyped
BY DEF TypeOK, ServerTyped, DeviceTyped, HistoryTyped, SyncTyped, Counted

LEMMA TypePartsNext == TypeOK' <=> ServerTyped' /\ DeviceTyped' /\ HistoryTyped' /\ SyncTyped'
BY DEF TypeOK, ServerTyped, DeviceTyped, HistoryTyped, SyncTyped, Counted

(* Parts that a step leaves alone stay typed. *)
LEMMA ServerStays == ServerTyped /\ UNCHANGED server => ServerTyped' /\ Last' = Last
BY DEF ServerTyped, server, Last

LEMMA ApartTyped ==
  ASSUME SyncTyped, sync' \in SyncRun, UNCHANGED Apart, Last' \in Nat, Last \in Nat, Last <= Last',
         \A q \in Path : Counted(sync'.job[q])
  PROVE  SyncTyped'
BY DEF SyncTyped, Apart, Counted

(* Somebody else's step *)
LEMMA DisturbsTyped ==
  ASSUME SyncTyped, Disturbs, Last' \in Nat, Last \in Nat, Last <= Last'
  PROVE  SyncTyped'
<1>1. sync \in SyncRun /\ sync' = [sync EXCEPT !.quiet = FALSE]
  BY DEF SyncTyped, Disturbs
<1>2. sync' \in SyncRun /\ UNCHANGED <<sync.since, sync.snapshot, sync.last, sync.todo, sync.changed, sync.job>>
  BY <1>1 DEF SyncRun
<1> QED BY <1>2 DEF SyncTyped, Counted

LEMMA HistoryStays == HistoryTyped /\ UNCHANGED <<history, used>> => HistoryTyped'
BY DEF HistoryTyped, history

LEMMA DeviceStays ==
  DeviceTyped /\ UNCHANGED device /\ Last \in Nat /\ Last' \in Nat /\ Last <= Last' => DeviceTyped'
BY DEF DeviceTyped, device

(* A page of the changelog holds lines of it, and yields versions. *)
LEMMA PageTyped ==
  ASSUME TypeOK, NEW since \in 0..Last, NEW remote \in [Path -> Version]
  PROVE  /\ PageTo(since) \in 0..Last
         /\ \A p \in Path : InPage(since, p) \subseteq 1..Last
         /\ Replayed(since, remote) \in [Path -> Version]
<1>1. Last \in Nat /\ Last <= MaxSeq /\ pruned \in 0..Last /\ log \in Seq([path : Path, hash : Content])
  BY DEF TypeOK, Last
<1>2. PageFrom(since) \in 1..(Last + 1)
  BY <1>1 DEF PageFrom, Greater
<1>3. PageTo(since) \in 0..Last
  BY <1>1, <1>2, Bounds DEF PageTo, Lesser
<1>4. \A p \in Path : InPage(since, p) \subseteq 1..Last
  BY <1>1, <1>2, <1>3 DEF InPage
<1>5. \A n \in 1..Last : VersionAt(n) \in Version
  <2> SUFFICES ASSUME NEW n \in 1..Last PROVE VersionAt(n) \in Version
    OBVIOUS
  <2>1. log[n] \in [path : Path, hash : Content]
    <3> DEFINE Line == [path : Path, hash : Content]
    <3>1. log \in Seq(Line) /\ n \in 1..Len(log)
      BY <1>1 DEF Last
    <3> HIDE DEF Line
    <3>2. log[n] \in Line
      BY <3>1
    <3> QED BY <3>2 DEF Line
  <2>2. n \in 0..MaxSeq
    BY <1>1, Bounds
  <2> QED BY <2>1, <2>2, NothingTyped DEF VersionAt, Version
<1>6. ASSUME NEW p \in Path, InPage(since, p) # {}
      PROVE  Newest(InPage(since, p)) \in InPage(since, p)
  BY <1>1, <1>4, <1>6, NewestExists, InPage(since, p) \in SUBSET (0..Last)
<1> QED BY <1>3, <1>4, <1>5, <1>6 DEF Replayed

(* One page of changes *)
LEMMA FollowTyped ==
  ASSUME TypeOK, NEW next \in Phase, Follow(next), Last' = Last
  PROVE  SyncTyped'
<1>1. /\ sync.since \in 0..Last /\ sync.remote \in [Path -> Version] /\ Last \in 0..MaxSeq
      /\ sync \in SyncRun /\ sync.todo \subseteq sync.changed
  BY SyncFields, Bounds DEF TypeOK
<1>2. /\ Replayed(sync.since, sync.remote) \in [Path -> Version] /\ PageTo(sync.since) \in 0..Last
      /\ PageTo(sync.since) \in 0..MaxSeq
  BY <1>1, PageTyped, Bounds
<1> DEFINE since == IF HasMore(sync.since) THEN PageTo(sync.since) ELSE sync.since
           pc == IF HasMore(sync.since) THEN sync.pc ELSE next
           changed == sync.changed \cup {p \in Path : InPage(sync.since, p) # {}}
           remote == Replayed(sync.since, sync.remote)
<1>3. sync' = [sync EXCEPT !.remote = remote, !.changed = changed, !.since = since, !.last = Last, !.pc = pc]
  BY DEF Follow
<1>4. since \in 0..MaxSeq /\ since \in 0..Last /\ pc \in Phase /\ changed \subseteq Path
  BY <1>1, <1>2, SyncFields
<1>5. remote \in [Path -> Version] /\ sync.changed \subseteq changed
  BY <1>2
<1> HIDE DEF since, pc, changed, remote
<1>6. sync' \in SyncRun
  BY <1>1, <1>3, <1>4, <1>5 DEF SyncRun
<1>7. /\ sync'.since = since /\ sync'.last = Last /\ sync'.snapshot = sync.snapshot
      /\ sync'.changed = changed /\ sync'.todo = sync.todo /\ sync'.job = sync.job
  BY <1>1, <1>3 DEF SyncRun
<1> QED BY <1>1, <1>4, <1>5, <1>6, <1>7, TypeParts DEF SyncTyped, Counted

-----------------------------------------------------------------------------
(* Steps of the user, of other devices and of the server. *)

LEMMA UserTyped ==
  ASSUME TypeOK, NEW p \in Path, Write(p) \/ GoBack(p) \/ Remove(p) \/ Foreign(p)
  PROVE  TypeOK'
<1> USE TypeParts
<1>0. Last \in Nat /\ disk[p] \in Content /\ rows[p].hash \in Content /\ UNCHANGED saved
  BY SyncFields DEF TypeOK, Version, Write, GoBack, Remove, Foreign, device
<1>1. Disturbs
  BY DEF Write, GoBack, Remove, Foreign
<1>2. CASE Write(p)
  <2>1. ServerTyped' /\ Last' = Last /\ Make({disk[p]} \ {0})
    BY <1>2, ServerStays DEF Write
  <2>2. HistoryTyped' /\ made' \in Content
    BY <1>0, <1>2, <2>1, Makes DEF Write, HistoryTyped
  <2>3. DeviceTyped'
    BY <1>0, <1>2, <2>1, <2>2 DEF Write, DeviceTyped
  <2> QED BY <1>0, <1>1, <2>1, <2>2, <2>3, DisturbsTyped, TypePartsNext
<1>3. CASE GoBack(p)
  <2>1. ServerTyped' /\ Last' = Last
    BY <1>3, ServerStays DEF GoBack
  <2>2. origins[disk[p]] \subseteq Content
    BY <1>0 DEF HistoryTyped
  <2>3. HistoryTyped'
    BY <1>3, <2>2 DEF GoBack, HistoryTyped
  <2>4. DeviceTyped'
    BY <1>0, <1>3, <2>1, <2>2 DEF GoBack, DeviceTyped
  <2> QED BY <1>0, <1>1, <2>1, <2>3, <2>4, DisturbsTyped, TypePartsNext
<1>4. CASE Remove(p)
  <2>1. ServerTyped' /\ Last' = Last
    BY <1>4, ServerStays DEF Remove
  <2>2. origins[disk[p]] \subseteq Content
    BY <1>0 DEF HistoryTyped
  <2>3. used' \in [removals : 0..MaxRemovals, stops : 0..MaxStops]
    BY <1>4, Bounds DEF Remove, HistoryTyped
  <2>4. HistoryTyped'
    BY <1>4, <2>2, <2>3 DEF Remove, HistoryTyped
  <2>5. DeviceTyped'
    BY <1>0, <1>4, <2>1, Bounds DEF Remove, DeviceTyped, Content
  <2> QED BY <1>0, <1>1, <2>1, <2>4, <2>5, DisturbsTyped, TypePartsNext
<1>5. CASE Foreign(p)
  <2>1. PICK hash \in Content : Publish(p, hash)
    BY <1>0, <1>5, Makes, Bounds DEF Foreign, Content
  <2>2. ServerTyped' /\ Last' = Last + 1
    BY <2>1, Publishes DEF ServerTyped
  <2>3. origins[rows[p].hash] \subseteq Content
    BY <1>0 DEF HistoryTyped
  <2>4. HistoryTyped'
    BY <1>0, <1>5, <2>3, Makes DEF Foreign, HistoryTyped
  <2>5. DeviceTyped'
    BY <1>0, <1>5, <2>2, DeviceStays DEF Foreign
  <2> QED BY <1>0, <1>1, <2>2, <2>4, <2>5, DisturbsTyped, TypePartsNext
<1> QED BY <1>2, <1>3, <1>4, <1>5

LEMMA PruneTyped == TypeOK /\ Prune => TypeOK'
<1> SUFFICES ASSUME TypeOK, Prune PROVE TypeOK'
  OBVIOUS
<1> USE TypeParts
<1>1. Last \in Nat /\ Last' = Last /\ ServerTyped'
  BY SyncFields DEF Prune, ServerTyped, Last
<1>2. DeviceTyped' /\ HistoryTyped' /\ SyncTyped'
  BY <1>1, DisturbsTyped, DeviceStays, HistoryStays DEF Prune
<1> QED BY <1>1, <1>2, TypePartsNext

-----------------------------------------------------------------------------
(* Steps that read the server and the vault, and the end of a sync. *)

(* Where a sync begins or starts over *)
LEMMA BeginTyped ==
  ASSUME NEW pc \in Phase, NEW full \in BOOLEAN, NEW since \in 0..Last, NEW quiet \in BOOLEAN,
         Last \in Nat, Last <= MaxSeq, Last' = Last,
         sync' \in {[Idle EXCEPT !.pc = pc, !.full = full, !.since = since],
                    [Idle EXCEPT !.pc = pc, !.full = full, !.quiet = quiet]}
  PROVE  SyncTyped'
<1>1. Idle \in SyncRun
  BY NothingTyped
<1>2. since \in 0..MaxSeq
  BY Bounds
<1>3. sync' \in SyncRun
  BY <1>1, <1>2 DEF SyncRun
<1>4. /\ sync'.since \in {Idle.since, since} /\ sync'.snapshot = Idle.snapshot
      /\ sync'.last = Idle.last /\ sync'.todo = Idle.todo /\ sync'.changed = Idle.changed
      /\ sync'.job = Idle.job
  BY <1>1 DEF SyncRun
<1>5. /\ Idle.since = 0 /\ Idle.snapshot = 0 /\ Idle.last = 0 /\ Idle.todo = {}
      /\ Idle.changed = {} /\ \A p \in Path : Idle.job[p] = Done
  BY DEF Idle
<1> QED BY <1>3, <1>4, <1>5 DEF SyncTyped, Counted, Done

LEMMA IdleTyped == Last' \in Nat /\ sync' = Idle => SyncTyped'
<1>1. /\ Idle.since = 0 /\ Idle.snapshot = 0 /\ Idle.last = 0 /\ Idle.todo = {} /\ Idle.changed = {}
      /\ \A p \in Path : Idle.job[p] = Done
  BY DEF Idle
<1> QED BY <1>1, NothingTyped DEF SyncTyped, Counted, Done

LEMMA EndsTyped ==
  ASSUME TypeOK, NEW saving \in BOOLEAN, NEW success \in BOOLEAN, Ends(saving, success), Last' = Last
  PROVE  DeviceTyped' /\ SyncTyped'
<1>1. Last \in Nat /\ sync.last \in 0..Last /\ DeviceTyped
  BY SyncFields, TypeParts
<1> QED BY <1>1, IdleTyped DEF Ends, DeviceTyped

LEMMA ReadingTyped ==
  ASSUME TypeOK, Begin \/ ReadChanges \/ ReadManifest \/ ReplayChanges \/ Scan \/ EndSync
  PROVE  TypeOK'
<1> USE TypeParts
<1>0. /\ Last \in Nat /\ Last <= MaxSeq /\ cursor \in 0..Last /\ sync.quiet \in BOOLEAN
      /\ UNCHANGED <<server, history, used>>
  BY SyncFields DEF TypeOK, Begin, ReadChanges, ReadManifest, ReplayChanges, Scan, EndSync
<1>1. ServerTyped' /\ HistoryTyped' /\ Last' = Last
  BY <1>0, ServerStays, HistoryStays
<1>2. UNCHANGED device => DeviceTyped'
  BY <1>0, <1>1, DeviceStays
<1>3. CASE Begin
  <2> DEFINE pc == IF cursor > 0 THEN "changes" ELSE "manifest"
             full == cursor = 0
  <2>1. sync' = [Idle EXCEPT !.pc = pc, !.full = full, !.since = cursor]
    BY <1>3 DEF Begin
  <2>2. pc \in Phase /\ full \in BOOLEAN
    BY DEF Phase
  <2> HIDE DEF pc, full
  <2>3. SyncTyped'
    BY <1>0, <1>1, <2>1, <2>2, BeginTyped
  <2> QED BY <1>1, <1>2, <1>3, <2>3, TypePartsNext DEF Begin
<1>4. CASE ReadChanges
  <2>1. CASE sync' = [Idle EXCEPT !.pc = "manifest", !.full = TRUE, !.quiet = sync.quiet]
    <3>1. SyncTyped'
      BY <1>0, <1>1, <2>1, BeginTyped DEF Phase
    <3> QED BY <1>1, <1>2, <1>4, <3>1, TypePartsNext DEF ReadChanges
  <2>2. CASE Follow("scan")
    BY <1>1, <1>2, <1>4, <2>2, FollowTyped, TypePartsNext DEF ReadChanges, Phase
  <2> QED BY <1>4, <2>1, <2>2 DEF ReadChanges
<1>5. CASE ReadManifest
  <2> DEFINE next == {p \in Path : p > sync.after /\ rows[p] # Gone}
             page == {p \in next : \A q \in next : p <= q}
             snapshot == IF sync.after = 0 THEN Last ELSE sync.snapshot
             pc == IF next = page THEN "replay" ELSE sync.pc
             remote == [p \in Path |-> IF p \in page THEN rows[p] ELSE sync.remote[p]]
  <2>1. PICK after \in IF next = {} THEN {sync.after} ELSE page :
          sync' = [sync EXCEPT !.snapshot = snapshot, !.since = snapshot, !.after = after,
                               !.remote = remote, !.pc = pc]
    BY <1>5 DEF ReadManifest
  <2>2. /\ snapshot \in 0..Last /\ snapshot \in 0..MaxSeq /\ after \in Path \cup {0} /\ pc \in Phase
        /\ remote \in [Path -> Version]
    BY <1>0, SyncFields, Bounds DEF ServerTyped, Phase
  <2> HIDE DEF next, page, snapshot, pc, remote
  <2>3. sync' \in SyncRun
    BY <2>1, <2>2 DEF SyncTyped, SyncRun
  <2>4. /\ sync'.since = snapshot /\ sync'.snapshot = snapshot /\ sync'.last = sync.last
        /\ sync'.changed = sync.changed /\ sync'.todo = sync.todo /\ sync'.job = sync.job
    BY <2>1 DEF SyncTyped, SyncRun
  <2>5. SyncTyped'
    BY <1>1, <2>2, <2>3, <2>4 DEF SyncTyped, Counted
  <2> QED BY <1>1, <1>2, <1>5, <2>5, TypePartsNext DEF ReadManifest
<1>6. CASE ReplayChanges
  <2>1. CASE Ends(FALSE, FALSE)
    BY <1>1, <2>1, EndsTyped, TypePartsNext
  <2>2. CASE Follow("scan") /\ UNCHANGED device
    BY <1>1, <1>2, <2>2, FollowTyped, TypePartsNext DEF Phase
  <2> QED BY <1>6, <2>1, <2>2 DEF ReplayChanges
<1>7. CASE Scan
  <2>1. sync' = [sync EXCEPT !.scanned = TRUE, !.local = disk] /\ disk \in [Path -> Content]
    BY <1>7 DEF Scan, DeviceTyped
  <2>2. sync' \in SyncRun
    BY <2>1 DEF SyncTyped, SyncRun
  <2>3. UNCHANGED <<sync.since, sync.snapshot, sync.last, sync.todo, sync.changed, sync.job>>
    BY <2>1 DEF SyncTyped, SyncRun
  <2>4. SyncTyped'
    BY <1>1, <2>2, <2>3 DEF SyncTyped, Counted
  <2> QED BY <1>1, <1>2, <1>7, <2>4, TypePartsNext DEF Scan
<1>8. CASE EndSync
  BY <1>1, <1>8, EndsTyped, TypePartsNext, SyncFields DEF EndSync
<1> QED BY <1>3, <1>4, <1>5, <1>6, <1>7, <1>8

-----------------------------------------------------------------------------
(* Steps that decide. *)

(* What the progress of decided paths is at first *)
FirstJob(plan) == IF plan.act = "none" THEN Done ELSE Todo(0)

LEMMA FirstJobTyped == \A plan : FirstJob(plan) \in Job /\ Counted(FirstJob(plan))
BY NothingTyped, Bounds DEF FirstJob, Counted, Done

(* A sync that has its plan, or the part without remote changes *)
LEMMA PlannedTyped ==
  ASSUME TypeOK, NEW plan \in [Path -> Plan], NEW pc \in Phase, NEW todo \in SUBSET sync.changed,
         sync' = [sync EXCEPT !.pc = pc, !.todo = todo, !.plan = plan,
                              !.job = [p \in Path |-> FirstJob(plan[p])]],
         Last' = Last
  PROVE  SyncTyped'
<1> DEFINE job == [p \in Path |-> FirstJob(plan[p])]
<1>1. job \in [Path -> Job] /\ \A p \in Path : Counted(job[p])
  BY FirstJobTyped
<1>2. sync \in SyncRun /\ todo \subseteq Path /\ Last \in Nat
  BY SyncFields DEF TypeOK
<1> HIDE DEF job
<1>3. sync' \in SyncRun
  BY <1>1, <1>2 DEF SyncRun, job
<1>4. /\ UNCHANGED <<sync.since, sync.snapshot, sync.last, sync.changed>>
      /\ sync'.todo = todo /\ sync'.job = job
  BY <1>2 DEF SyncRun, job
<1> QED BY <1>1, <1>2, <1>3, <1>4, TypeParts DEF SyncTyped

LEMMA ChangeTyped ==
  ASSUME TypeOK, NEW p \in Path
  PROVE  /\ LocalOnly(p) \in Plan /\ Deletion(p) \in Plan /\ Change(p) \in Plan
         /\ sync.remote[p] \in Version /\ disk[p] \in Content /\ base[p] \in Version
<1>1. /\ sync.remote[p] \in Version /\ disk[p] \in Content /\ base[p] \in Version
      /\ 0 \in Content /\ base[p].hash \in Content /\ base[p].rev \in 0..MaxSeq
  <2>1. sync.remote[p] \in Version /\ disk[p] \in Content /\ base[p] \in Version
    BY SyncFields DEF TypeOK
  <2> QED BY <2>1, Bounds DEF Version, Content
<1>2. UploadOver(base[p].hash) \in Plan /\ UploadOver(0) \in Plan /\ NoPlan \in Plan
  BY <1>1, UploadTyped, NothingTyped
<1>3. LocalOnly(p) \in Plan
  <2>1. [act |-> "delete", local |-> 0, remote |-> base[p].hash, rev |-> base[p].rev] \in Plan
    BY <1>1 DEF Plan, Action
  <2> QED BY <1>2, <2>1 DEF LocalOnly
<1>4. Deletion(p) \in Plan
  <2>1. [NoPlan EXCEPT !.act = "deleteLocal", !.local = base[p].hash] \in Plan
    BY <1>1, <1>2 DEF Plan, Action
  <2> QED BY <1>2, <2>1 DEF Deletion
<1>5. Change(p) \in Plan
  <2>1. /\ Decision(disk[p], sync.remote[p], base[p]) \in Plan
        /\ Decision(0, sync.remote[p], base[p]) \in Plan
    BY <1>1, DecisionTyped
  <2>2. \A plan \in Plan : [plan EXCEPT !.act = "download"] \in Plan
    BY DEF Plan, Action
  <2> QED BY <2>1, <2>2 DEF Change
<1> QED BY <1>1, <1>3, <1>4, <1>5

LEMMA DecidingTyped ==
  ASSUME TypeOK, PlanFull \/ PlanIncremental \/ EndReconcile \/ \E p \in Path : Reconcile(p)
  PROVE  TypeOK'
<1> USE TypeParts
<1>0. /\ Last \in Nat /\ UNCHANGED <<server, history, used, disk, saved, cursor, copies>>
      /\ sync.local \in [Path -> Content] /\ sync.remote \in [Path -> Version] /\ base \in [Path -> Version]
  BY SyncFields DEF TypeOK, PlanFull, PlanIncremental, EndReconcile, Reconcile, device
<1>1. ServerTyped' /\ HistoryTyped' /\ Last' = Last
  BY <1>0, ServerStays, HistoryStays
<1>2. base' \in [Path -> Version] => DeviceTyped'
  BY <1>0, <1>1 DEF DeviceTyped
<1>3. CASE PlanFull
  <2> DEFINE plan == [p \in Path |-> Decision(sync.local[p], sync.remote[p], base[p])]
             todo == sync.todo
  <2>1. /\ plan \in [Path -> Plan]
        /\ [p \in Path |-> Agreed(sync.local[p], sync.remote[p], base[p])] \in [Path -> Version]
    BY <1>0, DecisionTyped
  <2>2. sync' = [sync EXCEPT !.pc = "apply", !.plan = plan, !.job = [p \in Path |-> FirstJob(plan[p])]]
    BY <1>3 DEF PlanFull, FirstJob
  <2> HIDE DEF plan
  <2>3. sync' = [sync EXCEPT !.pc = "apply", !.todo = todo, !.plan = plan,
                             !.job = [p \in Path |-> FirstJob(plan[p])]]
    BY <2>2 DEF SyncTyped, SyncRun
  <2>4. SyncTyped'
    BY <1>1, <2>1, <2>3, PlannedTyped DEF SyncTyped, Phase
  <2> QED BY <1>1, <1>2, <1>3, <2>1, <2>4, TypePartsNext DEF PlanFull
<1>4. CASE PlanIncremental
  <2> DEFINE plan == [p \in Path |-> IF p \in sync.changed THEN NoPlan ELSE LocalOnly(p)]
  <2>1. plan \in [Path -> Plan]
    BY ChangeTyped, NothingTyped
  <2>2. sync' = [sync EXCEPT !.pc = "reconcile", !.todo = sync.changed, !.plan = plan,
                             !.job = [p \in Path |-> FirstJob(plan[p])]]
    BY <1>4 DEF PlanIncremental, FirstJob
  <2> HIDE DEF plan
  <2>3. SyncTyped'
    BY <1>1, <2>1, <2>2, PlannedTyped DEF Phase
  <2> QED BY <1>0, <1>1, <1>2, <1>4, <2>3, TypePartsNext DEF PlanIncremental, device
<1>5. CASE EndReconcile
  <2>1. sync' = [sync EXCEPT !.pc = "apply"] /\ sync \in SyncRun
    BY <1>5 DEF EndReconcile, SyncTyped
  <2>2. sync' \in SyncRun /\ UNCHANGED <<sync.since, sync.snapshot, sync.last, sync.todo, sync.changed, sync.job>>
    BY <2>1 DEF SyncRun, Phase
  <2>3. SyncTyped'
    BY <1>1, <2>2 DEF SyncTyped, Counted
  <2> QED BY <1>0, <1>1, <1>2, <1>5, <2>3, TypePartsNext DEF EndReconcile, device
<1>6. CASE \E p \in Path : Reconcile(p)
  <2>1. PICK p \in Path : Reconcile(p)
    BY <1>6
  <2>2. PICK plan \in Plan :
          sync' = [sync EXCEPT !.todo = @ \ {p}, !.plan[p] = plan, !.job[p] = FirstJob(plan)]
    BY <2>1, ChangeTyped DEF Reconcile, FirstJob
  <2>3. sync \in SyncRun /\ FirstJob(plan) \in Job /\ Counted(FirstJob(plan))
    BY FirstJobTyped DEF SyncTyped
  <2>4. sync' \in SyncRun
    BY <2>2, <2>3 DEF SyncRun
  <2>5. /\ UNCHANGED <<sync.since, sync.snapshot, sync.last, sync.changed>>
        /\ sync'.todo = sync.todo \ {p} /\ sync'.job = [sync.job EXCEPT ![p] = FirstJob(plan)]
        /\ sync.job \in [Path -> Job]
    BY <2>2, <2>3 DEF SyncRun
  <2>6. SyncTyped'
    BY <1>1, <2>3, <2>4, <2>5 DEF SyncTyped
  <2>7. base' \in [Path -> Version]
    <3>1. Agreed(disk[p], sync.remote[p], base[p]) \in Version
      BY ChangeTyped, DecisionTyped
    <3> QED BY <1>0, <2>1, <3>1 DEF Reconcile
  <2> QED BY <1>1, <1>2, <2>6, <2>7, TypePartsNext
<1> QED BY <1>3, <1>4, <1>5, <1>6

-----------------------------------------------------------------------------
(* Steps that apply a decision. *)

(* The fields of the path's decision and progress *)
LEMMA PathTyped ==
  ASSUME TypeOK, NEW p \in Path
  PROVE  /\ disk[p] \in Content /\ rows[p] \in Version /\ base[p] \in Version
         /\ rows[p].hash \in Content /\ rows[p].rev \in 0..MaxSeq
         /\ sync.plan[p] \in Plan /\ sync.job[p] \in Job /\ Counted(sync.job[p])
         /\ sync.plan[p].remote \in Content /\ sync.plan[p].local \in Content
         /\ sync.job[p].content \in Content /\ sync.job[p].rev \in 0..MaxSeq
         /\ sync.job[p].read \in Content /\ sync.job[p].copies \in 0..MaxCopies
<1>1. /\ disk[p] \in Content /\ rows[p] \in Version /\ base[p] \in Version
      /\ sync.plan[p] \in Plan /\ sync.job[p] \in Job /\ Counted(sync.job[p])
  BY SyncFields DEF TypeOK, Counted
<1>2. rows[p].hash \in Content /\ rows[p].rev \in 0..MaxSeq
  BY <1>1 DEF Version
<1>3. sync.plan[p].remote \in Content /\ sync.plan[p].local \in Content
  BY <1>1 DEF Plan
<1> QED BY <1>1, <1>2, <1>3 DEF Job

(* A step that leaves the server alone *)
LEMMA AppliesTyped ==
  ASSUME TypeOK, UNCHANGED <<server, saved, cursor, history, used>>,
         disk' \in [Path -> Content], base' \in [Path -> Version], copies' \subseteq Content,
         sync' \in SyncRun, UNCHANGED Apart, \A q \in Path : Counted(sync'.job[q])
  PROVE  TypeOK'
<1>1. ServerTyped' /\ HistoryTyped' /\ Last' = Last /\ Last \in Nat
  BY TypeParts, ServerStays, HistoryStays, SyncFields
<1> QED BY <1>1, TypeParts, TypePartsNext, ApartTyped DEF DeviceTyped

(* A step that publishes or deletes *)
LEMMA SendsTyped ==
  ASSUME TypeOK, NEW p \in Path, NEW hash \in Content, Publish(p, hash), UNCHANGED <<disk, saved, cursor, copies>>,
         HistoryTyped', base' \in [Path -> Version],
         sync' \in SyncRun, UNCHANGED Apart, \A q \in Path : Counted(sync'.job[q])
  PROVE  TypeOK'
<1>1. ServerTyped' /\ Last' = Last + 1 /\ Last \in Nat
  BY Publishes, SyncFields DEF ServerTyped
<1> QED BY <1>1, TypeParts, TypePartsNext, ApartTyped DEF DeviceTyped

(* A step of the progress of one path *)
LEMMA MoveTyped ==
  ASSUME TypeOK, NEW p \in Path, NEW j \in Job, Counted(j), Move(p, j)
  PROVE  sync' \in SyncRun /\ UNCHANGED Apart /\ \A q \in Path : Counted(sync'.job[q])
BY NothingTyped, Progress DEF Move

LEMMA FinishTyped ==
  ASSUME TypeOK, NEW p \in Path, Finish(p) \/ Fail(p)
  PROVE  sync' \in SyncRun /\ UNCHANGED Apart /\ \A q \in Path : Counted(sync'.job[q])
<1>1. Counted(Done) /\ Done \in Job /\ NoPlan \in Plan
  BY NothingTyped DEF Counted, Done
<1> QED BY <1>1, Progress DEF Finish, Move, Fail

LEMMA AppliedTyped ==
  ASSUME TypeOK, NEW p \in Path, Applied(p)
  PROVE  /\ disk' \in [Path -> Content] /\ base' \in [Path -> Version]
         /\ sync' \in SyncRun /\ UNCHANGED Apart /\ \A q \in Path : Counted(sync'.job[q])
<1>1. [hash |-> sync.job[p].content, rev |-> sync.job[p].rev] \in Version
  BY PathTyped DEF Version
<1> QED BY <1>1, PathTyped, FinishTyped DEF Applied, SetBase, TypeOK

LEMMA DownloadsTyped ==
  ASSUME TypeOK, NEW p \in Path, Fetch(p) \/ Download(p) \/ NothingToResolve(p)
  PROVE  TypeOK'
<1>0. base \in [Path -> Version] /\ disk \in [Path -> Content] /\ copies \subseteq Content
  BY DEF TypeOK
<1>1. CASE Fetch(p)
  <2> DEFINE j == [sync.job[p] EXCEPT !.stage = "held", !.content = rows[p].hash, !.rev = rows[p].rev]
  <2>1. j \in Job /\ Counted(j)
    <3>1. sync.job[p].stage = "todo"
      BY <1>1 DEF Fetch, At
    <3> QED BY <3>1, PathTyped DEF Job, Counted
  <2> HIDE DEF j
  <2>2. CASE Move(p, j) /\ UNCHANGED base
    BY <1>0, <1>1, <2>1, <2>2, MoveTyped, AppliesTyped DEF Fetch
  <2>3. CASE Loses(p)
    BY <1>0, <1>1, <2>3, PathTyped, LosesTyped, AppliesTyped DEF Fetch, Loses
  <2> QED BY <1>1, <2>2, <2>3 DEF Fetch, j
<1>2. CASE Download(p)
  BY <1>0, <1>2, PathTyped, LosesTyped, AppliedTyped, AppliesTyped DEF Download, Loses
<1>3. CASE NothingToResolve(p)
  BY <1>0, <1>3, PathTyped, LosesTyped, AppliesTyped DEF NothingToResolve, Loses
<1> QED BY <1>1, <1>2, <1>3

LEMMA ConflictsTyped ==
  ASSUME TypeOK, NEW p \in Path, SendMerge(p) \/ ApplyMerge(p) \/ CopyLocal(p) \/ ApplyRemote(p)
  PROVE  TypeOK'
<1>0. base \in [Path -> Version] /\ disk \in [Path -> Content] /\ copies \subseteq Content
  BY DEF TypeOK
<1>1. CASE SendMerge(p)
  <2>1. CASE Loses(p) /\ UNCHANGED <<server, made, origins>>
    BY <1>0, <1>1, <2>1, PathTyped, LosesTyped, AppliesTyped DEF SendMerge, Loses, history
  <2>2. CASE /\ Make({disk[p], sync.job[p].content}) /\ Publish(p, made')
             /\ Move(p, [sync.job[p] EXCEPT !.stage = "merged", !.content = made',
                                           !.rev = Last + 1, !.read = disk[p]])
             /\ UNCHANGED base
    <3> DEFINE j == [sync.job[p] EXCEPT !.stage = "merged", !.content = made', !.rev = Last + 1, !.read = disk[p]]
    <3>1. made' \in Content /\ HistoryTyped'
      BY <1>1, <2>2, PathTyped, Makes DEF SendMerge, TypeOK, HistoryTyped
    <3>2. Last + 1 \in 0..MaxSeq
      BY <2>2, SyncFields, Bounds DEF Publish
    <3>3. j \in Job /\ Counted(j)
      <4>1. sync.job[p].copies = 0
        BY <1>1, PathTyped DEF SendMerge, At, Counted
      <4> QED BY <3>1, <3>2, <4>1, PathTyped DEF Job, Counted
    <3>4. sync' \in SyncRun /\ UNCHANGED Apart /\ \A q \in Path : Counted(sync'.job[q])
      <4> HIDE DEF j
      <4>1. Move(p, j)
        BY <2>2 DEF j
      <4> QED BY <3>3, <4>1, MoveTyped
    <3> QED BY <1>0, <1>1, <2>2, <3>1, <3>4, SendsTyped DEF SendMerge
  <2> QED BY <1>1, <2>1, <2>2 DEF SendMerge
<1>2. CASE ApplyMerge(p)
  <2>1. [hash |-> sync.job[p].read, rev |-> 0] \in Version
    BY PathTyped, Bounds DEF Version
  <2> QED BY <1>0, <1>2, <2>1, LosesTyped, AppliedTyped, AppliesTyped DEF ApplyMerge
<1>3. CASE CopyLocal(p)
  <2> DEFINE j == [sync.job[p] EXCEPT !.stage = "copied", !.read = disk[p], !.copies = @ + 1]
  <2>1. sync.job[p].copies + 1 \in 0..MaxCopies
    BY <1>3, PathTyped, Bounds DEF CopyLocal, At, Counted
  <2>2. j \in Job /\ Counted(j)
    BY <2>1, PathTyped DEF Job, Counted
  <2> HIDE DEF j
  <2>3. Move(p, j) /\ copies' = copies \cup {disk[p]} /\ UNCHANGED <<server, disk, base, saved, cursor, history, used>>
    BY <1>3 DEF CopyLocal, j
  <2> QED BY <1>0, <2>2, <2>3, PathTyped, MoveTyped, AppliesTyped
<1>4. CASE ApplyRemote(p)
  BY <1>0, <1>4, PathTyped, LosesTyped, AppliedTyped, AppliesTyped DEF ApplyRemote, Loses
<1> QED BY <1>1, <1>2, <1>3, <1>4

LEMMA LocalDeletesTyped ==
  ASSUME TypeOK, NEW p \in Path, HashLocal(p) \/ TrashLocal(p)
  PROVE  TypeOK'
<1>0. /\ base \in [Path -> Version] /\ disk \in [Path -> Content] /\ copies \subseteq Content
      /\ Gone \in Version /\ 0 \in Content
  BY NothingTyped, Bounds DEF TypeOK, Content
<1>1. CASE HashLocal(p)
  <2>1. CASE Finish(p) /\ SetBase(p, Gone)
    BY <1>0, <1>1, <2>1, FinishTyped, AppliesTyped DEF HashLocal, SetBase
  <2>2. CASE UNCHANGED base /\ sync' = [sync EXCEPT !.plan[p] = UploadOver(0)]
    <3>1. sync' \in SyncRun /\ UNCHANGED Apart /\ \A q \in Path : Counted(sync'.job[q])
      BY <1>0, <2>2, UploadTyped, NothingTyped, Progress DEF Counted, Done
    <3> QED BY <1>0, <1>1, <2>2, <3>1, AppliesTyped DEF HashLocal
  <2>3. CASE UNCHANGED base /\ Move(p, [sync.job[p] EXCEPT !.stage = "held"])
    <3> DEFINE j == [sync.job[p] EXCEPT !.stage = "held"]
    <3>1. j \in Job /\ Counted(j)
      BY <1>1, PathTyped DEF Job, Counted, HashLocal, At
    <3> HIDE DEF j
    <3>2. Move(p, j)
      BY <2>3 DEF j
    <3> QED BY <1>0, <1>1, <2>3, <3>1, <3>2, MoveTyped, AppliesTyped DEF HashLocal
  <2> QED BY <1>1, <2>1, <2>2, <2>3 DEF HashLocal
<1>2. CASE TrashLocal(p)
  <2>1. disk' \in [Path -> Content] /\ copies' \subseteq Content /\ base' \in [Path -> Version]
    BY <1>0, <1>2, PathTyped DEF TrashLocal, SetBase
  <2>2. Finish(p) \/ Fail(p)
    BY <1>2 DEF TrashLocal
  <2> QED BY <1>2, <2>1, <2>2, FinishTyped, AppliesTyped DEF TrashLocal
<1> QED BY <1>1, <1>2

LEMMA UploadsTyped ==
  ASSUME TypeOK, NEW p \in Path, Prepare(p) \/ SendUpload(p)
  PROVE  TypeOK'
<1>0. base \in [Path -> Version] /\ disk \in [Path -> Content] /\ copies \subseteq Content
  BY DEF TypeOK
<1>1. CASE Prepare(p)
  <2>1. CASE Loses(p)
    BY <1>0, <1>1, <2>1, PathTyped, LosesTyped, AppliesTyped DEF Prepare, Loses
  <2>2. CASE Finish(p) /\ UNCHANGED base
    BY <1>0, <1>1, <2>2, FinishTyped, AppliesTyped DEF Prepare
  <2>3. CASE Move(p, [sync.job[p] EXCEPT !.stage = "held", !.content = disk[p]]) /\ UNCHANGED base
    <3> DEFINE j == [sync.job[p] EXCEPT !.stage = "held", !.content = disk[p]]
    <3>1. j \in Job /\ Counted(j)
      BY <1>1, PathTyped DEF Job, Counted, Prepare, At
    <3> HIDE DEF j
    <3>2. Move(p, j)
      BY <2>3 DEF j
    <3> QED BY <1>0, <1>1, <2>3, <3>1, <3>2, MoveTyped, AppliesTyped DEF Prepare
  <2> QED BY <1>1, <2>1, <2>2, <2>3 DEF Prepare
<1>2. CASE SendUpload(p)
  <2>1. CASE Publish(p, sync.job[p].content)
             /\ SetBase(p, [hash |-> sync.job[p].content, rev |-> Last + 1]) /\ Finish(p)
    <3>1. [hash |-> sync.job[p].content, rev |-> Last + 1] \in Version
      <4>1. Last + 1 \in 0..MaxSeq
        BY <2>1, SyncFields, Bounds DEF Publish
      <4> QED BY <4>1, PathTyped DEF Version
    <3>2. base' \in [Path -> Version]
      BY <1>0, <2>1, <3>1 DEF SetBase
    <3>3. HistoryTyped'
      BY <1>2, TypeParts, HistoryStays DEF SendUpload
    <3> QED BY <1>0, <1>2, <2>1, <3>2, <3>3, PathTyped, FinishTyped, SendsTyped DEF SendUpload
  <2>2. CASE (Loses(p) \/ Again(p)) /\ UNCHANGED server
    BY <1>0, <1>2, <2>2, PathTyped, LosesTyped, AppliesTyped DEF SendUpload, Loses, Again
  <2> QED BY <1>2, <2>1, <2>2 DEF SendUpload
<1> QED BY <1>1, <1>2

LEMMA DeletesTyped ==
  ASSUME TypeOK, NEW p \in Path, CheckAbsent(p) \/ SendDelete(p)
  PROVE  TypeOK'
<1>0. /\ base \in [Path -> Version] /\ disk \in [Path -> Content] /\ copies \subseteq Content
      /\ Gone \in Version /\ 0 \in Content
  BY NothingTyped, Bounds DEF TypeOK, Content
<1>1. CASE CheckAbsent(p)
  <2>1. CASE Fail(p) /\ UNCHANGED base
    BY <1>0, <1>1, <2>1, FinishTyped, AppliesTyped DEF CheckAbsent
  <2>2. CASE Overtaken(p)
    BY <1>0, <1>1, <2>2, PathTyped, LosesTyped, AppliesTyped DEF CheckAbsent, Overtaken, Loses, Again
  <2>3. CASE Move(p, [sync.job[p] EXCEPT !.stage = "held"]) /\ UNCHANGED base
    <3> DEFINE j == [sync.job[p] EXCEPT !.stage = "held"]
    <3>1. j \in Job /\ Counted(j)
      BY <1>1, PathTyped DEF Job, Counted, CheckAbsent, At
    <3> HIDE DEF j
    <3>2. Move(p, j)
      BY <2>3 DEF j
    <3> QED BY <1>0, <1>1, <2>3, <3>1, <3>2, MoveTyped, AppliesTyped DEF CheckAbsent
  <2> QED BY <1>1, <2>1, <2>2, <2>3 DEF CheckAbsent
<1>2. CASE SendDelete(p)
  <2>1. CASE Publish(p, 0) /\ SetBase(p, Gone) /\ Finish(p)
    <3>1. HistoryTyped' /\ base' \in [Path -> Version]
      BY <1>0, <1>2, <2>1, TypeParts, HistoryStays DEF SendDelete, SetBase
    <3> QED BY <1>0, <1>2, <2>1, <3>1, FinishTyped, SendsTyped DEF SendDelete
  <2>2. CASE SetBase(p, Gone) /\ Finish(p) /\ UNCHANGED server
    BY <1>0, <1>2, <2>2, FinishTyped, AppliesTyped DEF SendDelete, SetBase
  <2>3. CASE Overtaken(p) /\ UNCHANGED server
    BY <1>0, <1>2, <2>3, PathTyped, LosesTyped, AppliesTyped DEF SendDelete, Overtaken, Loses, Again
  <2> QED BY <1>2, <2>1, <2>2, <2>3 DEF SendDelete
<1> QED BY <1>1, <1>2

LEMMA StopTyped == TypeOK /\ Stop => TypeOK'
<1> SUFFICES ASSUME TypeOK, Stop PROVE TypeOK'
  OBVIOUS
<1>1. ServerTyped' /\ Last' = Last /\ Last \in Nat
  BY TypeParts, ServerStays, SyncFields DEF Stop
<1>2. used' \in [removals : 0..MaxRemovals, stops : 0..MaxStops]
  BY Bounds, TypeParts DEF Stop, HistoryTyped
<1>3. HistoryTyped' /\ DeviceTyped'
  BY <1>1, <1>2, TypeParts DEF Stop, HistoryTyped, history, DeviceTyped
<1>4. SyncTyped'
  BY <1>1, IdleTyped DEF Stop
<1> QED BY <1>1, <1>3, <1>4, TypePartsNext

(* Every step keeps TypeOK. *)
LEMMA TypeStep == TypeOK /\ [Next]_vars => TypeOK'
<1> SUFFICES ASSUME TypeOK, [Next]_vars PROVE TypeOK'
  OBVIOUS
<1>1. CASE \E p \in Path : Write(p) \/ GoBack(p) \/ Remove(p) \/ Foreign(p)
  BY <1>1, UserTyped
<1>2. CASE Prune
  BY <1>2, PruneTyped
<1>3. CASE Begin \/ ReadChanges \/ ReadManifest \/ ReplayChanges \/ Scan \/ EndSync
  BY <1>3, ReadingTyped
<1>4. CASE PlanFull \/ PlanIncremental \/ EndReconcile \/ \E p \in Path : Reconcile(p)
  BY <1>4, DecidingTyped
<1>5. CASE \E p \in Path : Applying(p)
  BY <1>5, DownloadsTyped, ConflictsTyped, LocalDeletesTyped, UploadsTyped, DeletesTyped DEF Applying
<1>6. CASE Stop
  BY <1>6, StopTyped
<1>7. CASE UNCHANGED vars
  BY <1>7 DEF vars, server, device, history, TypeOK, Last
<1> QED BY <1>1, <1>2, <1>3, <1>4, <1>5, <1>6, <1>7 DEF Next

(* In every reachable state the types hold: no cursor lies beyond the changelog, what is
   still to be reconciled has changed on the server, and no sync retries or copies more
   often than it may. *)
THEOREM TypeCorrect == Spec => []TypeOK
BY TypeInit, TypeStep, PTL DEF Spec

-----------------------------------------------------------------------------
(* The lines of the changelog and the rows they leave. *)

(* Lines of p in a range: the last one gives the row, and without one the row stays. *)
LEMMA NewestIs ==
  ASSUME NEW k \in Nat, NEW ns \in SUBSET (0..k), NEW n \in ns, \A m \in ns : m <= n
  PROVE  Newest(ns) = n
<1>1. Newest(ns) \in ns /\ n <= Newest(ns)
  BY NewestExists
<1>2. ns \subseteq Int
  OBVIOUS
<1>3. Newest(ns) <= n /\ Newest(ns) \in Int /\ n \in Int
  BY <1>1, <1>2
<1> QED BY <1>1, <1>3

LEMMA RowAfterLines ==
  ASSUME NEW p \in Path, NEW from \in Nat, NEW to \in Nat, from <= to
  PROVE  /\ LinesOf(p, from, to) # {} => RowAt(p, to) = VersionAt(Newest(LinesOf(p, from, to)))
         /\ LinesOf(p, from, to) = {} => \A m \in from..to : RowAt(p, m) = RowAt(p, to)
<1>1. ASSUME LinesOf(p, from, to) # {}
      PROVE  RowAt(p, to) = VersionAt(Newest(LinesOf(p, from, to)))
  <2> DEFINE ns == LinesOf(p, from, to)
             all == LinesOf(p, 0, to)
  <2>1. ns \in SUBSET (0..to) /\ all \in SUBSET (0..to) /\ ns # {}
    BY <1>1 DEF LinesOf
  <2>2. Newest(ns) \in ns /\ \A m \in ns : m <= Newest(ns)
    <3> HIDE DEF ns
    <3> QED BY <2>1, NewestExists
  <2>3. Newest(ns) \in all /\ \A m \in all : m <= Newest(ns)
    <3>1. \A m \in all : m \in ns \/ m <= from
      BY DEF LinesOf
    <3>2. from < Newest(ns) /\ Newest(ns) \in all
      BY <2>2 DEF LinesOf
    <3>3. all \subseteq Int /\ Newest(ns) \in Int
      BY <2>1, <3>2
    <3> HIDE DEF all, ns
    <3> QED BY <2>2, <3>1, <3>2, <3>3
  <2>4. Newest(all) = Newest(ns)
    <3> HIDE DEF all, ns
    <3> QED BY <2>1, <2>3, NewestIs
  <2> QED BY <2>3, <2>4 DEF RowAt
<1>2. ASSUME LinesOf(p, from, to) = {}, NEW m \in from..to
      PROVE  RowAt(p, m) = RowAt(p, to)
  <2>1. LinesOf(p, 0, m) = LinesOf(p, 0, to)
    BY <1>2 DEF LinesOf
  <2> QED BY <2>1 DEF RowAt
<1> QED BY <1>1, <1>2

(* The changelog keeps its lines, and with them the rows of every earlier instant. *)
LogGrows == Last <= Last' /\ \A n \in 1..Last : log'[n] = log[n]

LEMMA PastStays ==
  ASSUME LogGrows, Last \in Nat, NEW p \in Path, NEW n \in 0..Last
  PROVE  /\ RowAt(p, n)' = RowAt(p, n)
         /\ \A from \in Nat : LinesOf(p, from, n)' = LinesOf(p, from, n)
<1>1. \A from \in Nat : LinesOf(p, from, n)' = LinesOf(p, from, n)
  BY DEF LogGrows, LinesOf
<1>2. LinesOf(p, 0, n) # {} => Newest(LinesOf(p, 0, n)) \in 1..Last
  <2> DEFINE ns == LinesOf(p, 0, n)
  <2>1. ns \in SUBSET (0..n) /\ ns \subseteq 1..Last /\ n \in Nat
    BY DEF LinesOf
  <2> HIDE DEF ns
  <2>2. ns # {} => Newest(ns) \in ns
    BY <2>1, NewestExists
  <2>3. ns # {} => Newest(ns) \in 1..Last
    BY <2>1, <2>2
  <2> QED BY <2>3 DEF ns
<1>3. LinesOf(p, 0, n) # {} => VersionAt(Newest(LinesOf(p, 0, n)))' = VersionAt(Newest(LinesOf(p, 0, n)))
  <2>1. LinesOf(p, 0, n)' = LinesOf(p, 0, n)
    BY <1>1
  <2>2. Newest(LinesOf(p, 0, n))' = Newest(LinesOf(p, 0, n))
    BY <2>1 DEF Newest
  <2> QED BY <1>2, <2>2 DEF LogGrows, VersionAt
<1>4. RowAt(p, n)' = RowAt(p, n)
  BY <1>1, <1>3 DEF RowAt
<1> QED BY <1>1, <1>4

(* Each row is what the changelog's lines leave. *)
RowsLogged == \A p \in Path : rows[p] = RowAt(p, Last)

LEMMA PublishLogged ==
  ASSUME TypeOK, RowsLogged, NEW p \in Path, NEW hash \in Content, Publish(p, hash)
  PROVE  LogGrows /\ RowsLogged' /\ pruned' = pruned
<1>1. PICK k \in Nat : Last = k /\ Last' = k + 1
  BY SyncFields, Publishes
<1>2. log'[k + 1] = [path |-> p, hash |-> hash] /\ \A n \in 1..k : log'[n] = log[n]
  BY <1>1, Publishes
<1>3. LogGrows /\ pruned' = pruned
  <2>1. pruned' = pruned
    BY DEF Publish
  <2> QED BY <1>1, <1>2, <2>1 DEF LogGrows
<1>4. rows'[p] = RowAt(p, Last)'
  <2> DEFINE ns == LinesOf(p, 0, k + 1)'
  <2>1. ns \in SUBSET (0..(k + 1)) /\ k + 1 \in ns /\ \A m \in ns : m <= k + 1
    BY <1>2 DEF LinesOf
  <2>2. Newest(ns) = k + 1
    <3>1. k + 1 \in Nat
      OBVIOUS
    <3> HIDE DEF ns
    <3> QED BY <2>1, <3>1, NewestIs
  <2>3. RowAt(p, k + 1)' = VersionAt(k + 1)'
    BY <2>1, <2>2 DEF RowAt, Newest
  <2>4. VersionAt(k + 1)' = IF hash = 0 THEN Gone ELSE [hash |-> hash, rev |-> k + 1]
    BY <1>2 DEF VersionAt
  <2>5. rows'[p] = IF hash = 0 THEN Gone ELSE [hash |-> hash, rev |-> k + 1]
    BY <1>1 DEF Publish, TypeOK
  <2> QED BY <1>1, <2>3, <2>4, <2>5
<1>5. ASSUME NEW q \in Path \ {p}
      PROVE  rows'[q] = RowAt(q, Last)'
  <2>1. rows'[q] = rows[q] /\ rows[q] = RowAt(q, k)
    BY <1>1, Publishes DEF RowsLogged
  <2>2. LinesOf(q, 0, k + 1)' = LinesOf(q, 0, k)'
    BY <1>2 DEF LinesOf
  <2>3. RowAt(q, k + 1)' = RowAt(q, k)'
    BY <2>2, Zenon DEF RowAt
  <2>4. RowAt(q, k)' = RowAt(q, k)
    BY <1>1, <1>3, PastStays
  <2> QED BY <1>1, <2>1, <2>3, <2>4
<1> QED BY <1>3, <1>4, <1>5 DEF RowsLogged

(* A page that is served holds the lines from the cursor to its own end, and the last
   page ends with the changelog. *)
LEMMA PageLines ==
  ASSUME TypeOK, NEW since \in 0..Last, ~Expired(since), since = 0 => pruned = 0
  PROVE  /\ since <= PageTo(since) /\ PageTo(since) \in 0..Last
         /\ ~HasMore(since) => PageTo(since) = Last
         /\ \A p \in Path : InPage(since, p) = LinesOf(p, since, PageTo(since))
<1>1. Last \in Nat /\ pruned \in 0..Last /\ ChangesPage \in Nat \ {0}
  BY Bounds DEF TypeOK, Last
<1>2. PageFrom(since) = since + 1 \/ (since = Last /\ PageFrom(since) = Last + 1)
  BY <1>1 DEF Expired, PageFrom, Greater
<1>3. PageFrom(since) = since + 1
  BY <1>2
<1> QED BY <1>1, <1>3 DEF PageTo, HasMore, Lesser, InPage, LinesOf

-----------------------------------------------------------------------------
(* What a sync has read so far, and from which instant on. *)

(* An incremental sync has the instant its last page ended with: every path with a
   change since the cursor, at the version it had there. *)
Changing ==
  sync.pc = "changes" =>
    /\ ~sync.full /\ 0 < cursor /\ cursor <= sync.since
    /\ \A p \in Path : LinesOf(p, cursor, sync.since) # {} => p \in sync.changed
    /\ \A p \in sync.changed : sync.remote[p] = RowAt(p, sync.since)

(* A row that was read at some instant since `from` *)
SeenSince(p, from) == \E m \in from..Last : sync.remote[p] = RowAt(p, m)

(* The pages of the manifest show each path at some instant since the snapshot. *)
Listing ==
  sync.pc = "manifest" =>
    /\ sync.full /\ (sync.after # 0 => sync.snapshot > 0)
    /\ \A p \in Path :
         IF p <= sync.after THEN SeenSince(p, sync.snapshot) ELSE sync.remote[p] = Gone

(* The changes that are replayed make up for what the manifest missed. *)
Replaying ==
  sync.pc = "replay" =>
    /\ sync.full /\ (sync.since = 0 => pruned = 0)
    /\ \A p \in Path : SeenSince(p, sync.since)

PlanInv == RowsLogged /\ Changing /\ Listing /\ Replaying /\ PlansFromAnInstant

(* A sync that is over, or starts over *)
LEMMA IdleInstant == RowsLogged' /\ sync'.pc = "idle" => PlanInv'
BY DEF PlanInv, Changing, Listing, Replaying, PlansFromAnInstant

LEMMA ManifestInstant ==
  ASSUME RowsLogged', sync'.pc = "manifest", sync'.full, sync'.after = 0,
         \A p \in Path : sync'.remote[p] = Gone
  PROVE  PlanInv'
<1>1. \A p \in Path : p \in Nat /\ p # 0
  BY PathAssumption
<1>2. \A p \in Path : ~(p <= sync'.after)
  BY <1>1
<1> QED BY <1>2 DEF PlanInv, Changing, Listing, Replaying, PlansFromAnInstant

(* What a step reads or leaves of the server's side *)
Read == <<sync.full, sync.since, sync.snapshot, sync.after, sync.last, sync.remote, sync.changed>>

(* Steps that read nothing *)
LEMMA InstantStays ==
  ASSUME TypeOK, PlanInv, LogGrows, RowsLogged', UNCHANGED <<Read, cursor>>, Last' \in Nat,
         sync'.pc = sync.pc \/ {sync.pc, sync'.pc} \subseteq {"scan", "reconcile", "apply"},
         sync.pc = "replay" /\ sync.since = 0 /\ pruned = 0 => pruned' = 0
  PROVE  PlanInv'
<1>0. /\ sync.since \in 0..Last /\ sync.snapshot \in 0..Last /\ sync.last \in 0..Last
      /\ cursor \in 0..Last /\ cursor \in Nat /\ Last \in Nat /\ sync.changed \subseteq Path
      /\ Last <= Last' /\ UNCHANGED cursor
      /\ UNCHANGED <<sync.full, sync.since, sync.snapshot, sync.after, sync.last, sync.remote, sync.changed>>
  BY SyncFields DEF TypeOK, LogGrows, Read
<1>1. ASSUME NEW p \in Path, NEW n \in 0..Last
      PROVE  RowAt(p, n)' = RowAt(p, n) /\ LinesOf(p, cursor, n)' = LinesOf(p, cursor, n)
  BY <1>0, PastStays DEF LinesOf
<1>2. ASSUME NEW p \in Path, NEW from \in 0..Last, SeenSince(p, from)
      PROVE  \E m \in from..Last' : sync'.remote[p] = RowAt(p, m)'
  <2>1. PICK m \in from..Last : sync.remote[p] = RowAt(p, m)
    BY <1>2 DEF SeenSince
  <2>2. m \in from..Last' /\ m \in 0..Last
    BY <1>0
  <2> QED BY <1>0, <1>1, <2>1, <2>2
<1>3. Changing'
  BY <1>0, <1>1 DEF PlanInv, Changing
<1>4. Listing'
  BY <1>0, <1>2 DEF PlanInv, Listing, SeenSince
<1>5. Replaying'
  BY <1>0, <1>2 DEF PlanInv, Replaying, SeenSince
<1>6. PlansFromAnInstant'
  BY <1>0, <1>1 DEF PlanInv, PlansFromAnInstant
<1> QED BY <1>3, <1>4, <1>5, <1>6 DEF PlanInv

-----------------------------------------------------------------------------
(* The steps. *)

(* A step that leaves the server alone *)
LEMMA ServerKeepsInstant ==
  ASSUME TypeOK, PlanInv, UNCHANGED <<rows, log>>
  PROVE  LogGrows /\ RowsLogged' /\ Last' = Last /\ Last \in Nat
<1>1. Last' = Last /\ Last \in Nat
  BY SyncFields DEF Last
<1>2. LogGrows
  BY <1>1 DEF LogGrows
<1>3. ASSUME NEW p \in Path
      PROVE  rows'[p] = RowAt(p, Last)'
  <2>1. PICK k \in Nat : k = Last
    BY <1>1
  <2>2. RowAt(p, k)' = RowAt(p, k)
    BY <1>1, <1>2, <2>1, PastStays
  <2> QED BY <1>1, <2>1, <2>2 DEF PlanInv, RowsLogged
<1> QED BY <1>1, <1>2, <1>3 DEF RowsLogged

(* The user's steps, those of other devices, and the pruning of old lines *)
LEMMA DisturbedInstant ==
  ASSUME TypeOK, PlanInv, Prune \/ \E p \in Path : Write(p) \/ GoBack(p) \/ Remove(p) \/ Foreign(p)
  PROVE  PlanInv'
<1>1. sync \in SyncRun /\ sync' = [sync EXCEPT !.quiet = FALSE] /\ UNCHANGED cursor
  BY DEF TypeOK, Prune, Write, GoBack, Remove, Foreign, Disturbs, device
<1>2. UNCHANGED Read /\ sync'.pc = sync.pc
  BY <1>1 DEF SyncRun, Read
<1>3. CASE Prune
  <2>1. UNCHANGED <<rows, log>> /\ (sync.pc = "replay" => sync.since # 0)
    BY <1>3 DEF Prune
  <2> QED BY <1>1, <1>2, <2>1, ServerKeepsInstant, InstantStays
<1>4. CASE \E p \in Path : Write(p) \/ GoBack(p) \/ Remove(p)
  <2>1. UNCHANGED <<rows, log, pruned>>
    BY <1>4 DEF Write, GoBack, Remove, server
  <2> QED BY <1>1, <1>2, <2>1, ServerKeepsInstant, InstantStays
<1>5. CASE \E p \in Path : Foreign(p)
  <2>1. PICK p \in Path : Foreign(p)
    BY <1>5
  <2>2. PICK hash \in Content : Publish(p, hash)
    <3>1. rows[p].hash \in Content /\ 0 \in Content
      BY Bounds DEF TypeOK, Version, Content
    <3>2. {rows[p].hash} \ {0} \in SUBSET Content
      BY <3>1
    <3>3. Make({rows[p].hash} \ {0}) => made' \in Content
      BY <3>2, Makes
    <3> QED BY <2>1, <3>1, <3>3 DEF Foreign
  <2>3. LogGrows /\ RowsLogged' /\ pruned' = pruned /\ Last' \in Nat
    <3>1. Last' = Last + 1 /\ Last \in Nat
      BY <2>2, Publishes, SyncFields
    <3> QED BY <2>2, <3>1, PublishLogged DEF PlanInv
  <2> QED BY <1>1, <1>2, <2>3, InstantStays
<1> QED BY <1>3, <1>4, <1>5

(* Scanning, deciding and applying read nothing. *)
LEMMA PlannedInstant ==
  ASSUME TypeOK, PlanInv, UNCHANGED <<rows, log, pruned, cursor, Read>>,
         sync'.pc = sync.pc \/ {sync.pc, sync'.pc} \subseteq {"scan", "reconcile", "apply"}
  PROVE  PlanInv'
BY ServerKeepsInstant, InstantStays

LEMMA DecidingInstant ==
  ASSUME TypeOK, PlanInv, Scan \/ PlanFull \/ PlanIncremental \/ EndReconcile \/ \E p \in Path : Reconcile(p)
  PROVE  PlanInv'
<1>0. sync \in SyncRun
  BY DEF TypeOK
<1>1. CASE Scan
  BY <1>0, <1>1, PlannedInstant DEF Scan, SyncRun, Read, server, device
<1>2. CASE PlanFull
  <2>1. UNCHANGED <<rows, log, pruned, cursor, Read>> /\ sync.pc = "scan" /\ sync'.pc = "apply"
    BY <1>0, <1>2 DEF PlanFull, SyncRun, Read, server
  <2> QED BY <2>1, PlannedInstant
<1>3. CASE PlanIncremental
  <2>1. UNCHANGED <<rows, log, pruned, cursor, Read>> /\ sync.pc = "scan" /\ sync'.pc = "reconcile"
    BY <1>0, <1>3 DEF PlanIncremental, SyncRun, Read, server, device
  <2> QED BY <2>1, PlannedInstant
<1>4. CASE EndReconcile
  <2>1. UNCHANGED <<rows, log, pruned, cursor, Read>> /\ sync.pc = "reconcile" /\ sync'.pc = "apply"
    BY <1>0, <1>4 DEF EndReconcile, SyncRun, Read, server, device
  <2> QED BY <2>1, PlannedInstant
<1>5. CASE \E p \in Path : Reconcile(p)
  <2>1. UNCHANGED <<rows, log, pruned, cursor, Read>> /\ sync'.pc = sync.pc
    BY <1>0, <1>5 DEF Reconcile, SyncRun, Read, server
  <2> QED BY <2>1, PlannedInstant
<1> QED BY <1>1, <1>2, <1>3, <1>4, <1>5

(* A decision that is applied reads nothing, and adds at most its own line. *)
LEMMA ApplyingInstant ==
  ASSUME TypeOK, PlanInv, NEW p \in Path, Applying(p)
  PROVE  PlanInv'
<1>0. sync \in SyncRun
  BY DEF TypeOK
<1>1. \E j, d, f : sync' \in {[sync EXCEPT !.job[p] = j], [sync EXCEPT !.job[p] = j, !.failed = f],
                              [sync EXCEPT !.plan[p] = d], [sync EXCEPT !.plan[p] = d, !.job[p] = j]}
  <2>1. \/ \E j : Move(p, j)
        \/ Fail(p)
        \/ \E b : LosesFrom(p, b) \/ AgainFrom(p, b)
        \/ sync' = [sync EXCEPT !.plan[p] = UploadOver(0)]
    <3>1. CASE Fetch(p) \/ Download(p) \/ NothingToResolve(p)
      BY <3>1, Zenon DEF Fetch, Download, NothingToResolve, Loses, Applied, Finish
    <3>2. CASE SendMerge(p) \/ ApplyMerge(p) \/ CopyLocal(p) \/ ApplyRemote(p)
      BY <3>2, Zenon DEF SendMerge, ApplyMerge, CopyLocal, ApplyRemote, Loses, Applied, Finish
    <3>3. CASE HashLocal(p) \/ TrashLocal(p) \/ Prepare(p)
      BY <3>3, Zenon DEF HashLocal, TrashLocal, Prepare, Loses, Finish
    <3>4. CASE SendUpload(p) \/ CheckAbsent(p) \/ SendDelete(p)
      BY <3>4, Zenon DEF SendUpload, CheckAbsent, SendDelete, Overtaken, Loses, Again, Finish
    <3> QED BY <3>1, <3>2, <3>3, <3>4 DEF Applying
  <2> QED BY <2>1, Zenon DEF Move, Fail, LosesFrom, AgainFrom
<1>2. UNCHANGED Read /\ sync'.pc = sync.pc
  BY <1>0, <1>1 DEF SyncRun, Read
<1>3. UNCHANGED cursor
  BY DEF Applying, Fetch, Download, NothingToResolve, SendMerge, ApplyMerge, CopyLocal, ApplyRemote,
         HashLocal, TrashLocal, Prepare, SendUpload, CheckAbsent, SendDelete
<1>4. UNCHANGED server \/ \E hash \in Content : Publish(p, hash)
  <2>1. CASE SendMerge(p)
    <3>1. {disk[p], sync.job[p].content} \in SUBSET Content
      BY PathTyped
    <3> QED BY <2>1, <3>1, Makes DEF SendMerge
  <2>2. CASE SendUpload(p)
    BY <2>2, PathTyped DEF SendUpload
  <2>3. CASE SendDelete(p)
    BY <2>3, Bounds DEF SendDelete, Content
  <2> QED BY <2>1, <2>2, <2>3 DEF Applying, Fetch, Download, NothingToResolve, ApplyMerge, CopyLocal,
         ApplyRemote, HashLocal, TrashLocal, Prepare, CheckAbsent
<1>5. CASE UNCHANGED server
  BY <1>2, <1>3, <1>5, PlannedInstant DEF server
<1>6. CASE \E hash \in Content : Publish(p, hash)
  <2>1. LogGrows /\ RowsLogged' /\ pruned' = pruned /\ Last' \in Nat
    <3>1. Last' = Last + 1 /\ Last \in Nat
      BY <1>6, Publishes, SyncFields
    <3> QED BY <1>6, <3>1, PublishLogged DEF PlanInv
  <2> QED BY <1>2, <1>3, <2>1, InstantStays
<1> QED BY <1>4, <1>5, <1>6

(* One page of changes shows each path as of the end of the page. *)
LEMMA FollowInstant ==
  ASSUME TypeOK, PlanInv, Follow("scan"), UNCHANGED <<rows, log, pruned, cursor>>,
         sync.pc \in {"changes", "replay"}, ~Expired(sync.since), sync.since = 0 => pruned = 0
  PROVE  PlanInv'
<1> DEFINE to == PageTo(sync.since)
<1>1. /\ sync \in SyncRun /\ sync.since \in 0..Last /\ Last \in Nat /\ sync.changed \subseteq Path
      /\ cursor \in 0..Last /\ sync.full \in BOOLEAN
  BY SyncFields DEF TypeOK
<1>2. /\ sync.since <= to /\ to \in 0..Last /\ (~HasMore(sync.since) => to = Last)
      /\ \A p \in Path : InPage(sync.since, p) = LinesOf(p, sync.since, to)
  BY <1>1, PageLines
<1>3. /\ sync'.full = sync.full /\ sync'.last = Last
      /\ sync'.pc = IF HasMore(sync.since) THEN sync.pc ELSE "scan"
      /\ sync'.since = IF HasMore(sync.since) THEN to ELSE sync.since
      /\ sync'.changed = sync.changed \cup {p \in Path : InPage(sync.since, p) # {}}
      /\ sync'.remote = Replayed(sync.since, sync.remote)
  BY <1>1 DEF Follow, SyncRun
<1> HIDE DEF to
<1>4. LogGrows /\ RowsLogged' /\ Last' = Last
  BY ServerKeepsInstant
<1>5. ASSUME NEW p \in Path, NEW n \in 0..Last
      PROVE  RowAt(p, n)' = RowAt(p, n) /\ LinesOf(p, cursor, n)' = LinesOf(p, cursor, n)
  BY <1>1, <1>4, PastStays DEF LinesOf
<1>6. ASSUME NEW p \in Path
      PROVE  /\ LinesOf(p, sync.since, to) # {} => sync'.remote[p] = RowAt(p, to)
             /\ LinesOf(p, sync.since, to) = {} =>
                  /\ sync'.remote[p] = sync.remote[p]
                  /\ \A m \in sync.since..to : RowAt(p, m) = RowAt(p, to)
  <2>1. sync.since \in Nat /\ to \in Nat
    BY <1>1, <1>2
  <2> QED BY <1>2, <1>3, <2>1, RowAfterLines DEF Replayed
(* An incremental sync has every path of the changes so far as of the end of the page. *)
<1>7. ASSUME sync.pc = "changes"
      PROVE  /\ ~sync.full /\ 0 < cursor /\ cursor <= to
             /\ \A p \in Path : LinesOf(p, cursor, to) # {} => p \in sync'.changed
             /\ \A p \in sync'.changed : sync'.remote[p] = RowAt(p, to)
  <2>1. /\ ~sync.full /\ 0 < cursor /\ cursor <= sync.since
        /\ \A p \in Path : LinesOf(p, cursor, sync.since) # {} => p \in sync.changed
        /\ \A p \in sync.changed : sync.remote[p] = RowAt(p, sync.since)
    BY <1>7 DEF PlanInv, Changing
  <2>2. \A p \in Path : LinesOf(p, cursor, to) \subseteq LinesOf(p, cursor, sync.since) \cup LinesOf(p, sync.since, to)
    BY <1>1, <1>2 DEF LinesOf
  <2>3. \A p \in Path : LinesOf(p, cursor, to) # {} => p \in sync'.changed
    BY <1>2, <1>3, <2>1, <2>2
  <2>4. ASSUME NEW p \in sync'.changed
        PROVE  sync'.remote[p] = RowAt(p, to)
    <3>1. p \in Path
      BY <1>1, <1>3
    <3>2. CASE LinesOf(p, sync.since, to) # {}
      BY <1>6, <3>1, <3>2
    <3>3. CASE LinesOf(p, sync.since, to) = {}
      <4>1. p \in sync.changed /\ sync.since \in sync.since..to
        BY <1>1, <1>2, <1>3, <3>1, <3>3
      <4> QED BY <1>6, <2>1, <3>1, <3>3, <4>1
    <3> QED BY <3>2, <3>3
  <2> QED BY <1>1, <1>2, <2>1, <2>3, <2>4
(* A full sync has every path at some instant since the end of the page. *)
<1>8. ASSUME sync.pc = "replay", NEW p \in Path
      PROVE  \E m \in to..Last : sync'.remote[p] = RowAt(p, m)
  <2>1. CASE LinesOf(p, sync.since, to) # {}
    <3>1. to \in to..Last
      BY <1>1, <1>2
    <3> QED BY <1>6, <2>1, <3>1
  <2>2. CASE LinesOf(p, sync.since, to) = {}
    <3>1. PICK m \in sync.since..Last : sync.remote[p] = RowAt(p, m)
      BY <1>8 DEF PlanInv, Replaying, SeenSince
    <3>2. CASE m \in to..Last
      BY <1>6, <2>2, <3>1, <3>2
    <3>3. CASE m \in sync.since..to
      <4>1. to \in to..Last
        BY <1>1, <1>2
      <4> QED BY <1>6, <2>2, <3>1, <3>3, <4>1
    <3> QED BY <1>1, <1>2, <3>1, <3>2, <3>3
  <2> QED BY <2>1, <2>2
<1>9. sync.pc = "replay" => sync.full
  BY DEF PlanInv, Replaying
<1>10. CASE HasMore(sync.since)
  <2>1. sync'.pc = sync.pc /\ sync'.since = to
    BY <1>3, <1>10
  <2>2. Changing'
    BY <1>2, <1>3, <1>5, <1>7, <2>1, <1>1 DEF Changing
  <2>3. Replaying'
    <3>1. to = 0 => pruned = 0
      BY <1>1, <1>2
    <3>2. sync.pc = "replay" => \A p \in Path : \E m \in to..Last : sync'.remote[p] = RowAt(p, m)'
      <4>1. \A m \in to..Last : m \in 0..Last
        BY <1>1, <1>2
      <4> QED BY <1>5, <1>8, <4>1
    <3> QED BY <1>3, <1>4, <1>9, <2>1, <3>1, <3>2 DEF Replaying, SeenSince
  <2> QED BY <1>4, <2>1, <2>2, <2>3 DEF PlanInv, Listing, PlansFromAnInstant
<1>11. CASE ~HasMore(sync.since)
  <2>1. sync'.pc = "scan" /\ to = Last /\ sync'.last = Last
    BY <1>2, <1>3, <1>11
  <2>2. sync.pc = "replay" => \A p \in Path : sync'.remote[p] = RowAt(p, Last)
    <3>1. \A m \in Last..Last : m = Last
      BY <1>1
    <3> QED BY <1>8, <2>1, <3>1
  <2>3. PlansFromAnInstant'
    <3>1. Last \in 0..Last
      BY <1>1
    <3>2. \A p \in Path : sync'.full \/ p \in sync'.changed => sync'.remote[p] = RowAt(p, Last)
      BY <1>3, <1>7, <2>1, <2>2
    <3>3. \A p \in Path : ~sync'.full /\ LinesOf(p, cursor, Last) # {} => p \in sync'.changed
      BY <1>3, <1>7, <1>9, <2>1
    <3> QED BY <1>5, <2>1, <3>1, <3>2, <3>3 DEF PlansFromAnInstant
  <2> QED BY <1>4, <2>1, <2>3 DEF PlanInv, Changing, Listing, Replaying
<1> QED BY <1>10, <1>11

(* One page of the manifest shows its path as of now, and those it passes over are gone. *)
LEMMA ManifestRead ==
  ASSUME TypeOK, PlanInv, ReadManifest
  PROVE  PlanInv'
<1> DEFINE next == {p \in Path : p > sync.after /\ rows[p] # Gone}
           page == {p \in next : \A q \in next : p <= q}
           snapshot == IF sync.after = 0 THEN Last ELSE sync.snapshot
           remote == [p \in Path |-> IF p \in page THEN rows[p] ELSE sync.remote[p]]
           pc == IF next = page THEN "replay" ELSE sync.pc
<1>1. PICK after \in IF next = {} THEN {sync.after} ELSE page :
        sync' = [sync EXCEPT !.snapshot = snapshot, !.since = snapshot, !.after = after,
                             !.remote = remote, !.pc = pc]
  BY DEF ReadManifest
<1>2. /\ sync \in SyncRun /\ sync.snapshot \in 0..Last /\ Last \in Nat /\ pruned \in 0..Last
      /\ sync.after \in Nat /\ \A p \in Path : p \in Nat /\ p # 0
  <2>1. \A p \in Path : p \in Nat /\ p # 0
    BY PathAssumption
  <2> QED BY <2>1, SyncFields DEF TypeOK
<1>3. /\ sync.pc = "manifest" /\ sync.full /\ (sync.after # 0 => sync.snapshot > 0)
      /\ \A p \in Path : IF p <= sync.after THEN SeenSince(p, sync.snapshot) ELSE sync.remote[p] = Gone
      /\ \A p \in Path : rows[p] = RowAt(p, Last)
  BY DEF ReadManifest, PlanInv, Listing, RowsLogged
<1>4. /\ sync'.full = sync.full /\ sync'.snapshot = snapshot /\ sync'.since = snapshot
      /\ sync'.after = after /\ sync'.remote = remote /\ sync'.pc = pc
  <2> HIDE DEF next, page, snapshot, remote, pc
  <2> QED BY <1>1, <1>2 DEF SyncRun
<1>5. snapshot \in 0..Last /\ (sync.after # 0 => snapshot = sync.snapshot)
  BY <1>2
<1>6. LogGrows /\ RowsLogged' /\ Last' = Last /\ pruned' = pruned
  BY ServerKeepsInstant DEF ReadManifest, server
(* The page is one path, and no path of the manifest lies between the last page and it. *)
<1>7. /\ after = sync.after \/ (after \in Path /\ sync.after < after /\ rows[after] # Gone)
      /\ \A p \in Path : sync.after < p /\ p < after => rows[p] = Gone
      /\ \A p \in Path : p \in page <=> p = after /\ p # sync.after
  <2>1. CASE next = {}
    <3>1. after = sync.after /\ page = {}
      BY <1>1, <2>1
    <3>2. ASSUME NEW p \in Path, sync.after < p, p < after
          PROVE  FALSE
      <4>1. p \in Nat /\ sync.after \in Nat
        BY <1>2
      <4> HIDE DEF next, page
      <4> QED BY <3>1, <3>2, <4>1
    <3> QED BY <3>1, <3>2
  <2>2. CASE next # {}
    <3>1. after \in page
      BY <1>1, <2>2
    <3>2. after \in Path /\ sync.after < after /\ rows[after] # Gone /\ \A q \in next : after <= q
      BY <1>2, <3>1
    <3>3. \A p \in Path : sync.after < p /\ p < after => rows[p] = Gone
      BY <1>2, <3>2
    <3>4. \A p \in page : p = after
      <4> SUFFICES ASSUME NEW p \in page PROVE p = after
        OBVIOUS
      <4>1. p <= after /\ after <= p
        BY <3>1, <3>2
      <4>2. p \in Nat /\ after \in Nat
        BY <1>2, <3>2
      <4> HIDE DEF next, page
      <4> QED BY <4>1, <4>2
    <3> QED BY <1>2, <3>1, <3>2, <3>3, <3>4
  <2> QED BY <2>1, <2>2
<1>8. next = page => \A p \in Path : after < p => rows[p] = Gone
  <2>1. \A p \in Path : after < p /\ rows[p] # Gone => p \in next
    BY <1>2, <1>7
  <2>2. \A p \in page : ~(after < p)
    BY <1>2, <1>7
  <2> QED BY <2>1, <2>2
<1> HIDE DEF next, page, snapshot
(* What was read so far was there at some instant since the snapshot. *)
<1>9. ASSUME NEW p \in Path, p <= after
      PROVE  \E m \in snapshot..Last : remote[p] = RowAt(p, m)
  <2>0. Last \in snapshot..Last
    BY <1>2, <1>5
  <2>1. CASE p \in page
    BY <1>3, <2>0, <2>1
  <2>2. CASE p \notin page /\ p <= sync.after
    <3>1. sync.after # 0
      BY <1>2, <2>2
    <3> QED BY <1>3, <1>5, <2>2, <3>1 DEF SeenSince
  <2>3. CASE p \notin page /\ ~(p <= sync.after)
    <3>1. rows[p] = Gone /\ sync.remote[p] = Gone
      <4>1. sync.after < p /\ p < after
        <5>1. after \in Nat /\ p \in Nat /\ p # after
          BY <1>2, <1>7, <2>3
        <5> QED BY <1>2, <1>9, <2>3, <5>1
      <4> QED BY <1>3, <1>7, <2>3, <4>1
    <3> QED BY <1>3, <2>0, <2>3, <3>1
  <2> QED BY <2>1, <2>2, <2>3
<1>10. ASSUME NEW p \in Path, ~(p <= after)
       PROVE  remote[p] = Gone
  <2>1. p \notin page /\ ~(p <= sync.after)
    BY <1>2, <1>7, <1>10
  <2> QED BY <1>3, <2>1
<1>11. after # 0 => snapshot > 0
  <2>1. CASE sync.after # 0
    BY <1>3, <1>5, <2>1
  <2>2. CASE sync.after = 0 /\ after # 0
    <3>1. RowAt(after, Last) # Gone
      BY <1>3, <1>7, <2>2
    <3>2. Last > 0
      BY <1>2, <3>1 DEF RowAt, LinesOf
    <3> QED BY <2>2, <3>2 DEF snapshot
  <2> QED BY <2>1, <2>2
<1>12. \A p \in Path : \A m \in snapshot..Last : RowAt(p, m)' = RowAt(p, m)
  <2>1. \A m \in snapshot..Last : m \in 0..Last
    BY <1>2, <1>5
  <2> QED BY <1>2, <1>6, <2>1, PastStays
<1> HIDE DEF remote
<1>13. CASE next = page
  <2>1. sync'.pc = "replay"
    BY <1>4, <1>13
  <2>2. snapshot = 0 => pruned' = 0
    <3>1. snapshot = 0 => Last = 0
      BY <1>2, <1>3 DEF snapshot
    <3> QED BY <1>2, <1>6, <3>1
  <2>3. \A p \in Path : \E m \in snapshot..Last : remote[p] = RowAt(p, m)
    <3> SUFFICES ASSUME NEW p \in Path PROVE \E m \in snapshot..Last : remote[p] = RowAt(p, m)
      OBVIOUS
    <3>1. CASE p <= after
      BY <1>9, <3>1
    <3>2. CASE ~(p <= after)
      <4>1. after < p
        BY <1>2, <1>7, <3>2
      <4>2. rows[p] = Gone /\ Last \in snapshot..Last
        BY <1>2, <1>5, <1>8, <1>13, <4>1
      <4> QED BY <1>3, <1>10, <3>2, <4>2
    <3> QED BY <3>1, <3>2
  <2>4. Replaying'
    BY <1>3, <1>4, <1>6, <1>12, <2>2, <2>3 DEF Replaying, SeenSince
  <2> QED BY <1>6, <2>1, <2>4 DEF PlanInv, Changing, Listing, PlansFromAnInstant
<1>14. CASE next # page
  <2>1. sync'.pc = "manifest"
    BY <1>3, <1>4, <1>14
  <2>2. Listing'
    BY <1>3, <1>4, <1>6, <1>9, <1>10, <1>11, <1>12 DEF Listing, SeenSince
  <2> QED BY <1>6, <2>1, <2>2 DEF PlanInv, Changing, Replaying, PlansFromAnInstant
<1> QED BY <1>13, <1>14

(* Where a sync begins, reads, starts over and ends *)
LEMMA ReadingInstant ==
  ASSUME TypeOK, PlanInv, Begin \/ ReadChanges \/ ReplayChanges \/ EndSync \/ Stop
  PROVE  PlanInv'
<1>0. RowsLogged' /\ UNCHANGED <<rows, log, pruned>>
  <2>1. UNCHANGED <<rows, log, pruned>>
    BY DEF Begin, ReadChanges, ReplayChanges, EndSync, Stop, server
  <2> QED BY <2>1, ServerKeepsInstant
<1>1. /\ Idle \in SyncRun /\ Idle.pc = "idle" /\ Idle.after = 0 /\ Idle.changed = {}
      /\ \A p \in Path : Idle.remote[p] = Gone
  BY NothingTyped DEF Idle
<1>2. CASE Begin
  <2> DEFINE pc == IF cursor > 0 THEN "changes" ELSE "manifest"
             full == cursor = 0
  <2>1. /\ sync' = [Idle EXCEPT !.pc = pc, !.full = full, !.since = cursor]
        /\ UNCHANGED cursor /\ cursor \in Nat
    BY <1>2, SyncFields DEF Begin, device, TypeOK
  <2>2. /\ sync'.pc = pc /\ sync'.full = full /\ sync'.since = cursor /\ sync'.after = 0
        /\ sync'.changed = {} /\ \A p \in Path : sync'.remote[p] = Gone
    <3> HIDE DEF pc, full
    <3> QED BY <1>1, <2>1 DEF SyncRun
  <2>3. CASE cursor > 0
    <3>0. cursor # 0
      BY <2>3
    <3>1. sync'.pc = "changes" /\ ~sync'.full
      BY <2>2, <2>3, <3>0, Zenon
    <3>2. \A p \in Path : LinesOf(p, cursor, cursor)' = {}
      BY <2>1 DEF LinesOf
    <3>3. Changing'
      BY <2>1, <2>2, <2>3, <3>1, <3>2 DEF Changing
    <3> QED BY <1>0, <3>1, <3>3 DEF PlanInv, Listing, Replaying, PlansFromAnInstant
  <2>4. CASE ~(cursor > 0)
    <3>0. cursor = 0
      BY <2>1, <2>4
    <3>1. sync'.pc = "manifest" /\ sync'.full
      BY <2>2, <2>4, <3>0, Zenon
    <3> QED BY <1>0, <2>2, <3>1, ManifestInstant
  <2> QED BY <2>3, <2>4
<1>3. CASE ReadChanges
  <2>1. CASE Expired(sync.since)
    <3>1. /\ sync'.pc = "manifest" /\ sync'.full /\ sync'.after = 0
          /\ \A p \in Path : sync'.remote[p] = Gone
      BY <1>1, <1>3, <2>1 DEF ReadChanges, SyncRun
    <3> QED BY <1>0, <3>1, ManifestInstant
  <2>2. CASE ~Expired(sync.since)
    <3>1. sync.pc = "changes" /\ Follow("scan") /\ UNCHANGED cursor
      BY <1>3, <2>2 DEF ReadChanges, device
    <3>2. sync.since # 0
      BY <3>1, SyncFields DEF PlanInv, Changing, TypeOK
    <3> QED BY <1>0, <2>2, <3>1, <3>2, FollowInstant
  <2> QED BY <2>1, <2>2
<1>4. CASE ReplayChanges
  <2>1. CASE Expired(sync.since)
    <3>1. sync'.pc = "idle"
      BY <1>1, <1>4, <2>1 DEF ReplayChanges, Ends
    <3> QED BY <1>0, <3>1, IdleInstant
  <2>2. CASE ~Expired(sync.since)
    <3>1. sync.pc = "replay" /\ Follow("scan") /\ UNCHANGED cursor
      BY <1>4, <2>2 DEF ReplayChanges, device
    <3>2. sync.since = 0 => pruned = 0
      BY <3>1 DEF PlanInv, Replaying
    <3> QED BY <1>0, <2>2, <3>1, <3>2, FollowInstant
  <2> QED BY <2>1, <2>2
<1>5. CASE EndSync \/ Stop
  <2>1. sync'.pc = "idle"
    BY <1>1, <1>5 DEF EndSync, Stop, Ends
  <2> QED BY <1>0, <2>1, IdleInstant
<1> QED BY <1>2, <1>3, <1>4, <1>5

LEMMA InstantStep == TypeOK /\ PlanInv /\ [Next]_vars => PlanInv'
<1> SUFFICES ASSUME TypeOK, PlanInv, [Next]_vars PROVE PlanInv'
  OBVIOUS
<1>1. CASE Prune \/ \E p \in Path : Write(p) \/ GoBack(p) \/ Remove(p) \/ Foreign(p)
  BY <1>1, DisturbedInstant
<1>2. CASE Begin \/ ReadChanges \/ ReplayChanges \/ EndSync \/ Stop
  BY <1>2, ReadingInstant
<1>3. CASE ReadManifest
  BY <1>3, ManifestRead
<1>4. CASE Scan \/ PlanFull \/ PlanIncremental \/ EndReconcile \/ \E p \in Path : Reconcile(p)
  BY <1>4, DecidingInstant
<1>5. CASE \E p \in Path : Applying(p)
  BY <1>5, ApplyingInstant
<1>6. CASE UNCHANGED vars
  BY <1>6, PlannedInstant DEF vars, server, device, Read
<1> QED BY <1>1, <1>2, <1>3, <1>4, <1>5, <1>6 DEF Next

(* The changelog of the first state has one line for each file there is. *)
LEMMA InstantInit == Init => PlanInv
<1> SUFFICES ASSUME Init PROVE PlanInv
  OBVIOUS
<1>0. PICK count \in 0..Lesser(MaxMade, MaxSeq), synced \in BOOLEAN : \E file \in [1..count -> Path] :
    /\ \A n \in 1..count : \A m \in 1..(n - 1) : file[m] < file[n]
    /\ log = [n \in 1..count |-> [path |-> file[n], hash |-> n]] /\ pruned = 0
    /\ rows \in [Path -> {Gone} \cup {[hash |-> n, rev |-> n] : n \in 1..count}]
    /\ \A p \in Path, n \in 1..count : rows[p].rev = n <=> file[n] = p
    /\ disk = [p \in Path |-> IF synced THEN rows[p].hash ELSE 0]
    /\ base = [p \in Path |-> IF synced THEN rows[p] ELSE Gone] /\ saved = base
    /\ cursor = IF synced THEN count ELSE 0
    /\ copies = {} /\ sync = Idle
    /\ made = count /\ origins = [c \in Content |-> IF c \in 1..count THEN {c} ELSE {}]
    /\ dropped = {} /\ used = [removals |-> 0, stops |-> 0]
  BY Zenon DEF Init
<1>1. PICK file \in [1..count -> Path] :
        /\ log = [n \in 1..count |-> [path |-> file[n], hash |-> n]]
        /\ rows \in [Path -> {Gone} \cup {[hash |-> n, rev |-> n] : n \in 1..count}]
        /\ \A p \in Path, n \in 1..count : rows[p].rev = n <=> file[n] = p
        /\ sync = Idle
  BY <1>0
<1>2. count \in Nat /\ Last = count
  BY <1>1, Bounds DEF Lesser, Last
<1>3. Gone.rev = 0
  BY DEF Gone
<1>4. ASSUME NEW p \in Path
      PROVE  rows[p] = RowAt(p, count)
  <2> DEFINE ns == LinesOf(p, 0, count)
  <2>1. ns = {n \in 1..count : rows[p].rev = n}
    BY <1>1, <1>2 DEF LinesOf
  <2>2. CASE rows[p] = Gone
    <3>1. ns = {}
      BY <1>3, <2>1, <2>2
    <3> QED BY <2>2, <3>1 DEF RowAt
  <2>3. CASE rows[p] # Gone
    <3>1. PICK n \in 1..count : rows[p] = [hash |-> n, rev |-> n]
      BY <1>1, <2>3
    <3>2. ns = {n}
      BY <2>1, <3>1
    <3>3. Newest(ns) = n
      BY <3>2 DEF Newest
    <3>4. VersionAt(n) = [hash |-> n, rev |-> n]
      BY <1>1, <1>2 DEF VersionAt
    <3> QED BY <3>1, <3>2, <3>3, <3>4 DEF RowAt
  <2> QED BY <2>2, <2>3
<1>5. sync.pc = "idle"
  BY <1>1 DEF Idle
<1> QED BY <1>2, <1>4, <1>5 DEF PlanInv, RowsLogged, Changing, Listing, Replaying, PlansFromAnInstant

(* In every reachable state, what a sync plans from is the server of the one instant its
   new cursor stands for: however many pages it took, whatever other devices changed
   between them, and whatever the server pruned meanwhile. *)
THEOREM PlansAreInstants == Spec => []PlansFromAnInstant
<1>1. Init => TypeOK /\ PlanInv
  BY TypeInit, InstantInit
<1>2. TypeOK /\ PlanInv /\ [Next]_vars => TypeOK' /\ PlanInv'
  BY TypeStep, InstantStep
<1>3. PlanInv => PlansFromAnInstant
  BY DEF PlanInv
<1> QED BY <1>1, <1>2, <1>3, PTL DEF Spec

=============================================================================
