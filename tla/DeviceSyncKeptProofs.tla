----------------------- MODULE DeviceSyncKeptProofs ------------------------
(* No content is lost to a sync, no change stays hidden behind the cursor,    *)
(* and a sync that nothing disturbed leaves both sides equal, for every set   *)
(* of paths and every bound.                                                  *)
EXTENDS DeviceSyncProofs

Known == 0..made

(* What is not in the care of the vault and of the server any more *)
Safe == dropped \cup UNION {origins[k] : k \in copies}

(* All of x that still matters is part of y. *)
Under(x, y) == origins[x] \subseteq Safe \cup origins[y]

OnServer(p, x) == Under(x, rows[p].hash)

OnDisk(p, x) == Under(x, disk[p])

(* A content is part of itself, and is made of contents. *)
HistoryOK ==
  /\ \A c \in Content : origins[c] \subseteq 1..made
  /\ \A c \in 1..made : c \in origins[c]
  /\ origins[0] = {}
  /\ copies \subseteq Known

NothingLost ==
  \A c \in 1..made : c \in Safe \/ \E p \in Path : c \in origins[disk[p]] \cup origins[rows[p].hash]

(* What a line of the changelog published the server still has, or a later form of it. *)
LogOK == \A n \in 1..Last : log[n].hash \in Known /\ OnServer(log[n].path, log[n].hash)

ValuesKnown(p) ==
  /\ disk[p] \in Known /\ rows[p].hash \in Known
  /\ base[p].hash \in Known /\ saved[p].hash \in Known
  /\ sync.remote[p].hash \in Known /\ sync.local[p] \in Known
  /\ sync.plan[p].local \in Known /\ sync.plan[p].remote \in Known
  /\ sync.job[p].content \in Known /\ sync.job[p].read \in Known

(* Both sides have the baseline, or a later form of it. *)
BaseOK(p) == OnServer(p, base[p].hash) /\ OnDisk(p, base[p].hash)

SavedOK(p) == OnServer(p, saved[p].hash) /\ OnDisk(p, saved[p].hash)

RemoteOK(p) == OnServer(p, sync.remote[p].hash)

(* What the scan found is decided on later. *)
Unplanned(p) ==
  \/ sync.pc = "reconcile" /\ p \in sync.todo
  \/ sync.pc \notin {"reconcile", "apply"} /\ sync.scanned

ScanOK(p) == Unplanned(p) => OnDisk(p, sync.local[p]) /\ Under(base[p].hash, sync.local[p])

(* What a decision replaces or deletes is part of what takes its place. *)
JobOK(p) ==
  LET plan == sync.plan[p]
      job == sync.job[p]
  IN
  /\ plan.act = "download" /\ job.stage = "todo" => OnServer(p, plan.local)
  /\ plan.act = "download" /\ job.stage = "held" =>
       Under(plan.local, job.content) /\ OnServer(p, job.content)
  /\ plan.act = "conflict" /\ job.stage = "held" =>
       job.content = plan.remote /\ OnServer(p, job.content)
  /\ plan.act = "conflict" /\ job.stage = "merged" =>
       OnDisk(p, job.read) /\ Under(job.read, job.content) /\ OnServer(p, job.content)
  /\ plan.act = "conflict" /\ job.stage = "copied" =>
       origins[job.read] \subseteq Safe /\ OnServer(p, job.content)
  /\ plan.act = "upload" /\ job.stage = "todo" => OnDisk(p, plan.remote)
  /\ plan.act = "upload" /\ job.stage = "held" =>
       Under(plan.remote, job.content) /\ OnDisk(p, job.content)
  /\ plan.act = "delete" /\ job.stage \in {"todo", "held"} => origins[plan.remote] \subseteq Safe

PathOK(p) == ValuesKnown(p) /\ BaseOK(p) /\ SavedOK(p) /\ RemoteOK(p) /\ ScanOK(p) /\ JobOK(p)

KeptInv == HistoryOK /\ NothingLost /\ LogOK /\ \A p \in Path : PathOK(p)

-----------------------------------------------------------------------------
(* What every step does to the contents: none is forgotten, and each file is replaced by *)
(* one that contains it, unless what it loses is safe.                                   *)
Grows ==
  /\ made <= made' /\ \A c \in Known : origins'[c] = origins[c]
  /\ Safe \subseteq Safe'
  /\ \A p \in Path : origins[disk[p]] \subseteq Safe' \cup origins'[disk'[p]]
  /\ \A p \in Path : origins[rows[p].hash] \subseteq Safe' \cup origins'[rows'[p].hash]

LEMMA MadeTyped == TypeOK => made \in Nat /\ Known \subseteq Content /\ 0 \in Known /\ Last \in Nat
<1> SUFFICES ASSUME TypeOK PROVE made \in Nat /\ Known \subseteq Content /\ 0 \in Known /\ Last \in Nat
  OBVIOUS
<1>1. made \in 0..MaxMade
  BY DEF TypeOK, Content
<1> QED BY <1>1, Bounds, SyncFields DEF Content, Known

(* What was part of another stays part of it. *)
LEMMA Stays ==
  ASSUME TypeOK, Grows, made' \in Nat, NEW x \in Known
  PROVE  /\ x \in Known'
         /\ \A p \in Path : OnServer(p, x) => origins'[x] \subseteq Safe' \cup origins'[rows'[p].hash]
         /\ \A p \in Path : OnDisk(p, x) => origins'[x] \subseteq Safe' \cup origins'[disk'[p]]
         /\ \A y \in Known : Under(x, y) => origins'[x] \subseteq Safe' \cup origins'[y]
         /\ origins[x] \subseteq Safe => origins'[x] \subseteq Safe'
<1>1. made \in Nat /\ made <= made' /\ origins'[x] = origins[x] /\ Safe \subseteq Safe'
  BY MadeTyped DEF Grows
<1>2. x \in Known'
  BY <1>1 DEF Known
<1>3. \A p \in Path : OnServer(p, x) => origins'[x] \subseteq Safe' \cup origins'[rows'[p].hash]
  BY <1>1 DEF Grows, OnServer, Under
<1>4. \A p \in Path : OnDisk(p, x) => origins'[x] \subseteq Safe' \cup origins'[disk'[p]]
  BY <1>1 DEF Grows, OnDisk, Under
<1>5. \A y \in Known : Under(x, y) => origins'[x] \subseteq Safe' \cup origins'[y]
  BY <1>1 DEF Grows, Under
<1> QED BY <1>1, <1>2, <1>3, <1>4, <1>5

LEMMA LinePath == ASSUME TypeOK, NEW n \in 1..Last PROVE log[n].path \in Path /\ log[n].hash \in Content
<1> DEFINE Line == [path : Path, hash : Content]
<1>1. log \in Seq(Line) /\ n \in 1..Len(log)
  BY DEF TypeOK, Last
<1> HIDE DEF Line
<1>2. log[n] \in Line
  BY <1>1
<1> QED BY <1>2 DEF Line

LEMMA LogStays ==
  ASSUME TypeOK, KeptInv, Grows, made' \in Nat, UNCHANGED log
  PROVE  LogOK'
<1> SUFFICES ASSUME NEW n \in 1..Last
             PROVE  /\ log[n].hash \in Known'
                    /\ origins'[log[n].hash] \subseteq Safe' \cup origins'[rows'[log[n].path].hash]
  BY DEF LogOK, OnServer, Under, Last
<1>1. log[n].hash \in Known /\ OnServer(log[n].path, log[n].hash)
  BY DEF KeptInv, LogOK
<1> QED BY <1>1, LinePath, Stays

LEMMA BaseStays ==
  ASSUME TypeOK, KeptInv, Grows, made' \in Nat, NEW p \in Path
  PROVE  /\ base'[p].hash = base[p].hash => BaseOK(p)' /\ base'[p].hash \in Known'
         /\ saved'[p].hash = saved[p].hash => SavedOK(p)' /\ saved'[p].hash \in Known'
         /\ saved'[p].hash = base[p].hash => SavedOK(p)' /\ saved'[p].hash \in Known'
         /\ base'[p].hash = saved[p].hash => BaseOK(p)' /\ base'[p].hash \in Known'
<1>1. BaseOK(p) /\ SavedOK(p) /\ base[p].hash \in Known /\ saved[p].hash \in Known
  BY DEF KeptInv, PathOK, ValuesKnown
<1> QED BY <1>1, Stays DEF BaseOK, SavedOK, OnServer, OnDisk, Under

LEMMA RemoteStays ==
  ASSUME TypeOK, KeptInv, Grows, made' \in Nat, NEW p \in Path, sync'.remote[p] = sync.remote[p]
  PROVE  RemoteOK(p)' /\ sync'.remote[p].hash \in Known'
<1>1. RemoteOK(p) /\ sync.remote[p].hash \in Known
  BY DEF KeptInv, PathOK, ValuesKnown
<1> QED BY <1>1, Stays DEF RemoteOK, OnServer, Under

LEMMA ScanStays ==
  ASSUME TypeOK, KeptInv, Grows, made' \in Nat, NEW p \in Path,
         sync'.local[p] = sync.local[p], base'[p].hash = base[p].hash, Unplanned(p)' => Unplanned(p)
  PROVE  ScanOK(p)' /\ sync'.local[p] \in Known'
<1>1. ScanOK(p) /\ sync.local[p] \in Known /\ base[p].hash \in Known
  BY DEF KeptInv, PathOK, ValuesKnown
<1> QED BY <1>1, Stays DEF ScanOK, OnDisk, Under

LEMMA JobStays ==
  ASSUME TypeOK, KeptInv, Grows, made' \in Nat, NEW p \in Path,
         sync'.plan[p] = sync.plan[p], sync'.job[p] = sync.job[p]
  PROVE  /\ JobOK(p)'
         /\ sync'.plan[p].local \in Known' /\ sync'.plan[p].remote \in Known'
         /\ sync'.job[p].content \in Known' /\ sync'.job[p].read \in Known'
<1>1. /\ JobOK(p) /\ sync.plan[p].local \in Known /\ sync.plan[p].remote \in Known
      /\ sync.job[p].content \in Known /\ sync.job[p].read \in Known
  BY DEF KeptInv, PathOK, ValuesKnown
<1> QED BY <1>1, Stays DEF JobOK, OnServer, OnDisk, Under

(* The line of a publication is what the server has. *)
LEMMA PublishedKept ==
  ASSUME TypeOK, KeptInv, Grows, made' \in Nat, NEW p \in Path, NEW c \in Content, c <= made', Publish(p, c)
  PROVE  LogOK'
<1>1. /\ Last' = Last + 1 /\ rows'[p].hash = c /\ log'[Last + 1] = [path |-> p, hash |-> c]
      /\ \A n \in 1..Last : log'[n] = log[n]
  BY Publishes
<1> SUFFICES ASSUME NEW n \in 1..(Last + 1)
             PROVE  /\ log'[n].hash \in Known'
                    /\ origins'[log'[n].hash] \subseteq Safe' \cup origins'[rows'[log'[n].path].hash]
  BY <1>1 DEF LogOK, OnServer, Under
<1>2. CASE n = Last + 1
  BY <1>1, <1>2 DEF Known, Content
<1>3. CASE n \in 1..Last
  <2>1. log[n].hash \in Known /\ OnServer(log[n].path, log[n].hash)
    BY <1>3 DEF KeptInv, LogOK
  <2> QED BY <1>1, <1>3, <2>1, LinePath, Stays
<1> QED BY <1>2, <1>3, MadeTyped

-----------------------------------------------------------------------------
(* The history. *)

LEMMA LostStays ==
  ASSUME TypeOK, KeptInv, Grows, made' \in Nat,
         \A c \in (1..made') \ (1..made) :
           c \in Safe' \/ \E p \in Path : c \in origins'[disk'[p]] \cup origins'[rows'[p].hash]
  PROVE  NothingLost'
<1> SUFFICES ASSUME NEW c \in 1..made
             PROVE  c \in Safe' \/ \E p \in Path : c \in origins'[disk'[p]] \cup origins'[rows'[p].hash]
  BY DEF NothingLost
<1>1. CASE c \in Safe
  BY <1>1 DEF Grows
<1>2. CASE \E p \in Path : c \in origins[disk[p]] \cup origins[rows[p].hash]
  BY <1>2 DEF Grows
<1> QED BY <1>1, <1>2 DEF KeptInv, NothingLost

(* Nothing that is kept changes. *)
LEMMA Still ==
  ASSUME TypeOK, KeptInv, UNCHANGED <<rows, disk, copies, made, origins, dropped>>
  PROVE  Grows /\ HistoryOK' /\ NothingLost' /\ made' \in Nat
<1>1. made' = made /\ made \in Nat /\ Safe' = Safe
  BY MadeTyped DEF Safe
<1>2. Grows
  BY <1>1 DEF Grows
<1>3. HistoryOK'
  BY <1>1 DEF KeptInv, HistoryOK, Known
<1> QED BY <1>1, <1>2, <1>3 DEF KeptInv, NothingLost

(* A content is made of contents, and what is kept aside stays there. *)
LEMMA MakeKept ==
  ASSUME TypeOK, KeptInv, NEW from \in SUBSET Known, Make(from), UNCHANGED <<copies, dropped>>
  PROVE  /\ HistoryOK' /\ Safe \subseteq Safe'
         /\ made \in Nat /\ made' = made + 1 /\ made' \in Nat /\ made' \in Content
         /\ \A c \in Known : origins'[c] = origins[c]
         /\ origins'[made'] = {made'} \cup UNION {origins[c] : c \in from}
<1>1. /\ made \in Nat /\ made' = made + 1 /\ made' \in Content /\ made' \in Nat
      /\ origins'[made + 1] = {made + 1} \cup UNION {origins[c] : c \in from}
      /\ \A c \in Content \ {made + 1} : origins'[c] = origins[c]
  BY MadeTyped, Makes
<1>2. /\ \A c \in Content : origins[c] \subseteq 1..made
      /\ \A c \in 1..made : c \in origins[c]
      /\ origins[0] = {} /\ copies \subseteq Known /\ Known \subseteq Content
  BY MadeTyped DEF KeptInv, HistoryOK
<1>3. \A c \in Known : origins'[c] = origins[c]
  BY <1>1, <1>2 DEF Known
<1>4. Safe \subseteq Safe'
  BY <1>2, <1>3 DEF Safe
<1>5. UNION {origins[c] : c \in from} \subseteq 1..made
  BY <1>2
<1>6. \A c \in Content : origins'[c] \subseteq 1..made'
  BY <1>1, <1>2, <1>5
<1>7. \A c \in 1..made' : c \in origins'[c]
  <2> SUFFICES ASSUME NEW c \in 1..made' PROVE c \in origins'[c]
    OBVIOUS
  <2>1. CASE c = made + 1
    BY <1>1, <2>1
  <2>2. CASE c \in 1..made
    BY <1>2, <1>3, <2>2 DEF Known
  <2> QED BY <1>1, <2>1, <2>2
<1>8. HistoryOK'
  BY <1>1, <1>2, <1>3, <1>6, <1>7, MadeTyped DEF HistoryOK, Known
<1> QED BY <1>1, <1>3, <1>4, <1>8

(* One file of the vault is replaced, by a step that leaves the server and the contents alone. *)
LEMMA DiskReplaced ==
  ASSUME TypeOK, KeptInv, UNCHANGED <<rows, made, origins>>, NEW p \in Path, NEW c \in Content,
         disk' = [disk EXCEPT ![p] = c], copies \subseteq copies', copies' \subseteq Known,
         dropped \subseteq dropped', origins[disk[p]] \subseteq Safe' \cup origins[c]
  PROVE  Grows /\ HistoryOK' /\ NothingLost' /\ made' \in Nat
<1>1. made' = made /\ made \in Nat /\ Safe \subseteq Safe'
  BY MadeTyped DEF Safe
<1>2. Grows
  BY <1>1 DEF Grows, TypeOK
<1>3. HistoryOK'
  BY <1>1 DEF KeptInv, HistoryOK, Known
<1> QED BY <1>1, <1>2, <1>3, LostStays

(* One row of the server is replaced, by a step that leaves the vault and the contents alone. *)
LEMMA RowReplaced ==
  ASSUME TypeOK, KeptInv, UNCHANGED <<disk, copies, made, origins>>,
         NEW p \in Path, NEW c \in Known, Publish(p, c), dropped \subseteq dropped',
         origins[rows[p].hash] \subseteq Safe' \cup origins[c]
  PROVE  Grows /\ HistoryOK' /\ NothingLost' /\ made' \in Nat /\ LogOK'
<1>1. made' = made /\ made \in Nat /\ Safe \subseteq Safe' /\ c \in Content
  BY MadeTyped DEF Safe
<1>2. rows'[p].hash = c /\ \A q \in Path \ {p} : rows'[q] = rows[q]
  BY <1>1, Publishes
<1>3. Grows
  BY <1>1, <1>2 DEF Grows
<1>4. HistoryOK'
  BY <1>1 DEF KeptInv, HistoryOK, Known
<1>5. NothingLost'
  BY <1>1, <1>3, LostStays
<1>6. c <= made'
  BY <1>1 DEF Known
<1>7. LogOK'
  BY <1>1, <1>3, <1>6, PublishedKept
<1> QED BY <1>1, <1>3, <1>4, <1>5, <1>7

-----------------------------------------------------------------------------
(* A path that a step leaves alone, or decides on. *)

LEMMA PathStays ==
  ASSUME TypeOK, KeptInv, Grows, made' \in Nat, NEW p \in Path,
         disk'[p] \in Known', rows'[p].hash \in Known', base'[p] = base[p], saved'[p] = saved[p],
         sync'.remote[p] = sync.remote[p], sync'.local[p] = sync.local[p],
         sync'.plan[p] = sync.plan[p], sync'.job[p] = sync.job[p], Unplanned(p)' => Unplanned(p)
  PROVE  PathOK(p)'
<1>1. BaseOK(p)' /\ base'[p].hash \in Known' /\ SavedOK(p)' /\ saved'[p].hash \in Known'
  BY BaseStays
<1> QED BY <1>1, RemoteStays, ScanStays, JobStays DEF PathOK, ValuesKnown

(* Both sides of a path are what they were, or a content that is known. *)
Elsewhere(p) ==
  \A q \in Path \ {p} :
    /\ disk'[q] = disk[q] /\ rows'[q] = rows[q] /\ base'[q] = base[q]
    /\ sync'.plan[q] = sync.plan[q] /\ sync'.job[q] = sync.job[q]

(* A step that applies the decision of p *)
LEMMA AppliesKept ==
  ASSUME TypeOK, KeptInv, Grows, made' \in Nat, HistoryOK', NothingLost', LogOK',
         NEW p \in Path, sync.pc = "apply", UNCHANGED <<Apart, saved>>, Elsewhere(p),
         disk'[p] \in Known', rows'[p].hash \in Known', base'[p].hash \in Known', BaseOK(p)',
         sync'.plan[p].local \in Known', sync'.plan[p].remote \in Known',
         sync'.job[p].content \in Known', sync'.job[p].read \in Known', JobOK(p)'
  PROVE  KeptInv'
<1>1. /\ sync'.pc = "apply" /\ sync'.remote = sync.remote /\ sync'.local = sync.local
      /\ saved' = saved
  BY DEF Apart
<1>2. \A q \in Path : ~Unplanned(q)'
  BY <1>1 DEF Unplanned
<1>3. ASSUME NEW q \in Path \ {p} PROVE PathOK(q)'
  <2>1. disk[q] \in Known' /\ rows[q].hash \in Known'
    BY Stays DEF KeptInv, PathOK, ValuesKnown
  <2> QED BY <1>1, <1>2, <2>1, PathStays DEF Elsewhere
<1>4. PathOK(p)'
  <2>1. saved[p].hash \in Known /\ sync.local[p] \in Known
    BY DEF KeptInv, PathOK, ValuesKnown
  <2>2. SavedOK(p)' /\ saved'[p].hash \in Known' /\ sync'.local[p] \in Known'
    BY <1>1, <2>1, BaseStays, Stays
  <2> QED BY <1>1, <1>2, <2>2, RemoteStays DEF PathOK, ValuesKnown, ScanOK
<1> QED BY <1>3, <1>4 DEF KeptInv

-----------------------------------------------------------------------------
(* Decisions. *)

(* What a decision of p replaces or deletes is kept, when both sides have the baseline. *)
LEMMA DecisionKept ==
  ASSUME TypeOK, KeptInv, NEW p \in Path, NEW l \in Known, NEW r \in Version, NEW b \in Version,
         OnServer(p, b.hash), OnDisk(p, b.hash), Under(b.hash, l)
  PROVE  LET plan == Decision(l, r, b) IN
         /\ plan.local = l /\ plan.remote = r.hash
         /\ plan.act = "download" => OnServer(p, plan.local)
         /\ plan.act = "upload" => OnDisk(p, plan.remote)
         /\ plan.act = "delete" => origins[plan.remote] \subseteq Safe /\ plan.local = 0
<1>1. origins[0] = {}
  BY DEF KeptInv, HistoryOK
<1> QED BY <1>1 DEF Decision, OnServer, OnDisk, Under

(* The baseline that a decision leaves is on both sides. *)
LEMMA BaselineKept ==
  ASSUME TypeOK, KeptInv, NEW p \in Path, NEW l \in Known, NEW r \in Version, NEW b \in Version,
         OnServer(p, b.hash), OnDisk(p, b.hash), OnServer(p, r.hash), OnDisk(p, l),
         b.hash \in Known, r.hash \in Known
  PROVE  LET agreed == Agreed(l, r, b) IN
         agreed.hash \in Known /\ OnServer(p, agreed.hash) /\ OnDisk(p, agreed.hash)
<1>1. origins[0] = {} /\ Gone.hash = 0 /\ 0 \in Known
  BY MadeTyped DEF KeptInv, HistoryOK, Gone
<1>2. OnServer(p, 0) /\ OnDisk(p, 0)
  BY <1>1 DEF OnServer, OnDisk, Under
<1> QED BY <1>1, <1>2 DEF Agreed

(* Nothing is under way on a path that is done, and nothing is held when it is planned. *)
LEMMA StartsKept ==
  ASSUME TypeOK, NEW t \in 0..MaxTries
  PROVE  /\ Done.stage = "done" /\ Done.content = 0 /\ Done.read = 0
         /\ Todo(t).stage = "todo" /\ Todo(t).content = 0 /\ Todo(t).read = 0
BY DEF Done, Todo

(* The fields that are known of a path *)
LEMMA PathKnown ==
  ASSUME TypeOK, KeptInv, NEW p \in Path
  PROVE  ValuesKnown(p) /\ BaseOK(p) /\ JobOK(p) /\ origins[0] = {} /\ 0 \in Known /\ origins[disk[p]] \subseteq 1..made
<1>1. disk[p] \in Content
  BY PathTyped
<1> QED BY <1>1, MadeTyped DEF KeptInv, PathOK, HistoryOK

(* The progress of one path *)
LEMMA MovedTo ==
  ASSUME TypeOK, NEW p \in Path, NEW j \in Job, Move(p, j)
  PROVE  /\ UNCHANGED Apart /\ sync'.plan = sync.plan /\ sync'.job[p] = j
         /\ \A q \in Path \ {p} : sync'.job[q] = sync.job[q]
<1>1. sync \in SyncRun /\ sync.job \in [Path -> Job] /\ sync' = [sync EXCEPT !.job[p] = j]
  BY SyncFields DEF TypeOK, Move
<1> QED BY <1>1 DEF SyncRun, Apart

LEMMA Ended ==
  ASSUME TypeOK, NEW p \in Path, Finish(p) \/ Fail(p)
  PROVE  /\ UNCHANGED Apart /\ sync'.plan = sync.plan /\ sync'.job[p] = Done
         /\ \A q \in Path \ {p} : sync'.job[q] = sync.job[q]
<1>1. CASE Finish(p)
  BY <1>1, NothingTyped, MovedTo DEF Finish
<1>2. CASE Fail(p)
  <2>1. sync \in SyncRun /\ sync.job \in [Path -> Job] /\ sync' = [sync EXCEPT !.job[p] = Done, !.failed = TRUE]
    BY <1>2, SyncFields DEF TypeOK, Fail
  <2> QED BY <2>1 DEF SyncRun, Apart
<1> QED BY <1>1, <1>2

LEMMA Replanned ==
  ASSUME TypeOK, NEW p \in Path, NEW d \in Plan, NEW j \in Job,
         \/ sync' = [sync EXCEPT !.plan[p] = d, !.job[p] = j]
         \/ sync' = [sync EXCEPT !.plan[p] = d] /\ sync.job[p] = j
  PROVE  /\ UNCHANGED Apart /\ sync'.plan[p] = d /\ sync'.job[p] = j
         /\ \A q \in Path \ {p} : sync'.plan[q] = sync.plan[q] /\ sync'.job[q] = sync.job[q]
<1>1. sync \in SyncRun /\ sync.plan \in [Path -> Plan] /\ sync.job \in [Path -> Job]
  BY SyncFields DEF TypeOK
<1>2. CASE sync' = [sync EXCEPT !.plan[p] = d, !.job[p] = j]
  BY <1>1, <1>2 DEF SyncRun, Apart
<1>3. CASE sync' = [sync EXCEPT !.plan[p] = d] /\ sync.job[p] = j
  BY <1>1, <1>3 DEF SyncRun, Apart
<1> QED BY <1>2, <1>3

(* The path is planned, and nothing is held for it. *)
LEMMA PlannedKept ==
  ASSUME TypeOK, KeptInv, NEW p \in Path, UNCHANGED <<rows, disk, copies, made, origins, dropped>>,
         sync'.job[p] = Done \/ \E t \in 0..MaxTries : sync'.job[p] = Todo(t),
         LET plan == sync'.plan[p] IN
         /\ plan.act = "download" => OnServer(p, plan.local)
         /\ plan.act = "upload" => OnDisk(p, plan.remote)
         /\ plan.act = "delete" => origins[plan.remote] \subseteq Safe
  PROVE  JobOK(p)' /\ sync'.job[p].content = 0 /\ sync'.job[p].read = 0
<1>1. /\ sync'.job[p].stage \in {"todo", "done"} /\ sync'.job[p].content = 0 /\ sync'.job[p].read = 0
  BY StartsKept, Bounds
<1> QED BY <1>1 DEF JobOK, OnServer, OnDisk, Under, Safe

(* The decision of a path that lost a race *)
LEMMA LosesKept ==
  ASSUME TypeOK, KeptInv, NEW p \in Path, NEW b \in Version, AgainFrom(p, b) \/ LosesFrom(p, b),
         OnServer(p, b.hash), OnDisk(p, b.hash), b.hash \in Known, sync.pc = "apply",
         UNCHANGED <<rows, log, disk, saved, copies, history>>
  PROVE  KeptInv'
<1>0. UNCHANGED <<made, origins, dropped>>
  BY DEF history
<1>1. Grows /\ HistoryOK' /\ NothingLost' /\ made' \in Nat
  BY <1>0, Still
<1>2. LogOK'
  BY <1>1, LogStays
<1>3. /\ disk[p] \in Known /\ rows[p].hash \in Known /\ origins[0] = {} /\ 0 \in Known
      /\ rows[p] \in Version /\ base \in [Path -> Version]
  BY PathKnown, PathTyped DEF ValuesKnown, TypeOK
<1>4. OnServer(p, rows[p].hash) /\ OnDisk(p, disk[p]) /\ Under(b.hash, disk[p])
  BY DEF OnServer, OnDisk, Under
<1>5. CASE Fail(p) /\ SetBase(p, b)
  <2>1. base' = [base EXCEPT ![p] = b]
    BY <1>5 DEF SetBase
  <2>2. UNCHANGED Apart /\ Elsewhere(p) /\ sync'.plan[p] = sync.plan[p] /\ sync'.job[p] = Done
    BY <1>3, <1>5, <2>1, Ended DEF Elsewhere
  <2>3. JobOK(p)' /\ Done.content = 0 /\ Done.read = 0
    BY <2>2, StartsKept, Bounds DEF JobOK
  <2>4. BaseOK(p)' /\ base'[p].hash \in Known'
    BY <1>0, <1>3, <2>1 DEF BaseOK, OnServer, OnDisk, Under, Safe, Known
  <2>5. sync.plan[p].local \in Known /\ sync.plan[p].remote \in Known /\ Known' = Known
    BY <1>0, PathKnown DEF ValuesKnown, Known
  <2> QED BY <1>1, <1>2, <1>3, <2>2, <2>3, <2>4, <2>5, AppliesKept
<1>6. CASE AgainFrom(p, b) /\ ~(sync.job[p].tries + 1 > MaxTries)
  <2> DEFINE d == Decision(disk[p], rows[p], b)
             agreed == Agreed(disk[p], rows[p], b)
             j == IF d.act = "none" THEN Done ELSE Todo(sync.job[p].tries + 1)
  <2>1. base' = [base EXCEPT ![p] = agreed] /\ sync' = [sync EXCEPT !.plan[p] = d, !.job[p] = j]
    BY <1>6 DEF AgainFrom, SetBase
  <2>2. sync.job[p].tries + 1 \in 0..MaxTries
    BY <1>6, PathTyped, Bounds DEF Job
  <2>3. d \in Plan /\ agreed \in Version /\ j \in Job
    BY <1>3, <2>2, DecisionTyped, NothingTyped, PathTyped
  <2>4. /\ d.local = disk[p] /\ d.remote = rows[p].hash
        /\ d.act = "download" => OnServer(p, d.local)
        /\ d.act = "upload" => OnDisk(p, d.remote)
        /\ d.act = "delete" => origins[d.remote] \subseteq Safe
    BY <1>3, <1>4, DecisionKept
  <2>5. agreed.hash \in Known /\ OnServer(p, agreed.hash) /\ OnDisk(p, agreed.hash)
    BY <1>3, <1>4, BaselineKept
  <2>6. j = Done \/ \E t \in 0..MaxTries : j = Todo(t)
    BY <2>2
  <2> HIDE DEF d, agreed, j
  <2>7. UNCHANGED Apart /\ Elsewhere(p) /\ sync'.plan[p] = d /\ sync'.job[p] = j
    <3>1. /\ UNCHANGED Apart /\ sync'.plan[p] = d /\ sync'.job[p] = j
          /\ \A q \in Path \ {p} : sync'.plan[q] = sync.plan[q] /\ sync'.job[q] = sync.job[q]
      BY <2>1, <2>3, Replanned
    <3>2. \A q \in Path \ {p} : base'[q] = base[q]
      BY <1>3, <2>1
    <3> QED BY <3>1, <3>2 DEF Elsewhere
  <2>8. JobOK(p)' /\ sync'.job[p].content = 0 /\ sync'.job[p].read = 0
    BY <1>0, <2>4, <2>6, <2>7, PlannedKept
  <2>9. BaseOK(p)' /\ base'[p].hash \in Known'
    BY <1>0, <1>3, <2>1, <2>3, <2>5 DEF BaseOK, OnServer, OnDisk, Under, Safe, Known
  <2>10. Known' = Known
    BY <1>0 DEF Known
  <2> QED BY <1>1, <1>2, <1>3, <2>4, <2>7, <2>8, <2>9, <2>10, AppliesKept
<1> QED BY <1>5, <1>6 DEF AgainFrom, LosesFrom

-----------------------------------------------------------------------------
(* Steps that apply a decision and leave the vault and the server alone. *)

LEMMA StillKept ==
  ASSUME TypeOK, KeptInv, UNCHANGED <<rows, log, disk, copies, history>>
  PROVE  /\ Grows /\ HistoryOK' /\ NothingLost' /\ LogOK' /\ made' \in Nat
         /\ Known' = Known /\ Safe' = Safe /\ origins' = origins
<1>1. UNCHANGED <<made, origins, dropped>>
  BY DEF history
<1>2. Grows /\ HistoryOK' /\ NothingLost' /\ made' \in Nat
  BY <1>1, Still
<1> QED BY <1>1, <1>2, LogStays DEF Known, Safe

(* Only the baseline, the plan and the progress of p change. *)
LEMMA SettlesKept ==
  ASSUME TypeOK, KeptInv, NEW p \in Path, sync.pc = "apply",
         UNCHANGED <<rows, log, disk, saved, copies, history, Apart>>,
         NEW v \in Version, v.hash \in Known, OnServer(p, v.hash), OnDisk(p, v.hash),
         base' \in {base, [base EXCEPT ![p] = v]},
         \A q \in Path \ {p} : sync'.plan[q] = sync.plan[q] /\ sync'.job[q] = sync.job[q],
         sync'.plan[p].local \in Known, sync'.plan[p].remote \in Known,
         sync'.job[p].content \in Known, sync'.job[p].read \in Known, JobOK(p)'
  PROVE  KeptInv'
<1>1. /\ Grows /\ HistoryOK' /\ NothingLost' /\ LogOK' /\ made' \in Nat
      /\ Known' = Known /\ Safe' = Safe /\ origins' = origins
  BY StillKept
<1>2. base \in [Path -> Version] /\ ValuesKnown(p) /\ BaseOK(p)
  BY PathKnown DEF TypeOK
<1>3. base'[p] \in {base[p], v} /\ \A q \in Path \ {p} : base'[q] = base[q]
  BY <1>2
<1>4. BaseOK(p)' /\ base'[p].hash \in Known
  BY <1>1, <1>2, <1>3 DEF BaseOK, ValuesKnown, OnServer, OnDisk, Under
<1>5. Elsewhere(p)
  BY <1>3 DEF Elsewhere
<1> QED BY <1>1, <1>2, <1>4, <1>5, AppliesKept DEF ValuesKnown

(* The path is done, with a baseline that both sides have. *)
LEMMA EndedKept ==
  ASSUME TypeOK, KeptInv, NEW p \in Path, sync.pc = "apply", Finish(p) \/ Fail(p),
         UNCHANGED <<rows, log, disk, saved, copies, history>>,
         NEW v \in Version, v.hash \in Known, OnServer(p, v.hash), OnDisk(p, v.hash),
         base' \in {base, [base EXCEPT ![p] = v]}
  PROVE  KeptInv'
<1>1. /\ UNCHANGED Apart /\ sync'.plan = sync.plan /\ sync'.job[p] = Done
      /\ \A q \in Path \ {p} : sync'.job[q] = sync.job[q]
  BY Ended
<1>2. JobOK(p)' /\ Done.content = 0 /\ Done.read = 0
  BY <1>1, StartsKept, Bounds DEF JobOK
<1>3. ValuesKnown(p) /\ 0 \in Known
  BY PathKnown
<1> QED BY <1>1, <1>2, <1>3, SettlesKept DEF ValuesKnown

(* The progress of the path changes. *)
LEMMA MovedKept ==
  ASSUME TypeOK, KeptInv, NEW p \in Path, sync.pc = "apply", NEW j \in Job, Move(p, j),
         UNCHANGED <<rows, log, disk, base, saved, copies, history>>,
         j.content \in Known, j.read \in Known, JobOK(p)'
  PROVE  KeptInv'
<1>1. /\ UNCHANGED Apart /\ sync'.plan = sync.plan /\ sync'.job[p] = j
      /\ \A q \in Path \ {p} : sync'.job[q] = sync.job[q]
  BY MovedTo
<1>2. ValuesKnown(p) /\ BaseOK(p) /\ base[p] \in Version
  BY PathKnown, PathTyped
<1> QED BY <1>1, <1>2, SettlesKept DEF ValuesKnown, BaseOK

(* The baseline that the path has *)
LEMMA OwnLosesKept ==
  ASSUME TypeOK, KeptInv, NEW p \in Path, Loses(p) \/ Again(p), sync.pc = "apply",
         UNCHANGED <<rows, log, disk, saved, copies, history>>
  PROVE  KeptInv'
<1>1. ValuesKnown(p) /\ BaseOK(p) /\ base[p] \in Version
  BY PathKnown, PathTyped
<1> QED BY <1>1, LosesKept DEF Loses, Again, ValuesKnown, BaseOK

LEMMA FetchKept ==
  ASSUME TypeOK, KeptInv, NEW p \in Path, Fetch(p)
  PROVE  KeptInv'
<1>1. /\ sync.pc = "apply" /\ sync.job[p].stage = "todo"
      /\ sync.plan[p].act \in {"download", "conflict"}
      /\ UNCHANGED <<rows, log, disk, saved, copies, history>>
  BY DEF Fetch, At, server
<1>2. CASE Loses(p)
  BY <1>1, <1>2, OwnLosesKept
<1>3. CASE /\ rows[p].hash = sync.plan[p].remote /\ UNCHANGED base
           /\ Move(p, [sync.job[p] EXCEPT !.stage = "held", !.content = rows[p].hash, !.rev = rows[p].rev])
  <2> DEFINE j == [sync.job[p] EXCEPT !.stage = "held", !.content = rows[p].hash, !.rev = rows[p].rev]
  <2>1. j \in Job /\ j.stage = "held" /\ j.content = rows[p].hash /\ j.read = sync.job[p].read
    BY PathTyped DEF Job
  <2> HIDE DEF j
  <2>2. Move(p, j)
    BY <1>3 DEF j
  <2>3. sync'.job[p] = j /\ sync'.plan[p] = sync.plan[p]
    BY <2>1, <2>2, MovedTo
  <2>4. JobOK(p) /\ ValuesKnown(p)
    BY PathKnown
  <2>5. JobOK(p)'
    BY <1>1, <1>3, <2>1, <2>3, <2>4, StillKept DEF JobOK, OnServer, OnDisk, Under
  <2> QED BY <1>1, <1>3, <2>1, <2>2, <2>4, <2>5, MovedKept DEF ValuesKnown
<1> QED BY <1>2, <1>3 DEF Fetch

LEMMA PrepareKept ==
  ASSUME TypeOK, KeptInv, NEW p \in Path, Prepare(p)
  PROVE  KeptInv'
<1>1. /\ sync.pc = "apply" /\ sync.job[p].stage = "todo" /\ sync.plan[p].act = "upload"
      /\ UNCHANGED <<rows, log, disk, saved, copies, history>>
  BY DEF Prepare, At, server
<1>2. JobOK(p) /\ ValuesKnown(p) /\ BaseOK(p) /\ base[p] \in Version
  BY PathKnown, PathTyped
<1>3. CASE Loses(p)
  BY <1>1, <1>3, OwnLosesKept
<1>4. CASE Finish(p) /\ UNCHANGED base
  BY <1>1, <1>2, <1>4, EndedKept DEF ValuesKnown, BaseOK
<1>5. CASE UNCHANGED base /\ Move(p, [sync.job[p] EXCEPT !.stage = "held", !.content = disk[p]])
  <2> DEFINE j == [sync.job[p] EXCEPT !.stage = "held", !.content = disk[p]]
  <2>1. j \in Job /\ j.stage = "held" /\ j.content = disk[p] /\ j.read = sync.job[p].read
    BY PathTyped DEF Job
  <2> HIDE DEF j
  <2>2. Move(p, j)
    BY <1>5 DEF j
  <2>3. sync'.job[p] = j /\ sync'.plan[p] = sync.plan[p]
    BY <2>1, <2>2, MovedTo
  <2>4. JobOK(p)'
    BY <1>1, <1>2, <1>5, <2>1, <2>3, StillKept DEF JobOK, OnServer, OnDisk, Under
  <2> QED BY <1>1, <1>2, <1>5, <2>1, <2>2, <2>4, MovedKept DEF ValuesKnown
<1> QED BY <1>3, <1>4, <1>5 DEF Prepare

(* A path with no content has nothing to keep. *)
LEMMA NothingKept ==
  ASSUME TypeOK, KeptInv, NEW p \in Path
  PROVE  Gone \in Version /\ Gone.hash = 0 /\ 0 \in Known /\ OnServer(p, 0) /\ OnDisk(p, 0)
<1>1. origins[0] = {} /\ 0 \in Known
  BY PathKnown
<1> QED BY <1>1, NothingTyped DEF Gone, OnServer, OnDisk, Under

LEMMA UploadedTo ==
  ASSUME NEW c \in Content
  PROVE  /\ UploadOver(c) \in Plan /\ UploadOver(c).act = "upload"
         /\ UploadOver(c).remote = c /\ UploadOver(c).local = 0
<1>1. NoPlan \in Plan /\ NoPlan.local = 0
  BY NothingTyped DEF NoPlan
<1> QED BY <1>1, UploadTyped DEF UploadOver, Plan

LEMMA HashLocalKept ==
  ASSUME TypeOK, KeptInv, NEW p \in Path, HashLocal(p)
  PROVE  KeptInv'
<1>1. /\ sync.pc = "apply" /\ sync.job[p].stage = "todo" /\ sync.plan[p].act = "deleteLocal"
      /\ UNCHANGED <<rows, log, disk, saved, copies, history>>
  BY DEF HashLocal, At, server
<1>2. ValuesKnown(p) /\ BaseOK(p) /\ base[p] \in Version
  BY PathKnown, PathTyped
<1>3. CASE Finish(p) /\ SetBase(p, Gone)
  BY <1>1, <1>3, NothingKept, EndedKept DEF SetBase
<1>4. CASE UNCHANGED base /\ sync' = [sync EXCEPT !.plan[p] = UploadOver(0)]
  <2>1. UploadOver(0) \in Plan /\ UploadOver(0).act = "upload" /\ UploadOver(0).remote = 0 /\ UploadOver(0).local = 0
    BY UploadedTo, Bounds DEF Content
  <2>2. /\ UNCHANGED Apart /\ sync'.plan[p] = UploadOver(0) /\ sync'.job[p] = sync.job[p]
        /\ \A q \in Path \ {p} : sync'.plan[q] = sync.plan[q] /\ sync'.job[q] = sync.job[q]
    BY <1>4, <2>1, PathTyped, Replanned
  <2>3. JobOK(p)'
    BY <1>1, <1>4, <2>1, <2>2, StillKept, NothingKept DEF JobOK, OnServer, OnDisk, Under
  <2> QED BY <1>1, <1>2, <1>4, <2>1, <2>2, <2>3, NothingKept, SettlesKept DEF ValuesKnown, BaseOK
<1>5. CASE UNCHANGED base /\ Move(p, [sync.job[p] EXCEPT !.stage = "held"])
  <2> DEFINE j == [sync.job[p] EXCEPT !.stage = "held"]
  <2>1. j \in Job /\ j.content = sync.job[p].content /\ j.read = sync.job[p].read
    BY PathTyped DEF Job
  <2> HIDE DEF j
  <2>2. Move(p, j)
    BY <1>5 DEF j
  <2>3. JobOK(p)'
    BY <1>1, <2>1, <2>2, MovedTo DEF JobOK
  <2> QED BY <1>1, <1>2, <1>5, <2>1, <2>2, <2>3, MovedKept DEF ValuesKnown
<1> QED BY <1>3, <1>4, <1>5 DEF HashLocal

LEMMA CheckAbsentKept ==
  ASSUME TypeOK, KeptInv, NEW p \in Path, CheckAbsent(p)
  PROVE  KeptInv'
<1>1. /\ sync.pc = "apply" /\ sync.job[p].stage = "todo" /\ sync.plan[p].act = "delete"
      /\ UNCHANGED <<rows, log, disk, saved, copies, history>>
  BY DEF CheckAbsent, At, server
<1>2. ValuesKnown(p) /\ BaseOK(p) /\ JobOK(p) /\ base[p] \in Version
  BY PathKnown, PathTyped
<1>3. CASE Fail(p) /\ UNCHANGED base
  BY <1>1, <1>2, <1>3, EndedKept DEF ValuesKnown, BaseOK
<1>4. CASE Overtaken(p)
  BY <1>1, <1>4, OwnLosesKept DEF Overtaken
<1>5. CASE UNCHANGED base /\ Move(p, [sync.job[p] EXCEPT !.stage = "held"])
  <2> DEFINE j == [sync.job[p] EXCEPT !.stage = "held"]
  <2>1. j \in Job /\ j.stage = "held" /\ j.content = sync.job[p].content /\ j.read = sync.job[p].read
    BY PathTyped DEF Job
  <2> HIDE DEF j
  <2>2. Move(p, j)
    BY <1>5 DEF j
  <2>3. sync'.job[p] = j /\ sync'.plan[p] = sync.plan[p]
    BY <2>1, <2>2, MovedTo
  <2>4. JobOK(p)'
    BY <1>1, <1>2, <2>1, <2>3, StillKept DEF JobOK
  <2> QED BY <1>1, <1>2, <1>5, <2>1, <2>2, <2>4, MovedKept DEF ValuesKnown
<1> QED BY <1>3, <1>4, <1>5 DEF CheckAbsent

-----------------------------------------------------------------------------
(* Steps that change the vault. *)

(* A file is replaced by what is held of another version that contains it. *)
LEMMA AppliedKept ==
  ASSUME TypeOK, KeptInv, NEW p \in Path, sync.pc = "apply", Applied(p),
         UNCHANGED <<rows, log, saved, copies, history>>,
         origins[disk[p]] \subseteq Safe \cup origins[sync.job[p].content],
         OnServer(p, sync.job[p].content)
  PROVE  KeptInv'
<1> DEFINE c == sync.job[p].content
<1>1. /\ ValuesKnown(p) /\ c \in Content /\ base \in [Path -> Version] /\ disk \in [Path -> Content]
      /\ UNCHANGED <<made, origins, dropped>> /\ copies \subseteq Known
  BY PathKnown, PathTyped DEF TypeOK, history, KeptInv, HistoryOK
<1>2. disk' = [disk EXCEPT ![p] = c] /\ base' = [base EXCEPT ![p] = [hash |-> c, rev |-> sync.job[p].rev]]
  BY DEF Applied, SetBase
<1>3. Known' = Known /\ Safe' = Safe
  BY <1>1 DEF Known, Safe
<1>4. Grows /\ HistoryOK' /\ NothingLost' /\ made' \in Nat
  BY <1>1, <1>2, <1>3, DiskReplaced
<1>5. LogOK'
  BY <1>4, LogStays
<1>6. /\ UNCHANGED Apart /\ sync'.plan = sync.plan /\ sync'.job[p] = Done
      /\ \A q \in Path \ {p} : sync'.job[q] = sync.job[q]
  BY Ended DEF Applied
<1>7. JobOK(p)' /\ Done.content = 0 /\ Done.read = 0 /\ 0 \in Known
  BY <1>6, StartsKept, Bounds, PathKnown DEF JobOK
<1>8. disk'[p] = c /\ base'[p].hash = c
  BY <1>1, <1>2
<1>9. BaseOK(p)'
  BY <1>1, <1>3, <1>8 DEF BaseOK, OnServer, OnDisk, Under
<1>10. Elsewhere(p)
  BY <1>1, <1>2, <1>6 DEF Elsewhere
<1> QED BY <1>1, <1>3, <1>4, <1>5, <1>6, <1>7, <1>8, <1>9, <1>10, AppliesKept DEF ValuesKnown

LEMMA DownloadKept ==
  ASSUME TypeOK, KeptInv, NEW p \in Path, Download(p)
  PROVE  KeptInv'
<1>1. /\ sync.pc = "apply" /\ sync.job[p].stage = "held" /\ sync.plan[p].act = "download"
      /\ UNCHANGED <<rows, log, saved, copies, history>>
  BY DEF Download, At, server
<1>2. CASE disk[p] = sync.plan[p].local /\ Applied(p)
  BY <1>1, <1>2, PathKnown, AppliedKept DEF JobOK, Under
<1>3. CASE Loses(p) /\ UNCHANGED disk
  BY <1>1, <1>3, OwnLosesKept
<1> QED BY <1>2, <1>3 DEF Download

LEMMA ApplyMergeKept ==
  ASSUME TypeOK, KeptInv, NEW p \in Path, ApplyMerge(p)
  PROVE  KeptInv'
<1>1. /\ sync.pc = "apply" /\ sync.job[p].stage = "merged" /\ sync.plan[p].act = "conflict"
      /\ UNCHANGED <<rows, log, saved, copies, history>>
  BY DEF ApplyMerge, At, server
<1>2. /\ OnDisk(p, sync.job[p].read) /\ Under(sync.job[p].read, sync.job[p].content)
      /\ OnServer(p, sync.job[p].content) /\ sync.job[p].read \in Known
  BY <1>1, PathKnown DEF JobOK, ValuesKnown
<1>3. CASE disk[p] = sync.job[p].read /\ Applied(p)
  BY <1>1, <1>2, <1>3, AppliedKept DEF Under
<1>4. CASE LosesFrom(p, [hash |-> sync.job[p].read, rev |-> 0]) /\ UNCHANGED disk
  <2>1. [hash |-> sync.job[p].read, rev |-> 0] \in Version
    BY PathTyped, Bounds DEF Version
  <2>2. OnServer(p, sync.job[p].read)
    BY <1>2 DEF OnServer, Under
  <2> QED BY <1>1, <1>2, <1>4, <2>1, <2>2, LosesKept
<1> QED BY <1>3, <1>4 DEF ApplyMerge

LEMMA ApplyRemoteKept ==
  ASSUME TypeOK, KeptInv, NEW p \in Path, ApplyRemote(p)
  PROVE  KeptInv'
<1>1. /\ sync.pc = "apply" /\ sync.job[p].stage = "copied" /\ sync.plan[p].act = "conflict"
      /\ UNCHANGED <<rows, log, saved, copies, history>>
  BY DEF ApplyRemote, At, server
<1>2. CASE disk[p] \in {0, sync.job[p].read} /\ Applied(p)
  <2>1. origins[sync.job[p].read] \subseteq Safe /\ OnServer(p, sync.job[p].content) /\ origins[0] = {}
    BY <1>1, PathKnown DEF JobOK
  <2>2. origins[disk[p]] \subseteq Safe
    BY <1>2, <2>1
  <2> QED BY <1>1, <1>2, <2>1, <2>2, AppliedKept
<1>3. CASE Loses(p) /\ UNCHANGED disk
  BY <1>1, <1>3, OwnLosesKept
<1> QED BY <1>2, <1>3 DEF ApplyRemote

(* A conflict copy, or the trash, receives what the file holds. *)
LEMMA CopyLocalKept ==
  ASSUME TypeOK, KeptInv, NEW p \in Path, CopyLocal(p)
  PROVE  KeptInv'
<1>1. /\ sync.pc = "apply" /\ sync.job[p].stage \in {"held", "copied"}
      /\ sync.plan[p].act = "conflict" /\ copies' = copies \cup {disk[p]}
      /\ UNCHANGED <<rows, log, disk, base, saved, made, origins, dropped>>
  BY DEF CopyLocal, At, server, history
<1>2. /\ ValuesKnown(p) /\ BaseOK(p) /\ JobOK(p) /\ disk \in [Path -> Content]
      /\ copies \subseteq Known
  BY PathKnown DEF TypeOK, KeptInv, HistoryOK
<1>3. disk' = [disk EXCEPT ![p] = disk[p]] /\ disk[p] \in Content /\ copies' \subseteq Known
  BY <1>1, <1>2 DEF ValuesKnown
<1>4. Safe \subseteq Safe' /\ origins[disk[p]] \subseteq Safe'
  BY <1>1 DEF Safe
<1>5. Grows /\ HistoryOK' /\ NothingLost' /\ made' \in Nat
  BY <1>1, <1>3, DiskReplaced
<1>6. LogOK' /\ Known' = Known
  BY <1>1, <1>5, LogStays DEF Known
<1> DEFINE j == [sync.job[p] EXCEPT !.stage = "copied", !.read = disk[p], !.copies = @ + 1]
<1>7. /\ j \in Job /\ j.stage = "copied" /\ j.read = disk[p] /\ j.content = sync.job[p].content
  <2>1. sync.job[p].copies + 1 \in 0..MaxCopies
    BY PathTyped, Bounds DEF CopyLocal, At, Counted
  <2> QED BY <2>1, PathTyped DEF Job
<1>8. Move(p, j)
  BY DEF CopyLocal
<1> HIDE DEF j
<1>9. /\ UNCHANGED Apart /\ sync'.plan = sync.plan /\ sync'.job[p] = j
      /\ \A q \in Path \ {p} : sync'.job[q] = sync.job[q]
  BY <1>7, <1>8, MovedTo
<1>10. JobOK(p)'
  <2>1. OnServer(p, sync.job[p].content)
    BY <1>1, <1>2 DEF JobOK
  <2> QED BY <1>1, <1>4, <1>7, <1>9, <2>1 DEF JobOK, OnServer, Under
<1>11. BaseOK(p)'
  BY <1>1, <1>2, <1>4 DEF BaseOK, OnServer, OnDisk, Under
<1>12. Elsewhere(p)
  BY <1>1, <1>9 DEF Elsewhere
<1> QED BY <1>1, <1>2, <1>5, <1>6, <1>7, <1>9, <1>10, <1>11, <1>12, AppliesKept DEF ValuesKnown

LEMMA TrashLocalKept ==
  ASSUME TypeOK, KeptInv, NEW p \in Path, TrashLocal(p)
  PROVE  KeptInv'
<1>1. sync.pc = "apply" /\ UNCHANGED <<rows, log, saved, history>>
  BY DEF TrashLocal, At, server
<1>2. /\ ValuesKnown(p) /\ BaseOK(p) /\ base[p] \in Version /\ disk \in [Path -> Content]
      /\ base \in [Path -> Version] /\ copies \subseteq Known /\ 0 \in Content /\ origins[0] = {}
  <2>1. 0 \in Content
    BY Bounds DEF Content
  <2> QED BY <2>1, PathKnown, PathTyped DEF TypeOK, KeptInv, HistoryOK
<1>3. CASE Fail(p) /\ UNCHANGED <<disk, base, copies>>
  BY <1>1, <1>2, <1>3, EndedKept DEF ValuesKnown, BaseOK
<1>4. CASE /\ disk' = [disk EXCEPT ![p] = 0] /\ copies' = copies \cup ({disk[p]} \ {0})
           /\ SetBase(p, Gone) /\ Finish(p)
  <2>1. UNCHANGED <<made, origins, dropped>> /\ Known' = Known /\ copies' \subseteq Known
    BY <1>1, <1>2, <1>4 DEF history, Known, ValuesKnown
  <2>2. Safe \subseteq Safe' /\ origins[disk[p]] \subseteq Safe'
    BY <1>2, <1>4, <2>1 DEF Safe
  <2>3. Grows /\ HistoryOK' /\ NothingLost' /\ made' \in Nat
    BY <1>1, <1>2, <1>4, <2>1, <2>2, DiskReplaced
  <2>4. LogOK'
    BY <1>1, <2>3, LogStays
  <2>5. /\ UNCHANGED Apart /\ sync'.plan = sync.plan /\ sync'.job[p] = Done
        /\ \A q \in Path \ {p} : sync'.job[q] = sync.job[q]
    BY <1>4, Ended
  <2>6. JobOK(p)' /\ Done.content = 0 /\ Done.read = 0 /\ 0 \in Known
    BY <2>5, StartsKept, Bounds, PathKnown DEF JobOK
  <2>7. disk'[p] = 0 /\ base'[p].hash = 0 /\ \A q \in Path \ {p} : disk'[q] = disk[q] /\ base'[q] = base[q]
    BY <1>2, <1>4, NothingKept DEF SetBase
  <2>8. BaseOK(p)'
    BY <1>2, <2>1, <2>7 DEF BaseOK, OnServer, OnDisk, Under
  <2>9. Elsewhere(p)
    BY <1>1, <2>5, <2>7 DEF Elsewhere
  <2> QED BY <1>1, <1>2, <2>1, <2>3, <2>4, <2>5, <2>6, <2>7, <2>8, <2>9, AppliesKept DEF ValuesKnown
<1> QED BY <1>3, <1>4 DEF TrashLocal

-----------------------------------------------------------------------------
(* Steps that change the server. *)

(* A file on the server is replaced by one that contains it. *)
LEMMA SentKept ==
  ASSUME TypeOK, KeptInv, NEW p \in Path, NEW c \in Known, NEW n \in 0..MaxSeq, sync.pc = "apply",
         Publish(p, c), SetBase(p, [hash |-> c, rev |-> n]), Finish(p),
         UNCHANGED <<disk, saved, copies, history>>,
         origins[rows[p].hash] \subseteq Safe \cup origins[c], OnDisk(p, c)
  PROVE  KeptInv'
<1>1. /\ UNCHANGED <<made, origins, dropped>> /\ Safe' = Safe /\ Known' = Known
      /\ ValuesKnown(p) /\ base \in [Path -> Version] /\ c \in Content
  BY PathKnown, MadeTyped DEF history, Safe, Known, TypeOK
<1>2. Grows /\ HistoryOK' /\ NothingLost' /\ LogOK' /\ made' \in Nat
  BY <1>1, RowReplaced
<1>3. rows'[p].hash = c /\ \A q \in Path \ {p} : rows'[q] = rows[q]
  BY <1>1, Publishes
<1>4. base'[p].hash = c /\ \A q \in Path \ {p} : base'[q] = base[q]
  BY <1>1 DEF SetBase
<1>5. /\ UNCHANGED Apart /\ sync'.plan = sync.plan /\ sync'.job[p] = Done
      /\ \A q \in Path \ {p} : sync'.job[q] = sync.job[q]
  BY Ended
<1>6. JobOK(p)' /\ Done.content = 0 /\ Done.read = 0 /\ 0 \in Known
  BY <1>5, StartsKept, Bounds, PathKnown DEF JobOK
<1>7. BaseOK(p)'
  BY <1>1, <1>3, <1>4 DEF BaseOK, OnServer, OnDisk, Under
<1>8. Elsewhere(p)
  BY <1>3, <1>4, <1>5 DEF Elsewhere
<1> QED BY <1>1, <1>2, <1>3, <1>4, <1>5, <1>6, <1>7, <1>8, AppliesKept DEF ValuesKnown

LEMMA SendUploadKept ==
  ASSUME TypeOK, KeptInv, NEW p \in Path, SendUpload(p)
  PROVE  KeptInv'
<1>1. /\ sync.pc = "apply" /\ sync.job[p].stage = "held" /\ sync.plan[p].act = "upload"
      /\ UNCHANGED <<disk, saved, copies, history>>
  BY DEF SendUpload, At
<1>2. ValuesKnown(p) /\ JobOK(p)
  BY PathKnown
<1>3. CASE /\ rows[p].hash = sync.plan[p].remote /\ Publish(p, sync.job[p].content)
           /\ SetBase(p, [hash |-> sync.job[p].content, rev |-> Last + 1]) /\ Finish(p)
  <2>1. Last + 1 \in 0..MaxSeq
    BY <1>3, SyncFields, Bounds DEF Publish
  <2>2. origins[rows[p].hash] \subseteq Safe \cup origins[sync.job[p].content] /\ OnDisk(p, sync.job[p].content)
    BY <1>1, <1>2, <1>3 DEF JobOK, Under
  <2> QED BY <1>1, <1>2, <1>3, <2>1, <2>2, SentKept DEF ValuesKnown
<1>4. CASE (Loses(p) \/ Again(p)) /\ UNCHANGED server
  BY <1>1, <1>4, OwnLosesKept DEF server
<1> QED BY <1>3, <1>4 DEF SendUpload

LEMMA SendDeleteKept ==
  ASSUME TypeOK, KeptInv, NEW p \in Path, SendDelete(p)
  PROVE  KeptInv'
<1>1. /\ sync.pc = "apply" /\ sync.job[p].stage = "held" /\ sync.plan[p].act = "delete"
      /\ UNCHANGED <<disk, saved, copies, history>>
  BY DEF SendDelete, At
<1>2. JobOK(p)
  BY PathKnown
<1>3. CASE rows[p].hash = sync.plan[p].remote /\ Publish(p, 0) /\ SetBase(p, Gone) /\ Finish(p)
  <2>1. Gone = [hash |-> 0, rev |-> 0] /\ 0 \in 0..MaxSeq
    BY Bounds DEF Gone
  <2>2. origins[rows[p].hash] \subseteq Safe
    BY <1>1, <1>2, <1>3 DEF JobOK
  <2> QED BY <1>1, <1>3, <2>1, <2>2, NothingKept, SentKept
<1>4. CASE SetBase(p, Gone) /\ Finish(p) /\ UNCHANGED server
  BY <1>1, <1>4, NothingKept, EndedKept DEF SetBase, server
<1>5. CASE Overtaken(p) /\ UNCHANGED server
  BY <1>1, <1>5, OwnLosesKept DEF Overtaken, server
<1>6. rows[p] = [hash |-> sync.plan[p].remote, rev |-> sync.plan[p].rev] => rows[p].hash = sync.plan[p].remote
  OBVIOUS
<1> QED BY <1>3, <1>4, <1>5, <1>6 DEF SendDelete

LEMMA SendMergeKept ==
  ASSUME TypeOK, KeptInv, NEW p \in Path, SendMerge(p)
  PROVE  KeptInv'
<1>1. /\ sync.pc = "apply" /\ sync.job[p].stage = "held" /\ sync.plan[p].act = "conflict"
      /\ UNCHANGED <<disk, saved, cursor, copies, dropped>>
  BY DEF SendMerge, At
<1>2. /\ ValuesKnown(p) /\ JobOK(p) /\ BaseOK(p)
  BY PathKnown
<1>3. CASE Loses(p) /\ UNCHANGED <<server, made, origins>>
  BY <1>1, <1>3, OwnLosesKept DEF server, history
<1>4. CASE /\ rows[p].hash = sync.plan[p].remote
           /\ Make({disk[p], sync.job[p].content}) /\ Publish(p, made') /\ UNCHANGED base
           /\ Move(p, [sync.job[p] EXCEPT !.stage = "merged", !.content = made',
                                         !.rev = Last + 1, !.read = disk[p]])
  <2>1. /\ HistoryOK' /\ Safe \subseteq Safe' /\ made \in Nat /\ made' = made + 1
        /\ made' \in Nat /\ made' \in Content /\ made' <= made'
        /\ \A c \in Known : origins'[c] = origins[c]
        /\ origins[disk[p]] \subseteq origins'[made'] /\ origins[sync.job[p].content] \subseteq origins'[made']
        /\ made' \in origins'[made']
    BY <1>1, <1>2, <1>4, MakeKept DEF ValuesKnown
  <2>2. rows'[p].hash = made' /\ \A q \in Path \ {p} : rows'[q] = rows[q]
    BY <1>4, <2>1, Publishes
  <2>3. \A q \in Path : disk[q] \in Known /\ rows[q].hash \in Known
    BY PathKnown DEF ValuesKnown
  <2>4. rows[p].hash = sync.job[p].content
    BY <1>1, <1>2, <1>4 DEF JobOK
  <2>5. Grows
    BY <1>1, <2>1, <2>2, <2>3, <2>4 DEF Grows
  <2>6. NothingLost'
    <3>1. \A c \in (1..made') \ (1..made) : c = made'
      BY <2>1
    <3> QED BY <2>1, <2>2, <2>5, <3>1, LostStays
  <2>7. LogOK'
    BY <1>4, <2>1, <2>5, PublishedKept
  <2> DEFINE j == [sync.job[p] EXCEPT !.stage = "merged", !.content = made', !.rev = Last + 1, !.read = disk[p]]
  <2>8. j \in Job /\ j.stage = "merged" /\ j.content = made' /\ j.read = disk[p]
    <3>1. Last + 1 \in 0..MaxSeq
      BY <1>4, SyncFields, Bounds DEF Publish
    <3> QED BY <2>1, <3>1, PathTyped DEF Job
  <2> HIDE DEF j
  <2>9. Move(p, j)
    BY <1>4 DEF j
  <2>10. /\ UNCHANGED Apart /\ sync'.plan = sync.plan /\ sync'.job[p] = j
         /\ \A q \in Path \ {p} : sync'.job[q] = sync.job[q]
    BY <2>8, <2>9, MovedTo
  <2>11. JobOK(p)'
    <3>1. origins'[disk[p]] = origins[disk[p]]
      BY <2>1, <2>3
    <3> QED BY <1>1, <2>1, <2>2, <2>8, <2>10, <3>1 DEF JobOK, OnServer, OnDisk, Under
  <2>12. BaseOK(p)' /\ base'[p].hash \in Known'
    BY <1>4, <2>1, <2>5, BaseStays
  <2>13. Elsewhere(p)
    BY <1>1, <1>4, <2>2, <2>10 DEF Elsewhere
  <2>14. Known \subseteq Known' /\ made' \in Known'
    BY <2>1 DEF Known
  <2> QED BY <1>1, <1>2, <2>1, <2>2, <2>5, <2>6, <2>7, <2>8, <2>10, <2>11, <2>12, <2>13, <2>14,
             AppliesKept DEF ValuesKnown
<1> QED BY <1>3, <1>4 DEF SendMerge

LEMMA ApplyingKept ==
  ASSUME TypeOK, KeptInv, NEW p \in Path, Applying(p)
  PROVE  KeptInv'
<1>1. CASE NothingToResolve(p)
  BY <1>1, OwnLosesKept DEF NothingToResolve, At, server
<1> QED BY <1>1, FetchKept, DownloadKept, SendMergeKept, ApplyMergeKept, CopyLocalKept, ApplyRemoteKept,
           HashLocalKept, TrashLocalKept, PrepareKept, SendUploadKept, CheckAbsentKept, SendDeleteKept
           DEF Applying

-----------------------------------------------------------------------------
(* The user and the other devices. *)

(* Somebody else's step leaves the sync and the baseline alone. *)
LEMMA DisturbedKept ==
  ASSUME TypeOK, KeptInv, Disturbs, Grows, made' \in Nat, HistoryOK', NothingLost', LogOK',
         UNCHANGED <<base, saved>>, \A p \in Path : disk'[p] \in Known' /\ rows'[p].hash \in Known'
  PROVE  KeptInv'
<1>1. sync \in SyncRun /\ sync' = [sync EXCEPT !.quiet = FALSE]
  BY DEF TypeOK, Disturbs
<1>2. UNCHANGED <<sync.pc, sync.scanned, sync.todo, sync.remote, sync.local, sync.plan, sync.job>>
  BY <1>1 DEF SyncRun
<1>3. \A p \in Path : Unplanned(p)' => Unplanned(p)
  BY <1>2 DEF Unplanned
<1>4. \A p \in Path : PathOK(p)'
  BY <1>2, <1>3, PathStays
<1> QED BY <1>4 DEF KeptInv

(* The user goes on with a file, or goes back, or removes it. *)
LEMMA EditKept ==
  ASSUME TypeOK, KeptInv, NEW p \in Path, Write(p) \/ GoBack(p) \/ Remove(p)
  PROVE  KeptInv'
<1>1. /\ Disturbs /\ UNCHANGED <<rows, log, base, saved, copies>>
  BY DEF Write, GoBack, Remove, server
<1>2. \A q \in Path : disk[q] \in Known /\ rows[q].hash \in Known
  BY PathKnown DEF ValuesKnown
<1>3. /\ disk \in [Path -> Content] /\ origins[0] = {} /\ 0 \in Known /\ Known \subseteq Content
      /\ copies \subseteq Known /\ made \in Nat /\ \A c \in Content : origins[c] \subseteq 1..made
  BY MadeTyped DEF TypeOK, KeptInv, HistoryOK
<1>4. CASE Write(p)
  <2>1. Make({disk[p]} \ {0}) /\ disk' = [disk EXCEPT ![p] = made'] /\ UNCHANGED dropped
    BY <1>4 DEF Write
  <2>2. /\ HistoryOK' /\ Safe \subseteq Safe' /\ made' = made + 1 /\ made' \in Nat
        /\ \A c \in Known : origins'[c] = origins[c]
        /\ origins[disk[p]] \subseteq origins'[made'] /\ made' \in origins'[made']
    BY <1>1, <1>2, <1>3, <2>1, MakeKept, {disk[p]} \ {0} \in SUBSET Known
  <2>3. disk'[p] = made' /\ \A q \in Path \ {p} : disk'[q] = disk[q]
    BY <1>3, <2>1
  <2>4. Grows
    BY <1>1, <1>2, <1>3, <2>2, <2>3 DEF Grows
  <2>5. NothingLost'
    <3>1. \A c \in (1..made') \ (1..made) : c = made'
      BY <1>3, <2>2
    <3> QED BY <2>2, <2>3, <2>4, <3>1, LostStays
  <2>6. LogOK'
    BY <1>1, <2>2, <2>4, LogStays
  <2>7. Known \subseteq Known' /\ made' \in Known'
    BY <1>3, <2>2 DEF Known
  <2> QED BY <1>1, <1>2, <2>2, <2>3, <2>4, <2>5, <2>6, <2>7, DisturbedKept
<1>5. ASSUME UNCHANGED <<made, origins>>,
             NEW c \in Known, disk' = [disk EXCEPT ![p] = c],
             dropped \subseteq dropped', origins[disk[p]] \subseteq dropped' \cup origins[c]
      PROVE  KeptInv'
  <2>1. copies' \subseteq Known /\ origins[disk[p]] \subseteq Safe' \cup origins[c] /\ c \in Content
    BY <1>1, <1>3, <1>5 DEF Safe
  <2>2. Grows /\ HistoryOK' /\ NothingLost' /\ made' \in Nat
    BY <1>1, <1>5, <2>1, DiskReplaced
  <2>3. LogOK' /\ Known' = Known
    BY <1>1, <1>5, <2>2, LogStays DEF Known
  <2>4. \A q \in Path : disk'[q] \in Known
    BY <1>2, <1>3, <1>5
  <2> QED BY <1>1, <1>2, <2>2, <2>3, <2>4, DisturbedKept
<1>6. CASE GoBack(p)
  <2>1. PICK c \in origins[disk[p]] \ {disk[p]} :
          disk' = [disk EXCEPT ![p] = c] /\ dropped' = dropped \cup (origins[disk[p]] \ origins[c])
    BY <1>6 DEF GoBack
  <2>2. c \in Known /\ UNCHANGED <<made, origins>>
    BY <1>2, <1>3, <1>6, <2>1 DEF Known, GoBack
  <2> QED BY <1>5, <2>1, <2>2
<1>7. CASE Remove(p)
  BY <1>3, <1>5, <1>7 DEF Remove
<1> QED BY <1>4, <1>6, <1>7

LEMMA ForeignKept ==
  ASSUME TypeOK, KeptInv, NEW p \in Path, Foreign(p)
  PROVE  KeptInv'
<1>1. /\ Disturbs /\ UNCHANGED <<disk, base, saved, copies>>
  BY DEF Foreign, device
<1>2. \A q \in Path : disk[q] \in Known /\ rows[q].hash \in Known
  BY PathKnown DEF ValuesKnown
<1>3. origins[0] = {} /\ 0 \in Known /\ Known \subseteq Content /\ made \in Nat
  BY MadeTyped DEF KeptInv, HistoryOK
<1>4. CASE Make({rows[p].hash} \ {0}) /\ Publish(p, made') /\ UNCHANGED dropped
  <2>1. /\ HistoryOK' /\ Safe \subseteq Safe' /\ made' = made + 1 /\ made' \in Nat
        /\ made' \in Content /\ made' <= made' /\ \A c \in Known : origins'[c] = origins[c]
        /\ origins[rows[p].hash] \subseteq origins'[made'] /\ made' \in origins'[made']
    BY <1>1, <1>2, <1>3, <1>4, MakeKept, {rows[p].hash} \ {0} \in SUBSET Known
  <2>2. rows'[p].hash = made' /\ \A q \in Path \ {p} : rows'[q] = rows[q]
    BY <1>4, <2>1, Publishes
  <2>3. Grows
    <3>1. \A q \in Path : origins[disk[q]] \subseteq Safe' \cup origins'[disk'[q]]
      BY <1>1, <1>2, <2>1
    <3>2. \A q \in Path : origins[rows[q].hash] \subseteq Safe' \cup origins'[rows'[q].hash]
      BY <1>2, <2>1, <2>2
    <3>3. made <= made'
      BY <1>3, <2>1
    <3> QED BY <2>1, <3>1, <3>2, <3>3 DEF Grows
  <2>4. NothingLost'
    <3>1. \A c \in (1..made') \ (1..made) : c = made'
      BY <1>3, <2>1
    <3> QED BY <2>1, <2>2, <2>3, <3>1, LostStays
  <2>5. LogOK'
    BY <1>4, <2>1, <2>3, PublishedKept
  <2>6. Known \subseteq Known' /\ made' \in Known'
    BY <1>3, <2>1 DEF Known
  <2> QED BY <1>1, <1>2, <2>1, <2>2, <2>3, <2>4, <2>5, <2>6, DisturbedKept
<1>5. CASE Publish(p, 0) /\ dropped' = dropped \cup origins[rows[p].hash] /\ UNCHANGED <<made, origins>>
  <2>1. origins[rows[p].hash] \subseteq Safe' \cup origins[0]
    BY <1>5 DEF Safe
  <2>2. Grows /\ HistoryOK' /\ NothingLost' /\ made' \in Nat /\ LogOK'
    BY <1>1, <1>3, <1>5, <2>1, RowReplaced
  <2>3. rows'[p].hash = 0 /\ (\A q \in Path \ {p} : rows'[q] = rows[q]) /\ Known' = Known
    BY <1>3, <1>5, Publishes DEF Known
  <2> QED BY <1>1, <1>2, <1>3, <2>2, <2>3, DisturbedKept
<1> QED BY <1>4, <1>5 DEF Foreign

LEMMA PruneKept == TypeOK /\ KeptInv /\ Prune => KeptInv'
<1> SUFFICES ASSUME TypeOK, KeptInv, Prune PROVE KeptInv'
  OBVIOUS
<1>1. Disturbs /\ UNCHANGED <<rows, log, disk, base, saved, copies, history>>
  BY DEF Prune, device
<1>2. \A q \in Path : disk[q] \in Known /\ rows[q].hash \in Known
  BY PathKnown DEF ValuesKnown
<1> QED BY <1>1, <1>2, StillKept, DisturbedKept

-----------------------------------------------------------------------------
(* Steps that read one of the sides, and decide. *)

(* Nothing changes but what the sync knows, and the baseline. *)
LEMMA SyncKept ==
  ASSUME TypeOK, KeptInv, UNCHANGED <<rows, log, disk, copies, history>>,
         \A p \in Path :
           /\ base'[p].hash \in Known /\ OnServer(p, base'[p].hash) /\ OnDisk(p, base'[p].hash)
           /\ saved'[p] \in {saved[p], base[p]}
           /\ sync'.remote[p].hash \in Known /\ OnServer(p, sync'.remote[p].hash)
           /\ sync'.local[p] \in Known
           /\ Unplanned(p)' => OnDisk(p, sync'.local[p]) /\ Under(base'[p].hash, sync'.local[p])
           /\ sync'.plan[p].local \in Known /\ sync'.plan[p].remote \in Known
           /\ sync'.job[p].content \in Known /\ sync'.job[p].read \in Known /\ JobOK(p)'
  PROVE  KeptInv'
<1>1. /\ HistoryOK' /\ NothingLost' /\ LogOK'
      /\ Known' = Known /\ Safe' = Safe /\ origins' = origins
  BY StillKept
<1>2. ASSUME NEW p \in Path PROVE PathOK(p)'
  <2>1. PathOK(p)
    BY DEF KeptInv
  <2>2. ValuesKnown(p)'
    BY <1>1, <2>1 DEF PathOK, ValuesKnown
  <2>3. BaseOK(p)' /\ RemoteOK(p)' /\ ScanOK(p)'
    BY <1>1 DEF BaseOK, RemoteOK, ScanOK, OnServer, OnDisk, Under
  <2>4. SavedOK(p)'
    BY <1>1, <2>1 DEF PathOK, BaseOK, SavedOK, OnServer, OnDisk, Under
  <2> QED BY <2>2, <2>3, <2>4 DEF PathOK
<1> QED BY <1>1, <1>2 DEF KeptInv

(* The facts of a path that a reading step does not touch *)
LEMMA Standing ==
  ASSUME TypeOK, KeptInv, NEW p \in Path
  PROVE  /\ base[p].hash \in Known /\ OnServer(p, base[p].hash) /\ OnDisk(p, base[p].hash)
         /\ saved[p].hash \in Known /\ OnServer(p, saved[p].hash) /\ OnDisk(p, saved[p].hash)
         /\ sync.remote[p].hash \in Known /\ OnServer(p, sync.remote[p].hash)
         /\ sync.local[p] \in Known
         /\ Unplanned(p) => OnDisk(p, sync.local[p]) /\ Under(base[p].hash, sync.local[p])
         /\ sync.plan[p].local \in Known /\ sync.plan[p].remote \in Known
         /\ sync.job[p].content \in Known /\ sync.job[p].read \in Known /\ JobOK(p)
         /\ disk[p] \in Known /\ rows[p].hash \in Known
         /\ OnServer(p, rows[p].hash) /\ OnDisk(p, disk[p])
<1>1. PathOK(p)
  BY DEF KeptInv
<1> QED BY <1>1 DEF PathOK, ValuesKnown, BaseOK, SavedOK, RemoteOK, ScanOK, OnServer, OnDisk, Under

(* What a sync knows when it begins or has ended *)
Blank(p) ==
  /\ sync'.remote[p] = Gone /\ sync'.local[p] = 0 /\ sync'.plan[p] = NoPlan /\ sync'.job[p] = Done
  /\ sync'.pc # "reconcile" /\ ~sync'.scanned

LEMMA BlankKept ==
  ASSUME TypeOK, KeptInv, UNCHANGED <<rows, log, disk, copies, history>>,
         \A p \in Path : Blank(p) /\ base'[p] \in {base[p], saved[p]} /\ saved'[p] \in {saved[p], base[p]}
  PROVE  KeptInv'
<1>1. ASSUME NEW p \in Path
      PROVE  /\ 0 \in Known /\ Gone.hash = 0 /\ OnServer(p, 0) /\ NoPlan.local = 0 /\ NoPlan.remote = 0
             /\ Done.stage = "done" /\ Done.content = 0 /\ Done.read = 0
  BY NothingKept DEF NoPlan, Done
<1>2. \A p \in Path : ~Unplanned(p)'
  BY DEF Blank, Unplanned
<1>3. \A p \in Path : JobOK(p)'
  BY <1>1 DEF Blank, JobOK
<1> QED BY <1>1, <1>2, <1>3, Standing, SyncKept DEF Blank

LEMMA BeginKept ==
  ASSUME TypeOK, KeptInv, Begin \/ EndSync \/ Stop \/ (ReadChanges /\ Expired(sync.since))
                          \/ (ReplayChanges /\ Expired(sync.since))
  PROVE  KeptInv'
<1>1. /\ UNCHANGED <<rows, log, disk, copies, history>>
      /\ \A p \in Path : base'[p] \in {base[p], saved[p]} /\ saved'[p] \in {saved[p], base[p]}
  BY DEF Begin, EndSync, Stop, ReadChanges, ReplayChanges, Ends, device, server
<1>2. \A p \in Path : Blank(p)
  <2>1. CASE sync' = Idle
    BY <2>1 DEF Blank, Idle
  <2>2. CASE Begin
    BY <2>2 DEF Begin, Blank, Idle
  <2>3. CASE ReadChanges /\ Expired(sync.since)
    <3>1. sync' = [Idle EXCEPT !.pc = "manifest", !.full = TRUE, !.quiet = sync.quiet]
      BY <2>3 DEF ReadChanges
    <3>2. Idle \in SyncRun
      BY NothingTyped
    <3>3. sync'.pc = "manifest"
      BY <3>1, <3>2 DEF SyncRun
    <3>4. /\ sync'.remote = Idle.remote /\ sync'.local = Idle.local /\ sync'.plan = Idle.plan
          /\ sync'.job = Idle.job /\ sync'.scanned = Idle.scanned
      BY <3>1, <3>2 DEF SyncRun
    <3>5. ~Idle.scanned /\ \A p \in Path : /\ Idle.remote[p] = Gone /\ Idle.local[p] = 0
                                          /\ Idle.plan[p] = NoPlan /\ Idle.job[p] = Done
      BY DEF Idle
    <3> QED BY <3>3, <3>4, <3>5 DEF Blank
  <2> QED BY <2>1, <2>2, <2>3 DEF EndSync, Stop, ReplayChanges, Ends
<1> QED BY <1>1, <1>2, BlankKept

(* A page of the changelog tells of contents that the server has, or has later forms of. *)
LEMMA PageKept ==
  ASSUME TypeOK, KeptInv, NEW p \in Path
  PROVE  LET remote == Replayed(sync.since, sync.remote) IN
         remote[p].hash \in Known /\ OnServer(p, remote[p].hash)
<1> DEFINE page == InPage(sync.since, p)
<1>1. /\ sync.since \in 0..Last /\ sync.remote \in [Path -> Version] /\ Last \in Nat
  BY SyncFields
<1>2. page \subseteq 1..Last /\ \A n \in page : log[n].path = p
  BY <1>1, PageTyped DEF InPage
<1>3. Replayed(sync.since, sync.remote)[p] = IF page = {} THEN sync.remote[p] ELSE VersionAt(Newest(page))
  BY DEF Replayed
<1> HIDE DEF page
<1>4. CASE page = {}
  BY <1>3, <1>4, Standing
<1>5. CASE page # {}
  <2>1. Newest(page) \in page
    BY <1>1, <1>2, <1>5, NewestExists, page \in SUBSET (0..Last)
  <2>2. log[Newest(page)].hash \in Known /\ OnServer(p, log[Newest(page)].hash)
    BY <1>2, <2>1 DEF KeptInv, LogOK
  <2> QED BY <1>3, <1>5, <2>2, NothingKept DEF VersionAt
<1> QED BY <1>4, <1>5

LEMMA FollowKept ==
  ASSUME TypeOK, KeptInv, NEW next \in {"scan"}, Follow(next), sync.pc \in {"changes", "replay"},
         UNCHANGED <<rows, log, disk, base, saved, copies, history>>
  PROVE  KeptInv'
<1>1. /\ sync'.remote = Replayed(sync.since, sync.remote)
      /\ UNCHANGED <<sync.local, sync.plan, sync.job, sync.scanned>>
      /\ sync'.pc \in {sync.pc, next}
  <2>1. sync \in SyncRun
    BY DEF TypeOK
  <2> QED BY <2>1 DEF Follow, SyncRun
<1>2. \A p \in Path : Unplanned(p)' => Unplanned(p)
  BY <1>1 DEF Unplanned
<1>3. \A p \in Path : JobOK(p)'
  BY <1>1, Standing, StillKept DEF JobOK, OnServer, OnDisk, Under
<1> QED BY <1>1, <1>2, <1>3, Standing, PageKept, SyncKept

(* The manifest shows the rows themselves, and the scan the files. *)
LEMMA LookKept ==
  ASSUME TypeOK, KeptInv, ReadManifest \/ Scan
  PROVE  KeptInv'
<1>0. sync \in SyncRun /\ sync.remote \in [Path -> Version]
  BY SyncFields DEF TypeOK
<1>1. CASE ReadManifest
  <2>1. /\ UNCHANGED <<rows, log, disk, base, saved, copies, history>> /\ sync.pc = "manifest"
    BY <1>1 DEF ReadManifest, server, device
  <2> DEFINE next == {p \in Path : p > sync.after /\ rows[p] # Gone}
             page == {p \in next : \A q \in next : p <= q}
             snapshot == IF sync.after = 0 THEN Last ELSE sync.snapshot
  <2>2. PICK after \in IF next = {} THEN {sync.after} ELSE page :
          sync' = [sync EXCEPT !.snapshot = snapshot, !.since = snapshot, !.after = after,
            !.remote = [p \in Path |-> IF p \in page THEN rows[p] ELSE @[p]],
            !.pc = IF next = page THEN "replay" ELSE @]
    BY <1>1 DEF ReadManifest
  <2> HIDE DEF next, page, snapshot
  <2>3. /\ \A p \in Path : sync'.remote[p] \in {sync.remote[p], rows[p]}
        /\ UNCHANGED <<sync.local, sync.plan, sync.job, sync.scanned>>
        /\ sync'.pc \in {"manifest", "replay"}
    BY <1>0, <2>1, <2>2 DEF SyncRun
  <2>4. \A p \in Path : Unplanned(p)' => Unplanned(p)
    BY <2>1, <2>3 DEF Unplanned
  <2>5. \A p \in Path : JobOK(p)'
    BY <2>1, <2>3, Standing, StillKept DEF JobOK, OnServer, OnDisk, Under
  <2> QED BY <2>1, <2>3, <2>4, <2>5, Standing, SyncKept
<1>2. CASE Scan
  <2>1. /\ UNCHANGED <<rows, log, disk, base, saved, copies, history>>
        /\ sync' = [sync EXCEPT !.scanned = TRUE, !.local = disk]
    BY <1>2 DEF Scan, server, device
  <2>2. sync'.local = disk /\ UNCHANGED <<sync.remote, sync.plan, sync.job>>
    BY <1>0, <2>1 DEF SyncRun
  <2>3. \A p \in Path : JobOK(p)'
    BY <2>1, <2>2, Standing, StillKept DEF JobOK, OnServer, OnDisk, Under
  <2>4. \A p \in Path : Under(base[p].hash, disk[p])
    BY Standing DEF OnDisk
  <2> QED BY <2>1, <2>2, <2>3, <2>4, Standing, SyncKept
<1> QED BY <1>1, <1>2

(* A full sync decides every path by what it read and scanned. *)
LEMMA PlanFullKept == TypeOK /\ KeptInv /\ PlanFull => KeptInv'
<1> SUFFICES ASSUME TypeOK, KeptInv, PlanFull PROVE KeptInv'
  OBVIOUS
<1> DEFINE plan == [p \in Path |-> Decision(sync.local[p], sync.remote[p], base[p])]
           job == [p \in Path |-> IF plan[p].act = "none" THEN Done ELSE Todo(0)]
<1>1. /\ UNCHANGED <<rows, log, disk, saved, copies, history>> /\ sync \in SyncRun
      /\ sync.pc = "scan" /\ sync.scanned
      /\ sync' = [sync EXCEPT !.pc = "apply", !.plan = plan, !.job = job]
      /\ base' = [p \in Path |-> Agreed(sync.local[p], sync.remote[p], base[p])]
  BY DEF PlanFull, server, TypeOK
<1>2. UNCHANGED <<made, origins, dropped>>
  BY <1>1 DEF history
<1> HIDE DEF job
<1>3. sync'.plan = plan /\ sync'.job = job /\ sync'.pc = "apply" /\ UNCHANGED <<sync.remote, sync.local>>
  <2> HIDE DEF plan
  <2> QED BY <1>1 DEF SyncRun
<1>4. \A p \in Path : ~Unplanned(p)'
  BY <1>3 DEF Unplanned
<1>5. ASSUME NEW p \in Path
      PROVE  /\ base'[p].hash \in Known /\ OnServer(p, base'[p].hash) /\ OnDisk(p, base'[p].hash)
             /\ sync'.plan[p].local \in Known /\ sync'.plan[p].remote \in Known
             /\ sync'.job[p].content \in Known /\ sync'.job[p].read \in Known /\ JobOK(p)'
  <2>1. /\ sync.remote[p] \in Version /\ base[p] \in Version /\ sync.local[p] \in Known
        /\ sync.remote[p].hash \in Known /\ base[p].hash \in Known
        /\ OnServer(p, base[p].hash) /\ OnDisk(p, base[p].hash) /\ OnServer(p, sync.remote[p].hash)
    BY Standing, SyncFields DEF TypeOK
  <2>2. OnDisk(p, sync.local[p]) /\ Under(base[p].hash, sync.local[p])
    BY <1>1, Standing DEF Unplanned
  <2>3. LET d == Decision(sync.local[p], sync.remote[p], base[p]) IN
        /\ d.local = sync.local[p] /\ d.remote = sync.remote[p].hash
        /\ d.act = "download" => OnServer(p, d.local)
        /\ d.act = "upload" => OnDisk(p, d.remote)
        /\ d.act = "delete" => origins[d.remote] \subseteq Safe
    BY <2>1, <2>2, DecisionKept
  <2>4. LET b == Agreed(sync.local[p], sync.remote[p], base[p]) IN
        b.hash \in Known /\ OnServer(p, b.hash) /\ OnDisk(p, b.hash)
    BY <2>1, <2>2, BaselineKept
  <2>5. sync'.plan[p] = Decision(sync.local[p], sync.remote[p], base[p])
    BY <1>3
  <2>6. sync'.job[p] = Done \/ \E t \in 0..MaxTries : sync'.job[p] = Todo(t)
    BY <1>3, Bounds DEF job
  <2>7. JobOK(p)' /\ sync'.job[p].content = 0 /\ sync'.job[p].read = 0 /\ 0 \in Known
    BY <1>1, <1>2, <2>3, <2>5, <2>6, PlannedKept, NothingKept
  <2>8. base'[p] = Agreed(sync.local[p], sync.remote[p], base[p])
    BY <1>1
  <2> QED BY <2>1, <2>3, <2>4, <2>5, <2>7, <2>8
<1> QED BY <1>1, <1>3, <1>4, <1>5, Standing, SyncKept

(* What a plan of p replaces or deletes is kept. *)
PlanOK(p, plan) ==
  /\ plan.local \in Known /\ plan.remote \in Known
  /\ plan.act = "download" => OnServer(p, plan.local)
  /\ plan.act = "upload" => OnDisk(p, plan.remote)
  /\ plan.act = "delete" => origins[plan.remote] \subseteq Safe

LEMMA NoPlanKept == ASSUME TypeOK, KeptInv, NEW p \in Path PROVE PlanOK(p, NoPlan)
<1>1. NoPlan.act = "none" /\ NoPlan.local = 0 /\ NoPlan.remote = 0 /\ 0 \in Known
  BY NothingKept DEF NoPlan
<1> QED BY <1>1 DEF PlanOK

LEMMA UploadKept ==
  ASSUME TypeOK, KeptInv, NEW p \in Path, NEW c \in Known, OnDisk(p, c)
  PROVE  PlanOK(p, UploadOver(c))
<1>1. c \in Content /\ 0 \in Known
  BY MadeTyped
<1> QED BY <1>1, UploadedTo DEF PlanOK

(* A path that changed in the vault only *)
LEMMA LocalOnlyKept ==
  ASSUME TypeOK, KeptInv, NEW p \in Path, Unplanned(p)
  PROVE  PlanOK(p, LocalOnly(p))
<1>1. /\ base[p].hash \in Known /\ OnDisk(p, base[p].hash) /\ Under(base[p].hash, sync.local[p])
      /\ origins[0] = {} /\ 0 \in Known
  BY Standing, PathKnown
<1>2. CASE Edited(p)
  BY <1>1, <1>2, UploadKept DEF LocalOnly
<1>3. CASE ~Edited(p) /\ Missing(p)
  BY <1>1, <1>3 DEF LocalOnly, Missing, PlanOK, Under
<1>4. CASE ~Edited(p) /\ ~Missing(p)
  BY <1>4, NoPlanKept DEF LocalOnly
<1> QED BY <1>2, <1>3, <1>4

(* A path that changed on the server *)
LEMMA ChangeKept ==
  ASSUME TypeOK, KeptInv, NEW p \in Path, Unplanned(p)
  PROVE  PlanOK(p, Deletion(p)) /\ PlanOK(p, Change(p))
<1>1. /\ base[p].hash \in Known /\ OnServer(p, base[p].hash) /\ OnDisk(p, base[p].hash)
      /\ Under(base[p].hash, sync.local[p]) /\ 0 \in Known /\ OnDisk(p, 0) /\ OnServer(p, 0)
      /\ disk[p] \in Known /\ sync.remote[p].hash \in Known
      /\ sync.remote[p] \in Version /\ base[p] \in Version
  BY Standing, NothingKept, SyncFields, PathTyped
<1>2. PlanOK(p, Deletion(p))
  <2>1. CASE Edited(p)
    BY <1>1, <2>1, UploadKept DEF Deletion
  <2>2. CASE ~Edited(p) /\ base[p] = Gone
    BY <2>2, NoPlanKept DEF Deletion
  <2>3. CASE ~Edited(p) /\ base[p] # Gone
    <3> DEFINE d == [NoPlan EXCEPT !.act = "deleteLocal", !.local = base[p].hash]
    <3>1. NoPlan \in Plan /\ NoPlan.remote = 0
      BY NothingTyped DEF NoPlan
    <3>2. d.act = "deleteLocal" /\ d.local = base[p].hash /\ d.remote = 0
      BY <3>1 DEF Plan
    <3>3. Deletion(p) = d
      BY <2>3 DEF Deletion
    <3> QED BY <1>1, <3>2, <3>3 DEF PlanOK
  <2> QED BY <2>1, <2>2, <2>3
<1>3. PlanOK(p, Change(p))
  <2>1. CASE Missing(p)
    <3>1. Under(base[p].hash, 0)
      BY <1>1, <2>1 DEF Missing
    <3>2. PlanOK(p, Decision(0, sync.remote[p], base[p]))
      BY <1>1, <3>1, DecisionKept DEF PlanOK
    <3> QED BY <2>1, <3>2 DEF Change
  <2>2. CASE ~Missing(p)
    <3> DEFINE d == Decision(disk[p], sync.remote[p], base[p])
    <3>1. /\ Under(base[p].hash, disk[p]) /\ d \in Plan
      BY <1>1, PathTyped, DecisionTyped DEF OnDisk
    <3>2. PlanOK(p, d) /\ (d.act = "delete" => d.local = 0)
      BY <1>1, <3>1, DecisionKept DEF PlanOK
    <3>3. Change(p) = IF d.act = "delete" THEN [d EXCEPT !.act = "download"] ELSE d
      BY <2>2 DEF Change
    <3> HIDE DEF d
    <3> QED BY <1>1, <3>1, <3>2, <3>3 DEF PlanOK, Plan
  <2> QED BY <2>1, <2>2
<1> QED BY <1>2, <1>3

(* The plan of a path, and nothing held for it *)
LEMMA PlanSound ==
  ASSUME TypeOK, KeptInv, NEW p \in Path, UNCHANGED <<rows, disk, copies, history>>,
         PlanOK(p, sync'.plan[p]), sync'.job[p] = Done \/ sync'.job[p] = Todo(0)
  PROVE  /\ sync'.plan[p].local \in Known /\ sync'.plan[p].remote \in Known
         /\ sync'.job[p].content \in Known /\ sync'.job[p].read \in Known /\ JobOK(p)'
<1>1. UNCHANGED <<made, origins, dropped>> /\ 0 \in 0..MaxTries /\ 0 \in Known
  BY Bounds, NothingKept DEF history
<1> QED BY <1>1, PlannedKept DEF PlanOK

LEMMA PlanIncrementalKept == TypeOK /\ KeptInv /\ PlanIncremental => KeptInv'
<1> SUFFICES ASSUME TypeOK, KeptInv, PlanIncremental PROVE KeptInv'
  OBVIOUS
<1> DEFINE plan == [p \in Path |-> IF p \in sync.changed THEN NoPlan ELSE LocalOnly(p)]
           job == [p \in Path |-> IF plan[p].act = "none" THEN Done ELSE Todo(0)]
<1>1. /\ UNCHANGED <<rows, log, disk, base, saved, copies, history>> /\ sync \in SyncRun
      /\ sync.pc = "scan" /\ sync.scanned
      /\ sync' = [sync EXCEPT !.pc = "reconcile", !.todo = sync.changed, !.plan = plan, !.job = job]
  BY DEF PlanIncremental, server, device, TypeOK
<1> HIDE DEF job
<1>2. sync'.plan = plan /\ sync'.job = job /\ UNCHANGED <<sync.remote, sync.local>>
  <2> HIDE DEF plan
  <2> QED BY <1>1 DEF SyncRun
<1>3. \A p \in Path : Unplanned(p)
  BY <1>1 DEF Unplanned
<1>4. ASSUME NEW p \in Path
      PROVE  /\ sync'.plan[p].local \in Known /\ sync'.plan[p].remote \in Known
             /\ sync'.job[p].content \in Known /\ sync'.job[p].read \in Known /\ JobOK(p)'
  <2>1. PlanOK(p, plan[p])
    BY <1>3, NoPlanKept, LocalOnlyKept
  <2>2. sync'.job[p] = Done \/ sync'.job[p] = Todo(0)
    BY <1>2 DEF job
  <2> QED BY <1>1, <1>2, <2>1, <2>2, PlanSound
<1> QED BY <1>1, <1>2, <1>3, <1>4, Standing, SyncKept

LEMMA ReconcileKept ==
  ASSUME TypeOK, KeptInv, NEW p \in Path, Reconcile(p)
  PROVE  KeptInv'
<1> DEFINE plan == IF sync.remote[p] = Gone THEN Deletion(p) ELSE Change(p)
           j == IF plan.act = "none" THEN Done ELSE Todo(0)
<1>1. /\ UNCHANGED <<rows, log, disk, saved, copies, history>> /\ sync \in SyncRun
      /\ sync.pc = "reconcile" /\ p \in sync.todo /\ base \in [Path -> Version]
      /\ sync' = [sync EXCEPT !.todo = @ \ {p}, !.plan[p] = plan, !.job[p] = j]
      /\ base' \in {base, [base EXCEPT ![p] = Agreed(disk[p], sync.remote[p], base[p])]}
  BY DEF Reconcile, server, TypeOK
<1>2. Unplanned(p)
  BY <1>1 DEF Unplanned
<1>3. PlanOK(p, plan) /\ plan \in Plan
  BY <1>2, ChangeKept, ChangeTyped
<1>4. j \in {Done, Todo(0)}
  OBVIOUS
<1> HIDE DEF plan, j
<1>5. /\ sync'.pc = "reconcile" /\ sync'.todo = sync.todo \ {p}
      /\ UNCHANGED <<sync.remote, sync.local>>
      /\ sync'.plan = [sync.plan EXCEPT ![p] = plan] /\ sync'.job = [sync.job EXCEPT ![p] = j]
      /\ sync.plan \in [Path -> Plan] /\ sync.job \in [Path -> Job]
  BY <1>1 DEF SyncRun
<1>6. sync'.plan[p] = plan /\ sync'.job[p] = j
  BY <1>5
<1>7. ~Unplanned(p)' /\ \A q \in Path : Unplanned(q)' => Unplanned(q)
  BY <1>1, <1>5 DEF Unplanned
<1>8. /\ sync'.plan[p].local \in Known /\ sync'.plan[p].remote \in Known
      /\ sync'.job[p].content \in Known /\ sync'.job[p].read \in Known /\ JobOK(p)'
  BY <1>1, <1>3, <1>4, <1>6, PlanSound
<1>9. base'[p].hash \in Known /\ OnServer(p, base'[p].hash) /\ OnDisk(p, base'[p].hash)
  <2>1. sync.remote[p] \in Version /\ base[p] \in Version
    BY SyncFields, PathTyped
  <2>2. LET b == Agreed(disk[p], sync.remote[p], base[p]) IN
        b.hash \in Known /\ OnServer(p, b.hash) /\ OnDisk(p, b.hash)
    BY <2>1, Standing, BaselineKept
  <2>3. base'[p] \in {base[p], Agreed(disk[p], sync.remote[p], base[p])}
    BY <1>1
  <2> QED BY <2>2, <2>3, Standing
<1>10. ASSUME NEW q \in Path \ {p}
       PROVE  /\ base'[q] = base[q] /\ sync'.plan[q] = sync.plan[q] /\ sync'.job[q] = sync.job[q] /\ JobOK(q)'
  <2>1. base'[q] = base[q] /\ sync'.plan[q] = sync.plan[q] /\ sync'.job[q] = sync.job[q]
    BY <1>1, <1>5
  <2>2. JobOK(q)'
    BY <1>1, <2>1, Standing, StillKept DEF JobOK, OnServer, OnDisk, Under
  <2> QED BY <2>1, <2>2
<1> QED BY <1>1, <1>5, <1>7, <1>8, <1>9, <1>10, Standing, SyncKept

LEMMA EndReconcileKept == TypeOK /\ KeptInv /\ EndReconcile => KeptInv'
<1> SUFFICES ASSUME TypeOK, KeptInv, EndReconcile PROVE KeptInv'
  OBVIOUS
<1>1. /\ UNCHANGED <<rows, log, disk, base, saved, copies, history>> /\ sync \in SyncRun
      /\ sync' = [sync EXCEPT !.pc = "apply"]
  BY DEF EndReconcile, server, device, TypeOK
<1>2. sync'.pc = "apply" /\ UNCHANGED <<sync.remote, sync.local, sync.plan, sync.job>>
  BY <1>1 DEF SyncRun
<1>3. \A p \in Path : ~Unplanned(p)'
  BY <1>2 DEF Unplanned
<1>4. \A p \in Path : JobOK(p)'
  BY <1>1, <1>2, Standing, StillKept DEF JobOK, OnServer, OnDisk, Under
<1> QED BY <1>1, <1>2, <1>3, <1>4, Standing, SyncKept

-----------------------------------------------------------------------------
(* No content is lost. *)

(* A device starts with what the server has, or with nothing. *)
LEMMA KeptInit == Init => KeptInv
<1> SUFFICES ASSUME Init PROVE KeptInv
  OBVIOUS
<1>0. PICK count \in 0..Lesser(MaxMade, MaxSeq), synced \in BOOLEAN : \E file \in [1..count -> Path] :
    /\ \A n \in 1..count : \A m \in 1..(n - 1) : file[m] < file[n]
    /\ log = [n \in 1..count |-> [path |-> file[n], hash |-> n]] /\ pruned = 0
    /\ rows \in [Path -> {Gone} \cup {[hash |-> n, rev |-> n] : n \in 1..count}]
    /\ \A p \in Path, n \in 1..count : rows[p].rev = n <=> file[n] = p
    /\ disk = [p \in Path |-> IF synced THEN rows[p].hash ELSE 0]
    /\ base = [p \in Path |-> IF synced THEN rows[p] ELSE Gone] /\ saved = base
    /\ cursor = IF synced THEN count ELSE 0
    /\ copies = {} /\ sync = Idle
    /\ made = count /\ origins = [c \in Content |-> IF c \in 1..count THEN {c} ELSE {}]
    /\ dropped = {} /\ used = [removals |-> 0, stops |-> 0]
  BY Zenon DEF Init
<1>1. PICK file \in [1..count -> Path] :
    /\ log = [n \in 1..count |-> [path |-> file[n], hash |-> n]]
    /\ \A p \in Path, n \in 1..count : rows[p].rev = n <=> file[n] = p
  BY <1>0
<1>2. /\ count \in Nat /\ 1..count \subseteq Content /\ 0 \in Content
      /\ \A n \in 1..count : n \in Known /\ 0 \in Known
      /\ made = count /\ 0 \in Known /\ Gone.hash = 0 /\ Gone.rev = 0
  BY <1>0, Bounds DEF Lesser, Content, Known, Gone
<1>3. HistoryOK
  BY <1>0, <1>2 DEF HistoryOK, Known
<1>4. \A n \in 1..count : rows[file[n]].hash = n
  <2> SUFFICES ASSUME NEW n \in 1..count PROVE rows[file[n]].hash = n
    OBVIOUS
  <2>1. file[n] \in Path /\ rows[file[n]].rev = n
    BY <1>1
  <2>2. rows[file[n]] \in {Gone} \cup {[hash |-> m, rev |-> m] : m \in 1..count}
    BY <1>0, <2>1
  <2>3. n # 0
    BY <1>2
  <2> QED BY <1>2, <2>1, <2>2, <2>3
<1>5. Last = count /\ \A n \in 1..count : log[n].path = file[n] /\ log[n].hash = n
  BY <1>1, <1>2 DEF Last
<1>6. LogOK
  BY <1>2, <1>4, <1>5 DEF LogOK, OnServer, Under
<1>7. NothingLost
  <2> SUFFICES ASSUME NEW n \in 1..count PROVE \E p \in Path : n \in origins[rows[p].hash]
    BY <1>2 DEF NothingLost
  <2>1. n \in origins[n] /\ file[n] \in Path /\ rows[file[n]].hash = n
    BY <1>2, <1>3, <1>4 DEF HistoryOK
  <2> QED BY <2>1
<1>8. ASSUME NEW p \in Path PROVE PathOK(p)
  <2>1. rows[p] \in {Gone} \cup {[hash |-> n, rev |-> n] : n \in 1..count}
    BY <1>0
  <2>2. rows[p].hash \in Known /\ origins[0] = {}
    BY <1>2, <1>3, <2>1 DEF HistoryOK
  <2>3. base[p].hash \in {0, rows[p].hash} /\ saved[p] = base[p] /\ disk[p] = base[p].hash
    BY <1>0, <1>2
  <2>4. /\ sync.remote[p].hash = 0 /\ sync.local[p] = 0 /\ ~sync.scanned /\ sync.pc = "idle"
        /\ sync.plan[p].local = 0 /\ sync.plan[p].remote = 0
        /\ sync.job[p].content = 0 /\ sync.job[p].read = 0 /\ sync.job[p].stage = "done"
    BY <1>0, <1>2 DEF Idle, NoPlan, Done
  <2>5. ValuesKnown(p)
    BY <1>2, <2>2, <2>3, <2>4 DEF ValuesKnown
  <2>6. BaseOK(p) /\ SavedOK(p) /\ RemoteOK(p)
    BY <2>2, <2>3, <2>4 DEF BaseOK, SavedOK, RemoteOK, OnServer, OnDisk, Under
  <2> QED BY <2>4, <2>5, <2>6 DEF PathOK, ScanOK, Unplanned, JobOK
<1> QED BY <1>3, <1>6, <1>7, <1>8 DEF KeptInv

(* Every step keeps the invariant. *)
LEMMA KeptStep == TypeOK /\ KeptInv /\ [Next]_vars => KeptInv'
<1> SUFFICES ASSUME TypeOK, KeptInv, [Next]_vars PROVE KeptInv'
  OBVIOUS
<1>1. CASE \E p \in Path : Write(p) \/ GoBack(p) \/ Remove(p) \/ Foreign(p)
  BY <1>1, EditKept, ForeignKept
<1>2. CASE Prune \/ PlanFull \/ PlanIncremental \/ EndReconcile
  BY <1>2, PruneKept, PlanFullKept, PlanIncrementalKept, EndReconcileKept
<1>3. CASE Begin \/ EndSync \/ Stop
  BY <1>3, BeginKept
<1>4. CASE ReadChanges
  <2>1. CASE Expired(sync.since)
    BY <1>4, <2>1, BeginKept
  <2>2. CASE ~Expired(sync.since)
    BY <1>4, <2>2, FollowKept DEF ReadChanges, server, device
  <2> QED BY <2>1, <2>2
<1>5. CASE ReplayChanges
  <2>1. CASE Expired(sync.since)
    BY <1>5, <2>1, BeginKept
  <2>2. CASE ~Expired(sync.since)
    BY <1>5, <2>2, FollowKept DEF ReplayChanges, server, device
  <2> QED BY <2>1, <2>2
<1>6. CASE ReadManifest \/ Scan
  BY <1>6, LookKept
<1>7. CASE \E p \in Path : Reconcile(p) \/ Applying(p)
  BY <1>7, ReconcileKept, ApplyingKept
<1>8. CASE UNCHANGED vars
  BY <1>8 DEF vars, server, device, history, KeptInv, HistoryOK, NothingLost, LogOK, Last, PathOK, ValuesKnown,
              BaseOK, SavedOK, RemoteOK, ScanOK, Unplanned, JobOK, OnServer, OnDisk, Under, Safe, Known
<1> QED BY <1>1, <1>2, <1>3, <1>4, <1>5, <1>6, <1>7, <1>8 DEF Next

(* What the invariant keeps is in a file, a conflict copy or the trash. *)
LEMMA KeptSuffices == TypeOK /\ KeptInv => NoContentLost
<1> SUFFICES ASSUME TypeOK, KeptInv, NEW c \in 1..made, c \notin dropped
             PROVE  \E k \in Kept : c \in origins[k]
  BY DEF NoContentLost
<1>1. c \in Safe \/ \E p \in Path : c \in origins[disk[p]] \cup origins[rows[p].hash]
  BY DEF KeptInv, NothingLost
<1>2. copies \subseteq Kept /\ \A p \in Path : disk[p] \in Kept /\ rows[p].hash \in Kept
  BY DEF Kept
<1> QED BY <1>1, <1>2 DEF Safe

(* No content is lost to a sync, whatever the user, the other devices, the pruning of the
   changelog and a stop of the program do between its steps: unless somebody removed it or
   went back from it, it is part of a file of the vault or of the server, of a conflict copy
   or of the trash. *)
THEOREM NoContentIsLost == Spec => []NoContentLost
<1>1. Init => TypeOK /\ KeptInv
  BY TypeInit, KeptInit
<1>2. (TypeOK /\ KeptInv) /\ [Next]_vars => (TypeOK /\ KeptInv)'
  BY TypeStep, KeptStep
<1>3. TypeOK /\ KeptInv => NoContentLost
  BY KeptSuffices
<1> QED BY <1>1, <1>2, <1>3, PTL DEF Spec

-----------------------------------------------------------------------------
(***************************************************************************)
(* Nothing stays hidden behind the cursor, unless the user may go back to   *)
(* an earlier content while a sync is under way.                            *)
(***************************************************************************)

(* The cursor has passed every line of the file, *)
Behind(p) == LinesOf(p, cursor, Last) = {}

(* and what the sync read of it is still so. *)
Current(p) == LinesOf(p, sync.last, Last) = {}

(* The baseline b is what the server has; or the server has removed the file, and b is
   no content to which the user may go back from the one in the vault. *)
Shown(p, b) ==
  b.hash = rows[p].hash \/ (rows[p].hash = 0 /\ b.hash \notin origins[disk[p]] \cup {0})

Deciding(p) == sync.pc = "apply" \/ (sync.pc = "reconcile" /\ p \notin sync.todo)

(* What the decision for a path rests on, as long as the server keeps what was read.  An
   upload may be skipped as unchanged; then the file is gone. *)
Decided(p) ==
  LET plan == sync.plan[p]
      job == sync.job[p]
  IN
  /\ plan.act = "deleteLocal" /\ job.stage \in {"todo", "held"} => plan.local = base[p].hash
  /\ Current(p) =>
       /\ job = Done /\ ~sync.failed => Shown(p, base[p])
       /\ plan.act = "upload" /\ job.stage = "todo" /\ ~Forced(p) =>
            base[p].hash = rows[p].hash \/ (rows[p].hash = 0 /\ base[p].hash \notin {0, disk[p]})
       /\ plan.act \in {"download", "conflict"} /\ job.stage \in {"held", "copied"} =>
            job.content = rows[p].hash /\ job.content # 0
       /\ job.stage # "merged"
       /\ plan.act = "deleteLocal" /\ job.stage \in {"todo", "held"} => rows[p].hash = 0

(* A file that has its baseline had it when it was scanned. *)
Scanned(p) ==
  Unplanned(p) /\ sync.pc # "idle" /\ base[p].hash # 0 /\ disk[p] = base[p].hash =>
    sync.local[p] = disk[p]

CursorBehind == sync.pc \in {"scan", "reconcile", "apply"} => cursor <= sync.last

PathShown(p) ==
  /\ Behind(p) => Shown(p, base[p]) /\ Shown(p, saved[p])
  /\ Scanned(p) /\ (Deciding(p) => Decided(p))

HiddenInv == CursorBehind /\ \A p \in Path : PathShown(p)

-----------------------------------------------------------------------------
(* The lines after the cursor are among those after the sync's last one. *)

LEMMA BehindCurrent ==
  ASSUME cursor \in Nat, sync.last \in Nat, cursor <= sync.last, Last \in Nat, NEW p, Behind(p)
  PROVE  Current(p)
BY DEF Behind, Current, LinesOf

LEMMA BehindCurrentNext ==
  ASSUME cursor' \in Nat, sync'.last \in Nat, cursor' <= sync'.last, Last' \in Nat, NEW p, Behind(p)'
  PROVE  Current(p)'
BY DEF Behind, Current, LinesOf

(* The cursors are positions of the changelog. *)
LEMMA CursorsTyped ==
  ASSUME TypeOK
  PROVE  Last \in Nat /\ cursor \in 0..Last /\ cursor \in Nat /\ sync.last \in 0..Last /\ sync.last \in Nat
<1>1. Last \in Nat /\ sync.last \in 0..Last /\ cursor \in 0..Last
  BY SyncFields DEF TypeOK
<1> QED BY <1>1

(* Lines are only added. *)
LEMMA LinesStay ==
  ASSUME TypeOK, LogGrows, Last' \in Nat, NEW p
  PROVE  /\ cursor' = cursor /\ Behind(p)' => Behind(p)
         /\ sync'.last = sync.last /\ Current(p)' => Current(p)
<1>1. Last \in Nat /\ cursor \in Nat /\ sync.last \in Nat
  BY SyncFields DEF TypeOK
<1>2. \A from \in Nat : \A n : n \in LinesOf(p, from, Last) => n \in LinesOf(p, from, Last)'
  BY <1>1 DEF LinesOf, LogGrows
<1>3. cursor' = cursor /\ Behind(p)' => Behind(p)
  BY <1>1, <1>2 DEF Behind
<1>4. sync'.last = sync.last /\ Current(p)' => Current(p)
  BY <1>1, <1>2 DEF Current
<1> QED BY <1>3, <1>4

(* A publication is a line after both. *)
LEMMA LineAdded ==
  ASSUME TypeOK, NEW p \in Path, NEW hash \in Content, Publish(p, hash)
  PROVE  /\ cursor' = cursor => ~Behind(p)'
         /\ sync'.last = sync.last => ~Current(p)'
<1>1. /\ Last \in Nat /\ cursor \in 0..Last /\ sync.last \in 0..Last /\ Last' = Last + 1
  BY SyncFields, Publishes DEF TypeOK
<1>2. log'[Last + 1] = [path |-> p, hash |-> hash]
  BY Publishes
<1>3. log'[Last + 1].path = p
  BY <1>2
<1> QED BY <1>1, <1>3 DEF Behind, Current, LinesOf

(* No content the user may go back to is new, but those just made. *)
Shrinks(p) == \A c \in Known : c \in origins'[disk'[p]] => c \in origins[disk[p]]

(* What need not be shown need not be after a step, if the row stays. *)
LEMMA ShownStays ==
  ASSUME NEW p, NEW b, b.hash \in Known, rows'[p] = rows[p], Shrinks(p), Shown(p, b)
  PROVE  Shown(p, b)'
BY DEF Shown, Shrinks

(* A step that leaves the baselines of a path alone, and its row or its lines *)
LEMMA BaselinesStay ==
  ASSUME TypeOK, KeptInv, HiddenInv, NEW p \in Path, LogGrows, Last' \in Nat, cursor' = cursor,
         base'[p] = base[p] \/ base'[p] = saved[p],
         saved'[p] = saved[p] \/ saved'[p] = base[p],
         Behind(p)' => rows'[p] = rows[p] /\ Shrinks(p)
  PROVE  Behind(p)' => Shown(p, base[p])' /\ Shown(p, saved[p])'
<1> SUFFICES ASSUME Behind(p)' PROVE Shown(p, base[p])' /\ Shown(p, saved[p])'
  OBVIOUS
<1>1. Behind(p)
  BY LinesStay
<1>2. PICK b, s : b = base[p] /\ s = saved[p]
  OBVIOUS
<1>3. b.hash \in Known /\ s.hash \in Known /\ Shown(p, b) /\ Shown(p, s)
  BY <1>1, <1>2 DEF KeptInv, PathOK, ValuesKnown, HiddenInv, PathShown, Shown
<1>4. Shown(p, b)' /\ Shown(p, s)'
  BY <1>3, ShownStays
<1> QED BY <1>2, <1>4 DEF Shown

(* A step that leaves the decision for a path alone *)
LEMMA DecidedStays ==
  ASSUME TypeOK, KeptInv, NEW p \in Path, Decided(p), LogGrows, Last' \in Nat,
         sync'.last = sync.last, sync'.full = sync.full, sync.failed => sync'.failed,
         sync'.plan[p] = sync.plan[p], sync'.job[p] = sync.job[p], base'[p] = base[p],
         Current(p)' => rows'[p] = rows[p] /\ Shrinks(p) /\ (disk'[p] = disk[p] \/ disk'[p] \notin 1..made)
  PROVE  Decided(p)'
<1>0. PICK b : b = base[p]
  OBVIOUS
<1>1. b.hash \in Known /\ made \in Nat
  BY <1>0, MadeTyped DEF KeptInv, PathOK, ValuesKnown
<1>2. Current(p)' => Current(p)
  BY LinesStay
<1>3. Current(p)' /\ Shown(p, b) => Shown(p, b)'
  BY <1>1, ShownStays
<1>4. Current(p)' /\ Shown(p, base[p]) => Shown(p, base[p])'
  BY <1>0, <1>3 DEF Shown
<1>5. Forced(p)' = Forced(p)
  BY DEF Forced
<1>6. Current(p)' /\ b.hash \notin {0, disk[p]} => b.hash \notin {0, disk'[p]}
  BY <1>1 DEF Known
<1> QED BY <1>0, <1>2, <1>4, <1>5, <1>6 DEF Decided

-----------------------------------------------------------------------------
(* Applying a decision. *)

(* The row stays, and the file is left, removed, or replaced when the server has one. *)
LEMMA ShownMoved ==
  ASSUME TypeOK, KeptInv, NEW p \in Path, NEW b, rows'[p] = rows[p],
         \A c \in Known : origins'[c] = origins[c],
         disk'[p] \in {disk[p], 0} \/ rows[p].hash # 0, Shown(p, b)
  PROVE  Shown(p, b)'
<1>1. disk[p] \in Known /\ 0 \in Known /\ origins[0] = {}
  BY PathKnown DEF ValuesKnown
<1> QED BY <1>1 DEF Shown

(* A step on one path keeps all the others, whatever it does. *)
LEMMA AppliesHidden ==
  ASSUME TypeOK, TypeOK', KeptInv, HiddenInv, NEW p \in Path, sync.pc = "apply",
         UNCHANGED <<Apart, saved, cursor>>, Elsewhere(p), LogGrows, sync.failed => sync'.failed,
         \A c \in Known : origins'[c] = origins[c],
         Behind(p)' => rows'[p] = rows[p] /\ (disk'[p] \in {disk[p], 0} \/ rows[p].hash # 0),
         base'[p] = base[p] \/ (Current(p)' => Shown(p, base[p])'),
         Decided(p)'
  PROVE  HiddenInv'
<1>1. /\ sync'.pc = "apply" /\ sync'.last = sync.last /\ sync'.full = sync.full
      /\ saved' = saved /\ cursor' = cursor
  BY DEF Apart
<1>2. /\ Last' \in Nat /\ Last \in Nat /\ cursor \in Nat /\ sync.last \in Nat /\ cursor <= sync.last
  <2>1. sync'.last \in Nat
    BY <1>1, SyncFields DEF TypeOK
  <2>2. Last \in Nat /\ cursor \in Nat /\ sync.last \in Nat
    BY CursorsTyped
  <2>3. log' \in Seq([path : Path, hash : Content])
    BY DEF TypeOK
  <2> QED BY <2>2, <2>3 DEF Last, HiddenInv, CursorBehind
<1>3. ASSUME NEW q \in Path \ {p} PROVE PathShown(q)'
  <2>1. disk'[q] = disk[q] /\ rows'[q] = rows[q] /\ base'[q] = base[q]
        /\ sync'.plan[q] = sync.plan[q] /\ sync'.job[q] = sync.job[q]
    BY DEF Elsewhere
  <2>2. Shrinks(q)
    BY <2>1, PathKnown DEF Shrinks, ValuesKnown
  <2>3. Behind(q)' => Shown(q, base[q])' /\ Shown(q, saved[q])'
    BY <1>1, <1>2, <2>1, <2>2, BaselinesStay
  <2>4. Decided(q)
    BY DEF HiddenInv, PathShown, Deciding
  <2>5. Decided(q)'
    BY <1>1, <1>2, <2>1, <2>2, <2>4, DecidedStays
  <2> QED BY <1>1, <2>3, <2>5 DEF PathShown, Scanned, Unplanned
<1>4. PathShown(p)'
  <2>1. Behind(p)' => Behind(p) /\ Current(p)'
    BY <1>1, <1>2, LinesStay, BehindCurrentNext
  <2>2. ASSUME NEW b, Behind(p)', Shown(p, b) PROVE Shown(p, b)'
    BY <2>2, ShownMoved
  <2>3. PICK b, s : b = base[p] /\ s = saved[p]
    OBVIOUS
  <2>4. Behind(p)' => Shown(p, b) /\ Shown(p, s)
    BY <2>1, <2>3 DEF HiddenInv, PathShown, Shown
  <2>5. Behind(p)' => Shown(p, s)' /\ Shown(p, b)'
    BY <2>2, <2>4
  <2>6. Behind(p)' => Shown(p, saved[p])'
    BY <1>1, <2>3, <2>5 DEF Shown
  <2>7. Behind(p)' => Shown(p, base[p])'
    <3>1. CASE base'[p] = base[p]
      BY <2>3, <2>5, <3>1 DEF Shown
    <3>2. CASE Current(p)' => Shown(p, base[p])'
      BY <2>1, <3>2
    <3> QED BY <3>1, <3>2
  <2> QED BY <1>1, <2>6, <2>7 DEF PathShown, Scanned, Unplanned
<1> QED BY <1>1, <1>2, <1>3, <1>4 DEF HiddenInv, CursorBehind

(* A path that is done has no plan to keep. *)
LEMMA DoneDecided ==
  ASSUME NEW p, sync'.job[p] = Done, Current(p)' /\ ~sync'.failed => Shown(p, base[p])'
  PROVE  Decided(p)'
<1>1. Done.stage = "done"
  BY DEF Done
<1> QED BY <1>1 DEF Decided

(* What stays the same when a step leaves the vault and the server alone *)
LEMMA StillHidden ==
  ASSUME TypeOK, KeptInv, NEW p \in Path, sync.pc = "apply",
         UNCHANGED <<rows, log, disk, saved, cursor, history, Apart>>
  PROVE  /\ LogGrows /\ \A c \in Known : origins'[c] = origins[c]
         /\ rows'[p] = rows[p] /\ disk'[p] \in {disk[p], 0}
         /\ Current(p)' = Current(p) /\ Behind(p)' = Behind(p)
         /\ \A b : Shown(p, b)' = Shown(p, b)
<1>1. Last' = Last /\ sync'.last = sync.last /\ origins' = origins /\ Last \in Nat
  BY SyncFields DEF Last, Apart, history
<1>2. LogGrows
  BY <1>1 DEF LogGrows
<1>3. Current(p)' = Current(p) /\ Behind(p)' = Behind(p)
  BY <1>1 DEF Current, Behind, LinesOf
<1>4. \A b : Shown(p, b)' = Shown(p, b)
  BY <1>1 DEF Shown
<1> QED BY <1>1, <1>2, <1>3, <1>4

(* The decision of a path that lost a race *)
LEMMA LosesHidden ==
  ASSUME TypeOK, TypeOK', KeptInv, HiddenInv, NEW p \in Path, NEW b \in Version,
         AgainFrom(p, b) \/ LosesFrom(p, b), b = base[p] \/ ~Current(p), sync.pc = "apply",
         UNCHANGED <<rows, log, disk, saved, cursor, history>>
  PROVE  HiddenInv'
<1>1. base \in [Path -> Version] /\ disk[p] \in Content /\ rows[p] \in Version
  BY PathTyped DEF TypeOK
<1>2. CASE Fail(p) /\ SetBase(p, b)
  <2>1. base' = [base EXCEPT ![p] = b]
    BY <1>2 DEF SetBase
  <2>2. UNCHANGED Apart /\ Elsewhere(p) /\ sync'.job[p] = Done
    BY <1>1, <1>2, <2>1, Ended DEF Elsewhere
  <2>3. sync'.failed
    BY <1>2 DEF Fail, TypeOK, SyncRun
  <2>4. Decided(p)'
    BY <2>2, <2>3, DoneDecided
  <2>5. /\ LogGrows /\ \A c \in Known : origins'[c] = origins[c]
        /\ rows'[p] = rows[p] /\ disk'[p] \in {disk[p], 0} /\ Current(p)' = Current(p)
    BY <2>2, StillHidden
  <2>6. base'[p] = base[p] \/ ~Current(p)'
    BY <1>1, <2>1, <2>5
  <2> QED BY <2>2, <2>3, <2>4, <2>5, <2>6, AppliesHidden
<1>3. CASE AgainFrom(p, b) /\ ~(sync.job[p].tries + 1 > MaxTries)
  <2> DEFINE d == Decision(disk[p], rows[p], b)
             agreed == Agreed(disk[p], rows[p], b)
             j == IF d.act = "none" THEN Done ELSE Todo(sync.job[p].tries + 1)
  <2>1. base' = [base EXCEPT ![p] = agreed] /\ sync' = [sync EXCEPT !.plan[p] = d, !.job[p] = j]
    BY <1>3 DEF AgainFrom, SetBase
  <2>2. sync.job[p].tries + 1 \in 0..MaxTries /\ sync.job[p].tries + 1 > 0
    BY <1>3, PathTyped, Bounds DEF Job
  <2>3. d \in Plan /\ agreed \in Version /\ j \in Job
    BY <1>1, <2>2, DecisionTyped, NothingTyped, PathTyped
  <2>4. /\ d.act = "none" => disk[p] = rows[p].hash
        /\ disk[p] = rows[p].hash => agreed.hash = rows[p].hash
        /\ d.act # "none" => agreed = b
        /\ d.act = "deleteLocal" => rows[p].hash = 0 /\ d.local = b.hash
    BY DEF Decision, Agreed, Gone
  <2>5. \/ d.act = "none" /\ j = Done
        \/ d.act # "none" /\ j.stage = "todo" /\ j.tries > 0
    <3>1. \A t \in Nat : Todo(t).stage = "todo" /\ Todo(t).tries = t
      BY DEF Todo, Done
    <3> QED BY <2>2, <3>1
  <2> HIDE DEF d, agreed, j
  <2>6. UNCHANGED Apart /\ Elsewhere(p) /\ sync'.plan[p] = d /\ sync'.job[p] = j
    <3>1. /\ UNCHANGED Apart /\ sync'.plan[p] = d /\ sync'.job[p] = j
          /\ \A q \in Path \ {p} : sync'.plan[q] = sync.plan[q] /\ sync'.job[q] = sync.job[q]
      BY <2>1, <2>3, Replanned
    <3>2. \A q \in Path \ {p} : base'[q] = base[q]
      BY <1>1, <2>1
    <3> QED BY <3>1, <3>2 DEF Elsewhere
  <2>7. /\ LogGrows /\ \A c \in Known : origins'[c] = origins[c]
        /\ rows'[p] = rows[p] /\ disk'[p] \in {disk[p], 0} /\ Current(p)' = Current(p)
    BY <2>6, StillHidden
  <2>8. sync.failed => sync'.failed
    <3>1. sync \in SyncRun
      BY DEF TypeOK
    <3> QED BY <2>1, <3>1 DEF SyncRun
  <2>9. base'[p] = agreed
    BY <1>1, <2>1, <2>3
  <2>10. CASE d.act = "none"
    <3>1. Shown(p, base[p])'
      BY <2>4, <2>7, <2>9, <2>10 DEF Shown
    <3>2. Decided(p)'
      BY <2>5, <2>6, <2>10, <3>1, DoneDecided
    <3> QED BY <2>6, <2>7, <2>8, <3>1, <3>2, AppliesHidden
  <2>11. CASE d.act # "none"
    <3>1. base'[p] = b
      BY <2>4, <2>9, <2>11
    <3>2. base'[p] = base[p] \/ ~Current(p)'
      BY <2>7, <3>1
    <3>3. Forced(p)' /\ sync'.job[p] # Done /\ sync'.job[p].stage = "todo"
      <4>1. Done.stage = "done"
        BY DEF Done
      <4> QED BY <2>5, <2>6, <2>11, <4>1 DEF Forced
    <3>4. Decided(p)'
      BY <2>4, <2>6, <2>7, <3>1, <3>3 DEF Decided
    <3> QED BY <2>6, <2>7, <2>8, <3>2, <3>4, AppliesHidden
  <2> QED BY <2>10, <2>11
<1> QED BY <1>2, <1>3 DEF AgainFrom, LosesFrom

(* It is decided again, by the baseline the path has. *)
LEMMA OwnLosesHidden ==
  ASSUME TypeOK, TypeOK', KeptInv, HiddenInv, NEW p \in Path, Loses(p) \/ Again(p), sync.pc = "apply",
         UNCHANGED <<rows, log, disk, saved, cursor, history>>
  PROVE  HiddenInv'
BY PathTyped, LosesHidden DEF Loses, Again

(* A path that is settled: the file, and the version that becomes its baseline *)
LEMMA SettledHidden ==
  ASSUME TypeOK, TypeOK', KeptInv, HiddenInv, NEW p \in Path, sync.pc = "apply",
         Finish(p), UNCHANGED <<rows, log, saved, cursor, history>>,
         NEW c \in Content, disk' = [disk EXCEPT ![p] = c],
         NEW v \in Version, base' = [base EXCEPT ![p] = v],
         Current(p) => /\ c \in {disk[p], 0} \/ rows[p].hash # 0
                       /\ v.hash = rows[p].hash \/ (rows[p].hash = 0 /\ v.hash \notin origins[c] \cup {0})
  PROVE  HiddenInv'
<1>1. UNCHANGED Apart /\ sync'.plan = sync.plan /\ sync'.job[p] = Done
      /\ \A q \in Path \ {p} : sync'.job[q] = sync.job[q]
  BY Ended
<1>2. disk \in [Path -> Content] /\ base \in [Path -> Version]
  BY DEF TypeOK
<1>3. Elsewhere(p) /\ disk'[p] = c /\ base'[p] = v
  BY <1>1, <1>2 DEF Elsewhere
<1>4. sync.failed => sync'.failed
  BY DEF Finish, Move, TypeOK, SyncRun
<1>5. Last' = Last /\ sync'.last = sync.last /\ origins' = origins /\ Last \in Nat
  BY <1>1, SyncFields DEF Last, Apart, history
<1>6. LogGrows /\ Current(p)' = Current(p)
  BY <1>5 DEF LogGrows, Current, LinesOf
<1>7. sync'.last \in Nat /\ cursor' <= sync'.last /\ cursor' \in Nat
  BY <1>1, CursorsTyped DEF HiddenInv, CursorBehind, Apart
<1>8. Behind(p)' => Current(p)'
  BY <1>5, <1>7, BehindCurrentNext
<1>9. Current(p)' => Shown(p, base[p])'
  BY <1>3, <1>5, <1>6 DEF Shown
<1>10. Decided(p)'
  BY <1>1, <1>9, DoneDecided
<1> QED BY <1>1, <1>3, <1>4, <1>5, <1>6, <1>8, <1>9, <1>10, AppliesHidden

(* A path that goes on, or has failed *)
LEMMA MovedHidden ==
  ASSUME TypeOK, TypeOK', KeptInv, HiddenInv, NEW p \in Path, sync.pc = "apply",
         UNCHANGED <<rows, log, disk, base, saved, cursor, history, Apart>>,
         Elsewhere(p), sync.failed => sync'.failed, Decided(p)'
  PROVE  HiddenInv'
<1>1. /\ LogGrows /\ \A c \in Known : origins'[c] = origins[c]
      /\ rows'[p] = rows[p] /\ disk'[p] \in {disk[p], 0}
  BY StillHidden
<1> QED BY <1>1, AppliesHidden

(* After a failure the cursor stays, so nothing is owed. *)
LEMMA FailedHidden ==
  ASSUME TypeOK, TypeOK', KeptInv, HiddenInv, NEW p \in Path, sync.pc = "apply", Fail(p),
         UNCHANGED <<rows, log, disk, base, saved, cursor, history>>
  PROVE  HiddenInv'
<1>1. UNCHANGED Apart /\ sync'.plan = sync.plan /\ sync'.job[p] = Done
      /\ \A q \in Path \ {p} : sync'.job[q] = sync.job[q]
  BY Ended
<1>2. sync'.failed
  BY DEF Fail, TypeOK, SyncRun
<1>3. Decided(p)'
  BY <1>1, <1>2, DoneDecided
<1> QED BY <1>1, <1>2, <1>3, MovedHidden DEF Elsewhere

(* A stage of a transfer, with a content that is the one on the server or of no use *)
LEMMA StagedHidden ==
  ASSUME TypeOK, TypeOK', KeptInv, HiddenInv, NEW p \in Path, sync.pc = "apply",
         NEW j \in Job, Move(p, j),
         UNCHANGED <<rows, log, disk, base, saved, cursor, history>>,
         j.stage \in {"held", "copied"},
         sync.plan[p].act = "deleteLocal" => j.stage = "held" /\ sync.job[p].stage = "todo",
         sync.plan[p].act \in {"download", "conflict"} /\ Current(p) =>
           j.content = rows[p].hash /\ j.content # 0
  PROVE  HiddenInv'
<1>1. /\ UNCHANGED Apart /\ sync'.plan = sync.plan /\ sync'.job[p] = j
      /\ \A q \in Path \ {p} : sync'.job[q] = sync.job[q]
  BY MovedTo
<1>2. sync.failed => sync'.failed
  BY DEF Move, TypeOK, SyncRun
<1>3. Current(p)' = Current(p)
  BY <1>1, StillHidden
<1>4. Decided(p)
  BY DEF HiddenInv, PathShown, Deciding
<1>5. j # Done
  BY DEF Done
<1>6. Decided(p)'
  BY <1>1, <1>3, <1>4, <1>5 DEF Decided
<1> QED BY <1>1, <1>2, <1>6, MovedHidden DEF Elsewhere

(* A row has a content. *)
LEMMA RowsLive ==
  ASSUME RowsLogged, NEW p \in Path
  PROVE  rows[p].hash = 0 => rows[p] = Gone
<1>1. \A n : VersionAt(n).hash = 0 => VersionAt(n) = Gone
  BY DEF VersionAt
<1>2. rows[p] = Gone \/ rows[p] = VersionAt(Newest(LinesOf(p, 0, Last)))
  BY DEF RowsLogged, RowAt
<1> QED BY <1>1, <1>2

(* A download is held only as the version that the server has. *)
LEMMA FetchHidden ==
  ASSUME TypeOK, TypeOK', KeptInv, HiddenInv, RowsLogged, NEW p \in Path, Fetch(p)
  PROVE  HiddenInv'
<1> DEFINE j == [sync.job[p] EXCEPT !.stage = "held", !.content = rows[p].hash, !.rev = rows[p].rev]
<1>1. CASE Loses(p)
  BY <1>1, OwnLosesHidden DEF Fetch, At, server, history
<1>2. CASE Move(p, j) /\ rows[p] # Gone /\ UNCHANGED base
  <2>1. j \in Job /\ j.stage = "held" /\ j.content = rows[p].hash
    BY PathTyped DEF Job
  <2>2. sync.plan[p].act \in {"download", "conflict"} /\ sync.pc = "apply"
    BY DEF Fetch, At
  <2>3. rows[p].hash # 0
    BY <1>2, RowsLive
  <2> QED BY <1>2, <2>1, <2>2, <2>3, StagedHidden DEF Fetch, server, history
<1> QED BY <1>1, <1>2 DEF Fetch

(* What is written is what was held. *)
LEMMA AppliedHidden ==
  ASSUME TypeOK, TypeOK', KeptInv, HiddenInv, NEW p \in Path, sync.pc = "apply", Applied(p),
         UNCHANGED <<rows, log, saved, cursor, history>>,
         Current(p) => sync.job[p].content = rows[p].hash /\ sync.job[p].content # 0
  PROVE  HiddenInv'
<1> DEFINE c == sync.job[p].content
           v == [hash |-> sync.job[p].content, rev |-> sync.job[p].rev]
<1>1. c \in Content /\ v \in Version /\ v.hash = c
  BY PathTyped DEF Version
<1>2. disk' = [disk EXCEPT ![p] = c] /\ base' = [base EXCEPT ![p] = v] /\ Finish(p)
  BY DEF Applied, SetBase
<1>3. Current(p) => v.hash = rows[p].hash /\ rows[p].hash # 0
  BY <1>1
<1> HIDE DEF c, v
<1> QED BY <1>1, <1>2, <1>3, SettledHidden

(* While decisions are applied, every path has one. *)
LEMMA PathDecided ==
  ASSUME HiddenInv, NEW p \in Path, sync.pc = "apply"
  PROVE  Decided(p)
BY DEF HiddenInv, PathShown, Deciding

(* Written over the file that was decided on, or decided again *)
LEMMA DownloadHidden ==
  ASSUME TypeOK, TypeOK', KeptInv, HiddenInv, NEW p \in Path, Download(p)
  PROVE  HiddenInv'
<1>1. CASE Loses(p) /\ UNCHANGED disk
  BY <1>1, OwnLosesHidden DEF Download, At, server, history
<1>2. CASE Applied(p)
  <2>1. Current(p) => sync.job[p].content = rows[p].hash /\ sync.job[p].content # 0
    BY PathDecided DEF Download, At, Decided
  <2> QED BY <1>2, <2>1, AppliedHidden DEF Download, At, server
<1> QED BY <1>1, <1>2 DEF Download

LEMMA NothingToResolveHidden ==
  ASSUME TypeOK, TypeOK', KeptInv, HiddenInv, NEW p \in Path, NothingToResolve(p)
  PROVE  HiddenInv'
BY OwnLosesHidden DEF NothingToResolve, At, server, history

LEMMA ApplyRemoteHidden ==
  ASSUME TypeOK, TypeOK', KeptInv, HiddenInv, NEW p \in Path, ApplyRemote(p)
  PROVE  HiddenInv'
<1>1. CASE Loses(p) /\ UNCHANGED disk
  BY <1>1, OwnLosesHidden DEF ApplyRemote, At, server, history
<1>2. CASE Applied(p)
  <2>1. Current(p) => sync.job[p].content = rows[p].hash /\ sync.job[p].content # 0
    BY PathDecided DEF ApplyRemote, At, Decided
  <2> QED BY <1>2, <2>1, AppliedHidden DEF ApplyRemote, At, server
<1> QED BY <1>1, <1>2 DEF ApplyRemote

(* A merge is a line of the changelog that no cursor has passed yet. *)
LEMMA ApplyMergeHidden ==
  ASSUME TypeOK, TypeOK', KeptInv, HiddenInv, NEW p \in Path, ApplyMerge(p)
  PROVE  HiddenInv'
<1>1. sync.pc = "apply" /\ ~Current(p)
  BY PathDecided DEF ApplyMerge, At, Decided
<1>2. CASE Applied(p)
  BY <1>1, <1>2, AppliedHidden DEF ApplyMerge, server
<1>3. CASE LosesFrom(p, [hash |-> sync.job[p].read, rev |-> 0]) /\ UNCHANGED disk
  <2>1. [hash |-> sync.job[p].read, rev |-> 0] \in Version
    BY PathTyped, Bounds DEF Version
  <2> QED BY <1>1, <1>3, <2>1, LosesHidden DEF ApplyMerge, server, history
<1> QED BY <1>2, <1>3 DEF ApplyMerge

(* A conflict copy leaves the file alone. *)
LEMMA CopyLocalHidden ==
  ASSUME TypeOK, TypeOK', KeptInv, HiddenInv, NEW p \in Path, CopyLocal(p)
  PROVE  HiddenInv'
<1> DEFINE j == [sync.job[p] EXCEPT !.stage = "copied", !.read = disk[p], !.copies = @ + 1]
<1>1. sync.pc = "apply" /\ sync.plan[p].act = "conflict" /\ sync.job[p].stage \in {"held", "copied"}
  BY DEF CopyLocal, At
<1>2. j \in Job
  <2>1. sync.job[p].stage = "held" => sync.job[p].copies = 0
    BY PathTyped DEF Counted
  <2>2. sync.job[p].copies + 1 \in 0..MaxCopies
    BY <1>1, <2>1, PathTyped, Bounds DEF CopyLocal, At
  <2> QED BY <2>2, PathTyped DEF Job
<1>3. j.stage = "copied" /\ j.content = sync.job[p].content
  BY PathTyped DEF Job
<1>4. Move(p, j) /\ UNCHANGED <<rows, log, disk, base, saved, cursor, history>>
  BY DEF CopyLocal, server
<1>5. Current(p) => sync.job[p].content = rows[p].hash /\ sync.job[p].content # 0
  BY <1>1, PathDecided DEF Decided
<1> HIDE DEF j
<1> QED BY <1>1, <1>2, <1>3, <1>4, <1>5, StagedHidden

(* The file to delete is the baseline, or it is uploaded, or there is none. *)
LEMMA HashLocalHidden ==
  ASSUME TypeOK, TypeOK', KeptInv, HiddenInv, NEW p \in Path, HashLocal(p)
  PROVE  HiddenInv'
<1>1. /\ sync.pc = "apply" /\ sync.plan[p].act = "deleteLocal" /\ sync.job[p].stage = "todo"
      /\ UNCHANGED <<rows, log, disk, saved, cursor, history>>
  BY DEF HashLocal, At, server
<1>2. Decided(p)
  BY <1>1, PathDecided
<1>3. sync.plan[p].local = base[p].hash /\ (Current(p) => rows[p].hash = 0)
  BY <1>1, <1>2 DEF Decided
<1>4. disk[p] \in Content /\ disk \in [Path -> Content] /\ Gone \in Version /\ Gone.hash = 0
  BY PathTyped, NothingTyped DEF TypeOK, Gone
<1>5. CASE disk[p] = 0 /\ Finish(p) /\ SetBase(p, Gone)
  <2>1. disk' = [disk EXCEPT ![p] = disk[p]]
    BY <1>1, <1>4
  <2>2. base' = [base EXCEPT ![p] = Gone]
    BY <1>5 DEF SetBase
  <2> QED BY <1>1, <1>3, <1>4, <1>5, <2>1, <2>2, SettledHidden
<1>6. CASE disk[p] \notin {0, sync.plan[p].local} /\ UNCHANGED base
           /\ sync' = [sync EXCEPT !.plan[p] = UploadOver(0)]
  <2>1. UploadOver(0) \in Plan /\ UploadOver(0).act = "upload" /\ sync.job[p] \in Job
    BY UploadedTo, PathTyped, MadeTyped
  <2>2. /\ UNCHANGED Apart /\ sync'.plan[p] = UploadOver(0) /\ sync'.job[p] = sync.job[p]
        /\ \A q \in Path \ {p} : sync'.plan[q] = sync.plan[q] /\ sync'.job[q] = sync.job[q]
    <3> DEFINE d == UploadOver(0)
    <3>1. d \in Plan /\ sync' = [sync EXCEPT !.plan[p] = d]
      BY <1>6, <2>1
    <3> HIDE DEF d
    <3>2. /\ UNCHANGED Apart /\ sync'.plan[p] = d /\ sync'.job[p] = sync.job[p]
          /\ \A q \in Path \ {p} : sync'.plan[q] = sync.plan[q] /\ sync'.job[q] = sync.job[q]
      BY <2>1, <3>1, Replanned
    <3> QED BY <3>2 DEF d
  <2>3. Current(p)' = Current(p)
    BY <1>1, <2>2, StillHidden
  <2>4. sync.failed => sync'.failed
    BY <1>6 DEF TypeOK, SyncRun
  <2>5. Done.stage = "done"
    BY DEF Done
  <2>6. Decided(p)'
    BY <1>1, <1>3, <1>6, <2>1, <2>2, <2>3, <2>5 DEF Decided
  <2> QED BY <1>1, <1>6, <2>2, <2>4, <2>6, MovedHidden DEF Elsewhere
<1>7. CASE Move(p, [sync.job[p] EXCEPT !.stage = "held"]) /\ UNCHANGED base
  <2> DEFINE j == [sync.job[p] EXCEPT !.stage = "held"]
  <2>1. j \in Job /\ j.stage = "held" /\ Move(p, j)
    BY <1>7, PathTyped DEF Job
  <2> HIDE DEF j
  <2> QED BY <1>1, <1>7, <2>1, StagedHidden
<1> QED BY <1>5, <1>6, <1>7 DEF HashLocal

(* The trash receives a file of which the server has none, or an edited one stays. *)
LEMMA TrashLocalHidden ==
  ASSUME TypeOK, TypeOK', KeptInv, HiddenInv, NEW p \in Path, TrashLocal(p)
  PROVE  HiddenInv'
<1>1. /\ sync.pc = "apply" /\ sync.plan[p].act = "deleteLocal" /\ sync.job[p].stage = "held"
      /\ UNCHANGED <<rows, log, saved, cursor, history>>
  BY DEF TrashLocal, At, server
<1>2. Current(p) => rows[p].hash = 0
  BY <1>1, PathDecided DEF Decided
<1>3. Gone \in Version /\ Gone.hash = 0 /\ 0 \in Content
  BY NothingTyped, MadeTyped DEF Gone
<1>4. CASE disk' = [disk EXCEPT ![p] = 0] /\ SetBase(p, Gone) /\ Finish(p)
  <2>1. base' = [base EXCEPT ![p] = Gone]
    BY <1>4 DEF SetBase
  <2> QED BY <1>1, <1>2, <1>3, <1>4, <2>1, SettledHidden
<1>5. CASE Fail(p) /\ UNCHANGED <<disk, base, copies>>
  BY <1>1, <1>5, FailedHidden
<1> QED BY <1>4, <1>5 DEF TrashLocal

(* An upload is skipped when the file is its baseline: then the server has it, too. *)
LEMMA PrepareHidden ==
  ASSUME TypeOK, TypeOK', KeptInv, HiddenInv, NEW p \in Path, Prepare(p)
  PROVE  HiddenInv'
<1>1. /\ sync.pc = "apply" /\ sync.plan[p].act = "upload" /\ sync.job[p].stage = "todo"
      /\ UNCHANGED <<rows, log, disk, saved, cursor, history>>
  BY DEF Prepare, At, server
<1>2. disk[p] \in Content /\ disk \in [Path -> Content] /\ base[p] \in Version /\ base \in [Path -> Version]
  BY PathTyped DEF TypeOK
<1>3. CASE Loses(p)
  BY <1>1, <1>3, OwnLosesHidden
<1>4. CASE disk[p] \in {0, base[p].hash} /\ ~Forced(p) /\ Finish(p) /\ UNCHANGED base
  <2>1. disk' = [disk EXCEPT ![p] = disk[p]] /\ base' = [base EXCEPT ![p] = base[p]]
    BY <1>1, <1>2, <1>4
  <2>2. Current(p) => base[p].hash = rows[p].hash \/ (rows[p].hash = 0 /\ base[p].hash \notin {0, disk[p]})
    BY <1>1, <1>4, PathDecided DEF Decided
  <2>3. origins[0] = {}
    BY PathKnown
  <2>4. Current(p) => \/ base[p].hash = rows[p].hash
                      \/ rows[p].hash = 0 /\ base[p].hash \notin origins[disk[p]] \cup {0}
    BY <1>4, <2>2, <2>3
  <2> QED BY <1>1, <1>2, <1>4, <2>1, <2>4, SettledHidden
<1>5. CASE Move(p, [sync.job[p] EXCEPT !.stage = "held", !.content = disk[p]]) /\ UNCHANGED base
  <2> DEFINE j == [sync.job[p] EXCEPT !.stage = "held", !.content = disk[p]]
  <2>1. j \in Job /\ j.stage = "held" /\ Move(p, j)
    BY <1>5, PathTyped DEF Job
  <2> HIDE DEF j
  <2> QED BY <1>1, <1>5, <2>1, StagedHidden
<1> QED BY <1>3, <1>4, <1>5 DEF Prepare

(* A publication leaves nothing to show: its line is after the cursor and after what
   the sync has read. *)
LEMMA SentHidden ==
  ASSUME TypeOK, TypeOK', KeptInv, HiddenInv, NEW p \in Path, sync.pc = "apply",
         NEW hash \in Content, Publish(p, hash), UNCHANGED <<disk, saved, cursor, Apart>>,
         \A c \in Known : origins'[c] = origins[c], sync.failed => sync'.failed,
         \A q \in Path \ {p} :
           base'[q] = base[q] /\ sync'.plan[q] = sync.plan[q] /\ sync'.job[q] = sync.job[q],
         sync'.job[p].stage \in {"merged", "done"}
  PROVE  HiddenInv'
<1>1. Elsewhere(p)
  BY Publishes DEF Elsewhere
<1>2. LogGrows
  <2>1. Last' = Last + 1 /\ \A n \in 1..Last : log'[n] = log[n]
    BY Publishes
  <2>2. Last \in Nat
    BY CursorsTyped
  <2> QED BY <2>1, <2>2 DEF LogGrows
<1>3. ~Behind(p)' /\ ~Current(p)'
  BY LineAdded DEF Apart
<1>4. Decided(p)'
  BY <1>3 DEF Decided
<1> QED BY <1>1, <1>2, <1>3, <1>4, AppliesHidden

(* An upload is a line after the cursor, or it lost a race. *)
LEMMA SendUploadHidden ==
  ASSUME TypeOK, TypeOK', KeptInv, HiddenInv, NEW p \in Path, SendUpload(p)
  PROVE  HiddenInv'
<1>1. sync.pc = "apply" /\ UNCHANGED <<disk, saved, cursor, history>>
  BY DEF SendUpload, At
<1>2. CASE (Loses(p) \/ Again(p)) /\ UNCHANGED server
  BY <1>1, <1>2, OwnLosesHidden DEF server
<1>3. CASE /\ Publish(p, sync.job[p].content)
           /\ SetBase(p, [hash |-> sync.job[p].content, rev |-> Last + 1]) /\ Finish(p)
  <2> DEFINE hash == sync.job[p].content
             v == [hash |-> sync.job[p].content, rev |-> Last + 1]
  <2>1. hash \in Content /\ Publish(p, hash) /\ base' = [base EXCEPT ![p] = v]
    BY <1>3, PathTyped DEF SetBase
  <2> HIDE DEF hash, v
  <2>2. UNCHANGED Apart /\ sync'.plan = sync.plan /\ sync'.job[p] = Done
        /\ \A q \in Path \ {p} : sync'.job[q] = sync.job[q]
    BY <1>3, Ended
  <2>3. (sync.failed => sync'.failed) /\ sync'.job[p].stage = "done"
    BY <1>3, <2>2 DEF Finish, Move, TypeOK, SyncRun, Done
  <2>4. \A q \in Path \ {p} : base'[q] = base[q]
    BY <2>1 DEF TypeOK
  <2>5. \A c \in Known : origins'[c] = origins[c]
    BY <1>1 DEF history
  <2> QED BY <1>1, <2>1, <2>2, <2>3, <2>4, <2>5, SentHidden
<1> QED BY <1>2, <1>3 DEF SendUpload

(* So is a deletion, unless there was nothing to delete. *)
LEMMA SendDeleteHidden ==
  ASSUME TypeOK, TypeOK', KeptInv, HiddenInv, NEW p \in Path, SendDelete(p)
  PROVE  HiddenInv'
<1>1. sync.pc = "apply" /\ UNCHANGED <<disk, saved, cursor, history>>
  BY DEF SendDelete, At
<1>2. Gone \in Version /\ Gone.hash = 0 /\ 0 \in Content
  BY NothingTyped, MadeTyped DEF Gone
<1>3. CASE Publish(p, 0) /\ SetBase(p, Gone) /\ Finish(p)
  <2>1. UNCHANGED Apart /\ sync'.plan = sync.plan /\ sync'.job[p] = Done
        /\ \A q \in Path \ {p} : sync'.job[q] = sync.job[q]
    BY <1>3, Ended
  <2>2. (sync.failed => sync'.failed) /\ sync'.job[p].stage = "done"
    BY <1>3, <2>1 DEF Finish, Move, TypeOK, SyncRun, Done
  <2>3. \A q \in Path \ {p} : base'[q] = base[q]
    BY <1>3 DEF SetBase, TypeOK
  <2>4. \A c \in Known : origins'[c] = origins[c]
    BY <1>1 DEF history
  <2> QED BY <1>1, <1>2, <1>3, <2>1, <2>2, <2>3, <2>4, SentHidden
<1>4. CASE rows[p] = Gone /\ SetBase(p, Gone) /\ Finish(p) /\ UNCHANGED server
  <2>1. disk' = [disk EXCEPT ![p] = disk[p]] /\ disk[p] \in Content
    BY <1>1, PathTyped DEF TypeOK
  <2>2. base' = [base EXCEPT ![p] = Gone]
    BY <1>4 DEF SetBase
  <2> QED BY <1>1, <1>2, <1>4, <2>1, <2>2, SettledHidden DEF server
<1>5. CASE Overtaken(p) /\ UNCHANGED server
  BY <1>1, <1>5, OwnLosesHidden DEF server, Overtaken
<1> QED BY <1>3, <1>4, <1>5 DEF SendDelete

(* A deletion is held back, fails or is decided again. *)
LEMMA CheckAbsentHidden ==
  ASSUME TypeOK, TypeOK', KeptInv, HiddenInv, NEW p \in Path, CheckAbsent(p)
  PROVE  HiddenInv'
<1>1. /\ sync.pc = "apply" /\ sync.plan[p].act = "delete"
      /\ UNCHANGED <<rows, log, disk, saved, cursor, history>>
  BY DEF CheckAbsent, At, server
<1>2. CASE Fail(p) /\ UNCHANGED base
  BY <1>1, <1>2, FailedHidden
<1>3. CASE Overtaken(p)
  BY <1>1, <1>3, OwnLosesHidden DEF Overtaken
<1>4. CASE Move(p, [sync.job[p] EXCEPT !.stage = "held"]) /\ UNCHANGED base
  <2> DEFINE j == [sync.job[p] EXCEPT !.stage = "held"]
  <2>1. j \in Job /\ j.stage = "held" /\ Move(p, j)
    BY <1>4, PathTyped DEF Job
  <2> HIDE DEF j
  <2> QED BY <1>1, <1>4, <2>1, StagedHidden
<1> QED BY <1>2, <1>3, <1>4 DEF CheckAbsent

(* The merge is published with its next revision. *)
LEMMA SendMergeHidden ==
  ASSUME TypeOK, TypeOK', KeptInv, HiddenInv, NEW p \in Path, SendMerge(p)
  PROVE  HiddenInv'
<1>1. sync.pc = "apply" /\ UNCHANGED <<disk, saved, cursor, copies, dropped>>
  BY DEF SendMerge, At
<1>2. CASE Loses(p) /\ UNCHANGED <<server, made, origins>>
  BY <1>1, <1>2, OwnLosesHidden DEF server, history
<1>3. CASE /\ Make({disk[p], sync.job[p].content}) /\ Publish(p, made')
           /\ Move(p, [sync.job[p] EXCEPT !.stage = "merged", !.content = made',
                                         !.rev = Last + 1, !.read = disk[p]])
           /\ UNCHANGED base
  <2>1. disk[p] \in Known /\ sync.job[p].content \in Known
    BY PathKnown DEF ValuesKnown
  <2> DEFINE from == {disk[p], sync.job[p].content}
  <2>2. from \in SUBSET Known /\ Make(from)
    BY <1>3, <2>1
  <2> HIDE DEF from
  <2>3. made' \in Content /\ \A c \in Known : origins'[c] = origins[c]
    BY <1>1, <2>2, MakeKept
  <2>4. PICK hash : hash = made'
    OBVIOUS
  <2>5. hash \in Content /\ Publish(p, hash)
    BY <1>3, <2>3, <2>4
  <2> DEFINE j == [sync.job[p] EXCEPT !.stage = "merged", !.content = hash,
                                     !.rev = Last + 1, !.read = disk[p]]
  <2>6. j \in Job /\ j.stage = "merged"
    <3>1. Last + 1 \in 0..MaxSeq
      BY <1>3, CursorsTyped, Bounds DEF Publish
    <3> QED BY <2>5, <3>1, PathTyped DEF Job
  <2>7. Move(p, j)
    BY <1>3, <2>4
  <2> HIDE DEF j
  <2>8. /\ UNCHANGED Apart /\ sync'.plan = sync.plan /\ sync'.job[p] = j
        /\ \A q \in Path \ {p} : sync'.job[q] = sync.job[q]
    BY <2>6, <2>7, MovedTo
  <2>9. sync.failed => sync'.failed
    BY <2>7 DEF Move, TypeOK, SyncRun
  <2> QED BY <1>1, <1>3, <2>3, <2>5, <2>6, <2>8, <2>9, SentHidden
<1> QED BY <1>2, <1>3 DEF SendMerge

(* Every step that applies a decision keeps the invariant. *)
LEMMA ApplyingHidden ==
  ASSUME TypeOK, TypeOK', KeptInv, HiddenInv, RowsLogged, NEW p \in Path, Applying(p)
  PROVE  HiddenInv'
BY FetchHidden, DownloadHidden, NothingToResolveHidden, SendMergeHidden, ApplyMergeHidden,
   CopyLocalHidden, ApplyRemoteHidden, HashLocalHidden, TrashLocalHidden, PrepareHidden,
   SendUploadHidden, CheckAbsentHidden, SendDeleteHidden DEF Applying

-----------------------------------------------------------------------------
(* A path for which nothing was decided yet, or nothing that rests on what changed *)
LEMMA PathStaysShown ==
  ASSUME TypeOK, TypeOK', KeptInv, HiddenInv, NEW p \in Path, LogGrows, cursor' = cursor,
         base'[p] = base[p], saved'[p] = saved[p],
         Behind(p)' => rows'[p] = rows[p] /\ Shrinks(p),
         Scanned(p)',
         Deciding(p)' =>
           /\ Deciding(p) /\ sync'.last = sync.last /\ sync'.full = sync.full
           /\ sync.failed => sync'.failed
           /\ sync'.plan[p] = sync.plan[p] /\ sync'.job[p] = sync.job[p]
           /\ Current(p)' => rows'[p] = rows[p] /\ Shrinks(p) /\ (disk'[p] = disk[p] \/ disk'[p] \notin 1..made)
  PROVE  PathShown(p)'
<1>1. Last' \in Nat
  <2>1. log' \in Seq([path : Path, hash : Content])
    BY DEF TypeOK
  <2> QED BY <2>1 DEF Last
<1>2. Behind(p)' => Shown(p, base[p])' /\ Shown(p, saved[p])'
  BY <1>1, BaselinesStay
<1>3. Deciding(p)' => Decided(p)'
  <2>1. SUFFICES ASSUME Deciding(p)' PROVE Decided(p)'
    OBVIOUS
  <2>2. Decided(p)
    BY <2>1 DEF HiddenInv, PathShown
  <2> QED BY <1>1, <2>1, <2>2, DecidedStays
<1> QED BY <1>2, <1>3 DEF PathShown

(* The user and the other devices *)
LEMMA DisturbedHidden ==
  ASSUME TypeOK, TypeOK', KeptInv, HiddenInv, Disturbs, LogGrows, UNCHANGED <<base, saved, cursor>>,
         \A p \in Path :
           /\ Behind(p)' => rows'[p] = rows[p] /\ Shrinks(p)
           /\ Current(p)' => rows'[p] = rows[p] /\ Shrinks(p)
           /\ disk'[p] = disk[p] \/ disk'[p] \notin 1..made \/ sync.pc = "idle"
  PROVE  HiddenInv'
<1>1. /\ sync'.pc = sync.pc /\ sync'.last = sync.last /\ sync'.full = sync.full
      /\ sync'.failed = sync.failed /\ sync'.plan = sync.plan /\ sync'.job = sync.job
      /\ sync'.todo = sync.todo /\ sync'.local = sync.local /\ sync'.scanned = sync.scanned
  BY DEF Disturbs, TypeOK, SyncRun
<1>2. CursorBehind'
  BY <1>1 DEF HiddenInv, CursorBehind
<1>3. ASSUME NEW p \in Path PROVE PathShown(p)'
  <2>1. Scanned(p)'
    <3>1. base[p].hash \in Known /\ made \in Nat /\ Scanned(p)
      BY MadeTyped DEF HiddenInv, PathShown, KeptInv, PathOK, ValuesKnown
    <3> QED BY <1>1, <3>1 DEF Scanned, Unplanned, Known
  <2>2. Deciding(p)' => Deciding(p) /\ sync.pc # "idle"
    BY <1>1 DEF Deciding
  <2> QED BY <1>1, <2>1, <2>2, PathStaysShown
<1> QED BY <1>2, <1>3 DEF HiddenInv

(* Without a publication the changelog is the same. *)
LEMMA SameLines ==
  ASSUME TypeOK, UNCHANGED <<rows, log>>
  PROVE  LogGrows /\ Last' = Last
<1>1. Last' = Last /\ Last \in Nat
  BY CursorsTyped DEF Last
<1> QED BY <1>1 DEF LogGrows

(* An edit is a content nobody had before. *)
LEMMA WriteHidden ==
  ASSUME TypeOK, TypeOK', KeptInv, HiddenInv, NEW p \in Path, Write(p)
  PROVE  HiddenInv'
<1>1. UNCHANGED <<rows, log, base, saved, cursor, copies, dropped>> /\ Disturbs
  BY DEF Write, server
<1> DEFINE from == {disk[p]} \ {0}
<1>2. from \in SUBSET Known /\ Make(from)
  BY PathKnown DEF Write, ValuesKnown
<1>3. \A c \in from : c = disk[p]
  OBVIOUS
<1> HIDE DEF from
<1>4. /\ made \in Nat /\ made' = made + 1 /\ \A c \in Known : origins'[c] = origins[c]
      /\ origins'[made'] = {made'} \cup UNION {origins[c] : c \in from}
  BY <1>1, <1>2, MakeKept
<1>5. disk' = [disk EXCEPT ![p] = made'] /\ disk \in [Path -> Content]
  BY DEF Write, TypeOK
<1>6. ASSUME NEW q \in Path PROVE Shrinks(q) /\ (disk'[q] = disk[q] \/ disk'[q] \notin 1..made)
  <2>1. CASE q = p
    <3>1. disk'[q] = made' /\ made' \notin Known
      BY <1>4, <1>5, <2>1 DEF Known
    <3>2. \A c \in Known : c \in origins'[made'] => c \in origins[disk[p]]
      BY <1>3, <1>4, <3>1
    <3> QED BY <1>4, <2>1, <3>1, <3>2 DEF Shrinks
  <2>2. CASE q # p
    <3>1. disk'[q] = disk[q] /\ disk[q] \in Known
      BY <1>5, <2>2, PathKnown DEF ValuesKnown
    <3> QED BY <1>4, <3>1 DEF Shrinks
  <2> QED BY <2>1, <2>2
<1> QED BY <1>1, <1>6, SameLines, DisturbedHidden

(* A file that is gone goes back to nothing. *)
LEMMA RemoveHidden ==
  ASSUME TypeOK, TypeOK', KeptInv, HiddenInv, NEW p \in Path, Remove(p)
  PROVE  HiddenInv'
<1>1. UNCHANGED <<rows, log, base, saved, cursor, origins>> /\ Disturbs
  BY DEF Remove, server
<1>2. disk' = [disk EXCEPT ![p] = 0] /\ disk \in [Path -> Content]
  BY DEF Remove, TypeOK
<1>3. ASSUME NEW q \in Path PROVE Shrinks(q) /\ (disk'[q] = disk[q] \/ disk'[q] \notin 1..made)
  <2>1. origins[0] = {} /\ made \in Nat
    BY PathKnown, MadeTyped
  <2>2. disk'[q] \in {disk[q], 0}
    BY <1>2
  <2> QED BY <1>1, <2>1, <2>2 DEF Shrinks
<1> QED BY <1>1, <1>3, SameLines, DisturbedHidden

(* Another device publishes after every cursor. *)
LEMMA ForeignHidden ==
  ASSUME TypeOK, TypeOK', KeptInv, HiddenInv, NEW p \in Path, Foreign(p)
  PROVE  HiddenInv'
<1>1. UNCHANGED <<disk, base, saved, cursor, copies>> /\ Disturbs
  BY DEF Foreign, device
<1>2. PICK hash \in Content : Publish(p, hash) /\ \A c \in Known : origins'[c] = origins[c]
  <2>1. CASE Make({rows[p].hash} \ {0}) /\ Publish(p, made') /\ UNCHANGED dropped
    <3> DEFINE from == {rows[p].hash} \ {0}
    <3>1. from \in SUBSET Known /\ Make(from)
      BY <2>1, PathKnown DEF ValuesKnown
    <3> HIDE DEF from
    <3>2. made' \in Content /\ \A c \in Known : origins'[c] = origins[c]
      BY <1>1, <2>1, <3>1, MakeKept
    <3> QED BY <2>1, <3>2
  <2>2. CASE Publish(p, 0) /\ UNCHANGED <<made, origins>>
    BY <2>2, MadeTyped
  <2> QED BY <2>1, <2>2 DEF Foreign
<1>3. LogGrows
  <2>1. Last' = Last + 1 /\ \A n \in 1..Last : log'[n] = log[n]
    BY <1>2, Publishes
  <2>2. Last \in Nat
    BY CursorsTyped
  <2> QED BY <2>1, <2>2 DEF LogGrows
<1>4. ~Behind(p)' /\ ~Current(p)'
  <2>1. sync'.last = sync.last
    BY <1>1 DEF Disturbs, TypeOK, SyncRun
  <2> QED BY <1>1, <1>2, <2>1, LineAdded
<1>5. ASSUME NEW q \in Path \ {p} PROVE rows'[q] = rows[q]
  BY <1>2, Publishes
<1>6. ASSUME NEW q \in Path PROVE Shrinks(q) /\ disk'[q] = disk[q]
  BY <1>1, <1>2, PathKnown DEF Shrinks, ValuesKnown
<1> QED BY <1>1, <1>3, <1>4, <1>5, <1>6, DisturbedHidden

(* Pruned lines are still lines. *)
LEMMA PruneHidden ==
  ASSUME TypeOK, TypeOK', KeptInv, HiddenInv, Prune
  PROVE  HiddenInv'
<1>1. UNCHANGED <<rows, log, disk, base, saved, cursor, origins>> /\ Disturbs
  BY DEF Prune, device, history
<1>2. \A q \in Path : Shrinks(q) /\ disk'[q] = disk[q]
  BY <1>1 DEF Shrinks
<1> QED BY <1>1, <1>2, SameLines, DisturbedHidden

-----------------------------------------------------------------------------
(* What a content was made from was itself made from contents it was made from. *)
OriginsClosed == \A c \in Known : \A d \in origins[c] : origins[d] \subseteq origins[c]

(* A new content is made of all that its parents were made of. *)
LEMMA MadeClosed ==
  ASSUME TypeOK, KeptInv, OriginsClosed, NEW from \in SUBSET Known, Make(from), UNCHANGED <<copies, dropped>>
  PROVE  OriginsClosed'
<1>1. /\ made \in Nat /\ made' = made + 1 /\ \A c \in Known : origins'[c] = origins[c]
      /\ origins'[made'] = {made'} \cup UNION {origins[c] : c \in from}
  BY MakeKept
<1>2. \A c \in Known : c \in Content /\ origins[c] \subseteq Known
  BY MadeTyped DEF KeptInv, HistoryOK, Known
<1>3. ASSUME NEW c \in Known, NEW d \in origins'[c] PROVE origins'[d] \subseteq origins'[c]
  BY <1>1, <1>2, <1>3 DEF OriginsClosed
<1>4. ASSUME NEW d \in origins'[made'] PROVE origins'[d] \subseteq origins'[made']
  <2>1. CASE d = made'
    BY <2>1
  <2>2. CASE d # made'
    <3>1. PICK c \in from : d \in origins[c]
      BY <1>1, <1>4, <2>2
    <3>2. c \in Known /\ d \in Known /\ origins[d] \subseteq origins[c]
      BY <1>2, <3>1 DEF OriginsClosed
    <3> QED BY <1>1, <3>1, <3>2
  <2> QED BY <2>1, <2>2
<1>5. \A c : c \in Known' => c \in Known \/ c = made'
  BY <1>1 DEF Known
<1> QED BY <1>3, <1>4, <1>5 DEF OriginsClosed

(* Between syncs, going back leads to a content that the file could go back to before. *)
LEMMA GoBackHidden ==
  ASSUME TypeOK, TypeOK', KeptInv, HiddenInv, OriginsClosed, ~Undo, NEW p \in Path, GoBack(p)
  PROVE  HiddenInv'
<1>1. UNCHANGED <<rows, log, base, saved, cursor, origins>> /\ Disturbs /\ sync.pc = "idle"
  BY DEF GoBack, server
<1>2. PICK c \in origins[disk[p]] : disk' = [disk EXCEPT ![p] = c]
  BY DEF GoBack
<1>3. ASSUME NEW q \in Path PROVE Shrinks(q)
  <2>1. disk[q] \in Known /\ disk \in [Path -> Content]
    BY PathKnown DEF ValuesKnown, TypeOK
  <2>2. disk'[q] = disk[q] \/ disk'[q] \in origins[disk[q]]
    BY <1>2, <2>1
  <2> QED BY <1>1, <2>1, <2>2 DEF Shrinks, OriginsClosed
<1> QED BY <1>1, <1>3, SameLines, DisturbedHidden

(* A step of the sync that leaves the files and the server alone *)
LEMMA LooksHidden ==
  ASSUME TypeOK, TypeOK', KeptInv, HiddenInv, UNCHANGED <<rows, log, disk, origins, cursor>>,
         CursorBehind',
         \A p \in Path :
           /\ base'[p] = base[p] \/ base'[p] = saved[p]
           /\ saved'[p] = saved[p] \/ saved'[p] = base[p]
           /\ Scanned(p)' /\ (Deciding(p)' => Decided(p)')
  PROVE  HiddenInv'
<1>1. LogGrows /\ Last' \in Nat
  BY SameLines, CursorsTyped
<1>2. ASSUME NEW p \in Path PROVE Behind(p)' => Shown(p, base[p])' /\ Shown(p, saved[p])'
  BY <1>1, BaselinesStay DEF Shrinks
<1> QED BY <1>2 DEF HiddenInv, PathShown

(* A sync that begins, or ended without a new cursor, decided nothing. *)
LEMMA BlankHidden ==
  ASSUME TypeOK, TypeOK', KeptInv, HiddenInv, UNCHANGED <<rows, log, disk, origins, cursor>>,
         sync'.pc \in {"idle", "changes", "manifest"}, ~sync'.scanned,
         \A p \in Path :
           /\ base'[p] = base[p] \/ base'[p] = saved[p]
           /\ saved'[p] = saved[p] \/ saved'[p] = base[p]
  PROVE  HiddenInv'
BY LooksHidden DEF CursorBehind, Scanned, Unplanned, Deciding

(* Beginning, stopping, and falling back to the manifest *)
LEMMA BeginHidden ==
  ASSUME TypeOK, TypeOK', KeptInv, HiddenInv,
         Begin \/ Stop \/ (ReadChanges /\ Expired(sync.since)) \/ (ReplayChanges /\ Expired(sync.since))
  PROVE  HiddenInv'
<1>1. UNCHANGED <<rows, log, disk, origins, cursor>>
  BY DEF Begin, Stop, ReadChanges, ReplayChanges, Ends, server, device, history
<1>2. sync'.pc \in {"idle", "changes", "manifest"} /\ ~sync'.scanned
  <2>1. /\ Idle \in SyncRun /\ ~Idle.scanned /\ Idle.pc = "idle"
    BY NothingTyped DEF Idle
  <2>2. CASE sync' = Idle
    BY <2>1, <2>2
  <2>3. CASE Begin
    BY <2>1, <2>3 DEF Begin, SyncRun
  <2>4. CASE ReadChanges /\ Expired(sync.since)
    BY <2>1, <2>4 DEF ReadChanges, SyncRun
  <2> QED BY <2>2, <2>3, <2>4 DEF Stop, ReplayChanges, Ends
<1>3. CASE Stop
  <2>1. \A p \in Path : base'[p] \in {base[p], saved[p]} /\ saved'[p] = base'[p]
    BY <1>3 DEF Stop
  <2> QED BY <1>1, <1>2, <2>1, BlankHidden
<1>4. CASE ~Stop
  <2>1. base' = base /\ saved' = saved
    BY <1>4 DEF Begin, ReadChanges, ReplayChanges, Ends, device
  <2> QED BY <1>1, <1>2, <2>1, BlankHidden
<1> QED BY <1>3, <1>4

(* A page of changes moves the sync, not the cursor. *)
LEMMA FollowHidden ==
  ASSUME TypeOK, TypeOK', KeptInv, HiddenInv, Follow("scan"), sync.pc \in {"changes", "replay"},
         UNCHANGED <<rows, log, disk, base, saved, cursor, origins>>
  PROVE  HiddenInv'
<1>1. /\ sync'.pc \in {sync.pc, "scan"} /\ sync'.last = Last
      /\ sync'.scanned = sync.scanned /\ sync'.local = sync.local
  BY DEF Follow, TypeOK, SyncRun
<1>2. CursorBehind'
  BY <1>1, CursorsTyped DEF CursorBehind
<1>3. ASSUME NEW p \in Path PROVE Scanned(p)' /\ ~Deciding(p)'
  <2>1. Scanned(p)
    BY DEF HiddenInv, PathShown
  <2> QED BY <1>1, <2>1 DEF Scanned, Unplanned, Deciding
<1> QED BY <1>2, <1>3, LooksHidden

(* A page of the manifest decides nothing. *)
LEMMA ReadManifestHidden ==
  ASSUME TypeOK, TypeOK', KeptInv, HiddenInv, ReadManifest
  PROVE  HiddenInv'
<1>1. UNCHANGED <<rows, log, disk, base, saved, cursor, origins>> /\ sync.pc = "manifest"
  BY DEF ReadManifest, server, device, history
<1>2. /\ sync'.pc \in {"manifest", "replay"}
      /\ sync'.scanned = sync.scanned /\ sync'.local = sync.local
  <2> DEFINE next == {p \in Path : p > sync.after /\ rows[p] # Gone}
             page == {p \in next : \A q \in next : p <= q}
             snapshot == IF sync.after = 0 THEN Last ELSE sync.snapshot
  <2>1. PICK after \in IF next = {} THEN {sync.after} ELSE page :
          sync' = [sync EXCEPT !.snapshot = snapshot, !.since = snapshot, !.after = after,
            !.remote = [p \in Path |-> IF p \in page THEN rows[p] ELSE @[p]],
            !.pc = IF next = page THEN "replay" ELSE @]
    BY DEF ReadManifest
  <2> HIDE DEF next, page, snapshot
  <2>2. sync \in SyncRun
    BY DEF TypeOK
  <2> QED BY <1>1, <2>1, <2>2 DEF SyncRun
<1>3. ASSUME NEW p \in Path PROVE Scanned(p)' /\ ~Deciding(p)'
  <2>1. Scanned(p)
    BY DEF HiddenInv, PathShown
  <2> QED BY <1>1, <1>2, <2>1 DEF Scanned, Unplanned, Deciding
<1> QED BY <1>1, <1>2, <1>3, LooksHidden DEF CursorBehind

(* The scan sees each file as it is. *)
LEMMA ScanHidden ==
  ASSUME TypeOK, TypeOK', KeptInv, HiddenInv, Scan
  PROVE  HiddenInv'
<1>1. UNCHANGED <<rows, log, disk, base, saved, cursor, origins>>
  BY DEF Scan, server, device, history
<1>2. /\ sync'.pc = sync.pc /\ sync'.last = sync.last /\ sync'.local = disk
      /\ sync.pc \in {"scan", "manifest", "replay"}
  BY DEF Scan, TypeOK, SyncRun
<1>3. ASSUME NEW p \in Path PROVE Scanned(p)' /\ ~Deciding(p)'
  BY <1>1, <1>2 DEF Scanned, Deciding
<1>4. CursorBehind'
  BY <1>1, <1>2 DEF HiddenInv, CursorBehind
<1> QED BY <1>1, <1>3, <1>4, LooksHidden

(* With every path done and none failed, the sync has seen to what it read. *)
LEMMA EndSyncHidden ==
  ASSUME TypeOK, TypeOK', KeptInv, HiddenInv, EndSync
  PROVE  HiddenInv'
<1>1. /\ UNCHANGED <<rows, log, disk, base, origins>> /\ saved' = base /\ sync' = Idle
      /\ cursor' = IF ~sync.failed /\ sync.last > 0 THEN sync.last ELSE cursor
      /\ sync.pc = "apply" /\ \A p \in Path : sync.job[p] = Done
  BY DEF EndSync, Ends, AllDone, server, history
<1>2. sync'.pc = "idle" /\ ~sync'.scanned
  BY <1>1 DEF Idle
<1>3. CASE cursor' = cursor
  BY <1>1, <1>2, <1>3, BlankHidden
<1>4. CASE ~sync.failed /\ cursor' = sync.last
  <2>1. CursorBehind'
    BY <1>2 DEF CursorBehind
  <2>2. ASSUME NEW p \in Path PROVE PathShown(p)'
    <3>1. Scanned(p)' /\ ~Deciding(p)'
      BY <1>2 DEF Scanned, Deciding
    <3>2. Behind(p)' => Current(p)
      <4>1. Last' = Last
        BY <1>1 DEF Last
      <4> QED BY <1>1, <1>4, <4>1 DEF Behind, Current, LinesOf
    <3>3. Current(p) => Shown(p, base[p])
      BY <1>1, <1>4, PathDecided DEF Decided
    <3>4. Shown(p, base[p])' = Shown(p, base[p]) /\ Shown(p, saved[p])' = Shown(p, base[p])
      BY <1>1 DEF Shown
    <3> QED BY <3>1, <3>2, <3>3, <3>4 DEF PathShown
  <2> QED BY <2>1, <2>2 DEF HiddenInv
<1> QED BY <1>1, <1>3, <1>4

-----------------------------------------------------------------------------
(* Deciding. *)

(* What the sync read of a path is what the server has, if no line came after. *)
LEMMA ReadIsCurrent ==
  ASSUME TypeOK, RowsLogged, PlansFromAnInstant, NEW p \in Path,
         sync.pc \in {"scan", "reconcile", "apply"}, sync.full \/ p \in sync.changed, Current(p)
  PROVE  rows[p] = sync.remote[p]
<1>1. sync.remote[p] = RowAt(p, sync.last) /\ rows[p] = RowAt(p, Last)
  BY DEF RowsLogged, PlansFromAnInstant
<1>2. Last \in Nat /\ sync.last \in Nat /\ sync.last <= Last
  BY CursorsTyped
<1>3. LinesOf(p, sync.last, Last) = {}
  BY DEF Current
<1>4. \A m \in sync.last..Last : RowAt(p, m) = RowAt(p, Last)
  BY <1>2, <1>3, RowAfterLines
<1> QED BY <1>1, <1>2, <1>4

(* A decision by three states, and the baseline that goes with it *)
LEMMA DecisionShows ==
  ASSUME NEW l, NEW r, NEW b
  PROVE  LET plan == Decision(l, r, b)
             agreed == Agreed(l, r, b)
         IN
         /\ plan.act = "none" <=> l = r.hash
         /\ l = r.hash => agreed.hash = r.hash
         /\ l # r.hash => agreed = b
         /\ plan.act = "deleteLocal" => r.hash = 0 /\ plan.local = b.hash
         /\ plan.act = "upload" => l # 0 /\ (r.hash = 0 \/ b.hash = r.hash)
         /\ l = 0 /\ r.hash # 0 => plan.act \in {"delete", "download"}
BY DEF Decision, Agreed, Gone

(* The stages of a job that was just made *)
LEMMA FirstStages ==
  /\ Done.stage = "done" /\ \A t \in Nat : Todo(t).stage = "todo" /\ Todo(t).tries = t
BY DEF Done, Todo

(* A full sync decides each path by the row that its new cursor stands for. *)
LEMMA PlanFullHidden ==
  ASSUME TypeOK, TypeOK', KeptInv, HiddenInv, RowsLogged, PlansFromAnInstant, PlanFull
  PROVE  HiddenInv'
<1> DEFINE plan(p) == Decision(sync.local[p], sync.remote[p], base[p])
           agreed(p) == Agreed(sync.local[p], sync.remote[p], base[p])
<1>1. /\ UNCHANGED <<rows, log, disk, saved, cursor, origins>>
      /\ sync.full /\ sync.pc = "scan" /\ base' = [p \in Path |-> agreed(p)]
  BY DEF PlanFull, server, history
<1>2. /\ sync'.pc = "apply" /\ sync'.last = sync.last /\ sync'.full
      /\ sync'.plan = [p \in Path |-> plan(p)]
      /\ sync'.job = [p \in Path |-> IF plan(p).act = "none" THEN Done ELSE Todo(0)]
  BY <1>1 DEF PlanFull, TypeOK, SyncRun
<1>3. Last' = Last /\ LogGrows /\ Last \in Nat
  BY <1>1, SameLines, CursorsTyped
<1>4. CursorBehind'
  BY <1>1, <1>2 DEF HiddenInv, CursorBehind
<1>5. ASSUME NEW p \in Path PROVE PathShown(p)'
  <2> DEFINE d == plan(p)
             a == agreed(p)
             j == IF d.act = "none" THEN Done ELSE Todo(0)
  <2>1. base'[p] = a /\ sync'.plan[p] = d /\ sync'.job[p] = j
    BY <1>1, <1>2
  <2>2. /\ d.act = "none" <=> sync.local[p] = sync.remote[p].hash
        /\ sync.local[p] = sync.remote[p].hash => a.hash = sync.remote[p].hash
        /\ sync.local[p] # sync.remote[p].hash => a = base[p]
        /\ d.act = "deleteLocal" => sync.remote[p].hash = 0 /\ d.local = base[p].hash
    BY DecisionShows
  <2>3. /\ d.act = "none" => j.stage = "done"
        /\ d.act # "none" => j.stage = "todo" /\ j # Done
    BY FirstStages
  <2> HIDE DEF d, a, j
  <2>4. Current(p)' = Current(p) /\ Behind(p)' = Behind(p)
    BY <1>1, <1>2, <1>3 DEF Current, Behind, LinesOf
  <2>5. Current(p) => rows[p] = sync.remote[p]
    BY <1>1, ReadIsCurrent
  <2>6. Behind(p) => Current(p)
    BY <1>1, CursorsTyped, BehindCurrent DEF HiddenInv, CursorBehind
  <2>7. Behind(p) => Shown(p, base[p]) /\ Shown(p, saved[p])
    BY DEF HiddenInv, PathShown
  <2>8. Behind(p)' => Shown(p, base[p])' /\ Shown(p, saved[p])'
    BY <1>1, <2>1, <2>2, <2>4, <2>5, <2>6, <2>7 DEF Shown
  <2>9. Decided(p)'
    <3>1. Current(p) /\ d.act = "none" => Shown(p, base[p])'
      BY <1>1, <2>1, <2>2, <2>5 DEF Shown
    <3>2. Forced(p)'
      BY <1>2 DEF Forced
    <3> QED BY <1>1, <2>1, <2>2, <2>3, <2>4, <2>5, <3>1, <3>2 DEF Decided
  <2>10. Scanned(p)'
    BY <1>2 DEF Scanned, Unplanned
  <2> QED BY <2>8, <2>9, <2>10 DEF PathShown
<1> QED BY <1>4, <1>5 DEF HiddenInv

(* A file that is its baseline cannot go back to a content that is not. *)
LEMMA ShownElsewhere ==
  ASSUME TypeOK, KeptInv, NEW p \in Path, Shown(p, base[p])
  PROVE  \/ base[p].hash = rows[p].hash
         \/ rows[p].hash = 0 /\ base[p].hash \notin {0, disk[p]}
<1>1. disk[p] \in Known /\ \A c \in 1..made : c \in origins[c]
  BY PathKnown DEF KeptInv, HistoryOK, ValuesKnown
<1>2. made \in Nat
  BY MadeTyped
<1> QED BY <1>1, <1>2 DEF Shown, Known

(* A path without a remote change is behind the new cursor as it was behind the old one. *)
LEMMA PlanIncrementalHidden ==
  ASSUME TypeOK, TypeOK', KeptInv, HiddenInv, PlansFromAnInstant, PlanIncremental
  PROVE  HiddenInv'
<1> DEFINE plan(p) == IF p \in sync.changed THEN NoPlan ELSE LocalOnly(p)
<1>1. /\ UNCHANGED <<rows, log, disk, base, saved, cursor, origins>>
      /\ ~sync.full /\ sync.pc = "scan" /\ sync.scanned
  BY DEF PlanIncremental, server, device, history
<1>2. /\ sync'.pc = "reconcile" /\ sync'.last = sync.last /\ ~sync'.full
      /\ sync'.todo = sync.changed /\ sync'.local = sync.local
      /\ sync'.plan = [p \in Path |-> plan(p)]
      /\ sync'.job = [p \in Path |-> IF plan(p).act = "none" THEN Done ELSE Todo(0)]
  BY <1>1 DEF PlanIncremental, TypeOK, SyncRun
<1>3. CursorBehind'
  BY <1>1, <1>2 DEF HiddenInv, CursorBehind
<1>4. ASSUME NEW p \in Path PROVE Scanned(p)'
  <2>1. Scanned(p)
    BY DEF HiddenInv, PathShown
  <2> QED BY <1>1, <1>2, <2>1 DEF Scanned, Unplanned
<1>5. ASSUME NEW p \in Path, Deciding(p)' PROVE Decided(p)'
  <2> DEFINE d == plan(p)
             j == IF d.act = "none" THEN Done ELSE Todo(0)
  <2>1. p \notin sync.changed
    BY <1>2, <1>5 DEF Deciding
  <2>2. sync'.plan[p] = d /\ sync'.job[p] = j
    BY <1>2
  <2>3. j.stage \in {"done", "todo"}
    BY FirstStages
  <2>4. d.act \in {"none", "upload", "delete"}
    BY <2>1 DEF LocalOnly, UploadOver, NoPlan
  <2> HIDE DEF d, j
  <2>5. LinesOf(p, cursor, sync.last) = {}
    BY <1>1, <2>1 DEF PlansFromAnInstant
  <2>6. Current(p) => Behind(p)
    BY <2>5, CursorsTyped DEF Current, Behind, LinesOf
  <2>7. Current(p) => Shown(p, base[p])
    BY <2>6 DEF HiddenInv, PathShown
  <2>8. Current(p) => \/ base[p].hash = rows[p].hash
                      \/ rows[p].hash = 0 /\ base[p].hash \notin {0, disk[p]}
    BY <2>7, ShownElsewhere
  <2>9. Current(p)' = Current(p) /\ Shown(p, base[p])' = Shown(p, base[p])
    <3>1. Last' = Last
      BY <1>1 DEF Last
    <3> QED BY <1>1, <1>2, <3>1 DEF Current, LinesOf, Shown
  <2> QED BY <1>1, <2>2, <2>3, <2>4, <2>7, <2>8, <2>9 DEF Decided
<1> QED BY <1>1, <1>3, <1>4, <1>5, LooksHidden

(* When all are reconciled, all are decided. *)
LEMMA EndReconcileHidden ==
  ASSUME TypeOK, TypeOK', KeptInv, HiddenInv, EndReconcile
  PROVE  HiddenInv'
<1>1. /\ UNCHANGED <<rows, log, disk, base, saved, cursor, origins>>
      /\ sync.pc = "reconcile" /\ sync.todo = {} /\ sync' = [sync EXCEPT !.pc = "apply"]
  BY DEF EndReconcile, server, device, history
<1>2. /\ sync'.pc = "apply" /\ sync'.last = sync.last /\ sync'.full = sync.full
      /\ sync'.failed = sync.failed /\ sync'.plan = sync.plan /\ sync'.job = sync.job
  BY <1>1 DEF TypeOK, SyncRun
<1>3. CursorBehind'
  BY <1>1, <1>2 DEF HiddenInv, CursorBehind
<1>4. ASSUME NEW p \in Path PROVE PathShown(p)'
  <2>1. Scanned(p)'
    BY <1>2 DEF Scanned, Unplanned
  <2>2. Deciding(p)
    BY <1>1 DEF Deciding
  <2>3. Shrinks(p)
    BY <1>1 DEF Shrinks
  <2> QED BY <1>1, <1>2, <2>1, <2>2, <2>3, SameLines, PathStaysShown
<1> QED BY <1>3, <1>4 DEF HiddenInv

(* The path keeps what the decision of an incremental sync rests on: against what the
   file holds now, not what was scanned. *)
LEMMA ReconcileHidden ==
  ASSUME TypeOK, TypeOK', KeptInv, HiddenInv, RowsLogged, PlansFromAnInstant,
         NEW p \in Path, Reconcile(p)
  PROVE  HiddenInv'
<1> DEFINE remote == sync.remote[p]
           d == IF remote = Gone THEN Deletion(p) ELSE Change(p)
           j == IF d.act = "none" THEN Done ELSE Todo(0)
<1>1. /\ UNCHANGED <<rows, log, disk, saved, cursor, origins>>
      /\ sync.pc = "reconcile" /\ p \in sync.todo
      /\ sync' = [sync EXCEPT !.todo = @ \ {p}, !.plan[p] = d, !.job[p] = j]
      /\ base' = IF remote # Gone /\ ~Missing(p)
                 THEN [base EXCEPT ![p] = Agreed(disk[p], remote, @)] ELSE base
  BY DEF Reconcile, server, history
<1>2. base \in [Path -> Version] /\ sync.changed \subseteq Path /\ p \in sync.changed
  BY <1>1, SyncFields DEF TypeOK
<1>3. /\ sync'.pc = "reconcile" /\ sync'.last = sync.last /\ sync'.full = sync.full
      /\ sync'.failed = sync.failed /\ sync'.local = sync.local /\ sync'.todo = sync.todo \ {p}
      /\ sync'.plan[p] = d /\ sync'.job[p] = j
      /\ \A q \in Path \ {p} : sync'.plan[q] = sync.plan[q] /\ sync'.job[q] = sync.job[q]
  <2> HIDE DEF d, j
  <2> QED BY <1>1 DEF TypeOK, SyncRun
<1>4. Last' = Last /\ LogGrows /\ Last \in Nat
  BY <1>1, SameLines, CursorsTyped
<1>5. CursorBehind'
  BY <1>1, <1>3 DEF HiddenInv, CursorBehind
<1>6. ASSUME NEW q \in Path \ {p} PROVE PathShown(q)'
  <2>1. base'[q] = base[q]
    BY <1>1, <1>2
  <2>2. Scanned(q) => Scanned(q)'
    BY <1>1, <1>3, <2>1 DEF Scanned, Unplanned
  <2>3. Shrinks(q) /\ (Deciding(q)' => Deciding(q))
    BY <1>1, <1>3 DEF Shrinks, Deciding
  <2> QED BY <1>1, <1>3, <1>4, <2>1, <2>2, <2>3, PathStaysShown DEF HiddenInv, PathShown
<1>7. PathShown(p)'
  <2>1. Current(p)' = Current(p) /\ Behind(p)' = Behind(p)
    BY <1>1, <1>3, <1>4 DEF Current, Behind, LinesOf
  <2>2. Current(p) => rows[p] = remote
    BY <1>1, <1>2, ReadIsCurrent
  <2>3. Behind(p) => Current(p)
    BY <1>1, CursorsTyped, BehindCurrent DEF HiddenInv, CursorBehind
  <2>4. (Behind(p) => Shown(p, base[p]) /\ Shown(p, saved[p])) /\ Scanned(p)
    BY DEF HiddenInv, PathShown
  <2>5. Scanned(p)'
    BY <1>3 DEF Scanned, Unplanned
  <2>6. remote # Gone => remote.hash # 0
    <3>1. remote = RowAt(p, sync.last)
      BY <1>1, <1>2 DEF PlansFromAnInstant
    <3>2. \A n : VersionAt(n).hash = 0 => VersionAt(n) = Gone
      BY DEF VersionAt
    <3> QED BY <3>1, <3>2 DEF RowAt
  <2>7. /\ d.act = "none" => j.stage = "done"
        /\ d.act # "none" => j.stage = "todo" /\ j # Done
    BY FirstStages
  <2>8. /\ Current(p) /\ d.act = "none" => Shown(p, base[p])'
        /\ Behind(p) => Shown(p, base[p])'
        /\ d.act = "deleteLocal" =>
             d.local = base[p].hash /\ base'[p] = base[p] /\ (Current(p) => rows[p].hash = 0)
        /\ d.act = "upload" /\ Current(p) =>
             /\ base'[p] = base[p]
             /\ base[p].hash = rows[p].hash \/ (rows[p].hash = 0 /\ base[p].hash \notin {0, disk[p]})
    <3>1. CASE remote = Gone
      <4>1. d = Deletion(p) /\ base' = base /\ Gone.hash = 0
        BY <1>1, <3>1 DEF Gone
      <4>2. Shown(p, base[p])' = Shown(p, base[p])
        BY <1>1, <4>1 DEF Shown
      <4>3. Deletion(p).act = "none" => base[p] = Gone
        BY DEF Deletion, UploadOver, NoPlan
      <4>4. Deletion(p).act = "deleteLocal" => Deletion(p).local = base[p].hash
        BY DEF Deletion, UploadOver, NoPlan
      <4>5. Deletion(p).act = "upload" => Edited(p)
        BY DEF Deletion, UploadOver, NoPlan
      <4>6. Edited(p) => base[p].hash = 0 \/ base[p].hash # disk[p]
        BY <1>1, <2>4 DEF Scanned, Unplanned, Edited
      <4> HIDE DEF remote, d
      <4> QED BY <2>2, <2>4, <3>1, <4>1, <4>2, <4>3, <4>4, <4>5, <4>6 DEF Shown
    <3>2. CASE remote # Gone /\ Missing(p)
      <4>1. d = Decision(0, remote, base[p]) /\ base' = base
        BY <1>1, <3>2 DEF Change
      <4>2. d.act \in {"delete", "download"}
        BY <2>6, <3>2, <4>1, DecisionShows
      <4>3. Shown(p, base[p])' = Shown(p, base[p])
        BY <1>1, <4>1 DEF Shown
      <4> QED BY <2>4, <4>2, <4>3
    <3>3. CASE remote # Gone /\ ~Missing(p)
      <4> DEFINE e == Decision(disk[p], remote, base[p])
                 a == Agreed(disk[p], remote, base[p])
      <4>1. d = IF e.act = "delete" THEN [e EXCEPT !.act = "download"] ELSE e
        BY <3>3 DEF Change
      <4>2. base'[p] = a
        BY <1>1, <1>2, <3>3
      <4>3. /\ e.act = "none" <=> disk[p] = remote.hash
            /\ disk[p] = remote.hash => a.hash = remote.hash
            /\ disk[p] # remote.hash => a = base[p]
            /\ e.act = "deleteLocal" => remote.hash = 0 /\ e.local = base[p].hash
            /\ e.act = "upload" => disk[p] # 0 /\ (remote.hash = 0 \/ base[p].hash = remote.hash)
        BY DecisionShows
      <4>4. e.act = d.act \/ (e.act = "delete" /\ d.act = "download")
        <5>1. e \in [act : {e.act}, local : {e.local}, remote : {e.remote}, rev : {e.rev}]
          BY DEF Decision
        <5> HIDE DEF e
        <5> QED BY <4>1, <5>1
      <4> HIDE DEF remote, d, e, a
      <4>5. Current(p) /\ disk[p] = remote.hash => Shown(p, base[p])'
        BY <1>1, <2>2, <4>2, <4>3 DEF Shown
      <4>6. disk[p] # remote.hash => Shown(p, base[p])' = Shown(p, base[p])
        BY <1>1, <4>2, <4>3 DEF Shown
      <4> QED BY <2>2, <2>3, <2>4, <2>6, <3>3, <4>2, <4>3, <4>4, <4>5, <4>6
    <3> QED BY <3>1, <3>2, <3>3
  <2> HIDE DEF remote, d, j
  <2>9. Behind(p)' => Shown(p, saved[p])'
    BY <1>1, <2>1, <2>4 DEF Shown
  <2>10. Decided(p)'
    BY <1>1, <1>3, <2>1, <2>7, <2>8 DEF Decided
  <2> QED BY <2>1, <2>5, <2>8, <2>9, <2>10 DEF PathShown
<1> QED BY <1>5, <1>6, <1>7 DEF HiddenInv

(* At first every baseline is the row, or the cursor has passed nothing. *)
LEMMA HiddenInit == Init => HiddenInv /\ OriginsClosed
<1> SUFFICES ASSUME Init PROVE HiddenInv /\ OriginsClosed
  OBVIOUS
<1>1. RowsLogged
  BY InstantInit DEF PlanInv
<1>2. PICK count \in 0..Lesser(MaxMade, MaxSeq), synced \in BOOLEAN :
        /\ base = [p \in Path |-> IF synced THEN rows[p] ELSE Gone] /\ saved = base
        /\ cursor = IF synced THEN count ELSE 0
        /\ made = count /\ origins = [c \in Content |-> IF c \in 1..count THEN {c} ELSE {}]
  BY Zenon DEF Init
<1>3. sync.pc = "idle"
  <2>1. sync = Idle
    BY DEF Init
  <2> QED BY <2>1 DEF Idle
<1>4. ASSUME NEW p \in Path PROVE PathShown(p)
  <2>1. Scanned(p) /\ ~Deciding(p)
    BY <1>3 DEF Scanned, Deciding
  <2>2. ASSUME Behind(p) PROVE base[p].hash = rows[p].hash
    <3>1. CASE synced
      BY <1>2, <3>1
    <3>2. CASE ~synced
      <4>1. LinesOf(p, 0, Last) = {}
        BY <1>2, <2>2, <3>2 DEF Behind
      <4>2. rows[p] = Gone
        BY <1>1, <4>1 DEF RowsLogged, RowAt
      <4> QED BY <1>2, <3>2, <4>2
    <3> QED BY <3>1, <3>2
  <2> QED BY <1>2, <2>1, <2>2 DEF PathShown, Shown
<1>5. OriginsClosed
  <2>1. Known \subseteq Content
    BY <1>2, Bounds DEF Known, Content, Lesser
  <2>2. \A c \in Known : \A d \in origins[c] : d = c
    BY <1>2, <2>1
  <2> QED BY <2>2 DEF OriginsClosed
<1> QED BY <1>3, <1>4, <1>5 DEF HiddenInv, CursorBehind

(* Contents are made by writing, by other devices and by merging. *)
LEMMA ClosedStep == TypeOK /\ KeptInv /\ OriginsClosed /\ [Next]_vars => OriginsClosed'
<1> SUFFICES ASSUME TypeOK, KeptInv, OriginsClosed, [Next]_vars PROVE OriginsClosed'
  OBVIOUS
<1>1. CASE UNCHANGED <<made, origins>>
  BY <1>1 DEF OriginsClosed, Known
<1>2. ASSUME NEW p \in Path, Write(p) PROVE OriginsClosed'
  <2> DEFINE from == {disk[p]} \ {0}
  <2>1. from \in SUBSET Known /\ Make(from) /\ UNCHANGED <<copies, dropped>>
    BY <1>2, PathKnown DEF Write, ValuesKnown
  <2> HIDE DEF from
  <2> QED BY <2>1, MadeClosed
<1>3. ASSUME NEW p \in Path, Foreign(p) PROVE OriginsClosed'
  <2>1. CASE Make({rows[p].hash} \ {0}) /\ UNCHANGED dropped
    <3> DEFINE from == {rows[p].hash} \ {0}
    <3>1. from \in SUBSET Known /\ Make(from) /\ UNCHANGED <<copies, dropped>>
      BY <1>3, <2>1, PathKnown DEF ValuesKnown, Foreign, device
    <3> HIDE DEF from
    <3> QED BY <3>1, MadeClosed
  <2> QED BY <1>1, <1>3, <2>1 DEF Foreign
<1>4. ASSUME NEW p \in Path, SendMerge(p) PROVE OriginsClosed'
  <2>1. CASE Make({disk[p], sync.job[p].content})
    <3> DEFINE from == {disk[p], sync.job[p].content}
    <3>1. from \in SUBSET Known /\ Make(from) /\ UNCHANGED <<copies, dropped>>
      BY <1>4, <2>1, PathKnown DEF ValuesKnown, SendMerge
    <3> HIDE DEF from
    <3> QED BY <3>1, MadeClosed
  <2> QED BY <1>1, <1>4, <2>1 DEF SendMerge
<1>5. CASE UNCHANGED history
  BY <1>1, <1>5 DEF history
<1>6. ASSUME NEW p \in Path, GoBack(p) \/ Remove(p) PROVE OriginsClosed'
  BY <1>1, <1>6 DEF GoBack, Remove
<1>7. CASE Prune \/ Begin \/ ReadChanges \/ ReadManifest \/ ReplayChanges \/ Scan
           \/ PlanFull \/ PlanIncremental \/ EndReconcile \/ EndSync \/ Stop
  BY <1>5, <1>7 DEF Prune, Begin, ReadChanges, ReadManifest, ReplayChanges, Scan,
    PlanFull, PlanIncremental, EndReconcile, EndSync, Stop
<1>8. ASSUME NEW p \in Path, Reconcile(p) \/ Applying(p) PROVE OriginsClosed'
  <2>1. CASE SendMerge(p)
    BY <1>4, <2>1
  <2>2. CASE Reconcile(p) \/ Fetch(p) \/ Download(p) \/ NothingToResolve(p) \/ ApplyMerge(p)
    BY <1>5, <2>2 DEF Reconcile, Fetch, Download, NothingToResolve, ApplyMerge
  <2>3. CASE CopyLocal(p) \/ ApplyRemote(p) \/ HashLocal(p) \/ TrashLocal(p)
    BY <1>5, <2>3 DEF CopyLocal, ApplyRemote, HashLocal, TrashLocal
  <2>4. CASE Prepare(p) \/ SendUpload(p) \/ CheckAbsent(p) \/ SendDelete(p)
    BY <1>5, <2>4 DEF Prepare, SendUpload, CheckAbsent, SendDelete
  <2> QED BY <1>8, <2>1, <2>2, <2>3, <2>4 DEF Applying
<1> QED BY <1>1, <1>2, <1>3, <1>6, <1>7, <1>8 DEF Next, vars, history

(* Every step keeps the invariant, if nobody goes back during a sync. *)
LEMMA HiddenStep ==
  ASSUME ~Undo, TypeOK, PlanInv, KeptInv, OriginsClosed, HiddenInv, [Next]_vars
  PROVE  HiddenInv'
<1>1. TypeOK' /\ RowsLogged /\ PlansFromAnInstant
  BY TypeStep DEF PlanInv
<1>2. ASSUME NEW p \in Path, Write(p) \/ GoBack(p) \/ Remove(p) \/ Foreign(p) PROVE HiddenInv'
  BY <1>1, <1>2, WriteHidden, GoBackHidden, RemoveHidden, ForeignHidden
<1>3. ASSUME NEW p \in Path, Reconcile(p) \/ Applying(p) PROVE HiddenInv'
  BY <1>1, <1>3, ReconcileHidden, ApplyingHidden
<1>4. CASE Begin \/ Stop \/ ReadChanges \/ ReplayChanges
  <2>1. CASE ReadChanges /\ ~Expired(sync.since)
    BY <1>1, <2>1, FollowHidden DEF ReadChanges, server, device, history
  <2>2. CASE ReplayChanges /\ ~Expired(sync.since)
    BY <1>1, <2>2, FollowHidden DEF ReplayChanges, server, device, history
  <2> QED BY <1>1, <1>4, <2>1, <2>2, BeginHidden
<1>5. CASE Prune \/ ReadManifest \/ Scan \/ EndSync
  BY <1>1, <1>5, PruneHidden, ReadManifestHidden, ScanHidden, EndSyncHidden
<1>6. CASE PlanFull \/ PlanIncremental \/ EndReconcile
  BY <1>1, <1>6, PlanFullHidden, PlanIncrementalHidden, EndReconcileHidden
<1>7. CASE UNCHANGED vars
  <2>1. UNCHANGED <<rows, log, disk, base, saved, origins, cursor, sync>>
    BY <1>7 DEF vars, server, device, history
  <2>2. CursorBehind' /\ Last' = Last
    BY <2>1 DEF HiddenInv, CursorBehind, Last
  <2>3. ASSUME NEW p \in Path PROVE Scanned(p)' /\ (Deciding(p)' => Decided(p)')
    <3>1. Scanned(p) /\ (Deciding(p) => Decided(p))
      BY DEF HiddenInv, PathShown
    <3> QED BY <2>1, <2>2, <3>1 DEF Scanned, Unplanned, Deciding, Decided, Current, LinesOf, Shown, Forced
  <2> QED BY <1>1, <2>1, <2>2, <2>3, LooksHidden
<1> QED BY <1>2, <1>3, <1>4, <1>5, <1>6, <1>7 DEF Next

(* A file that matches its baseline is part of itself, so the baseline is the row. *)
LEMMA HiddenSuffices == TypeOK /\ KeptInv /\ HiddenInv => NothingHidden
<1> SUFFICES ASSUME TypeOK, KeptInv, HiddenInv, NEW p \in Path, Behind(p), disk[p] = base[p].hash
             PROVE  disk[p] = rows[p].hash
  BY DEF NothingHidden, Behind
<1>1. Shown(p, base[p])
  BY DEF HiddenInv, PathShown
<1> QED BY <1>1, ShownElsewhere

(* In every reachable state, a file that matches its baseline and whose last change on the
   server the cursor has passed is what the server has: a cursor only advances when every
   path was seen to, and no race, failure or stop leaves a baseline that hides a change.
   The user goes back to earlier contents between syncs only: an undo before the upload of
   the edit it takes back does hide the deletion of the file on the server. *)
THEOREM NothingStaysHidden == ASSUME ~Undo PROVE Spec => []NothingHidden
<1> DEFINE Inv == TypeOK /\ PlanInv /\ KeptInv /\ OriginsClosed /\ HiddenInv
<1>1. Init => Inv
  BY TypeInit, InstantInit, KeptInit, HiddenInit
<1>2. Inv /\ [Next]_vars => Inv'
  BY TypeStep, InstantStep, KeptStep, ClosedStep, HiddenStep
<1>3. Inv => NothingHidden
  BY HiddenSuffices
<1> QED BY <1>1, <1>2, <1>3, PTL DEF Spec

-----------------------------------------------------------------------------
(***************************************************************************)
(* Revisions: what a baseline says of the version on the server.           *)
(***************************************************************************)

(* A file that is gone has no version, *)
Whole(b) == b.hash = 0 => b = Gone

(* and a version with the content that the server has is the one that the server has. *)
Exact(p, b) == b.hash = rows[p].hash => b = rows[p]

(* The file is edited, or gone. *)
Away(p) == disk[p] # 0 => disk[p] \notin {base[p].hash, saved[p].hash}

(* A path that is not done has the baseline of the last sync, or its file is neither that
   nor the present one; so an upload brings the server no content that a baseline has. *)
Pending(p) ==
  LET plan == sync.plan[p]
      job == sync.job[p]
  IN
  job.stage # "done" =>
    /\ base[p] = saved[p] \/ Away(p)
    /\ plan.act \in {"upload", "conflict"} => Away(p)
    /\ plan.act = "upload" /\ job.stage = "held" => job.content \notin {0, saved[p].hash}
    /\ plan.act \in {"download", "conflict"} /\ job.stage \in {"held", "copied", "merged"} =>
         job.content # 0 /\ (job.content = rows[p].hash => job.rev = rows[p].rev)
    /\ job.stage = "merged" => job.read \notin {0, rows[p].hash}

(* What was read of the server is what a path will be decided by. *)
Reading(p) == sync.pc = "scan" \/ (sync.pc = "reconcile" /\ p \in sync.todo)

ExactPath(p) ==
  /\ Exact(p, base[p]) /\ Whole(base[p]) /\ Exact(p, saved[p]) /\ Whole(saved[p])
  /\ Reading(p) /\ (sync.full \/ p \in sync.changed) => Exact(p, sync.remote[p])
  /\ IF Deciding(p) THEN Pending(p) ELSE base[p] = saved[p]

ExactInv == \A p \in Path : ExactPath(p)

-----------------------------------------------------------------------------
LEMMA DecisionAway ==
  ASSUME NEW l, NEW r, NEW b, Decision(l, r, b).act \in {"upload", "conflict"}
  PROVE  l # 0 /\ l # b.hash
BY DEF Decision

(* A step on one path keeps all the others. *)
LEMMA AppliesExact ==
  ASSUME ExactInv, NEW p \in Path, sync.pc = "apply", UNCHANGED <<Apart, saved>>, Elsewhere(p),
         Exact(p, base[p])', Whole(base'[p]), Exact(p, saved[p])', Pending(p)'
  PROVE  ExactInv'
<1>1. sync'.pc = "apply" /\ saved' = saved
  BY DEF Apart
<1>2. ASSUME NEW q \in Path \ {p} PROVE ExactPath(q)'
  <2>1. ExactPath(q) /\ Deciding(q)
    BY DEF ExactInv, Deciding
  <2>2. /\ disk'[q] = disk[q] /\ rows'[q] = rows[q] /\ base'[q] = base[q]
        /\ sync'.plan[q] = sync.plan[q] /\ sync'.job[q] = sync.job[q]
    BY DEF Elsewhere
  <2>3. Pending(q)'
    BY <1>1, <2>1, <2>2 DEF ExactPath, Pending, Away
  <2> QED BY <1>1, <2>1, <2>2, <2>3 DEF ExactPath, Exact, Whole, Reading, Deciding
<1>3. ExactPath(p)'
  BY <1>1 DEF ExactInv, ExactPath, Reading, Deciding, Whole
<1> QED BY <1>2, <1>3 DEF ExactInv

(* A path that is settled, with the version that becomes its baseline *)
LEMMA SettledExact ==
  ASSUME TypeOK, ExactInv, NEW p \in Path, sync.pc = "apply", Finish(p) \/ Fail(p),
         UNCHANGED <<rows, saved>>, \A q \in Path \ {p} : disk'[q] = disk[q],
         NEW v \in Version, SetBase(p, v), Exact(p, v), Whole(v)
  PROVE  ExactInv'
<1>1. UNCHANGED Apart /\ sync'.plan = sync.plan /\ sync'.job[p] = Done
      /\ \A q \in Path \ {p} : sync'.job[q] = sync.job[q]
  BY Ended
<1>2. base \in [Path -> Version] /\ base' = [base EXCEPT ![p] = v]
  BY DEF TypeOK, SetBase
<1>3. Elsewhere(p) /\ base'[p] = v
  BY <1>1, <1>2 DEF Elsewhere
<1>4. Pending(p)'
  BY <1>1, FirstStages DEF Pending
<1>5. Exact(p, saved[p])'
  BY DEF ExactInv, ExactPath, Exact
<1>6. Exact(p, base[p])' /\ Whole(base'[p])
  BY <1>3 DEF Exact
<1> QED BY <1>1, <1>3, <1>4, <1>5, <1>6, AppliesExact

(* A path that keeps its baseline *)
LEMMA KeepsExact ==
  ASSUME TypeOK, ExactInv, NEW p \in Path, sync.pc = "apply", UNCHANGED <<rows, disk, base, saved, Apart>>,
         \A q \in Path \ {p} : sync'.plan[q] = sync.plan[q] /\ sync'.job[q] = sync.job[q],
         Pending(p)'
  PROVE  ExactInv'
<1>1. Elsewhere(p)
  BY DEF Elsewhere
<1>2. Exact(p, saved[p])' /\ Exact(p, base[p])' /\ Whole(base'[p])
  BY DEF ExactInv, ExactPath, Exact
<1> QED BY <1>1, <1>2, AppliesExact

LEMMA FailedExact ==
  ASSUME TypeOK, ExactInv, NEW p \in Path, sync.pc = "apply", Finish(p) \/ Fail(p),
         UNCHANGED <<rows, disk, base, saved>>
  PROVE  ExactInv'
<1>1. UNCHANGED Apart /\ sync'.plan = sync.plan /\ sync'.job[p] = Done
      /\ \A q \in Path \ {p} : sync'.job[q] = sync.job[q]
  BY Ended
<1>2. Pending(p)'
  BY <1>1, FirstStages DEF Pending
<1> QED BY <1>1, <1>2, KeepsExact

(* Nothing is the version of a file that the server does not have. *)
LEMMA GoneExact == ASSUME RowsLogged, NEW p \in Path PROVE Exact(p, Gone) /\ Whole(Gone) /\ Gone \in Version
BY RowsLive, NothingTyped DEF Exact, Whole, Gone

(* The decision of a path that lost a race *)
LEMMA LosesExact ==
  ASSUME TypeOK, ExactInv, RowsLogged, NEW p \in Path, NEW b \in Version,
         AgainFrom(p, b) \/ LosesFrom(p, b), sync.pc = "apply",
         UNCHANGED <<rows, disk, saved>>, Exact(p, b), Whole(b),
         b = saved[p] \/ (disk[p] # 0 => disk[p] \notin {b.hash, saved[p].hash})
  PROVE  ExactInv'
<1>1. base \in [Path -> Version] /\ disk[p] \in Content /\ rows[p] \in Version
  BY PathTyped DEF TypeOK
<1>2. CASE Fail(p) /\ SetBase(p, b)
  BY <1>2, SettledExact
<1>3. CASE AgainFrom(p, b) /\ ~(sync.job[p].tries + 1 > MaxTries)
  <2> DEFINE d == Decision(disk[p], rows[p], b)
             agreed == Agreed(disk[p], rows[p], b)
             j == IF d.act = "none" THEN Done ELSE Todo(sync.job[p].tries + 1)
  <2>1. base' = [base EXCEPT ![p] = agreed] /\ sync' = [sync EXCEPT !.plan[p] = d, !.job[p] = j]
    BY <1>3 DEF AgainFrom, SetBase
  <2>2. sync.job[p].tries + 1 \in 0..MaxTries
    BY <1>3, PathTyped, Bounds DEF Job
  <2>3. d \in Plan /\ agreed \in Version /\ j \in Job
    BY <1>1, <2>2, DecisionTyped, NothingTyped, PathTyped
  <2>4. /\ d.act = "none" <=> disk[p] = rows[p].hash
        /\ d.act = "none" => agreed = rows[p]
        /\ d.act # "none" => agreed = b
        /\ d.act \in {"upload", "conflict"} => disk[p] # 0 /\ disk[p] # b.hash
    <3>1. d.act = "none" <=> disk[p] = rows[p].hash
      BY DecisionShows
    <3>2. disk[p] = rows[p].hash => agreed = rows[p]
      BY RowsLive DEF Agreed
    <3>3. disk[p] # rows[p].hash => agreed = b
      BY DecisionShows
    <3> QED BY <3>1, <3>2, <3>3, DecisionAway
  <2>5. \/ d.act = "none" /\ j = Done
        \/ d.act # "none" /\ j.stage = "todo"
    BY <2>2, NothingTyped
  <2> HIDE DEF d, agreed, j
  <2>6. UNCHANGED Apart /\ Elsewhere(p) /\ sync'.plan[p] = d /\ sync'.job[p] = j
    <3>1. /\ UNCHANGED Apart /\ sync'.plan[p] = d /\ sync'.job[p] = j
          /\ \A q \in Path \ {p} : sync'.plan[q] = sync.plan[q] /\ sync'.job[q] = sync.job[q]
      BY <2>1, <2>3, Replanned
    <3>2. \A q \in Path \ {p} : base'[q] = base[q]
      BY <1>1, <2>1
    <3> QED BY <3>1, <3>2 DEF Elsewhere
  <2>7. base'[p] = agreed
    BY <1>1, <2>1, <2>3
  <2>8. Exact(p, saved[p])'
    BY DEF ExactInv, ExactPath, Exact
  <2>9. Exact(p, base[p])' /\ Whole(base'[p])
    BY <2>4, <2>7, RowsLive DEF Exact, Whole
  <2>10. Pending(p)'
    <3>1. CASE d.act = "none"
      BY <2>5, <2>6, <3>1, FirstStages DEF Pending
    <3>2. CASE d.act # "none"
      <4>1. base'[p] = b /\ sync'.job[p].stage = "todo" /\ saved'[p] = saved[p] /\ disk'[p] = disk[p]
        BY <2>4, <2>5, <2>6, <2>7, <3>2
      <4>2. base'[p] = saved'[p] \/ Away(p)'
        BY <4>1 DEF Away
      <4>3. sync'.plan[p].act \in {"upload", "conflict"} => Away(p)'
        BY <2>4, <2>6, <4>1 DEF Away
      <4> QED BY <4>1, <4>2, <4>3 DEF Pending
    <3> QED BY <3>1, <3>2
  <2> QED BY <2>6, <2>8, <2>9, <2>10, AppliesExact
<1> QED BY <1>2, <1>3 DEF AgainFrom, LosesFrom

(* It is decided again, by the baseline the path has. *)
LEMMA OwnLosesExact ==
  ASSUME TypeOK, ExactInv, RowsLogged, NEW p \in Path, Loses(p) \/ Again(p), sync.pc = "apply",
         sync.job[p].stage # "done", UNCHANGED <<rows, disk, saved>>
  PROVE  ExactInv'
<1>1. ExactPath(p) /\ Pending(p)
  BY DEF ExactInv, ExactPath, Deciding
<1>2. base[p] = saved[p] \/ Away(p)
  BY <1>1 DEF Pending
<1>3. /\ base[p] = saved[p] \/ (disk[p] # 0 => disk[p] \notin {base[p].hash, saved[p].hash})
      /\ Exact(p, base[p]) /\ Whole(base[p]) /\ base[p] \in Version
  BY <1>1, <1>2, PathTyped DEF Away, ExactPath
<1> QED BY <1>3, LosesExact DEF Loses, Again

(* What the invariant says of a path under way *)
LEMMA PathPending ==
  ASSUME ExactInv, NEW p \in Path, sync.pc = "apply"
  PROVE  /\ Exact(p, base[p]) /\ Whole(base[p]) /\ Exact(p, saved[p]) /\ Whole(saved[p]) /\ Pending(p)
BY DEF ExactInv, ExactPath, Deciding

(* A stage that leaves the version that is held *)
LEMMA StagedExact ==
  ASSUME TypeOK, ExactInv, NEW p \in Path, sync.pc = "apply", NEW j \in Job, Move(p, j),
         UNCHANGED <<rows, disk, base, saved>>, sync.job[p].stage # "done",
         j.stage \in {"held", "copied"},
         sync.plan[p].act = "upload" => j.content = disk[p] /\ disk[p] # 0,
         sync.plan[p].act \in {"download", "conflict"} =>
           j.content # 0 /\ (j.content = rows[p].hash => j.rev = rows[p].rev)
  PROVE  ExactInv'
<1>1. /\ UNCHANGED Apart /\ sync'.plan = sync.plan /\ sync'.job[p] = j
      /\ \A q \in Path \ {p} : sync'.job[q] = sync.job[q]
  BY MovedTo
<1>2. Pending(p)
  BY PathPending
<1>3. Away(p)' = Away(p) /\ j.stage # "merged"
  BY DEF Away
<1>4. Pending(p)'
  BY <1>1, <1>2, <1>3 DEF Pending, Away
<1> QED BY <1>1, <1>4, KeepsExact

LEMMA FetchExact ==
  ASSUME TypeOK, ExactInv, RowsLogged, NEW p \in Path, Fetch(p)
  PROVE  ExactInv'
<1> DEFINE j == [sync.job[p] EXCEPT !.stage = "held", !.content = rows[p].hash, !.rev = rows[p].rev]
<1>1. /\ sync.pc = "apply" /\ sync.job[p].stage = "todo" /\ UNCHANGED <<rows, disk, saved>>
      /\ sync.plan[p].act \in {"download", "conflict"}
  BY DEF Fetch, At, server
<1>2. CASE Loses(p)
  BY <1>1, <1>2, OwnLosesExact
<1>3. CASE Move(p, j) /\ rows[p] # Gone /\ UNCHANGED base
  <2>1. j \in Job /\ j.stage = "held" /\ j.content = rows[p].hash /\ j.rev = rows[p].rev
    BY PathTyped DEF Job
  <2>2. rows[p].hash # 0
    BY <1>3, RowsLive
  <2> HIDE DEF j
  <2> QED BY <1>1, <1>3, <2>1, <2>2, StagedExact
<1> QED BY <1>2, <1>3 DEF Fetch

(* What is written is the version that was held. *)
LEMMA AppliedExact ==
  ASSUME TypeOK, ExactInv, NEW p \in Path, sync.pc = "apply", Applied(p), UNCHANGED <<rows, saved>>,
         sync.plan[p].act \in {"download", "conflict"},
         sync.job[p].stage \in {"held", "copied", "merged"}
  PROVE  ExactInv'
<1> DEFINE v == [hash |-> sync.job[p].content, rev |-> sync.job[p].rev]
<1>1. v \in Version /\ v.hash = sync.job[p].content /\ v.rev = sync.job[p].rev
  BY PathTyped DEF Version
<1>2. sync.job[p].content # 0 /\ (sync.job[p].content = rows[p].hash => sync.job[p].rev = rows[p].rev)
  BY PathPending DEF Pending
<1>3. Whole(v) /\ Exact(p, v)
  <2>1. rows[p] = [hash |-> rows[p].hash, rev |-> rows[p].rev]
    BY PathTyped DEF Version
  <2> QED BY <1>1, <1>2, <2>1 DEF Whole, Exact
<1>4. SetBase(p, v) /\ Finish(p) /\ \A q \in Path \ {p} : disk'[q] = disk[q]
  BY DEF Applied, TypeOK
<1> HIDE DEF v
<1> QED BY <1>1, <1>3, <1>4, SettledExact

LEMMA DownloadExact ==
  ASSUME TypeOK, ExactInv, RowsLogged, NEW p \in Path,
         Download(p) \/ NothingToResolve(p) \/ ApplyRemote(p)
  PROVE  ExactInv'
<1>1. /\ sync.pc = "apply" /\ sync.job[p].stage \in {"held", "copied"} /\ UNCHANGED <<rows, saved>>
      /\ sync.plan[p].act \in {"download", "conflict"}
  BY DEF Download, NothingToResolve, ApplyRemote, At, server
<1>2. CASE Loses(p) /\ UNCHANGED disk
  BY <1>1, <1>2, OwnLosesExact
<1>3. CASE Applied(p)
  BY <1>1, <1>3, AppliedExact
<1> QED BY <1>2, <1>3 DEF Download, NothingToResolve, ApplyRemote

(* What was merged of the file is not what the server has, and not what the file is now. *)
LEMMA ApplyMergeExact ==
  ASSUME TypeOK, ExactInv, RowsLogged, NEW p \in Path, ApplyMerge(p)
  PROVE  ExactInv'
<1>1. /\ sync.pc = "apply" /\ sync.job[p].stage = "merged" /\ UNCHANGED <<rows, saved>>
      /\ sync.plan[p].act = "conflict"
  BY DEF ApplyMerge, At, server
<1>2. CASE Applied(p)
  BY <1>1, <1>2, AppliedExact
<1> DEFINE b == [hash |-> sync.job[p].read, rev |-> 0]
<1>3. CASE LosesFrom(p, b) /\ disk[p] # sync.job[p].read /\ UNCHANGED disk
  <2>1. b \in Version /\ b.hash = sync.job[p].read
    BY PathTyped, Bounds DEF Version
  <2>2. sync.job[p].read \notin {0, rows[p].hash} /\ Away(p)
    BY <1>1, PathPending DEF Pending
  <2>3. Exact(p, b) /\ Whole(b)
    BY <2>1, <2>2 DEF Exact, Whole
  <2>4. disk[p] # 0 => disk[p] \notin {b.hash, saved[p].hash}
    BY <1>3, <2>1, <2>2 DEF Away
  <2> HIDE DEF b
  <2> QED BY <1>1, <1>3, <2>1, <2>3, <2>4, LosesExact
<1> QED BY <1>2, <1>3 DEF ApplyMerge

LEMMA CopyLocalExact ==
  ASSUME TypeOK, ExactInv, NEW p \in Path, CopyLocal(p)
  PROVE  ExactInv'
<1> DEFINE j == [sync.job[p] EXCEPT !.stage = "copied", !.read = disk[p], !.copies = @ + 1]
<1>1. /\ sync.pc = "apply" /\ sync.job[p].stage \in {"held", "copied"} /\ UNCHANGED <<rows, disk, base, saved>>
      /\ sync.plan[p].act = "conflict"
  BY DEF CopyLocal, At, server
<1>2. j \in Job
  <2>1. sync.job[p].stage = "held" => sync.job[p].copies = 0
    BY PathTyped DEF Counted
  <2>2. sync.job[p].copies + 1 \in 0..MaxCopies
    BY <1>1, <2>1, PathTyped, Bounds DEF CopyLocal, At
  <2> QED BY <2>2, PathTyped DEF Job
<1>3. j.stage = "copied" /\ j.content = sync.job[p].content /\ j.rev = sync.job[p].rev
  BY PathTyped DEF Job
<1>4. Move(p, j)
  BY DEF CopyLocal
<1>5. sync.job[p].content # 0 /\ (sync.job[p].content = rows[p].hash => sync.job[p].rev = rows[p].rev)
  BY <1>1, PathPending DEF Pending
<1> HIDE DEF j
<1> QED BY <1>1, <1>2, <1>3, <1>4, <1>5, StagedExact

LEMMA HashLocalExact ==
  ASSUME TypeOK, ExactInv, HiddenInv, RowsLogged, NEW p \in Path, HashLocal(p)
  PROVE  ExactInv'
<1>1. /\ sync.pc = "apply" /\ sync.plan[p].act = "deleteLocal" /\ sync.job[p].stage = "todo"
      /\ UNCHANGED <<rows, disk, saved>>
  BY DEF HashLocal, At, server
<1>2. sync.plan[p].local = base[p].hash
  BY <1>1, PathDecided DEF Decided
<1>3. Pending(p)
  BY <1>1, PathPending
<1>4. CASE Finish(p) /\ SetBase(p, Gone)
  BY <1>1, <1>4, GoneExact, SettledExact
<1>5. CASE disk[p] \notin {0, sync.plan[p].local} /\ UNCHANGED base
           /\ sync' = [sync EXCEPT !.plan[p] = UploadOver(0)]
  <2> DEFINE d == UploadOver(0)
  <2>1. d \in Plan /\ d.act = "upload" /\ sync.job[p] \in Job
    BY UploadedTo, PathTyped, MadeTyped
  <2>2. sync' = [sync EXCEPT !.plan[p] = d]
    BY <1>5
  <2> HIDE DEF d
  <2>3. /\ UNCHANGED Apart /\ sync'.plan[p] = d /\ sync'.job[p] = sync.job[p]
        /\ \A q \in Path \ {p} : sync'.plan[q] = sync.plan[q] /\ sync'.job[q] = sync.job[q]
    BY <2>1, <2>2, Replanned
  <2>4. Away(p)
    BY <1>1, <1>2, <1>3, <1>5 DEF Pending, Away
  <2>5. Away(p)'
    BY <1>1, <1>5, <2>4 DEF Away
  <2>6. Pending(p)'
    BY <1>1, <1>5, <2>1, <2>3, <2>5 DEF Pending
  <2> QED BY <1>1, <1>5, <2>3, <2>6, KeepsExact
<1>6. CASE Move(p, [sync.job[p] EXCEPT !.stage = "held"]) /\ UNCHANGED base
  <2> DEFINE j == [sync.job[p] EXCEPT !.stage = "held"]
  <2>1. j \in Job /\ j.stage = "held" /\ Move(p, j)
    BY <1>6, PathTyped DEF Job
  <2> HIDE DEF j
  <2> QED BY <1>1, <1>6, <2>1, StagedExact
<1> QED BY <1>4, <1>5, <1>6 DEF HashLocal

LEMMA TrashLocalExact ==
  ASSUME TypeOK, ExactInv, RowsLogged, NEW p \in Path, TrashLocal(p)
  PROVE  ExactInv'
<1>1. sync.pc = "apply" /\ UNCHANGED <<rows, saved>>
  BY DEF TrashLocal, At, server
<1>2. CASE disk' = [disk EXCEPT ![p] = 0] /\ SetBase(p, Gone) /\ Finish(p)
  <2>1. \A q \in Path \ {p} : disk'[q] = disk[q]
    BY <1>2 DEF TypeOK
  <2> QED BY <1>1, <1>2, <2>1, GoneExact, SettledExact
<1>3. CASE Fail(p) /\ UNCHANGED <<disk, base, copies>>
  BY <1>1, <1>3, FailedExact
<1> QED BY <1>2, <1>3 DEF TrashLocal

LEMMA PrepareExact ==
  ASSUME TypeOK, ExactInv, RowsLogged, NEW p \in Path, Prepare(p)
  PROVE  ExactInv'
<1>1. /\ sync.pc = "apply" /\ sync.plan[p].act = "upload" /\ sync.job[p].stage = "todo"
      /\ UNCHANGED <<rows, disk, saved>>
  BY DEF Prepare, At, server
<1>2. CASE Loses(p)
  BY <1>1, <1>2, OwnLosesExact
<1>3. CASE Finish(p) /\ UNCHANGED base
  BY <1>1, <1>3, FailedExact
<1>4. CASE disk[p] # 0 /\ Move(p, [sync.job[p] EXCEPT !.stage = "held", !.content = disk[p]]) /\ UNCHANGED base
  <2> DEFINE j == [sync.job[p] EXCEPT !.stage = "held", !.content = disk[p]]
  <2>1. j \in Job /\ j.stage = "held" /\ j.content = disk[p] /\ Move(p, j)
    BY <1>4, PathTyped DEF Job
  <2> HIDE DEF j
  <2> QED BY <1>1, <1>4, <2>1, StagedExact
<1> QED BY <1>2, <1>3, <1>4 DEF Prepare

LEMMA CheckAbsentExact ==
  ASSUME TypeOK, ExactInv, RowsLogged, NEW p \in Path, CheckAbsent(p)
  PROVE  ExactInv'
<1>1. /\ sync.pc = "apply" /\ sync.plan[p].act = "delete" /\ sync.job[p].stage = "todo"
      /\ UNCHANGED <<rows, disk, saved>>
  BY DEF CheckAbsent, At, server
<1>2. CASE Fail(p) /\ UNCHANGED base
  BY <1>1, <1>2, FailedExact
<1>3. CASE Overtaken(p)
  BY <1>1, <1>3, OwnLosesExact DEF Overtaken
<1>4. CASE Move(p, [sync.job[p] EXCEPT !.stage = "held"]) /\ UNCHANGED base
  <2> DEFINE j == [sync.job[p] EXCEPT !.stage = "held"]
  <2>1. j \in Job /\ j.stage = "held" /\ Move(p, j)
    BY <1>4, PathTyped DEF Job
  <2> HIDE DEF j
  <2> QED BY <1>1, <1>4, <2>1, StagedExact
<1> QED BY <1>2, <1>3, <1>4 DEF CheckAbsent

(* A publication of a content that no baseline of the path has, with its own version *)
LEMMA SentExact ==
  ASSUME TypeOK, ExactInv, NEW p \in Path, sync.pc = "apply", NEW hash \in Content, Publish(p, hash),
         UNCHANGED <<disk, saved, Apart>>,
         \A q \in Path \ {p} :
           base'[q] = base[q] /\ sync'.plan[q] = sync.plan[q] /\ sync'.job[q] = sync.job[q],
         hash # 0 => hash # saved[p].hash,
         base'[p] = rows'[p] \/ (base'[p] = base[p] /\ hash \notin {0, base[p].hash}),
         Pending(p)'
  PROVE  ExactInv'
<1>1. Elsewhere(p) /\ rows'[p].hash = hash
  BY Publishes DEF Elsewhere
<1>2. rows'[p].hash = 0 => rows'[p] = Gone
  BY DEF Publish, TypeOK
<1>3. Exact(p, saved[p])'
  BY <1>1, <1>2, PathPending DEF Exact, Whole
<1>4. Exact(p, base[p])' /\ Whole(base'[p])
  BY <1>1, <1>2, PathPending DEF Exact, Whole
<1> QED BY <1>1, <1>3, <1>4, AppliesExact

LEMMA SendUploadExact ==
  ASSUME TypeOK, ExactInv, RowsLogged, NEW p \in Path, SendUpload(p)
  PROVE  ExactInv'
<1>1. /\ sync.pc = "apply" /\ UNCHANGED <<disk, saved>>
      /\ sync.plan[p].act = "upload" /\ sync.job[p].stage = "held"
  BY DEF SendUpload, At
<1>2. CASE (Loses(p) \/ Again(p)) /\ UNCHANGED server
  BY <1>1, <1>2, OwnLosesExact DEF server
<1>3. CASE /\ Publish(p, sync.job[p].content)
           /\ SetBase(p, [hash |-> sync.job[p].content, rev |-> Last + 1]) /\ Finish(p)
  <2> DEFINE hash == sync.job[p].content
             v == [hash |-> sync.job[p].content, rev |-> Last + 1]
  <2>1. hash \in Content /\ Publish(p, hash) /\ base' = [base EXCEPT ![p] = v]
    BY <1>3, PathTyped DEF SetBase
  <2>2. hash \notin {0, saved[p].hash}
    BY <1>1, PathPending DEF Pending
  <2>3. rows'[p] = v
    BY <2>1, <2>2 DEF Publish, TypeOK
  <2> HIDE DEF hash, v
  <2>4. UNCHANGED Apart /\ sync'.plan = sync.plan /\ sync'.job[p] = Done
        /\ \A q \in Path \ {p} : sync'.job[q] = sync.job[q]
    BY <1>3, Ended
  <2>5. base'[p] = rows'[p] /\ \A q \in Path \ {p} : base'[q] = base[q]
    BY <2>1, <2>3 DEF TypeOK
  <2>6. Pending(p)'
    BY <2>4, FirstStages DEF Pending
  <2> QED BY <1>1, <2>1, <2>2, <2>4, <2>5, <2>6, SentExact
<1> QED BY <1>2, <1>3 DEF SendUpload

LEMMA SendDeleteExact ==
  ASSUME TypeOK, ExactInv, RowsLogged, NEW p \in Path, SendDelete(p)
  PROVE  ExactInv'
<1>1. /\ sync.pc = "apply" /\ UNCHANGED <<disk, saved>> /\ sync.job[p].stage = "held"
  BY DEF SendDelete, At
<1>2. Gone \in Version /\ 0 \in Content
  BY NothingTyped, MadeTyped
<1>3. CASE Publish(p, 0) /\ SetBase(p, Gone) /\ Finish(p)
  <2>1. UNCHANGED Apart /\ sync'.plan = sync.plan /\ sync'.job[p] = Done
        /\ \A q \in Path \ {p} : sync'.job[q] = sync.job[q]
    BY <1>3, Ended
  <2>2. base'[p] = rows'[p] /\ \A q \in Path \ {p} : base'[q] = base[q]
    BY <1>3 DEF Publish, SetBase, TypeOK
  <2>3. Pending(p)'
    BY <2>1, FirstStages DEF Pending
  <2> QED BY <1>1, <1>2, <1>3, <2>1, <2>2, <2>3, SentExact
<1>4. CASE rows[p] = Gone /\ SetBase(p, Gone) /\ Finish(p) /\ UNCHANGED server
  BY <1>1, <1>4, GoneExact, SettledExact DEF server
<1>5. CASE Overtaken(p) /\ UNCHANGED server
  BY <1>1, <1>5, OwnLosesExact DEF server, Overtaken
<1> QED BY <1>3, <1>4, <1>5 DEF SendDelete

LEMMA SendMergeExact ==
  ASSUME TypeOK, KeptInv, ExactInv, RowsLogged, NEW p \in Path, SendMerge(p)
  PROVE  ExactInv'
<1>1. /\ sync.pc = "apply" /\ UNCHANGED <<disk, saved, copies, dropped>> /\ disk[p] # 0
      /\ sync.plan[p].act = "conflict" /\ sync.job[p].stage = "held"
  BY DEF SendMerge, At
<1>2. CASE Loses(p) /\ UNCHANGED <<server, made, origins>>
  BY <1>1, <1>2, OwnLosesExact DEF server
<1>3. CASE /\ Make({disk[p], sync.job[p].content}) /\ Publish(p, made')
           /\ Move(p, [sync.job[p] EXCEPT !.stage = "merged", !.content = made',
                                         !.rev = Last + 1, !.read = disk[p]])
           /\ UNCHANGED base
  <2>1. /\ disk[p] \in Known /\ sync.job[p].content \in Known
        /\ base[p].hash \in Known /\ saved[p].hash \in Known
    BY PathKnown DEF ValuesKnown
  <2> DEFINE from == {disk[p], sync.job[p].content}
  <2>2. from \in SUBSET Known /\ Make(from)
    BY <1>3, <2>1
  <2> HIDE DEF from
  <2>3. made' \in Content /\ made' = made + 1 /\ made \in Nat
    BY <1>1, <2>2, MakeKept
  <2>4. PICK hash : hash = made'
    OBVIOUS
  <2>5. hash \in Content /\ Publish(p, hash) /\ hash \notin Known /\ hash # 0 /\ Last \in Nat
    BY <1>3, <2>3, <2>4, CursorsTyped DEF Known
  <2> DEFINE j == [sync.job[p] EXCEPT !.stage = "merged", !.content = hash,
                                     !.rev = Last + 1, !.read = disk[p]]
  <2>6. /\ j \in Job /\ j.stage = "merged" /\ j.content = hash
        /\ j.rev = Last + 1 /\ j.read = disk[p]
    <3>1. Last + 1 \in 0..MaxSeq
      BY <1>3, CursorsTyped, Bounds DEF Publish
    <3> QED BY <2>5, <3>1, PathTyped DEF Job
  <2>7. Move(p, j)
    BY <1>3, <2>4
  <2> HIDE DEF j
  <2>8. /\ UNCHANGED Apart /\ sync'.plan = sync.plan /\ sync'.job[p] = j
        /\ \A q \in Path \ {p} : sync'.job[q] = sync.job[q]
    BY <2>6, <2>7, MovedTo
  <2>9. rows'[p].hash = hash /\ rows'[p].rev = Last + 1
    BY <2>5 DEF Publish, TypeOK
  <2>10. Away(p)
    BY <1>1, PathPending DEF Pending
  <2>11. Away(p)'
    BY <1>1, <1>3, <2>10 DEF Away
  <2>12. Pending(p)'
    BY <1>1, <2>1, <2>5, <2>6, <2>8, <2>9, <2>11 DEF Pending
  <2> QED BY <1>1, <1>3, <2>1, <2>5, <2>8, <2>12, SentExact
<1> QED BY <1>2, <1>3 DEF SendMerge

LEMMA ApplyingExact ==
  ASSUME TypeOK, KeptInv, HiddenInv, ExactInv, RowsLogged, NEW p \in Path, Applying(p)
  PROVE  ExactInv'
BY FetchExact, DownloadExact, SendMergeExact, ApplyMergeExact, CopyLocalExact, HashLocalExact,
   TrashLocalExact, PrepareExact, SendUploadExact, CheckAbsentExact, SendDeleteExact DEF Applying

-----------------------------------------------------------------------------
(* What a sync has read of a file that is gone is that it is gone. *)
LEMMA RemoteWhole ==
  ASSUME PlansFromAnInstant, NEW p \in Path, sync.pc \in {"scan", "reconcile", "apply"},
         sync.full \/ p \in sync.changed
  PROVE  Whole(sync.remote[p])
<1>1. sync.remote[p] = RowAt(p, sync.last)
  BY DEF PlansFromAnInstant
<1>2. \A n : VersionAt(n).hash = 0 => VersionAt(n) = Gone
  BY DEF VersionAt
<1> QED BY <1>1, <1>2 DEF RowAt, Whole

(* The user and the other devices only make contents that nobody had. *)
LEMMA DisturbedExact ==
  ASSUME TypeOK, KeptInv, ExactInv, PlansFromAnInstant, Disturbs, UNCHANGED <<base, saved>>,
         \A p \in Path :
           /\ rows'[p] = rows[p] \/ (rows'[p].hash \notin 1..made /\ (rows'[p].hash = 0 => rows'[p] = Gone))
           /\ disk'[p] = disk[p] \/ disk'[p] \notin 1..made \/ sync.pc = "idle"
  PROVE  ExactInv'
<1>1. /\ sync'.pc = sync.pc /\ sync'.full = sync.full /\ sync'.changed = sync.changed
      /\ sync'.remote = sync.remote /\ sync'.plan = sync.plan /\ sync'.job = sync.job
      /\ sync'.todo = sync.todo
  BY DEF Disturbs, TypeOK, SyncRun
<1> SUFFICES ASSUME NEW p \in Path PROVE ExactPath(p)'
  BY DEF ExactInv
<1>2. made \in Nat /\ ExactPath(p) /\ ValuesKnown(p)
  BY MadeTyped, PathKnown DEF ExactInv
<1>3. ASSUME NEW b, b.hash \in Known, Exact(p, b), Whole(b) PROVE Exact(p, b)'
  BY <1>2, <1>3 DEF Exact, Whole, Known
<1>4. PICK b, s, r : b = base[p] /\ s = saved[p] /\ r = sync.remote[p]
  OBVIOUS
<1>5. Exact(p, b)' /\ Exact(p, s)'
  BY <1>2, <1>3, <1>4 DEF ExactPath, ValuesKnown, Exact
<1>6. Exact(p, base[p])' /\ Whole(base[p])' /\ Exact(p, saved[p])' /\ Whole(saved[p])'
  BY <1>2, <1>4, <1>5 DEF ExactPath, Exact, Whole
<1>7. Reading(p)' = Reading(p) /\ Deciding(p)' = Deciding(p)
  BY <1>1 DEF Reading, Deciding
<1>8. Reading(p) /\ (sync.full \/ p \in sync.changed) => Exact(p, r)'
  <2> SUFFICES ASSUME Reading(p), sync.full \/ p \in sync.changed PROVE Exact(p, r)'
    OBVIOUS
  <2>1. Whole(sync.remote[p])
    BY RemoteWhole DEF Reading
  <2> QED BY <1>2, <1>3, <1>4, <2>1 DEF ExactPath, ValuesKnown, Exact
<1>9. Deciding(p) => Pending(p)'
  <2> SUFFICES ASSUME Deciding(p) PROVE Pending(p)'
    OBVIOUS
  <2>1. Pending(p) /\ sync.pc # "idle"
    BY <1>2 DEF ExactPath, Deciding
  <2>2. Away(p) => Away(p)'
    BY <1>2, <2>1 DEF Away, ValuesKnown, Known
  <2>3. sync.job[p].content \in Known /\ sync.job[p].read \in Known
    BY <1>2 DEF ValuesKnown
  <2>4. \A c \in Known : c # 0 /\ c = rows'[p].hash => rows'[p] = rows[p]
    BY <1>2 DEF Known
  <2>5. \A c \in Known : c # 0 /\ c # rows[p].hash => c # rows'[p].hash
    BY <1>2 DEF Known
  <2> QED BY <1>1, <2>1, <2>2, <2>3, <2>4, <2>5 DEF Pending
<1> QED BY <1>1, <1>2, <1>4, <1>6, <1>7, <1>8, <1>9 DEF ExactPath, Exact

LEMMA UserExact ==
  ASSUME TypeOK, KeptInv, ExactInv, PlansFromAnInstant, ~Undo,
         NEW p \in Path, Write(p) \/ GoBack(p) \/ Remove(p) \/ Foreign(p)
  PROVE  ExactInv'
<1>1. disk \in [Path -> Content] /\ rows \in [Path -> Version] /\ made \in Nat
  BY MadeTyped DEF TypeOK
<1>2. CASE Write(p)
  <2>1. made' = made + 1 /\ disk' = [disk EXCEPT ![p] = made'] /\ Disturbs /\ UNCHANGED <<rows, base, saved>>
    BY <1>2 DEF Write, Make, server
  <2>2. \A q \in Path : disk'[q] = disk[q] \/ disk'[q] \notin 1..made
    BY <1>1, <2>1
  <2> QED BY <2>1, <2>2, DisturbedExact
<1>3. CASE GoBack(p)
  BY <1>3, DisturbedExact DEF GoBack, server
<1>4. CASE Remove(p)
  <2>1. disk' = [disk EXCEPT ![p] = 0] /\ Disturbs /\ UNCHANGED <<rows, base, saved>>
    BY <1>4 DEF Remove, server
  <2>2. \A q \in Path : disk'[q] = disk[q] \/ disk'[q] \notin 1..made
    BY <1>1, <2>1
  <2> QED BY <2>1, <2>2, DisturbedExact
<1>5. CASE Foreign(p)
  <2>1. UNCHANGED <<disk, base, saved>> /\ Disturbs
    BY <1>5 DEF Foreign, device
  <2>2. PICK hash : Publish(p, hash) /\ hash \notin 1..made
    BY <1>1, <1>5 DEF Foreign, Make
  <2>3. \A q \in Path : \/ rows'[q] = rows[q]
                        \/ rows'[q].hash \notin 1..made /\ (rows'[q].hash = 0 => rows'[q] = Gone)
    <3>1. Gone.hash = 0
      BY DEF Gone
    <3>2. rows'[p].hash = hash /\ (hash = 0 => rows'[p] = Gone) /\ \A q \in Path \ {p} : rows'[q] = rows[q]
      BY <1>1, <2>2, <3>1 DEF Publish
    <3> QED BY <2>2, <3>2
  <2> QED BY <2>1, <2>3, DisturbedExact
<1> QED BY <1>2, <1>3, <1>4, <1>5

LEMMA PruneExact ==
  ASSUME TypeOK, KeptInv, ExactInv, PlansFromAnInstant, Prune
  PROVE  ExactInv'
BY DisturbedExact DEF Prune, device

-----------------------------------------------------------------------------
(* Reading, scanning and stopping leave the baselines, or go back to the saved ones. *)
LEMMA LooksExact ==
  ASSUME ExactInv, UNCHANGED <<rows>>,
         \A p \in Path :
           /\ base'[p] \in {base[p], saved[p]} /\ saved'[p] = base'[p]
           /\ ~Deciding(p)' /\ (Reading(p)' /\ (sync'.full \/ p \in sync'.changed) => Exact(p, sync.remote[p])')
  PROVE  ExactInv'
<1> SUFFICES ASSUME NEW p \in Path PROVE ExactPath(p)'
  BY DEF ExactInv
<1>1. Exact(p, base[p]) /\ Whole(base[p]) /\ Exact(p, saved[p]) /\ Whole(saved[p])
  BY DEF ExactInv, ExactPath
<1>2. Exact(p, base[p])' /\ Whole(base'[p]) /\ Exact(p, saved[p])' /\ Whole(saved'[p])
  BY <1>1 DEF Exact, Whole
<1> QED BY <1>2 DEF ExactPath, Whole

(* With no path decided the baselines are those that were saved. *)
LEMMA UndecidedExact ==
  ASSUME ExactInv, NEW p \in Path, ~Deciding(p)
  PROVE  base[p] = saved[p]
BY DEF ExactInv, ExactPath

LEMMA BlankExact ==
  ASSUME TypeOK, ExactInv, Begin \/ ReadManifest \/ Scan \/ EndSync \/ Stop
         \/ (ReadChanges /\ Expired(sync.since)) \/ (ReplayChanges /\ Expired(sync.since))
  PROVE  ExactInv'
<1>1. UNCHANGED rows
  BY DEF Begin, ReadManifest, Scan, EndSync, Stop, ReadChanges, ReplayChanges, server
<1>2. CASE EndSync \/ Stop
  <2>1. sync' = Idle /\ saved' = base' /\ \A p \in Path : base'[p] \in {base[p], saved[p]}
    BY <1>2 DEF EndSync, Stop, Ends
  <2>2. Idle.pc = "idle"
    BY DEF Idle
  <2> QED BY <1>1, <2>1, <2>2, LooksExact DEF Deciding, Reading
<1>3. CASE Begin \/ ReadManifest \/ (ReadChanges /\ Expired(sync.since)) \/ (ReplayChanges /\ Expired(sync.since))
  <2>1. UNCHANGED <<base, saved>>
    BY <1>3 DEF Begin, ReadManifest, ReadChanges, ReplayChanges, Ends, device
  <2>2. sync.pc \in {"idle", "changes", "manifest", "replay"}
    BY <1>3 DEF Begin, ReadManifest, ReadChanges, ReplayChanges
  <2>3. sync'.pc \in {"idle", "changes", "manifest", "replay"}
    <3>1. Idle \in SyncRun /\ Idle.pc = "idle"
      BY NothingTyped DEF Idle
    <3>2. CASE Begin
      BY <3>1, <3>2 DEF Begin, SyncRun
    <3>3. CASE ReadManifest
      <4> DEFINE next == {p \in Path : p > sync.after /\ rows[p] # Gone}
                 page == {p \in next : \A q \in next : p <= q}
                 snapshot == IF sync.after = 0 THEN Last ELSE sync.snapshot
      <4>1. PICK after \in IF next = {} THEN {sync.after} ELSE page :
              sync' = [sync EXCEPT !.snapshot = snapshot, !.since = snapshot, !.after = after,
                !.remote = [p \in Path |-> IF p \in page THEN rows[p] ELSE @[p]],
                !.pc = IF next = page THEN "replay" ELSE @]
        BY <3>3 DEF ReadManifest
      <4> HIDE DEF next, page, snapshot
      <4>2. sync \in SyncRun
        BY DEF TypeOK
      <4> QED BY <2>2, <4>1, <4>2 DEF SyncRun
    <3>4. CASE ReadChanges /\ Expired(sync.since)
      BY <3>1, <3>4 DEF ReadChanges, SyncRun
    <3>5. CASE ReplayChanges /\ Expired(sync.since)
      BY <3>1, <3>5 DEF ReplayChanges, Ends
    <3> QED BY <1>3, <3>2, <3>3, <3>4, <3>5
  <2>4. \A p \in Path : base[p] = saved[p]
    BY <2>2, UndecidedExact DEF Deciding
  <2> QED BY <1>1, <2>1, <2>3, <2>4, LooksExact DEF Deciding, Reading
<1>4. CASE Scan
  <2>1. UNCHANGED <<base, saved>> /\ sync.pc \in {"scan", "manifest", "replay"}
    BY <1>4 DEF Scan, device
  <2>2. /\ sync'.pc = sync.pc /\ sync'.remote = sync.remote /\ sync'.full = sync.full
        /\ sync'.changed = sync.changed /\ sync'.todo = sync.todo
    BY <1>4 DEF Scan, TypeOK, SyncRun
  <2>3. \A p \in Path : base[p] = saved[p]
    BY <2>1, UndecidedExact DEF Deciding
  <2>4. ASSUME NEW p \in Path, Reading(p)', sync'.full \/ p \in sync'.changed PROVE Exact(p, sync.remote[p])'
    <3>1. Exact(p, sync.remote[p])
      BY <2>2, <2>4 DEF Reading, ExactInv, ExactPath
    <3> QED BY <1>1, <2>2, <3>1 DEF Exact
  <2> QED BY <1>1, <2>1, <2>2, <2>3, <2>4, LooksExact DEF Deciding
<1> QED BY <1>2, <1>3, <1>4

(* After the last page what was read is what the server has. *)
LEMMA FollowExact ==
  ASSUME TypeOK, TypeOK', RowsLogged', PlansFromAnInstant', ExactInv,
         Follow("scan"), sync.pc \in {"changes", "replay"},
         UNCHANGED <<rows, base, saved, log>>
  PROVE  ExactInv'
<1>1. sync'.pc \in {sync.pc, "scan"} /\ sync'.last = Last
  BY DEF Follow, TypeOK, SyncRun
<1>2. \A p \in Path : base[p] = saved[p] /\ ~Deciding(p)'
  BY <1>1, UndecidedExact DEF Deciding
<1>3. ASSUME NEW p \in Path, Reading(p)', sync'.full \/ p \in sync'.changed PROVE Exact(p, sync.remote[p])'
  <2>1. sync'.pc = "scan"
    BY <1>1, <1>3 DEF Reading
  <2>2. sync'.remote[p] = RowAt(p, sync.last)' /\ rows'[p] = RowAt(p, Last)'
    BY <1>3, <2>1 DEF PlansFromAnInstant, RowsLogged
  <2>3. Last' = Last
    BY DEF Last
  <2>4. sync'.last = Last'
    BY <1>1, <2>3
  <2>5. RowAt(p, sync.last)' = RowAt(p, Last)'
    BY <2>4 DEF RowAt, LinesOf
  <2> QED BY <2>2, <2>5 DEF Exact
<1> QED BY <1>2, <1>3, LooksExact

-----------------------------------------------------------------------------
(* An upload or a conflict over a file that matches its baseline is not decided. *)

(* A scanned file that is not its baseline is not its baseline now. *)
LEMMA ScannedAway ==
  ASSUME HiddenInv, NEW p \in Path, Unplanned(p), sync.pc # "idle", base[p] = saved[p],
         sync.local[p] # 0, sync.local[p] # base[p].hash
  PROVE  Away(p)
BY DEF HiddenInv, PathShown, Scanned, Away

(* The first decision for a path *)
LEMMA PlannedExact ==
  ASSUME ExactInv, NEW p \in Path, UNCHANGED <<rows, disk, saved>>, base[p] = saved[p],
         NEW d, sync'.plan[p] = d, sync'.job[p] = IF d.act = "none" THEN Done ELSE Todo(0),
         Deciding(p)', ~Reading(p)', Exact(p, base'[p]), Whole(base'[p]),
         d.act # "none" => base'[p] = base[p],
         d.act \in {"upload", "conflict"} => Away(p)
  PROVE  ExactPath(p)'
<1>1. /\ d.act = "none" => sync'.job[p].stage = "done"
      /\ d.act # "none" => sync'.job[p].stage = "todo"
  BY FirstStages
<1>2. Pending(p)'
  BY <1>1 DEF Pending, Away
<1>3. Exact(p, base[p])' /\ Exact(p, saved[p])' /\ Whole(saved[p])
  BY DEF ExactInv, ExactPath, Exact
<1> QED BY <1>2, <1>3 DEF ExactPath, Whole

LEMMA PlanFullExact ==
  ASSUME TypeOK, ExactInv, HiddenInv, PlansFromAnInstant, PlanFull
  PROVE  ExactInv'
<1> DEFINE plan(p) == Decision(sync.local[p], sync.remote[p], base[p])
           agreed(p) == Agreed(sync.local[p], sync.remote[p], base[p])
<1>1. /\ UNCHANGED <<rows, disk, saved>> /\ sync.scanned
      /\ sync.full /\ sync.pc = "scan" /\ base' = [p \in Path |-> agreed(p)]
  BY DEF PlanFull, server, history
<1>2. /\ sync'.pc = "apply"
      /\ sync'.plan = [p \in Path |-> plan(p)]
      /\ sync'.job = [p \in Path |-> IF plan(p).act = "none" THEN Done ELSE Todo(0)]
  BY <1>1 DEF PlanFull, TypeOK, SyncRun
<1>3. ASSUME NEW p \in Path PROVE ExactPath(p)'
  <2> DEFINE d == plan(p)
             a == agreed(p)
             j == IF d.act = "none" THEN Done ELSE Todo(0)
  <2>1. base'[p] = a /\ sync'.plan[p] = d /\ sync'.job[p] = j
    BY <1>1, <1>2
  <2>2. base[p] = saved[p] /\ Exact(p, sync.remote[p]) /\ Whole(sync.remote[p])
    <3>1. ~Deciding(p) /\ Reading(p)
      BY <1>1 DEF Deciding, Reading
    <3> QED BY <1>1, <3>1, RemoteWhole DEF ExactInv, ExactPath
  <2>3. /\ d.act = "none" <=> sync.local[p] = sync.remote[p].hash
        /\ sync.local[p] # sync.remote[p].hash => a = base[p]
    BY DecisionShows
  <2>4. sync.local[p] = sync.remote[p].hash => a = sync.remote[p]
    BY <2>2 DEF Agreed, Whole
  <2>5. Exact(p, a) /\ Whole(a)
    BY <2>2, <2>3, <2>4 DEF ExactInv, ExactPath
  <2>6. d.act \in {"upload", "conflict"} => Away(p)
    <3>1. d.act \in {"upload", "conflict"} => sync.local[p] # 0 /\ sync.local[p] # base[p].hash
      BY DecisionAway
    <3> QED BY <1>1, <2>2, <3>1, ScannedAway DEF Unplanned
  <2>7. Deciding(p)' /\ ~Reading(p)'
    BY <1>2 DEF Deciding, Reading
  <2> HIDE DEF d, a
  <2> QED BY <1>1, <2>1, <2>2, <2>3, <2>5, <2>6, <2>7, PlannedExact
<1> QED BY <1>3 DEF ExactInv

LEMMA PlanIncrementalExact ==
  ASSUME TypeOK, ExactInv, HiddenInv, PlansFromAnInstant, PlanIncremental
  PROVE  ExactInv'
<1> DEFINE plan(p) == IF p \in sync.changed THEN NoPlan ELSE LocalOnly(p)
<1>1. /\ UNCHANGED <<rows, disk, base, saved>>
      /\ ~sync.full /\ sync.pc = "scan" /\ sync.scanned
  BY DEF PlanIncremental, server, device, history
<1>2. /\ sync'.pc = "reconcile" /\ ~sync'.full /\ sync'.todo = sync.changed
      /\ sync'.changed = sync.changed /\ sync'.remote = sync.remote
      /\ sync'.plan = [p \in Path |-> plan(p)]
      /\ sync'.job = [p \in Path |-> IF plan(p).act = "none" THEN Done ELSE Todo(0)]
  BY <1>1 DEF PlanIncremental, TypeOK, SyncRun
<1>3. ASSUME NEW p \in Path PROVE ExactPath(p)'
  <2>1. base[p] = saved[p] /\ ExactPath(p) /\ Reading(p)
    BY <1>1, UndecidedExact DEF Deciding, ExactInv, Reading
  <2>2. CASE p \in sync.changed
    <3>1. ~Deciding(p)'
      BY <1>2, <2>2 DEF Deciding
    <3> QED BY <1>1, <1>2, <2>1, <2>2, <3>1 DEF ExactPath, Exact, Whole
  <2>3. CASE p \notin sync.changed
    <3> DEFINE d == plan(p)
    <3>1. sync'.plan[p] = d /\ sync'.job[p] = IF d.act = "none" THEN Done ELSE Todo(0)
      BY <1>2
    <3>2. d.act # "conflict" /\ (d.act = "upload" => Edited(p))
      BY <2>3 DEF LocalOnly, UploadOver, NoPlan
    <3>3. Edited(p) => Away(p)
      BY <1>1, <2>1, ScannedAway DEF Edited, Unplanned
    <3>4. Deciding(p)' /\ ~Reading(p)'
      BY <1>2, <2>3 DEF Deciding, Reading
    <3>5. Exact(p, base'[p]) /\ Whole(base'[p])
      BY <1>1, <2>1 DEF ExactPath
    <3> HIDE DEF d
    <3> QED BY <1>1, <2>1, <3>1, <3>2, <3>3, <3>4, <3>5, PlannedExact
  <2> QED BY <2>2, <2>3
<1> QED BY <1>3 DEF ExactInv

LEMMA EndReconcileExact ==
  ASSUME TypeOK, ExactInv, EndReconcile
  PROVE  ExactInv'
<1>1. /\ UNCHANGED <<rows, disk, base, saved>> /\ sync.pc = "reconcile" /\ sync.todo = {}
      /\ sync' = [sync EXCEPT !.pc = "apply"]
  BY DEF EndReconcile, server, device, history
<1>2. sync'.pc = "apply" /\ sync'.plan = sync.plan /\ sync'.job = sync.job
  BY <1>1 DEF TypeOK, SyncRun
<1>3. ASSUME NEW p \in Path PROVE ExactPath(p)'
  <2>1. ExactPath(p) /\ Pending(p)
    BY <1>1 DEF ExactInv, ExactPath, Deciding
  <2>2. Pending(p)'
    BY <1>1, <1>2, <2>1 DEF Pending, Away
  <2>3. Deciding(p)' /\ ~Reading(p)'
    BY <1>2 DEF Deciding, Reading
  <2> QED BY <1>1, <2>1, <2>2, <2>3 DEF ExactPath, Exact, Whole
<1> QED BY <1>3 DEF ExactInv

LEMMA ReconcileExact ==
  ASSUME TypeOK, ExactInv, HiddenInv, PlansFromAnInstant, NEW p \in Path, Reconcile(p)
  PROVE  ExactInv'
<1> DEFINE remote == sync.remote[p]
           d == IF remote = Gone THEN Deletion(p) ELSE Change(p)
           j == IF d.act = "none" THEN Done ELSE Todo(0)
<1>1. /\ UNCHANGED <<rows, disk, saved>>
      /\ sync.pc = "reconcile" /\ p \in sync.todo /\ p \in sync.changed
      /\ sync' = [sync EXCEPT !.todo = @ \ {p}, !.plan[p] = d, !.job[p] = j]
      /\ base' = IF remote # Gone /\ ~Missing(p)
                 THEN [base EXCEPT ![p] = Agreed(disk[p], remote, @)] ELSE base
  BY DEF Reconcile, server, history, TypeOK
<1>2. base \in [Path -> Version]
  BY DEF TypeOK
<1>3. /\ sync'.pc = "reconcile" /\ sync'.full = sync.full /\ sync'.changed = sync.changed
      /\ sync'.remote = sync.remote /\ sync'.todo = sync.todo \ {p}
      /\ sync'.plan[p] = d /\ sync'.job[p] = j
      /\ \A q \in Path \ {p} : sync'.plan[q] = sync.plan[q] /\ sync'.job[q] = sync.job[q]
  <2> HIDE DEF d, j
  <2> QED BY <1>1 DEF TypeOK, SyncRun
<1>4. ASSUME NEW q \in Path \ {p} PROVE ExactPath(q)'
  <2>1. base'[q] = base[q] /\ ExactPath(q)
    BY <1>1, <1>2 DEF ExactInv
  <2>2. Deciding(q)' = Deciding(q) /\ Reading(q)' = Reading(q)
    BY <1>1, <1>3 DEF Deciding, Reading
  <2>3. Deciding(q) => Pending(q)'
    BY <1>1, <1>3, <2>1 DEF ExactPath, Pending, Away
  <2> QED BY <1>1, <1>3, <2>1, <2>2, <2>3 DEF ExactPath, Exact, Whole
<1>5. ExactPath(p)'
  <2>1. ~Deciding(p) /\ Reading(p) /\ Unplanned(p)
    BY <1>1 DEF Deciding, Reading, Unplanned
  <2>2. base[p] = saved[p] /\ Exact(p, remote) /\ Whole(remote)
    BY <1>1, <2>1, RemoteWhole DEF ExactInv, ExactPath
  <2>3. Deciding(p)' /\ ~Reading(p)'
    BY <1>3 DEF Deciding, Reading
  <2>4. Edited(p) => Away(p)
    BY <1>1, <2>1, <2>2, ScannedAway DEF Edited
  <2>5. /\ Exact(p, base'[p]) /\ Whole(base'[p])
        /\ d.act # "none" => base'[p] = base[p]
        /\ d.act \in {"upload", "conflict"} => Away(p)
    <3>1. CASE remote = Gone
      <4>1. d = Deletion(p) /\ base' = base
        BY <1>1, <3>1
      <4>2. Deletion(p).act # "conflict" /\ (Deletion(p).act = "upload" => Edited(p))
        BY DEF Deletion, UploadOver, NoPlan
      <4> HIDE DEF d
      <4> QED BY <2>4, <4>1, <4>2 DEF ExactInv, ExactPath
    <3>2. CASE remote # Gone /\ Missing(p)
      <4>1. d = Decision(0, remote, base[p]) /\ base' = base
        BY <1>1, <3>2 DEF Change
      <4>2. d.act \notin {"upload", "conflict"}
        BY <4>1, DecisionAway
      <4> HIDE DEF d
      <4> QED BY <4>1, <4>2 DEF ExactInv, ExactPath
    <3>3. CASE remote # Gone /\ ~Missing(p)
      <4> DEFINE e == Decision(disk[p], remote, base[p])
                 a == Agreed(disk[p], remote, base[p])
      <4>1. d = IF e.act = "delete" THEN [e EXCEPT !.act = "download"] ELSE e
        BY <3>3 DEF Change
      <4>2. base'[p] = a
        BY <1>1, <1>2, <3>3
      <4>3. /\ e.act = "none" <=> disk[p] = remote.hash
            /\ disk[p] # remote.hash => a = base[p]
        BY DecisionShows
      <4>4. disk[p] = remote.hash => a = remote
        BY <2>2 DEF Agreed, Whole
      <4>5. e.act = d.act \/ (e.act = "delete" /\ d.act = "download")
        <5>1. e \in [act : {e.act}, local : {e.local}, remote : {e.remote}, rev : {e.rev}]
          BY DEF Decision
        <5> HIDE DEF e
        <5> QED BY <4>1, <5>1
      <4>6. e.act \in {"upload", "conflict"} => Away(p)
        BY <2>2, DecisionAway DEF Away
      <4> HIDE DEF remote, d, e, a
      <4> QED BY <2>2, <4>2, <4>3, <4>4, <4>5, <4>6 DEF ExactInv, ExactPath
    <3> QED BY <3>1, <3>2, <3>3
  <2> HIDE DEF remote, d, j
  <2> QED BY <1>1, <1>3, <2>2, <2>3, <2>5, PlannedExact DEF j
<1> QED BY <1>4, <1>5 DEF ExactInv

LEMMA ExactInit == Init => ExactInv
<1> SUFFICES ASSUME Init, NEW p \in Path PROVE ExactPath(p)
  BY DEF ExactInv
<1>1. RowsLogged
  BY InstantInit DEF PlanInv
<1>2. PICK synced \in BOOLEAN :
        base = [q \in Path |-> IF synced THEN rows[q] ELSE Gone] /\ saved = base /\ sync = Idle
  BY Zenon DEF Init
<1>3. sync.pc = "idle"
  BY <1>2 DEF Idle
<1>4. base[p] = rows[p] \/ base[p] = Gone
  BY <1>2
<1>5. Exact(p, base[p]) /\ Whole(base[p])
  <2>1. CASE base[p] = Gone
    BY <1>1, <2>1, GoneExact
  <2>2. CASE base[p] = rows[p]
    BY <1>1, <2>2, RowsLive DEF Exact, Whole
  <2> QED BY <1>4, <2>1, <2>2
<1>6. saved[p] = base[p]
  BY <1>2
<1> QED BY <1>3, <1>5, <1>6 DEF ExactPath, Reading, Deciding

LEMMA ExactStep ==
  ASSUME ~Undo, TypeOK, PlanInv, KeptInv, HiddenInv, ExactInv, [Next]_vars
  PROVE  ExactInv'
<1>1. TypeOK' /\ PlanInv' /\ RowsLogged /\ PlansFromAnInstant
  BY TypeStep, InstantStep DEF PlanInv
<1>2. RowsLogged' /\ PlansFromAnInstant'
  BY <1>1 DEF PlanInv
<1>3. ASSUME NEW p \in Path, Write(p) \/ GoBack(p) \/ Remove(p) \/ Foreign(p) PROVE ExactInv'
  BY <1>1, <1>3, UserExact
<1>4. ASSUME NEW p \in Path, Reconcile(p) \/ Applying(p) PROVE ExactInv'
  BY <1>1, <1>4, ReconcileExact, ApplyingExact
<1>5. CASE ReadChanges \/ ReplayChanges
  <2>1. CASE ReadChanges /\ ~Expired(sync.since)
    BY <1>1, <1>2, <2>1, FollowExact DEF ReadChanges, server, device, history
  <2>2. CASE ReplayChanges /\ ~Expired(sync.since)
    BY <1>1, <1>2, <2>2, FollowExact DEF ReplayChanges, server, device, history
  <2> QED BY <1>1, <1>5, <2>1, <2>2, BlankExact
<1>6. CASE Prune \/ Begin \/ ReadManifest \/ Scan \/ EndSync \/ Stop
  BY <1>1, <1>6, PruneExact, BlankExact
<1>7. CASE PlanFull \/ PlanIncremental \/ EndReconcile
  BY <1>1, <1>7, PlanFullExact, PlanIncrementalExact, EndReconcileExact
<1>8. CASE UNCHANGED vars
  <2>1. UNCHANGED <<rows, disk, base, saved, sync>>
    BY <1>8 DEF vars, server, device
  <2> QED BY <2>1 DEF ExactInv, ExactPath, Exact, Whole, Reading, Deciding, Pending, Away
<1> QED BY <1>3, <1>4, <1>5, <1>6, <1>7, <1>8 DEF Next

(***************************************************************************)
(* A sync during which nothing else happened.                              *)
(***************************************************************************)

(* What a decision and its job say of a path that only the sync touches: a done path
   agrees everywhere, a decision made again or by a full sync is one about both sides as
   they are, and the others may at most have a baseline that the server has left. *)
Settling(p) ==
  LET plan == sync.plan[p]
      job == sync.job[p]
      fetching == plan.act \in {"download", "conflict"}
  IN
  /\ job.tries < 2
  /\ job = Done => disk[p] = rows[p].hash /\ base[p] = rows[p]
  /\ fetching /\ job.stage \in {"todo", "held"} =>
       plan.local = disk[p] /\ plan.remote = rows[p].hash /\ rows[p] # Gone
  /\ fetching /\ job.stage \in {"held", "copied", "merged"} =>
       rows[p] = [hash |-> job.content, rev |-> job.rev]
  /\ plan.act = "conflict" => disk[p] # 0 \/ job = Done
  /\ job.stage \in {"copied", "merged"} => job.read = disk[p]
  /\ plan.act = "deleteLocal" /\ job.stage \in {"todo", "held"} =>
       rows[p] = Gone /\ disk[p] \in {0, plan.local}
  /\ plan.act = "upload" /\ job.stage \in {"todo", "held"} =>
       /\ disk[p] # 0
       /\ IF Forced(p) THEN plan.remote = rows[p].hash ELSE disk[p] # base[p].hash
       /\ job.stage = "held" => job.content = disk[p]
  /\ plan.act = "delete" /\ job.stage \in {"todo", "held"} =>
       /\ disk[p] = 0
       /\ Forced(p) => plan.rev # 0 /\ rows[p] = [hash |-> plan.remote, rev |-> plan.rev]

QuietPath(p) ==
  /\ Unplanned(p) => sync.local[p] = disk[p]
  /\ Reading(p) => Current(p)
  /\ Deciding(p) => Settling(p)

QuietInv == sync.pc # "idle" /\ sync.quiet => ~sync.failed /\ \A p \in Path : QuietPath(p)

-----------------------------------------------------------------------------
(* While decisions are applied, every path settles. *)
LEMMA PathSettling ==
  ASSUME QuietInv, NEW p \in Path, sync.pc = "apply", sync.quiet
  PROVE  Settling(p) /\ ~sync.failed
BY DEF QuietInv, QuietPath, Deciding

(* A step on one path keeps all the others. *)
LEMMA AppliesQuiet ==
  ASSUME QuietInv, NEW p \in Path, sync.pc = "apply", UNCHANGED Apart, Elsewhere(p),
         sync.quiet => ~sync'.failed /\ Settling(p)'
  PROVE  QuietInv'
<1>1. sync'.pc = "apply" /\ sync'.quiet = sync.quiet /\ sync'.full = sync.full
  BY DEF Apart
<1> SUFFICES ASSUME sync.quiet PROVE ~sync'.failed /\ \A q \in Path : QuietPath(q)'
  BY <1>1 DEF QuietInv
<1>2. ASSUME NEW q \in Path \ {p} PROVE Settling(q)'
  <2>1. Settling(q)
    BY PathSettling
  <2>2. /\ disk'[q] = disk[q] /\ rows'[q] = rows[q] /\ base'[q] = base[q]
        /\ sync'.plan[q] = sync.plan[q] /\ sync'.job[q] = sync.job[q]
    BY DEF Elsewhere
  <2> QED BY <1>1, <2>1, <2>2 DEF Settling, Forced
<1> QED BY <1>1, <1>2 DEF QuietPath, Unplanned, Reading

(* A done path agrees everywhere. *)
LEMMA DoneSettles ==
  ASSUME NEW p \in Path, sync'.job[p] = Done, disk'[p] = rows'[p].hash, base'[p] = rows'[p]
  PROVE  Settling(p)'
BY DEF Settling, Done

(* Only a path that fails makes the sync fail. *)
LEMMA MovesOn ==
  ASSUME TypeOK, NEW p \in Path, NEW d, NEW j,
         sync' \in {[sync EXCEPT !.job[p] = j], [sync EXCEPT !.plan[p] = d, !.job[p] = j]}
  PROVE  sync'.failed = sync.failed
BY DEF TypeOK, SyncRun

LEMMA SettledQuiet ==
  ASSUME TypeOK, QuietInv, NEW p \in Path, sync.pc = "apply", Finish(p),
         \A q \in Path \ {p} : disk'[q] = disk[q] /\ rows'[q] = rows[q] /\ base'[q] = base[q],
         sync.quiet => disk'[p] = rows'[p].hash /\ base'[p] = rows'[p]
  PROVE  QuietInv'
<1>1. UNCHANGED Apart /\ sync'.plan = sync.plan /\ sync'.job[p] = Done
      /\ \A q \in Path \ {p} : sync'.job[q] = sync.job[q]
  BY Ended
<1>2. sync'.failed = sync.failed
  BY MovesOn DEF Finish, Move
<1>3. Elsewhere(p)
  BY <1>1 DEF Elsewhere
<1>4. sync.quiet => ~sync'.failed /\ Settling(p)'
  BY <1>1, <1>2, DoneSettles, PathSettling
<1> QED BY <1>1, <1>3, <1>4, AppliesQuiet

LEMMA MovedQuiet ==
  ASSUME TypeOK, QuietInv, NEW p \in Path, sync.pc = "apply", NEW j \in Job, Move(p, j),
         UNCHANGED <<disk, base>>, \A q \in Path \ {p} : rows'[q] = rows[q],
         sync.quiet => Settling(p)'
  PROVE  QuietInv'
<1>1. /\ UNCHANGED Apart /\ sync'.plan = sync.plan /\ sync'.job[p] = j
      /\ \A q \in Path \ {p} : sync'.job[q] = sync.job[q]
  BY MovedTo
<1>2. sync'.failed = sync.failed
  BY MovesOn DEF Move
<1>3. Elsewhere(p)
  BY <1>1 DEF Elsewhere
<1> QED BY <1>1, <1>2, <1>3, PathSettling, AppliesQuiet

(* A step that cannot happen to a quiet sync *)
LEMMA NeverQuiet ==
  ASSUME QuietInv, UNCHANGED Apart, sync.pc = "apply", ~sync.quiet
  PROVE  QuietInv'
BY DEF QuietInv, Apart

(* A decision about both sides as they are settles the path. *)
LEMMA DecidedSettles ==
  ASSUME TypeOK, RowsLogged, NEW p \in Path, NEW t \in {0, 1}, NEW d,
         LET e == Decision(disk[p], rows[p], base[p]) IN
           d = e \/ (e.act = "delete" /\ d = [e EXCEPT !.act = "download"]),
         sync'.plan[p] = d, sync'.job[p] = IF d.act = "none" THEN Done ELSE Todo(t),
         base'[p] = Agreed(disk[p], rows[p], base[p]),
         disk'[p] = disk[p], rows'[p] = rows[p]
  PROVE  Settling(p)'
<1> DEFINE l == disk[p]
           r == rows[p]
           b == base[p]
           e == Decision(l, r, b)
<1>1. l \in Content /\ r \in Version /\ b \in Version /\ (r.hash = 0 => r = Gone)
  BY PathTyped, RowsLive
<1>2. r = [hash |-> r.hash, rev |-> r.rev] /\ Gone.hash = 0
  BY <1>1 DEF Version, Gone
<1>3. /\ e.local = l /\ e.remote = r.hash /\ e.rev = r.rev
      /\ e.act = "none" <=> l = r.hash
      /\ e.act \in {"download", "conflict"} => r.hash # 0
      /\ e.act = "conflict" => l # 0
      /\ e.act = "deleteLocal" => r.hash = 0
      /\ e.act = "upload" => l # 0 /\ l # b.hash
      /\ e.act = "delete" => l = 0 /\ r.hash # 0 /\ b.rev # 0 /\ r.rev = b.rev
      /\ e \in [act : {e.act}, local : {e.local}, remote : {e.remote}, rev : {e.rev}]
  BY DEF Decision
<1>4. /\ l = r.hash => Agreed(l, r, b) = r
      /\ l # r.hash => Agreed(l, r, b) = b
  BY <1>1 DEF Agreed
<1>5. /\ d.local = l /\ d.remote = r.hash /\ d.rev = r.rev
      /\ d.act = e.act \/ (e.act = "delete" /\ d.act = "download")
  <2> HIDE DEF e
  <2>1. d = e \/ (e.act = "delete" /\ d = [e EXCEPT !.act = "download"])
    BY DEF e
  <2> QED BY <1>3, <2>1
<1> HIDE DEF e
<1>6. CASE d.act = "none"
  <2>1. base'[p] = r /\ l = r.hash
    BY <1>3, <1>4, <1>5, <1>6
  <2> QED BY <1>6, <2>1, DoneSettles
<1>7. CASE d.act # "none"
  <2>1. base'[p] = b
    BY <1>3, <1>4, <1>5, <1>7
  <2>2. sync'.job[p] = Todo(t) /\ Todo(t).stage = "todo" /\ Todo(t).tries = t /\ Todo(t) # Done /\ t < 2
    BY <1>7, FirstStages
  <2> HIDE DEF l, r, b
  <2>3. disk'[p] = l /\ rows'[p] = r
    BY DEF l, r
  <2> QED BY <1>1, <1>2, <1>3, <1>5, <1>7, <2>1, <2>2, <2>3 DEF Settling
<1> QED BY <1>6, <1>7

(* The first time that a decision is made again, it is the last. *)
LEMMA AgainQuiet ==
  ASSUME TypeOK, RowsLogged, QuietInv, NEW p \in Path, Loses(p) \/ Again(p), sync.pc = "apply",
         UNCHANGED <<rows, disk>>, sync.quiet => Again(p) /\ sync.job[p].tries = 0
  PROVE  QuietInv'
<1>1. base[p] \in Version /\ base \in [Path -> Version] /\ disk[p] \in Content /\ rows[p] \in Version
  BY PathTyped DEF TypeOK
<1>2. CASE ~sync.quiet
  <2>1. UNCHANGED Apart
    BY <1>1, LosesTyped DEF Loses, Again
  <2> QED BY <1>2, <2>1, NeverQuiet
<1>3. CASE sync.quiet
  <2> DEFINE d == Decision(disk[p], rows[p], base[p])
             agreed == Agreed(disk[p], rows[p], base[p])
             j == IF d.act = "none" THEN Done ELSE Todo(1)
  <2>1. sync.job[p].tries + 1 = 1 /\ ~(1 > MaxTries) /\ 1 \in 0..MaxTries
    BY <1>3, Bounds
  <2>2. base' = [base EXCEPT ![p] = agreed] /\ sync' = [sync EXCEPT !.plan[p] = d, !.job[p] = j]
    BY <1>3, <2>1 DEF Again, AgainFrom, SetBase
  <2>3. d \in Plan /\ agreed \in Version /\ j \in Job
    BY <1>1, <2>1, DecisionTyped, NothingTyped
  <2>4. base'[p] = agreed /\ \A q \in Path \ {p} : base'[q] = base[q]
    BY <1>1, <2>2
  <2> HIDE DEF d, agreed, j
  <2>5. /\ UNCHANGED Apart /\ sync'.plan[p] = d /\ sync'.job[p] = j
        /\ \A q \in Path \ {p} : sync'.plan[q] = sync.plan[q] /\ sync'.job[q] = sync.job[q]
    BY <2>2, <2>3, Replanned
  <2>6. sync'.failed = sync.failed
    BY <2>2, MovesOn
  <2>7. Settling(p)'
    BY <2>4, <2>5, DecidedSettles DEF d, agreed, j
  <2>8. Elsewhere(p)
    BY <2>4, <2>5 DEF Elsewhere
  <2> QED BY <2>5, <2>6, <2>7, <2>8, PathSettling, AppliesQuiet
<1> QED BY <1>2, <1>3

(* The steps of a decision *)
LEMMA FetchQuiet ==
  ASSUME TypeOK, RowsLogged, QuietInv, NEW p \in Path, Fetch(p)
  PROVE  QuietInv'
<1>1. /\ sync.pc = "apply" /\ sync.job[p].stage = "todo" /\ UNCHANGED <<rows, disk>>
      /\ sync.plan[p].act \in {"download", "conflict"}
  BY DEF Fetch, At, server
<1>2. sync.quiet => Settling(p) /\ rows[p].hash = sync.plan[p].remote /\ rows[p] # Gone
  BY <1>1, PathSettling DEF Settling
<1>3. CASE Loses(p) /\ ~(rows[p].hash = sync.plan[p].remote /\ rows[p] # Gone)
  BY <1>1, <1>2, <1>3, AgainQuiet
<1> DEFINE j == [sync.job[p] EXCEPT !.stage = "held", !.content = rows[p].hash, !.rev = rows[p].rev]
<1>4. CASE Move(p, j) /\ UNCHANGED base
  <2>1. /\ j \in Job /\ j.stage = "held" /\ j.content = rows[p].hash /\ j.rev = rows[p].rev
        /\ j.tries = sync.job[p].tries /\ j # Done
    BY FirstStages, PathTyped DEF Job
  <2>2. rows[p] = [hash |-> rows[p].hash, rev |-> rows[p].rev]
    BY PathTyped DEF Version
  <2> HIDE DEF j
  <2>3. sync'.plan = sync.plan /\ sync'.job[p] = j
    BY <1>4, <2>1, MovedTo
  <2>4. sync.job[p] # Done
    BY <1>1, FirstStages
  <2>5. sync.quiet => Settling(p)'
    BY <1>1, <1>2, <1>4, <2>1, <2>2, <2>3, <2>4 DEF Settling
  <2> QED BY <1>1, <1>4, <2>1, <2>5, MovedQuiet
<1> QED BY <1>3, <1>4 DEF Fetch

(* What is written is what the server has. *)
LEMMA AppliedQuiet ==
  ASSUME TypeOK, QuietInv, NEW p \in Path, sync.pc = "apply", Applied(p), UNCHANGED rows,
         sync.plan[p].act \in {"download", "conflict"},
         sync.job[p].stage \in {"held", "copied", "merged"}
  PROVE  QuietInv'
<1> DEFINE c == sync.job[p].content
           v == [hash |-> sync.job[p].content, rev |-> sync.job[p].rev]
<1>1. disk' = [disk EXCEPT ![p] = c] /\ base' = [base EXCEPT ![p] = v] /\ Finish(p) /\ v.hash = c
  BY DEF Applied, SetBase
<1>2. sync.quiet => rows[p] = v
  BY PathSettling DEF Settling
<1> HIDE DEF c, v
<1>3. disk'[p] = c /\ base'[p] = v /\ \A q \in Path \ {p} : disk'[q] = disk[q] /\ base'[q] = base[q]
  BY <1>1 DEF TypeOK
<1> QED BY <1>1, <1>2, <1>3, SettledQuiet

(* A quiet sync writes over what it decided on. *)
LEMMA DownloadQuiet ==
  ASSUME TypeOK, RowsLogged, QuietInv, NEW p \in Path,
         Download(p) \/ NothingToResolve(p) \/ ApplyMerge(p) \/ ApplyRemote(p)
  PROVE  QuietInv'
<1>1. /\ sync.pc = "apply" /\ UNCHANGED rows /\ sync.plan[p].act \in {"download", "conflict"}
      /\ sync.job[p].stage \in {"held", "copied", "merged"}
  BY DEF Download, NothingToResolve, ApplyMerge, ApplyRemote, At, server
<1>2. CASE Applied(p)
  BY <1>1, <1>2, AppliedQuiet
<1>3. CASE ~Applied(p)
  <2>1. sync.job[p] # Done
    BY <1>1, FirstStages
  <2>2. sync.quiet => Settling(p)
    BY <1>1, PathSettling
  <2>3. ~sync.quiet
    BY <1>1, <1>3, <2>1, <2>2 DEF Download, NothingToResolve, ApplyMerge, ApplyRemote, At, Settling
  <2> DEFINE b == [hash |-> sync.job[p].read, rev |-> 0]
  <2>4. Loses(p) \/ LosesFrom(p, b)
    BY <1>3 DEF Download, NothingToResolve, ApplyMerge, ApplyRemote
  <2>5. b \in Version /\ base[p] \in Version
    BY PathTyped, Bounds DEF Version
  <2> HIDE DEF b
  <2>6. UNCHANGED Apart
    BY <2>4, <2>5, LosesTyped DEF Loses
  <2> QED BY <1>1, <2>3, <2>6, NeverQuiet
<1> QED BY <1>2, <1>3

LEMMA CopyLocalQuiet ==
  ASSUME TypeOK, QuietInv, NEW p \in Path, CopyLocal(p)
  PROVE  QuietInv'
<1> DEFINE j == [sync.job[p] EXCEPT !.stage = "copied", !.read = disk[p], !.copies = @ + 1]
<1>1. /\ sync.pc = "apply" /\ sync.job[p].stage \in {"held", "copied"} /\ UNCHANGED <<rows, disk, base>>
      /\ sync.plan[p].act = "conflict" /\ disk[p] # 0 /\ Move(p, j)
  BY DEF CopyLocal, At, server
<1>2. j \in Job
  <2>1. sync.job[p].stage = "held" => sync.job[p].copies = 0
    BY PathTyped DEF Counted
  <2>2. sync.job[p].copies + 1 \in 0..MaxCopies
    BY <1>1, <2>1, PathTyped, Bounds DEF CopyLocal, At
  <2> QED BY <2>2, PathTyped DEF Job
<1>3. /\ j.stage = "copied" /\ j.content = sync.job[p].content /\ j.rev = sync.job[p].rev
      /\ j.read = disk[p] /\ j.tries = sync.job[p].tries /\ j # Done
  BY FirstStages, PathTyped DEF Job
<1> HIDE DEF j
<1>4. sync'.plan = sync.plan /\ sync'.job[p] = j
  BY <1>1, <1>2, MovedTo
<1>5. sync.quiet => Settling(p)'
  <2> SUFFICES ASSUME sync.quiet PROVE Settling(p)'
    OBVIOUS
  <2>1. Settling(p)
    BY <1>1, PathSettling
  <2>2. rows[p] = [hash |-> sync.job[p].content, rev |-> sync.job[p].rev] /\ sync.job[p].tries < 2
    BY <1>1, <2>1 DEF Settling
  <2>3. /\ disk'[p] = disk[p] /\ rows'[p] = rows[p] /\ sync'.plan[p] = sync.plan[p]
    BY <1>1, <1>4
  <2> QED BY <1>1, <1>3, <1>4, <2>2, <2>3 DEF Settling
<1> QED BY <1>1, <1>2, <1>5, MovedQuiet

LEMMA HashLocalQuiet ==
  ASSUME TypeOK, QuietInv, NEW p \in Path, HashLocal(p)
  PROVE  QuietInv'
<1>1. /\ sync.pc = "apply" /\ sync.plan[p].act = "deleteLocal" /\ sync.job[p].stage = "todo"
      /\ UNCHANGED <<rows, disk>>
  BY DEF HashLocal, At, server
<1>2. sync.quiet => Settling(p) /\ rows[p] = Gone /\ disk[p] \in {0, sync.plan[p].local}
  BY <1>1, PathSettling DEF Settling
<1>3. CASE disk[p] = 0 /\ Finish(p) /\ SetBase(p, Gone)
  <2>1. base'[p] = Gone /\ (\A q \in Path \ {p} : base'[q] = base[q]) /\ Gone.hash = 0
    BY <1>3 DEF SetBase, TypeOK, Gone
  <2> QED BY <1>1, <1>2, <1>3, <2>1, SettledQuiet
<1>4. CASE disk[p] \notin {0, sync.plan[p].local} /\ UNCHANGED base
           /\ sync' = [sync EXCEPT !.plan[p] = UploadOver(0)]
  <2>1. UNCHANGED Apart
    BY <1>4 DEF TypeOK, SyncRun, Apart
  <2> QED BY <1>1, <1>2, <1>4, <2>1, NeverQuiet
<1>5. CASE Move(p, [sync.job[p] EXCEPT !.stage = "held"]) /\ UNCHANGED base
  <2> DEFINE j == [sync.job[p] EXCEPT !.stage = "held"]
  <2>1. j \in Job /\ j.stage = "held" /\ j.tries = sync.job[p].tries /\ Move(p, j) /\ j # Done
    BY <1>5, FirstStages, PathTyped DEF Job
  <2> HIDE DEF j
  <2>2. sync'.plan = sync.plan /\ sync'.job[p] = j
    BY <2>1, MovedTo
  <2>3. sync.quiet => Settling(p)'
    BY <1>1, <1>2, <2>1, <2>2 DEF Settling
  <2> QED BY <1>1, <1>5, <2>1, <2>3, MovedQuiet
<1> QED BY <1>3, <1>4, <1>5 DEF HashLocal

LEMMA TrashLocalQuiet ==
  ASSUME TypeOK, QuietInv, NEW p \in Path, TrashLocal(p)
  PROVE  QuietInv'
<1>1. /\ sync.pc = "apply" /\ sync.plan[p].act = "deleteLocal" /\ sync.job[p].stage = "held"
      /\ UNCHANGED rows
  BY DEF TrashLocal, At, server
<1>2. sync.quiet => rows[p] = Gone /\ disk[p] \in {0, sync.plan[p].local}
  BY <1>1, PathSettling DEF Settling
<1>3. CASE disk' = [disk EXCEPT ![p] = 0] /\ SetBase(p, Gone) /\ Finish(p)
  <2>1. /\ base'[p] = Gone /\ disk'[p] = 0 /\ Gone.hash = 0
        /\ \A q \in Path \ {p} : base'[q] = base[q] /\ disk'[q] = disk[q]
    BY <1>3 DEF SetBase, TypeOK, Gone
  <2> QED BY <1>1, <1>2, <1>3, <2>1, SettledQuiet
<1>4. CASE disk[p] \notin {0, sync.plan[p].local} /\ Fail(p)
  <2>1. UNCHANGED Apart
    BY <1>4, Ended
  <2> QED BY <1>1, <1>2, <1>4, <2>1, NeverQuiet
<1> QED BY <1>3, <1>4 DEF TrashLocal

LEMMA PrepareQuiet ==
  ASSUME TypeOK, RowsLogged, QuietInv, NEW p \in Path, Prepare(p)
  PROVE  QuietInv'
<1>1. /\ sync.pc = "apply" /\ sync.plan[p].act = "upload" /\ sync.job[p].stage = "todo"
      /\ UNCHANGED <<rows, disk>>
  BY DEF Prepare, At, server
<1>2. sync.quiet => Settling(p) /\ disk[p] # 0 /\ (~Forced(p) => disk[p] # base[p].hash)
  BY <1>1, PathSettling DEF Settling
<1>3. CASE disk[p] = 0 /\ Loses(p)
  BY <1>1, <1>2, <1>3, AgainQuiet
<1>4. CASE disk[p] \in {0, base[p].hash} /\ ~Forced(p) /\ Finish(p)
  <2>1. UNCHANGED Apart
    BY <1>4, Ended
  <2> QED BY <1>1, <1>2, <1>4, <2>1, NeverQuiet
<1>5. CASE Move(p, [sync.job[p] EXCEPT !.stage = "held", !.content = disk[p]]) /\ UNCHANGED base
  <2> DEFINE j == [sync.job[p] EXCEPT !.stage = "held", !.content = disk[p]]
  <2>1. /\ j \in Job /\ j.stage = "held" /\ j.content = disk[p] /\ j.tries = sync.job[p].tries
        /\ Move(p, j) /\ j # Done
    BY <1>5, FirstStages, PathTyped DEF Job
  <2> HIDE DEF j
  <2>2. sync'.plan = sync.plan /\ sync'.job[p] = j /\ sync'.full = sync.full
    BY <2>1, MovedTo DEF Apart
  <2>3. Forced(p)' = Forced(p)
    BY <2>1, <2>2 DEF Forced
  <2>4. sync.quiet => Settling(p)'
    BY <1>1, <1>2, <1>5, <2>1, <2>2, <2>3 DEF Settling
  <2> QED BY <1>1, <1>5, <2>1, <2>4, MovedQuiet
<1> QED BY <1>3, <1>4, <1>5 DEF Prepare

(* An upload is refused only over a baseline that the server has left. *)
LEMMA SendUploadQuiet ==
  ASSUME TypeOK, RowsLogged, QuietInv, NEW p \in Path, SendUpload(p)
  PROVE  QuietInv'
<1>1. /\ sync.pc = "apply" /\ UNCHANGED disk
      /\ sync.plan[p].act = "upload" /\ sync.job[p].stage = "held"
  BY DEF SendUpload, At
<1>2. sync.quiet => /\ disk[p] # 0 /\ sync.job[p].content = disk[p] /\ sync.job[p].tries < 2
                    /\ Forced(p) => sync.plan[p].remote = rows[p].hash
  BY <1>1, PathSettling DEF Settling
<1>3. CASE /\ IF sync.plan[p].local = 0 /\ Forced(p) THEN Loses(p) ELSE Again(p)
           /\ UNCHANGED server /\ rows[p].hash # sync.plan[p].remote
  <2>1. sync.quiet => Again(p) /\ sync.job[p].tries = 0
    BY <1>2, <1>3, PathTyped, Bounds DEF Forced, Job
  <2> QED BY <1>1, <1>3, <2>1, AgainQuiet DEF server
<1>4. CASE /\ Publish(p, sync.job[p].content)
           /\ SetBase(p, [hash |-> sync.job[p].content, rev |-> Last + 1]) /\ Finish(p)
  <2> DEFINE hash == sync.job[p].content
             v == [hash |-> sync.job[p].content, rev |-> Last + 1]
  <2>1. hash \in Content /\ Publish(p, hash) /\ base' = [base EXCEPT ![p] = v] /\ v.hash = hash
    BY <1>4, PathTyped DEF SetBase
  <2>2. sync.quiet => rows'[p] = v
    BY <1>2, <2>1 DEF Publish, TypeOK
  <2> HIDE DEF hash, v
  <2>3. /\ base'[p] = v
        /\ \A q \in Path \ {p} : rows'[q] = rows[q] /\ base'[q] = base[q]
    BY <2>1, Publishes DEF TypeOK
  <2>4. sync.quiet => disk'[p] = hash
    BY <1>1, <1>2 DEF hash
  <2> QED BY <1>1, <1>4, <2>1, <2>2, <2>3, <2>4, SettledQuiet
<1> QED BY <1>3, <1>4 DEF SendUpload

LEMMA CheckAbsentQuiet ==
  ASSUME TypeOK, RowsLogged, QuietInv, NEW p \in Path, CheckAbsent(p)
  PROVE  QuietInv'
<1>1. /\ sync.pc = "apply" /\ sync.plan[p].act = "delete" /\ sync.job[p].stage = "todo"
      /\ UNCHANGED <<rows, disk>>
  BY DEF CheckAbsent, At, server
<1>2. sync.quiet => /\ Settling(p) /\ ~sync.failed /\ disk[p] = 0 /\ sync.job[p].tries < 2
                    /\ Forced(p) => sync.plan[p].rev # 0
  BY <1>1, PathSettling DEF Settling
<1>3. CASE sync.failed /\ Fail(p)
  <2>1. UNCHANGED Apart
    BY <1>3, Ended
  <2> QED BY <1>1, <1>2, <1>3, <2>1, NeverQuiet
<1>4. CASE Overtaken(p) /\ (disk[p] # 0 \/ sync.plan[p].rev = 0)
  <2>1. sync.quiet => Again(p) /\ sync.job[p].tries = 0
    BY <1>2, <1>4, PathTyped, Bounds DEF Overtaken, Forced, Job
  <2> QED BY <1>1, <1>4, <2>1, AgainQuiet DEF Overtaken
<1>5. CASE Move(p, [sync.job[p] EXCEPT !.stage = "held"]) /\ UNCHANGED base
  <2> DEFINE j == [sync.job[p] EXCEPT !.stage = "held"]
  <2>1. j \in Job /\ j.stage = "held" /\ j.tries = sync.job[p].tries /\ Move(p, j) /\ j # Done
    BY <1>5, FirstStages, PathTyped DEF Job
  <2> HIDE DEF j
  <2>2. sync'.plan = sync.plan /\ sync'.job[p] = j /\ sync'.full = sync.full
    BY <2>1, MovedTo DEF Apart
  <2>3. Forced(p)' = Forced(p)
    BY <2>1, <2>2 DEF Forced
  <2>4. sync.quiet => Settling(p)'
    BY <1>1, <1>2, <1>5, <2>1, <2>2, <2>3 DEF Settling
  <2> QED BY <1>1, <1>5, <2>1, <2>4, MovedQuiet
<1> QED BY <1>3, <1>4, <1>5 DEF CheckAbsent

LEMMA SendDeleteQuiet ==
  ASSUME TypeOK, RowsLogged, QuietInv, NEW p \in Path, SendDelete(p)
  PROVE  QuietInv'
<1>1. /\ sync.pc = "apply" /\ UNCHANGED disk /\ sync.plan[p].act = "delete" /\ sync.job[p].stage = "held"
  BY DEF SendDelete, At
<1>2. sync.quiet =>
        /\ disk[p] = 0 /\ sync.job[p].tries < 2
        /\ Forced(p) => rows[p] = [hash |-> sync.plan[p].remote, rev |-> sync.plan[p].rev]
  BY <1>1, PathSettling DEF Settling
<1>3. Gone.hash = 0 /\ 0 \in Content
  BY MadeTyped DEF Gone
<1>4. CASE Publish(p, 0) /\ SetBase(p, Gone) /\ Finish(p)
  <2>1. base'[p] = Gone /\ rows'[p] = Gone
    BY <1>4 DEF SetBase, TypeOK, Publish
  <2>2. \A q \in Path \ {p} : base'[q] = base[q] /\ rows'[q] = rows[q]
    BY <1>3, <1>4, Publishes DEF SetBase, TypeOK
  <2> QED BY <1>1, <1>2, <1>3, <1>4, <2>1, <2>2, SettledQuiet
<1>5. CASE rows[p] = Gone /\ SetBase(p, Gone) /\ Finish(p) /\ UNCHANGED server
  <2>1. base'[p] = Gone /\ \A q \in Path \ {p} : base'[q] = base[q]
    BY <1>5 DEF SetBase, TypeOK
  <2> QED BY <1>1, <1>2, <1>3, <1>5, <2>1, SettledQuiet DEF server
<1>6. CASE rows[p] \notin {Gone, [hash |-> sync.plan[p].remote, rev |-> sync.plan[p].rev]}
           /\ Overtaken(p) /\ UNCHANGED server
  <2>1. sync.quiet => Again(p) /\ sync.job[p].tries = 0
    BY <1>2, <1>6, PathTyped, Bounds DEF Overtaken, Forced, Job
  <2> QED BY <1>1, <1>6, <2>1, AgainQuiet DEF Overtaken, server
<1> QED BY <1>4, <1>5, <1>6 DEF SendDelete

(* A merge replaces the version that it merged. *)
LEMMA SendMergeQuiet ==
  ASSUME TypeOK, KeptInv, RowsLogged, QuietInv, NEW p \in Path, SendMerge(p)
  PROVE  QuietInv'
<1>1. /\ sync.pc = "apply" /\ UNCHANGED <<disk, copies, dropped>> /\ disk[p] # 0
      /\ sync.plan[p].act = "conflict" /\ sync.job[p].stage = "held"
  BY DEF SendMerge, At
<1>2. sync.quiet => rows[p].hash = sync.plan[p].remote /\ sync.job[p].tries < 2
  BY <1>1, PathSettling DEF Settling
<1>3. CASE Loses(p) /\ UNCHANGED server /\ rows[p].hash # sync.plan[p].remote
  BY <1>1, <1>2, <1>3, AgainQuiet DEF server
<1>4. CASE /\ Make({disk[p], sync.job[p].content}) /\ Publish(p, made')
           /\ Move(p, [sync.job[p] EXCEPT !.stage = "merged", !.content = made',
                                         !.rev = Last + 1, !.read = disk[p]])
           /\ UNCHANGED base
  <2>1. disk[p] \in Known /\ sync.job[p].content \in Known
    BY PathKnown DEF ValuesKnown
  <2> DEFINE from == {disk[p], sync.job[p].content}
  <2>2. from \in SUBSET Known /\ Make(from)
    BY <1>4, <2>1
  <2> HIDE DEF from
  <2>3. made' \in Content /\ made' = made + 1 /\ made \in Nat
    BY <1>1, <2>2, MakeKept
  <2>4. PICK hash : hash = made'
    OBVIOUS
  <2>5. hash \in Content /\ Publish(p, hash) /\ hash # 0
    BY <1>4, <2>3, <2>4
  <2> DEFINE j == [sync.job[p] EXCEPT !.stage = "merged", !.content = hash,
                                     !.rev = Last + 1, !.read = disk[p]]
  <2>6. /\ j \in Job /\ j.stage = "merged" /\ j.content = hash /\ j.tries = sync.job[p].tries
        /\ j.rev = Last + 1 /\ j.read = disk[p] /\ j # Done
    <3>1. Last + 1 \in 0..MaxSeq
      BY <1>4, CursorsTyped, Bounds DEF Publish
    <3> QED BY <2>5, <3>1, FirstStages, PathTyped DEF Job
  <2>7. Move(p, j)
    BY <1>4, <2>4
  <2> HIDE DEF j
  <2>8. sync'.plan = sync.plan /\ sync'.job[p] = j
    BY <2>6, <2>7, MovedTo
  <2>9. rows'[p] = [hash |-> hash, rev |-> Last + 1] /\ \A q \in Path \ {p} : rows'[q] = rows[q]
    BY <2>5, Publishes DEF Publish, TypeOK
  <2>10. sync.quiet => Settling(p)'
    BY <1>1, <1>2, <2>6, <2>8, <2>9 DEF Settling
  <2> QED BY <1>1, <1>4, <2>6, <2>7, <2>9, <2>10, MovedQuiet
<1> QED BY <1>3, <1>4 DEF SendMerge

LEMMA ApplyingQuiet ==
  ASSUME TypeOK, KeptInv, RowsLogged, QuietInv, NEW p \in Path, Applying(p)
  PROVE  QuietInv'
BY FetchQuiet, DownloadQuiet, SendMergeQuiet, CopyLocalQuiet, HashLocalQuiet, TrashLocalQuiet,
   PrepareQuiet, SendUploadQuiet, CheckAbsentQuiet, SendDeleteQuiet DEF Applying

-----------------------------------------------------------------------------
(* What happens beside a sync makes it no quiet one, and without a sync there is none. *)
LEMMA BesideQuiet ==
  ASSUME TypeOK, QuietInv, Disturbs \/ sync' = Idle
  PROVE  QuietInv'
BY DEF QuietInv, Disturbs, TypeOK, SyncRun, Idle

(* Reading and scanning: no path is decided. *)
LEMMA LooksQuiet ==
  ASSUME QuietInv, sync.pc # "idle", sync'.quiet => sync.quiet /\ sync'.failed = sync.failed,
         sync'.pc \in {"changes", "manifest", "replay", "scan"},
         \A p \in Path : /\ sync'.scanned => sync'.local[p] = disk'[p]
                         /\ sync'.pc = "scan" => Current(p)'
  PROVE  QuietInv'
BY DEF QuietInv, QuietPath, Unplanned, Reading, Deciding

LEMMA BeginQuiet ==
  ASSUME TypeOK, QuietInv, Begin \/ (ReadChanges /\ Expired(sync.since))
  PROVE  QuietInv'
<1>1. sync'.pc \in {"changes", "manifest"} /\ ~sync'.scanned /\ ~sync'.failed
  BY NothingTyped DEF Begin, ReadChanges, SyncRun, Idle
<1> QED BY <1>1 DEF QuietInv, QuietPath, Unplanned, Reading, Deciding

LEMMA ReadManifestQuiet ==
  ASSUME TypeOK, QuietInv, ReadManifest
  PROVE  QuietInv'
<1> DEFINE next == {p \in Path : p > sync.after /\ rows[p] # Gone}
           page == {p \in next : \A q \in next : p <= q}
           snapshot == IF sync.after = 0 THEN Last ELSE sync.snapshot
<1>1. PICK after \in IF next = {} THEN {sync.after} ELSE page :
        sync' = [sync EXCEPT !.snapshot = snapshot, !.since = snapshot, !.after = after,
          !.remote = [p \in Path |-> IF p \in page THEN rows[p] ELSE @[p]],
          !.pc = IF next = page THEN "replay" ELSE @]
  BY DEF ReadManifest
<1>2. sync.pc = "manifest" /\ UNCHANGED disk
  BY DEF ReadManifest, device
<1> HIDE DEF next, page, snapshot
<1>3. sync \in SyncRun
  BY DEF TypeOK
<1>4. /\ sync'.pc \in {"manifest", "replay"} /\ sync'.failed = sync.failed /\ sync'.quiet = sync.quiet
      /\ sync'.scanned = sync.scanned /\ sync'.local = sync.local
  BY <1>1, <1>2, <1>3 DEF SyncRun
<1>5. sync.quiet /\ sync.scanned => \A p \in Path : sync.local[p] = disk[p]
  BY <1>2 DEF QuietInv, QuietPath, Unplanned
<1>6. CASE sync.quiet
  BY <1>2, <1>4, <1>5, <1>6, LooksQuiet
<1>7. CASE ~sync.quiet
  BY <1>4, <1>7 DEF QuietInv
<1> QED BY <1>6, <1>7

(* After the last page no line is left. *)
LEMMA FollowQuiet ==
  ASSUME TypeOK, QuietInv, Follow("scan"), sync.pc \in {"changes", "replay"}, UNCHANGED <<disk, log>>
  PROVE  QuietInv'
<1>1. /\ sync'.pc \in {sync.pc, "scan"} /\ sync'.last = Last /\ Last' = Last
      /\ sync'.failed = sync.failed /\ sync'.quiet = sync.quiet
      /\ sync'.scanned = sync.scanned /\ sync'.local = sync.local
  BY DEF Follow, TypeOK, SyncRun, Last
<1>2. Last \in Nat
  BY CursorsTyped
<1>3. \A p \in Path : Current(p)'
  BY <1>1, <1>2 DEF Current, LinesOf
<1>4. CASE ~sync.quiet
  BY <1>1, <1>4 DEF QuietInv
<1>5. CASE sync.quiet
  <2>1. sync.scanned => \A p \in Path : sync.local[p] = disk[p]
    BY <1>5 DEF QuietInv, QuietPath, Unplanned
  <2> QED BY <1>1, <1>3, <1>5, <2>1, LooksQuiet
<1> QED BY <1>4, <1>5

LEMMA ScanQuiet ==
  ASSUME TypeOK, QuietInv, Scan
  PROVE  QuietInv'
<1>1. sync.pc \in {"scan", "manifest", "replay"} /\ UNCHANGED <<disk, log>>
  BY DEF Scan, device, server
<1>2. /\ sync'.pc = sync.pc /\ sync'.failed = sync.failed /\ sync'.quiet = sync.quiet
      /\ sync'.last = sync.last /\ sync'.local = disk
  BY DEF Scan, TypeOK, SyncRun
<1>3. Last' = Last
  BY <1>1 DEF Last
<1>4. CASE ~sync.quiet
  BY <1>2, <1>4 DEF QuietInv
<1>5. CASE sync.quiet
  <2>1. ASSUME NEW p \in Path, sync.pc = "scan" PROVE Current(p)'
    <3>1. Current(p)
      BY <1>5, <2>1 DEF QuietInv, QuietPath, Reading
    <3> QED BY <1>1, <1>2, <1>3, <3>1 DEF Current, LinesOf
  <2> QED BY <1>1, <1>2, <1>5, <2>1, LooksQuiet
<1> QED BY <1>4, <1>5

(* A full sync decides by both sides as they are. *)
LEMMA PlanFullQuiet ==
  ASSUME TypeOK, RowsLogged, PlansFromAnInstant, QuietInv, PlanFull
  PROVE  QuietInv'
<1> DEFINE plan(p) == Decision(sync.local[p], sync.remote[p], base[p])
           agreed(p) == Agreed(sync.local[p], sync.remote[p], base[p])
<1>1. /\ UNCHANGED <<rows, log, disk>> /\ sync.full /\ sync.pc = "scan" /\ sync.scanned
      /\ base' = [p \in Path |-> agreed(p)]
  BY DEF PlanFull, server
<1>2. /\ sync'.pc = "apply" /\ sync'.failed = sync.failed /\ sync'.quiet = sync.quiet
      /\ sync'.plan = [p \in Path |-> plan(p)]
      /\ sync'.job = [p \in Path |-> IF plan(p).act = "none" THEN Done ELSE Todo(0)]
  BY <1>1 DEF PlanFull, TypeOK, SyncRun
<1> SUFFICES ASSUME sync.quiet PROVE ~sync'.failed /\ \A p \in Path : QuietPath(p)'
  BY <1>2 DEF QuietInv
<1>3. ASSUME NEW p \in Path PROVE Settling(p)'
  <2>1. QuietPath(p)
    BY <1>1 DEF QuietInv
  <2>2. sync.local[p] = disk[p] /\ Current(p)
    BY <1>1, <2>1 DEF QuietPath, Unplanned, Reading
  <2>3. sync.remote[p] = rows[p]
    BY <1>1, <2>2, ReadIsCurrent
  <2> DEFINE d == plan(p)
  <2>4. /\ d = Decision(disk[p], rows[p], base[p]) /\ base'[p] = Agreed(disk[p], rows[p], base[p])
        /\ sync'.plan[p] = d /\ sync'.job[p] = IF d.act = "none" THEN Done ELSE Todo(0)
    BY <1>1, <1>2, <2>2, <2>3
  <2> HIDE DEF d
  <2> QED BY <1>1, <2>4, DecidedSettles
<1> QED BY <1>1, <1>2, <1>3 DEF QuietInv, QuietPath, Unplanned, Reading

(* Without a line since the cursor the baseline is what the server has, or left. *)
LEMMA PlanIncrementalQuiet ==
  ASSUME TypeOK, PlansFromAnInstant, RowsLogged, KeptInv, HiddenInv, ExactInv, QuietInv, PlanIncremental
  PROVE  QuietInv'
<1> DEFINE plan(p) == IF p \in sync.changed THEN NoPlan ELSE LocalOnly(p)
<1>1. /\ UNCHANGED <<rows, log, disk, base>>
      /\ ~sync.full /\ sync.pc = "scan" /\ sync.scanned
  BY DEF PlanIncremental, server, device
<1>2. /\ sync'.pc = "reconcile" /\ ~sync'.full /\ sync'.todo = sync.changed
      /\ sync'.failed = sync.failed /\ sync'.quiet = sync.quiet
      /\ sync'.last = sync.last /\ sync'.local = sync.local
      /\ sync'.plan = [p \in Path |-> plan(p)]
      /\ sync'.job = [p \in Path |-> IF plan(p).act = "none" THEN Done ELSE Todo(0)]
  BY <1>1 DEF PlanIncremental, TypeOK, SyncRun
<1>3. Last' = Last
  BY <1>1 DEF Last
<1> SUFFICES ASSUME sync.quiet PROVE ~sync'.failed /\ \A p \in Path : QuietPath(p)'
  BY <1>2 DEF QuietInv
<1>4. ASSUME NEW p \in Path PROVE QuietPath(p)'
  <2>1. QuietPath(p)
    BY <1>1 DEF QuietInv
  <2>2. sync.local[p] = disk[p] /\ Current(p)
    BY <1>1, <2>1 DEF QuietPath, Unplanned, Reading
  <2>3. Current(p)'
    BY <1>1, <1>2, <1>3, <2>2 DEF Current, LinesOf
  <2>4. CASE p \in sync.changed
    BY <1>1, <1>2, <2>2, <2>3, <2>4 DEF QuietPath, Deciding
  <2>5. CASE p \notin sync.changed
    <3> DEFINE d == LocalOnly(p)
    <3>1. sync'.plan[p] = d /\ sync'.job[p] = IF d.act = "none" THEN Done ELSE Todo(0)
      BY <1>2, <2>5
    <3>2. Todo(0).stage = "todo" /\ Todo(0).tries = 0 /\ Todo(0) # Done
      BY FirstStages
    <3>3. CASE Edited(p)
      <4>1. d.act = "upload" /\ disk[p] # 0 /\ disk[p] # base[p].hash
        BY <2>2, <3>3 DEF LocalOnly, UploadOver, NoPlan, Edited
      <4> HIDE DEF d
      <4>2. ~Forced(p)'
        BY <1>2, <3>1, <3>2, <4>1 DEF Forced
      <4>3. Settling(p)'
        BY <1>1, <3>1, <3>2, <4>1, <4>2 DEF Settling
      <4> QED BY <1>2, <2>5, <4>3 DEF QuietPath, Unplanned, Reading
    <3>4. CASE ~Edited(p) /\ Missing(p)
      <4>1. d.act = "delete" /\ disk[p] = 0
        BY <2>2, <3>4 DEF LocalOnly, Missing
      <4> HIDE DEF d
      <4>2. ~Forced(p)'
        BY <1>2, <3>1, <3>2, <4>1 DEF Forced
      <4>3. Settling(p)'
        BY <1>1, <3>1, <3>2, <4>1, <4>2 DEF Settling
      <4> QED BY <1>2, <2>5, <4>3 DEF QuietPath, Unplanned, Reading
    <3>5. CASE ~Edited(p) /\ ~Missing(p)
      <4>1. d.act = "none" /\ disk[p] = base[p].hash
        BY <2>2, <3>5 DEF LocalOnly, NoPlan, Edited, Missing
      <4> HIDE DEF d
      <4>2. LinesOf(p, cursor, sync.last) = {}
        BY <1>1, <2>5 DEF PlansFromAnInstant
      <4>3. Behind(p)
        BY <2>2, <4>2, CursorsTyped DEF Current, Behind, LinesOf
      <4>4. Shown(p, base[p])
        BY <4>3 DEF HiddenInv, PathShown
      <4>5. base[p].hash = rows[p].hash
        BY <4>1, <4>4, ShownElsewhere
      <4>6. base[p] = rows[p]
        BY <4>5 DEF ExactInv, ExactPath, Exact
      <4>7. sync'.job[p] = Done /\ disk'[p] = rows'[p].hash /\ base'[p] = rows'[p]
        BY <1>1, <3>1, <4>1, <4>5, <4>6
      <4>8. Settling(p)'
        BY <4>7, DoneSettles
      <4> QED BY <1>2, <2>5, <4>8 DEF QuietPath, Unplanned, Reading
    <3> QED BY <3>3, <3>4, <3>5
  <2> QED BY <2>4, <2>5
<1> QED BY <1>1, <1>2, <1>4 DEF QuietInv

(* When all are reconciled, all are decided. *)
LEMMA EndReconcileQuiet ==
  ASSUME TypeOK, QuietInv, EndReconcile
  PROVE  QuietInv'
<1>1. /\ UNCHANGED <<rows, disk, base>> /\ sync.pc = "reconcile" /\ sync.todo = {}
      /\ sync' = [sync EXCEPT !.pc = "apply"]
  BY DEF EndReconcile, server, device
<1>2. /\ sync'.pc = "apply" /\ sync'.plan = sync.plan /\ sync'.job = sync.job /\ sync'.full = sync.full
      /\ sync'.failed = sync.failed /\ sync'.quiet = sync.quiet
  BY <1>1 DEF TypeOK, SyncRun
<1> SUFFICES ASSUME sync.quiet PROVE ~sync'.failed /\ \A p \in Path : QuietPath(p)'
  BY <1>2 DEF QuietInv
<1>3. ASSUME NEW p \in Path PROVE Settling(p)'
  <2>1. Settling(p)
    BY <1>1 DEF QuietInv, QuietPath, Deciding
  <2> QED BY <1>1, <1>2, <2>1 DEF Settling, Forced
<1> QED BY <1>1, <1>2, <1>3 DEF QuietInv, QuietPath, Unplanned, Reading

(* A path with a remote change is decided by both sides as they are. *)
LEMMA ReconcileQuiet ==
  ASSUME TypeOK, PlansFromAnInstant, RowsLogged, QuietInv, NEW p \in Path, Reconcile(p)
  PROVE  QuietInv'
<1> DEFINE remote == sync.remote[p]
           d == IF remote = Gone THEN Deletion(p) ELSE Change(p)
           j == IF d.act = "none" THEN Done ELSE Todo(0)
<1>1. /\ UNCHANGED <<rows, log, disk>>
      /\ sync.pc = "reconcile" /\ p \in sync.todo /\ p \in sync.changed
      /\ sync' = [sync EXCEPT !.todo = @ \ {p}, !.plan[p] = d, !.job[p] = j]
      /\ base' = IF remote # Gone /\ ~Missing(p)
                 THEN [base EXCEPT ![p] = Agreed(disk[p], remote, @)] ELSE base
  BY DEF Reconcile, server, TypeOK
<1>2. base \in [Path -> Version]
  BY DEF TypeOK
<1>3. /\ sync'.pc = "reconcile" /\ sync'.full = sync.full /\ sync'.local = sync.local
      /\ sync'.last = sync.last /\ sync'.todo = sync.todo \ {p}
      /\ sync'.failed = sync.failed /\ sync'.quiet = sync.quiet
      /\ sync'.plan[p] = d /\ sync'.job[p] = j
      /\ \A q \in Path \ {p} : sync'.plan[q] = sync.plan[q] /\ sync'.job[q] = sync.job[q]
  <2> HIDE DEF d, j
  <2> QED BY <1>1 DEF TypeOK, SyncRun
<1>4. Last' = Last
  BY <1>1 DEF Last
<1> SUFFICES ASSUME sync.quiet PROVE ~sync'.failed /\ \A q \in Path : QuietPath(q)'
  BY <1>3 DEF QuietInv
<1>5. \A q \in Path : QuietPath(q)
  BY <1>1 DEF QuietInv
<1>6. ASSUME NEW q \in Path \ {p} PROVE QuietPath(q)'
  <2>1. base'[q] = base[q]
    BY <1>1, <1>2
  <2>2. Deciding(q)' = Deciding(q) /\ Reading(q)' = Reading(q) /\ Unplanned(q)' = Unplanned(q)
    BY <1>1, <1>3 DEF Deciding, Reading, Unplanned
  <2>3. Current(q)' = Current(q)
    BY <1>1, <1>3, <1>4 DEF Current, LinesOf
  <2>4. Settling(q) => Settling(q)'
    BY <1>1, <1>3, <2>1 DEF Settling, Forced
  <2> QED BY <1>1, <1>3, <1>5, <2>2, <2>3, <2>4 DEF QuietPath
<1>7. Settling(p)'
  <2>1. sync.local[p] = disk[p] /\ Current(p)
    BY <1>1, <1>5 DEF QuietPath, Unplanned, Reading
  <2>2. remote = rows[p]
    BY <1>1, <2>1, ReadIsCurrent
  <2>3. Todo(0).stage = "todo" /\ Todo(0).tries = 0 /\ Todo(0) # Done
    BY FirstStages
  <2>4. CASE remote = Gone
    <3>1. d = Deletion(p) /\ base' = base /\ Gone.hash = 0
      BY <1>1, <2>4 DEF Gone
    <3>2. CASE Edited(p)
      <4>1. d.act = "upload" /\ d.remote = 0 /\ disk[p] # 0 /\ disk[p] # base[p].hash
        BY <2>1, <3>1, <3>2 DEF Deletion, UploadOver, NoPlan, Edited
      <4> HIDE DEF d
      <4> QED BY <1>1, <1>3, <2>2, <2>3, <2>4, <3>1, <4>1 DEF Settling
    <3>3. CASE ~Edited(p) /\ base[p] = Gone
      <4>1. d.act = "none" /\ disk[p] = 0
        BY <2>1, <3>1, <3>3 DEF Deletion, NoPlan, Edited
      <4>2. sync'.job[p] = Done
        BY <1>3, <4>1
      <4> HIDE DEF d, j
      <4>3. disk'[p] = rows'[p].hash /\ base'[p] = rows'[p]
        BY <1>1, <2>2, <2>4, <3>1, <3>3, <4>1
      <4> QED BY <4>2, <4>3, DoneSettles
    <3>4. CASE ~Edited(p) /\ base[p] # Gone
      <4>1. d.act = "deleteLocal" /\ d.local = base[p].hash /\ disk[p] \in {0, base[p].hash}
        BY <2>1, <3>1, <3>4 DEF Deletion, NoPlan, Edited
      <4> HIDE DEF d
      <4> QED BY <1>1, <1>3, <2>2, <2>3, <2>4, <3>1, <4>1 DEF Settling
    <3> QED BY <3>2, <3>3, <3>4
  <2>5. CASE remote # Gone
    <3> DEFINE e == Decision(disk[p], rows[p], base[p])
    <3>1. rows[p].hash # 0
      BY <2>2, <2>5, RowsLive
    <3>2. d = e \/ (e.act = "delete" /\ d = [e EXCEPT !.act = "download"])
      <4>1. Missing(p) => disk[p] = 0
        BY <2>1 DEF Missing
      <4> QED BY <2>2, <2>5, <4>1 DEF Change
    <3>3. base'[p] = Agreed(disk[p], rows[p], base[p])
      <4>1. CASE Missing(p)
        <5>1. disk[p] = 0 /\ base'[p] = base[p]
          BY <1>1, <2>1, <4>1 DEF Missing
        <5> QED BY <3>1, <5>1 DEF Agreed
      <4>2. CASE ~Missing(p)
        BY <1>1, <1>2, <2>2, <2>5, <4>2
      <4> QED BY <4>1, <4>2
    <3> HIDE DEF d
    <3> QED BY <1>1, <1>3, <3>2, <3>3, DecidedSettles
  <2> QED BY <2>4, <2>5
<1> QED BY <1>1, <1>3, <1>6, <1>7 DEF QuietInv, QuietPath, Unplanned, Reading

LEMMA QuietStep ==
  ASSUME TypeOK, PlanInv, KeptInv, HiddenInv, ExactInv, QuietInv, [Next]_vars
  PROVE  QuietInv'
<1>1. RowsLogged /\ PlansFromAnInstant
  BY DEF PlanInv
<1>2. ASSUME NEW p \in Path, Write(p) \/ GoBack(p) \/ Remove(p) \/ Foreign(p) PROVE QuietInv'
  BY <1>2, BesideQuiet DEF Write, GoBack, Remove, Foreign
<1>3. ASSUME NEW p \in Path, Reconcile(p) \/ Applying(p) PROVE QuietInv'
  BY <1>1, <1>3, ReconcileQuiet, ApplyingQuiet
<1>4. CASE ReadChanges
  <2>1. CASE ~Expired(sync.since)
    BY <1>4, <2>1, FollowQuiet DEF ReadChanges, server, device
  <2> QED BY <1>4, <2>1, BeginQuiet
<1>5. CASE ReplayChanges
  <2>1. CASE ~Expired(sync.since)
    BY <1>5, <2>1, FollowQuiet DEF ReplayChanges, server, device
  <2> QED BY <1>5, <2>1, BesideQuiet DEF ReplayChanges, Ends
<1>6. CASE Prune \/ EndSync \/ Stop
  BY <1>6, BesideQuiet DEF Prune, EndSync, Stop, Ends
<1>7. CASE Begin \/ ReadManifest \/ Scan
  BY <1>7, BeginQuiet, ReadManifestQuiet, ScanQuiet
<1>8. CASE PlanFull \/ PlanIncremental \/ EndReconcile
  BY <1>1, <1>8, PlanFullQuiet, PlanIncrementalQuiet, EndReconcileQuiet
<1>9. CASE UNCHANGED vars
  <2>1. UNCHANGED <<rows, log, disk, base, sync>>
    BY <1>9 DEF vars, server, device
  <2>2. Last' = Last
    BY <2>1 DEF Last
  <2> QED BY <2>1, <2>2 DEF QuietInv, QuietPath, Unplanned, Reading, Current, LinesOf, Deciding, Settling, Forced
<1> QED BY <1>2, <1>3, <1>4, <1>5, <1>6, <1>7, <1>8, <1>9 DEF Next

LEMMA QuietInit == Init => QuietInv
<1> SUFFICES ASSUME Init PROVE QuietInv
  OBVIOUS
<1>1. sync = Idle
  BY Zenon DEF Init
<1> QED BY <1>1 DEF QuietInv, Idle

(* When all paths of a quiet sync are done, they agree. *)
LEMMA QuietSuffices ==
  ASSUME QuietInv, EndSync, sync.quiet
  PROVE  ~sync.failed /\ \A p \in Path : disk[p] = rows[p].hash /\ base[p] = rows[p]
<1>1. sync.pc = "apply" /\ \A p \in Path : sync.job[p] = Done
  BY DEF EndSync, AllDone
<1>2. ASSUME NEW p \in Path PROVE Settling(p)
  BY <1>1, PathSettling
<1> QED BY <1>1, <1>2 DEF QuietInv, Settling

(* A baseline with the content that the server has is the server's version, and one of an
   absent file has no revision: so a deletion is sent with the revision that the server
   checks, and a sync finds nothing to do where both sides agree. *)
THEOREM BaselinesNameTheRevision ==
  ASSUME ~Undo
  PROVE  Spec => [](\A p \in Path : base[p].hash = rows[p].hash => base[p] = rows[p])
<1> DEFINE Inv == TypeOK /\ PlanInv /\ KeptInv /\ OriginsClosed /\ HiddenInv /\ ExactInv
<1>1. Init => Inv
  BY TypeInit, InstantInit, KeptInit, HiddenInit, ExactInit
<1>2. Inv /\ [Next]_vars => Inv'
  BY TypeStep, InstantStep, KeptStep, ClosedStep, HiddenStep, ExactStep
<1>3. Inv => \A p \in Path : base[p].hash = rows[p].hash => base[p] = rows[p]
  BY DEF ExactInv, ExactPath, Exact
<1> QED BY <1>1, <1>2, <1>3, PTL DEF Spec

(* A sync during which the user, the other devices and the pruning of the changelog did
   nothing succeeds, and leaves the vault, the manifest and the server equal, whatever
   races and stops came before it.  The user goes back to earlier contents between syncs
   only: an undo before the upload of the edit it takes back hides the deletion of the file
   on the server from this sync and the later ones. *)
THEOREM QuietSyncsAgree == ASSUME ~Undo PROVE Spec => QuietSyncAgrees
<1> DEFINE Inv == TypeOK /\ PlanInv /\ KeptInv /\ OriginsClosed /\ HiddenInv /\ ExactInv /\ QuietInv
           Agrees == EndSync /\ sync.quiet =>
                       ~sync.failed /\ \A p \in Path : disk[p] = rows[p].hash /\ base[p] = rows[p]
<1>1. Init => Inv
  BY TypeInit, InstantInit, KeptInit, HiddenInit, ExactInit, QuietInit
<1>2. Inv /\ [Next]_vars => Inv'
  BY TypeStep, InstantStep, KeptStep, ClosedStep, HiddenStep, ExactStep, QuietStep
<1>3. Inv /\ [Next]_vars => [Agrees]_vars
  BY QuietSuffices
<1> QED BY <1>1, <1>2, <1>3, PTL DEF Spec, QuietSyncAgrees

=============================================================================
