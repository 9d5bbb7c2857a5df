------------------------- MODULE SharedCheckpoints --------------------------
(***************************************************************************)
(* Shared history checkpoints (sync/history-checkpoints.ts of the Worker).  *)
(* A request reads the live files page by page, outside any transaction,    *)
(* stores the inventory as an object, and then adds an entry to an index    *)
(* that is one object, replaced by compare-and-swap.  Files change all the  *)
(* while.  A checkpoint stores no contents: the revisions it names are the  *)
(* live copies, or the copies a later write or delete kept as versions, and *)
(* those are kept only under keepReplacedVersionSql.  A maintenance sweep    *)
(* removes inventories that no entry names.                                  *)
(*                                                                          *)
(* Requests and the sweep stop at any step.  One clock stands for the       *)
(* clock of the database and that of the Worker.  The revision of a write   *)
(* is its changelog sequence.  An inventory is the set of the rows read.    *)
(***************************************************************************)
EXTENDS Integers, FiniteSets

CONSTANTS
  NPath,           \* paths 1..NPath, in the order of portable_path
  Request,         \* createSharedCheckpoint calls; a request names its checkpoint's id
  PageSize,        \* CHECKPOINT_PAGE_SIZE
  MaxCheckpoints,  \* MAX_SHARED_CHECKPOINTS
  MaxAttempts,     \* index writes a request tries: 5 in the code
  Retention,       \* CHECKPOINT_RETENTION_MS, also FILE_VERSION_RETENTION_MS
  Window,          \* the window in which saves are coalesced
  Day,             \* the age an unnamed inventory must have before the sweep takes it
  Life,            \* how long a publication, or a pass of the sweep, may take
  ListSize,        \* keys of one listing
  MaxTime,         \* bound: the clock
  MaxSequence,     \* bound: writes and deletes
  None

Path == 1..NPath

ASSUME RequestAssumption == Request \subseteq Nat \ {0} /\ None \notin Request \cup Nat

ASSUME SizeAssumption ==
  /\ NPath \in Nat /\ MaxTime \in Nat /\ MaxSequence \in Nat
  /\ PageSize \in Nat \ {0} /\ MaxCheckpoints \in Nat \ {0}
  /\ MaxAttempts \in Nat \ {0} /\ ListSize \in Nat \ {0}
  /\ Retention \in Nat \ {0} /\ Window \in Nat

(* "Objects younger than a day may still be publishing their index." *)
ASSUME LifeAssumption == Life \in Nat /\ Day \in Nat /\ 2 * Life <= Day

Time == 0..MaxTime

Sequence == 0..MaxSequence

(* A row of an inventory. *)
Row == Path \X Sequence

Inventory == [rows : SUBSET Row, uploaded : Time]

ASSUME MarkerAssumption == None \notin Inventory

Entry == [id : Request, sequence : Sequence, expires : 0..(MaxTime + Retention)]

VARIABLES
  now,
  (* the database *)
  sequence,   \* the changelog's
  files,      \* per path None or the live row
  versions,   \* rows of file_versions
  mark,       \* shared_checkpoint_at, or None
  cursor,     \* shared_checkpoint_cleanup_cursor, or None
  (* the bucket *)
  index,      \* the entries of the index object; it is replaced, never deleted
  objects,    \* stored inventories, per request
  (* memory of each request *)
  pc, start, after, rows, seen, attempts, dropped,
  (* memory of the sweep *)
  sweep, listed, more, named,
  indexedAt,  \* when the sweep read the index
  (* history *)
  vault       \* the live rows at each sequence

database == <<sequence, files, versions, mark>>
request == <<pc, start, after, rows, seen, attempts, dropped>>
sweeping == <<sweep, listed, more, named, indexedAt, cursor>>
vars == <<now, database, index, objects, request, sweeping, vault>>

Live(fs) == {<<p, fs[p].revision>> : p \in {q \in Path : fs[q] # None}}

Unexpired(entries) == {e \in entries : e.expires > now}

Stored == {r \in Request : objects[r] # None}

-----------------------------------------------------------------------------
(* Files. *)

\* Mutant: only the copies written before the mark's second count.
KeepsStrict(p) ==
  \/ files[p].modified <= now - Window
  \/ mark # None /\ files[p].modified < mark
  \/ ~ \E v \in versions : v.path = p /\ v.created > now - Window

Keeps(p) ==
  \/ files[p].modified <= now - Window
  \/ mark # None /\ files[p].modified <= mark
  \/ ~ \E v \in versions : v.path = p /\ v.created > now - Window

Copy(p) == [path |-> p, revision |-> files[p].revision, created |-> now, expires |-> now + Retention]

Changed(p, row) ==
  /\ sequence < MaxSequence
  /\ sequence' = sequence + 1
  /\ files' = [files EXCEPT ![p] = row]
  /\ vault' = [vault EXCEPT ![sequence + 1] = Live(files')]
  /\ UNCHANGED <<now, mark, index, objects, request, sweeping>>

\* Mutant: the revision is the sequence before the write.
WriteStale(p) ==
  /\ Changed(p, [revision |-> sequence, modified |-> now])
  /\ versions' = versions \cup (IF files[p] # None /\ Keeps(p) THEN {Copy(p)} ELSE {})

Write(p) ==
  /\ Changed(p, [revision |-> sequence + 1, modified |-> now])
  /\ versions' = versions \cup (IF files[p] # None /\ Keeps(p) THEN {Copy(p)} ELSE {})

Delete(p) ==
  /\ files[p] # None
  /\ Changed(p, None)
  /\ versions' = versions \cup {Copy(p)}

ExpireVersion(v) ==
  /\ v.expires <= now
  /\ versions' = versions \ {v}
  /\ UNCHANGED <<now, sequence, files, mark, index, objects, request, sweeping, vault>>

-----------------------------------------------------------------------------
(* createSharedCheckpoint. *)

Step(r, from, to) == pc[r] = from /\ pc' = [pc EXCEPT ![r] = to]

Begin(r) ==
  /\ Step(r, "idle", "begun")
  /\ start' = [start EXCEPT ![r] = [sequence |-> sequence, now |-> now]]
  /\ UNCHANGED <<now, database, index, objects, after, rows, seen, attempts, dropped, sweeping, vault>>

(* An entry of the same sequence is returned as it is. *)
Lookup(r) ==
  /\ Step(r, "begun",
          IF \E e \in index : e.sequence = start[r].sequence /\ e.expires > start[r].now
          THEN "done" ELSE "marking")
  /\ UNCHANGED <<now, database, index, objects, start, after, rows, seen, attempts, dropped, sweeping, vault>>

Mark(r) ==
  /\ Step(r, "marking", "reading")
  /\ mark' = now
  /\ UNCHANGED <<now, sequence, files, versions, index, objects, start, after, rows, seen, attempts, dropped, sweeping, vault>>

(* The first PageSize live paths behind the last one read. *)
Page(r) ==
  LET rest == {p \in Path : p > after[r] /\ files[p] # None}
  IN  {p \in rest : Cardinality({q \in rest : q < p}) < PageSize}

ReadPage(r) ==
  /\ Step(r, "reading", IF Cardinality(Page(r)) < PageSize THEN "read" ELSE "reading")
  /\ rows' = [rows EXCEPT ![r] = @ \cup {<<p, files[p].revision>> : p \in Page(r)}]
  /\ after' = [after EXCEPT ![r] =
       IF Cardinality(Page(r)) < PageSize THEN @ ELSE CHOOSE p \in Page(r) : \A q \in Page(r) : q <= p]
  /\ UNCHANGED <<now, database, index, objects, start, seen, attempts, dropped, sweeping, vault>>

\* Mutant: the generation is not read again.
VerifyNothing(r) ==
  /\ Step(r, "read", "storing")
  /\ UNCHANGED <<now, database, index, objects, start, after, rows, seen, attempts, dropped, sweeping, vault>>

Verify(r) ==
  /\ Step(r, "read", IF sequence = start[r].sequence THEN "storing" ELSE "done")
  /\ UNCHANGED <<now, database, index, objects, start, after, rows, seen, attempts, dropped, sweeping, vault>>

EntryOf(r) == [id |-> r, sequence |-> start[r].sequence, expires |-> start[r].now + Retention]

StoreInventory(r) ==
  /\ Step(r, "storing", "fetching")
  /\ objects' = [objects EXCEPT ![r] = [rows |-> rows[r], uploaded |-> now]]
  /\ UNCHANGED <<now, database, index, start, after, rows, seen, attempts, dropped, sweeping, vault>>

FetchIndex(r) ==
  /\ Step(r, "fetching", "publishing")
  /\ seen' = [seen EXCEPT ![r] = index]
  /\ UNCHANGED <<now, database, index, objects, start, after, rows, attempts, dropped, sweeping, vault>>

(* Newest first: the higher sequence, then the later timestamp. *)
Newer(e, f) == e.sequence > f.sequence \/ (e.sequence = f.sequence /\ e.expires > f.expires)

Newest(entries) == {e \in entries : Cardinality({f \in entries : Newer(f, e)}) < MaxCheckpoints}

(* The request deletes inventories no index names, and ends. *)
Discard(r, ids) ==
  /\ pc' = [pc EXCEPT ![r] = "deleting"]
  /\ dropped' = [dropped EXCEPT ![r] = ids]

\* Mutant: another entry of the sequence is not looked for.
DuplicateNone(r) == FALSE

Duplicate(r) == \E e \in Unexpired(seen[r]) : e.sequence = start[r].sequence

(* Another request published the sequence, or newer entries fill the index. *)
Superseded(r) ==
  /\ pc[r] = "publishing"
  /\ Duplicate(r) \/ EntryOf(r) \notin Newest(Unexpired(seen[r]) \cup {EntryOf(r)})
  /\ Discard(r, {r})
  /\ UNCHANGED <<now, database, index, objects, start, after, rows, seen, attempts, sweeping, vault>>

\* Mutant: the index is written whatever it has become.
PublishUnconditionally(r) ==
  LET kept == Newest(Unexpired(seen[r]) \cup {EntryOf(r)})
  IN  /\ pc[r] = "publishing"
      /\ ~ Duplicate(r) /\ EntryOf(r) \in kept
      /\ index' = kept
      /\ Discard(r, {e.id : e \in seen[r] \ kept})
      /\ UNCHANGED <<now, database, objects, start, after, rows, seen, attempts, sweeping, vault>>

Publish(r) ==
  LET kept == Newest(Unexpired(seen[r]) \cup {EntryOf(r)})
  IN  /\ pc[r] = "publishing"
      /\ ~ Duplicate(r) /\ EntryOf(r) \in kept
      /\ index = seen[r]
      /\ index' = kept
      /\ Discard(r, {e.id : e \in seen[r] \ kept})
      /\ UNCHANGED <<now, database, objects, start, after, rows, seen, attempts, sweeping, vault>>

(* The index changed since it was read. *)
PublishConflict(r) ==
  /\ pc[r] = "publishing"
  /\ ~ Duplicate(r) /\ EntryOf(r) \in Newest(Unexpired(seen[r]) \cup {EntryOf(r)})
  /\ index # seen[r]
  /\ attempts' = [attempts EXCEPT ![r] = @ + 1]
  /\ IF attempts[r] + 1 < MaxAttempts
       THEN pc' = [pc EXCEPT ![r] = "fetching"] /\ UNCHANGED dropped
       ELSE Discard(r, {r})
  /\ UNCHANGED <<now, database, index, objects, start, after, rows, seen, sweeping, vault>>

DeleteDropped(r) ==
  /\ Step(r, "deleting", "done")
  /\ objects' = [q \in Request |-> IF q \in dropped[r] THEN None ELSE objects[q]]
  /\ UNCHANGED <<now, database, index, start, after, rows, seen, attempts, dropped, sweeping, vault>>

(***************************************************************************)
(* A storage call fails, or the invocation ends.  The index write may have  *)
(* been applied before its answer was lost: then this follows Publish.      *)
(***************************************************************************)
\* Mutant: a request that fails after it stored its inventory deletes it.
AbandonDeleting(r) ==
  /\ pc[r] \notin {"idle", "done"}
  /\ pc' = [pc EXCEPT ![r] = "done"]
  /\ objects' = [objects EXCEPT ![r] = None]
  /\ UNCHANGED <<now, database, index, start, after, rows, seen, attempts, dropped, sweeping, vault>>

Abandon(r) ==
  /\ pc[r] \notin {"idle", "done"}
  /\ pc' = [pc EXCEPT ![r] = "done"]
  /\ UNCHANGED <<now, database, index, objects, start, after, rows, seen, attempts, dropped, sweeping, vault>>

-----------------------------------------------------------------------------
(* pruneSharedCheckpoints, one pass. *)

Behind == {r \in Stored : cursor = None \/ r > cursor}

SweepList ==
  /\ sweep = "idle"
  /\ sweep' = "listed"
  /\ listed' = {r \in Behind : Cardinality({q \in Behind : q < r}) < ListSize}
  /\ more' = (Cardinality(Behind) > ListSize)
  /\ UNCHANGED <<now, database, index, objects, request, named, indexedAt, cursor, vault>>

SweepIndex ==
  /\ sweep = "listed"
  /\ sweep' = "indexed"
  /\ named' = index
  /\ indexedAt' = now
  /\ UNCHANGED <<now, database, index, objects, request, listed, more, cursor, vault>>

\* Mutant: the age of an inventory is not looked at.
GarbageOfAnyAge == listed \ {e.id : e \in Unexpired(named)}

Garbage == {r \in listed : objects[r] # None /\ objects[r].uploaded < now - Day}
             \ {e.id : e \in Unexpired(named)}

EndSweep == sweep' = "idle" /\ listed' = {} /\ more' = FALSE /\ named' = {} /\ indexedAt' = 0

\* Mutant: the cursor is never set back.
SweepDeleteOnward ==
  /\ sweep = "indexed"
  /\ objects' = [r \in Request |-> IF r \in Garbage THEN None ELSE objects[r]]
  /\ cursor' = IF listed # {} THEN CHOOSE r \in listed : \A q \in listed : q <= r ELSE cursor
  /\ EndSweep
  /\ UNCHANGED <<now, database, index, request, vault>>

SweepDelete ==
  /\ sweep = "indexed"
  /\ objects' = [r \in Request |-> IF r \in Garbage THEN None ELSE objects[r]]
  /\ cursor' = IF more THEN CHOOSE r \in listed : \A q \in listed : q <= r ELSE None
  /\ EndSweep
  /\ UNCHANGED <<now, database, index, request, vault>>

SweepFails ==
  /\ sweep # "idle"
  /\ EndSweep
  /\ UNCHANGED <<now, database, index, objects, request, cursor, vault>>

Sweep == SweepList \/ SweepIndex \/ SweepDelete

-----------------------------------------------------------------------------
(* A publication, and a pass of the sweep, is over within Life. *)
InTime ==
  /\ \A r \in Stored : pc[r] \in {"fetching", "publishing"} => now < objects[r].uploaded + Life
  /\ sweep = "indexed" => now < indexedAt + Life

Tick ==
  /\ now < MaxTime /\ InTime
  /\ now' = now + 1
  /\ UNCHANGED <<database, index, objects, request, sweeping, vault>>

Init ==
  /\ now = 0
  /\ sequence = 0 /\ files = [p \in Path |-> None] /\ versions = {} /\ mark = None /\ cursor = None
  /\ index = {} /\ objects = [r \in Request |-> None]
  /\ pc = [r \in Request |-> "idle"]
  /\ start = [r \in Request |-> [sequence |-> 0, now |-> 0]]
  /\ after = [r \in Request |-> 0] /\ rows = [r \in Request |-> {}]
  /\ seen = [r \in Request |-> {}] /\ attempts = [r \in Request |-> 0]
  /\ dropped = [r \in Request |-> {}]
  /\ sweep = "idle" /\ listed = {} /\ more = FALSE /\ named = {} /\ indexedAt = 0
  /\ vault = [n \in Sequence |-> {}]

Create(r) ==
  \/ Begin(r) \/ Lookup(r) \/ Mark(r) \/ ReadPage(r) \/ Verify(r) \/ StoreInventory(r)
  \/ FetchIndex(r) \/ Superseded(r) \/ Publish(r) \/ PublishConflict(r) \/ DeleteDropped(r)

Next ==
  \/ \E p \in Path : Write(p) \/ Delete(p)
  \/ \E v \in versions : ExpireVersion(v)
  \/ \E r \in Request : Create(r) \/ Abandon(r)
  \/ Sweep \/ SweepFails
  \/ Tick

Spec == Init /\ [][Next]_vars

(* Maintenance wakes every day for ever; a pass may fail, but not every pass does. *)
FairSpec ==
  /\ Spec
  /\ WF_vars(Tick)
  /\ \A r \in Request : WF_vars(Create(r) /\ pc[r] # "idle")
  /\ WF_vars(SweepList) /\ SF_vars(SweepIndex) /\ SF_vars(SweepDelete)

-----------------------------------------------------------------------------
(* Types; vault holds the rows that were live at each sequence, nothing yet *)
(* for a later one.                                                         *)
TypeOK ==
  /\ now \in Time /\ sequence \in Sequence
  /\ files \in [Path -> [revision : Sequence \ {0}, modified : Time] \cup {None}]
  /\ versions \subseteq [path : Path, revision : Sequence \ {0}, created : Time, expires : 0..(MaxTime + Retention)]
  /\ mark \in Time \cup {None} /\ cursor \in Request \cup {None}
  /\ index \subseteq Entry
  /\ objects \in [Request -> Inventory \cup {None}]
  /\ pc \in [Request -> {"idle", "begun", "marking", "reading", "read", "storing", "fetching",
                          "publishing", "deleting", "done"}]
  /\ start \in [Request -> [sequence : Sequence, now : Time]]
  /\ after \in [Request -> 0..NPath] /\ rows \in [Request -> SUBSET Row]
  /\ seen \in [Request -> SUBSET Entry] /\ attempts \in [Request -> 0..MaxAttempts]
  /\ dropped \in [Request -> SUBSET Request]
  /\ sweep \in {"idle", "listed", "indexed"} /\ listed \subseteq Request /\ more \in BOOLEAN
  /\ named \subseteq Entry /\ indexedAt \in Time
  /\ vault \in [Sequence -> SUBSET Row]

(* An inventory the index names is the vault of one instant, that of its    *)
(* sequence, although it was read in pages while files changed.             *)
InventoryIsAnInstant ==
  \A e \in index : objects[e.id] # None => objects[e.id].rows = vault[e.sequence]

(* Some copy serves a revision: downloadCheckpointFile's two selects. *)
Available(row) ==
  \/ files[row[1]] # None /\ files[row[1]].revision = row[2]
  \/ \E v \in versions : v.path = row[1] /\ v.revision = row[2] /\ v.expires > now

(* Every revision of a listed checkpoint can be downloaded until the         *)
(* checkpoint expires, whatever was written or deleted since.               *)
CheckpointsRestorable ==
  \A e \in Unexpired(index) : \A row \in vault[e.sequence] : Available(row)

(* A listed checkpoint has its inventory: no eviction, no failed request and *)
(* no sweep that races its publication takes it.                             *)
ListedIsStored == \A e \in Unexpired(index) : objects[e.id] # None

(* Racing requests never list a sequence twice, and the index stays small. *)
IndexBounded ==
  /\ Cardinality(index) <= MaxCheckpoints
  /\ \A e, f \in index : e.sequence = f.sequence => e = f

(* A live entry leaves the index only when it is full of newer ones, and no *)
(* writer undoes what another one published.                                *)
EvictsOldest ==
  [][\A e \in Unexpired(index) \ index' :
       /\ Cardinality(index') = MaxCheckpoints
       /\ \A f \in index' : f.sequence > e.sequence]_vars

(* An inventory that no entry names is collected once it is old enough, also *)
(* behind a page of inventories that stay.                                   *)
GarbageCollected ==
  \A r \in Request :
    (/\ pc[r] = "done" /\ objects[r] # None
     /\ ~ \E e \in Unexpired(index) : e.id = r
     /\ objects[r].uploaded < MaxTime - Day) ~> objects[r] = None
=============================================================================
