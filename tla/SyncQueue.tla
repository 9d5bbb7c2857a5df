------------------------------ MODULE SyncQueue ------------------------------
(***************************************************************************)
(* The queue of one device (sync/queue, sync/pending, sync/runtime): vault  *)
(* events become pending keys, a debounced flush sends them, a verification *)
(* outside a sync settles keys of files that match their baseline, and a    *)
(* sync or a reconciliation settles the keys its result covers, unless a    *)
(* newer event arrived.  Start-up drops vault events and replays them.      *)
(*                                                                          *)
(* Every write of a file is a new content, a number; 0 is an absent file.   *)
(* A vault event is delivered some time after the change it reports.  The   *)
(* server is its live rows: FileStore is the model behind them.  What a      *)
(* crash may take from the manifest is LocalManifest's subject: here the    *)
(* baseline and the upload journal are durable.  A reconciled path is       *)
(* decided and applied in one step, since both sides are compared and       *)
(* swapped.  Each upload is a request of its own.  Automatic merges,        *)
(* held-back large uploads, ignored paths, folders and raw events of hidden *)
(* files are left out; automatic sync is on.                                *)
(***************************************************************************)
EXTENDS Integers, Sequences, FiniteSets

CONSTANTS
  Path,
  Variants,     \* sets of paths that differ only in case or Unicode form
  Stored,       \* the path that is synced at first
  MaxEdits,     \* bound: what the user does to the vault
  MaxForeign,   \* bound: what other devices do on the server
  MaxLosses,    \* bound: lost requests and answers
  MaxStops,     \* bound: restarts
  MaxUsed,      \* bound: all of these together
  MaxReports,   \* bound: results still being recorded when a flush begins
  MaxAttempts,  \* MAX_RECONCILE_ATTEMPTS
  Periodic,     \* whether the interval of periodic syncs is set
  None

ASSUME PathAssumption == Stored \in Path /\ None \notin Path /\ Variants \subseteq SUBSET Path

ASSUME BoundAssumption ==
  /\ {MaxEdits, MaxForeign, MaxLosses, MaxStops, MaxUsed, MaxReports} \subseteq Nat /\ Periodic \in BOOLEAN
  /\ MaxAttempts \in Nat \ {0}

Content == 0..(1 + MaxEdits + MaxForeign)

\* None stands for what is not there: it is no entry of the journal.
ASSUME NoneAssumption == None \notin [hash : Content, expected : Content, landed : BOOLEAN]

Key == {"upload", "delete"} \X Path

Upload(p) == <<"upload", p>>

Delete(p) == <<"delete", p>>

Opposite(k) == IF k[1] = "upload" THEN Delete(k[2]) ELSE Upload(k[2])

PathsOf(keys) == {k[2] : k \in keys}

(* namespaceConflictLookup: paths the server cannot store beside p *)
Twins(p) == (UNION {v \in Variants : p \in v}) \ {p}

VARIABLES
  disk,       \* the vault
  made,       \* contents made so far
  parent,     \* per content the one it was edited from (history)
  server,     \* the live rows
  base,       \* the manifest's entries
  renames,    \* RenameDependencies
  journal,    \* uploads whose receipt is not known
  gate,       \* "off", "recording" or "open": VaultEventGate
  recorded,   \* startupEvents
  events,     \* vault events on their way
  pending,    \* PendingSet
  verifying,  \* verificationKeys
  check,      \* the verification under way, or None
  timer,      \* the debounce timer is set
  work,       \* the flush, reconciliation or sync under way
  reports,    \* flushes whose result is being recorded
  applied,    \* a sync's second settlement, or None
  owed,       \* paths changed while no event could be seen (history)
  used        \* how much of each bound is used

vault == <<disk, made, parent>>
manifest == <<base, renames, journal>>
startup == <<gate, recorded, owed>>
queue == <<pending, verifying, timer>>
vars == <<vault, server, manifest, startup, events, queue, check, work, reports, applied, used>>

NoRevisions == [k \in Key |-> 0]

NoExpectation == [p \in Path |-> 0]

Idle == [kind |-> "none", pc |-> "idle", batch |-> {}, revisions |-> NoRevisions,
         todo |-> {}, listed |-> {}, looks |-> TRUE, uploads |-> {}, remote |-> NoExpectation, expect |-> NoExpectation,
         sending |-> {}, failed |-> {}, failing |-> FALSE, terminal |-> FALSE, denied |-> FALSE,
         clash |-> FALSE, conflicts |-> {}, tries |-> [p \in Path |-> 0],
         settled |-> {}, touched |-> {}, seen |-> 0]

Syncing == work.kind # "none"

Spend(what) ==
  /\ used.edits + used.foreign + used.losses + used.stops < MaxUsed
  /\ used' = [used EXCEPT ![what] = @ + 1]

Lost == used.losses < MaxLosses

-----------------------------------------------------------------------------
(* The user, other devices and the vault's events. *)

Notify(e) == events' = IF gate = "off" THEN events ELSE Append(events, e)

Write(p) ==
  /\ used.edits < MaxEdits
  /\ \A q \in Twins(p) : disk[q] = 0
  /\ made' = made + 1
  /\ disk' = [disk EXCEPT ![p] = made']
  /\ parent' = [parent EXCEPT ![made'] = disk[p]]
  /\ Notify(<<"upload", p>>) /\ Spend("edits")
  /\ UNCHANGED <<server, manifest, startup, queue, check, work, reports, applied>>

Remove(p) ==
  /\ used.edits < MaxEdits /\ disk[p] # 0
  /\ disk' = [disk EXCEPT ![p] = 0]
  /\ Notify(<<"delete", p>>) /\ Spend("edits")
  /\ UNCHANGED <<made, parent, server, manifest, startup, queue, check, work, reports, applied>>

Rename(p, q) ==
  /\ used.edits < MaxEdits /\ disk[p] # 0 /\ p # q
  /\ \A r \in {q} \cup (Twins(q) \ {p}) : disk[r] = 0
  /\ disk' = [disk EXCEPT ![p] = 0, ![q] = disk[p]]
  /\ Notify(<<"rename", p, q>>) /\ Spend("edits")
  /\ UNCHANGED <<made, parent, server, manifest, startup, queue, check, work, reports, applied>>

Foreign(p) ==
  /\ used.foreign < MaxForeign
  /\ \/ /\ \A q \in Twins(p) : server[q] = 0
        /\ made' = made + 1
        /\ server' = [server EXCEPT ![p] = made']
        /\ parent' = [parent EXCEPT ![made'] = server[p]]
     \/ /\ server[p] # 0
        /\ server' = [server EXCEPT ![p] = 0]
        /\ UNCHANGED <<made, parent>>
  /\ Spend("foreign")
  /\ UNCHANGED <<disk, manifest, startup, events, queue, check, work, reports, applied>>

(* PendingSet.add *)
Add(set, k) ==
  [set EXCEPT !.queued = (@ \ {Opposite(k)}) \cup {k},
              !.revision = [@ EXCEPT ![Opposite(k)] = 0, ![k] = set.next + 1],
              !.next = @ + 1]

(* PendingSet.restore: a live event takes precedence. *)
Restore(set, keys) ==
  LET new == {k \in keys : {k, Opposite(k)} \cap set.queued = {}}
  IN [set EXCEPT !.queued = @ \cup new, !.next = @ + 1,
                 !.revision = [k \in Key |-> IF k \in new THEN set.next + 1 ELSE @[k]]]

\* Mutant: a key is settled whatever arrived after the snapshot.
SettleAnyway(set, keys, snapshot) == [set EXCEPT !.queued = @ \ keys]

(* PendingSet.settleIfUnchanged, for each of the keys *)
Settle(set, keys, snapshot) ==
  LET settled == {k \in keys : set.revision[k] = snapshot[k]}
  IN IF set.queued = {} THEN set
     ELSE [set EXCEPT !.queued = @ \ settled,
                      !.revision = [k \in Key |-> IF k \in settled THEN 0 ELSE @[k]]]

\* Mutant: a key that is released keeps its revision.
ReleaseKept(set, batch, snapshot) == [set EXCEPT !.inFlight = @ \ batch]

(* The release of a batch: a key that was not requeued is settled. *)
Release(set, batch, snapshot) ==
  [set EXCEPT !.inFlight = @ \ batch,
              !.revision = [k \in Key |-> IF /\ k \in batch \ set.queued
                                             /\ @[k] = snapshot[k] THEN 0 ELSE @[k]]]

\* Mutant: the release does not remember that it ran.
FinalizeTwice(set, r) == Release(set, r.batch, r.revisions)

(* The finalizer of a flush, after its result is recorded: only the first release counts. *)
Finalize(set, r) == IF r.released THEN set ELSE Release(set, r.batch, r.revisions)

(* addPendingPath *)
Enqueue(k) ==
  /\ pending' = Add(pending, k)
  /\ verifying' = (verifying \ {Opposite(k)}) \cup {k}

(* RenameDependencies.recordRename, for a file *)
Renamed(p, q) ==
  LET moved == [o \in Path |-> IF renames[o] = p THEN IF o = q THEN None ELSE q
                               ELSE renames[o]]
  IN IF base[p] # 0 /\ moved[p] = None
     THEN [moved EXCEPT ![p] = q] ELSE moved

(* An event that reaches the open gate. *)
Deliver ==
  LET e == Head(events) IN
  /\ gate = "open" /\ events # <<>>
  /\ events' = SubSeq(events, 2, Len(events))
  /\ IF e[1] = "rename"
     THEN /\ renames' = Renamed(e[2], e[3])
          /\ pending' = Add(Add(pending, Delete(e[2])), Upload(e[3]))
          /\ verifying' = (verifying \ {Upload(e[2]), Delete(e[3])})
                          \cup {Delete(e[2]), Upload(e[3])}
     ELSE Enqueue(e) /\ UNCHANGED renames
  /\ timer' = TRUE
  /\ UNCHANGED <<vault, server, base, journal, startup, check, work, reports, applied, used>>

(* An event during the start-up sync. *)
Record ==
  LET e == Head(events) IN
  /\ gate = "recording" /\ events # <<>>
  /\ events' = SubSeq(events, 2, Len(events))
  /\ recorded' = IF e[1] = "rename"
                 THEN (recorded \ {Upload(e[2]), Delete(e[3])}) \cup {Delete(e[2]), Upload(e[3])}
                 ELSE (recorded \ {Opposite(e)}) \cup {e}
  /\ UNCHANGED <<vault, server, manifest, gate, owed, queue, check, work, reports, applied, used>>

-----------------------------------------------------------------------------
(* Verification: outside a sync, keys of files that match their baseline.   *)

(* isCurrent: still queued at the revision, and no sync since. *)
Current(k) ==
  /\ check.active /\ ~Syncing
  /\ k \in pending.queued \ pending.inFlight
  /\ pending.revision[k] = check.revisions[k]
  /\ \A p \in Path : journal[p] = None

BeginVerify ==
  /\ check = None /\ verifying # {} /\ ~Syncing
  /\ check' = [todo |-> verifying, revisions |-> pending.revision, active |-> TRUE,
               matches |-> {}]
  /\ verifying' = {}
  /\ UNCHANGED <<vault, server, manifest, startup, events, pending, timer, work, reports, applied, used>>

(* A delete of a path that has a baseline is never settled here. *)
Matches(k) ==
  IF base[k[2]] = 0 THEN disk[k[2]] = 0 ELSE k[1] = "upload" /\ disk[k[2]] = base[k[2]]

Verify(k) ==
  /\ check # None /\ k \in check.todo
  /\ check' = [check EXCEPT !.todo = @ \ {k},
        !.matches = @ \cup (IF Current(k) /\ Matches(k) THEN {<<k, base[k[2]]>>} ELSE {})]
  /\ UNCHANGED <<vault, server, manifest, startup, events, queue, work, reports, applied, used>>

(* settleKeys, with the baselines that were read *)
EndVerify ==
  /\ check # None /\ check.todo = {}
  /\ LET settled == {m[1] : m \in {n \in check.matches : Current(n[1]) /\ base[n[1][2]] = n[2]}}
     IN pending' = Settle(pending, settled, check.revisions)
  /\ timer' = (timer /\ pending'.queued # {})
  /\ check' = None
  /\ UNCHANGED <<vault, server, manifest, startup, events, verifying, work, reports, applied, used>>

-----------------------------------------------------------------------------
(* How a flush, a reconciliation and a sync start. *)

(* Entering "syncing" ends the checks that are under way. *)
Enter(w) ==
  /\ work' = [w EXCEPT !.seen = used.edits - Len(events)]
  /\ check' = IF check = None THEN None ELSE [check EXCEPT !.active = FALSE]

(* processPendingChanges: a timer that fires during a sync is set again. *)
BeginFlush ==
  /\ timer /\ ~Syncing /\ Cardinality(reports) <= MaxReports /\ timer' = FALSE
  /\ IF pending.queued = {}
     THEN UNCHANGED <<pending, work, check>>
     ELSE /\ Enter([Idle EXCEPT !.kind = "flush", !.pc = "recover", !.batch = pending.queued,
                                !.revisions = pending.revision])
          /\ pending' = [pending EXCEPT !.queued = {}, !.inFlight = @ \cup pending.queued]
  /\ UNCHANGED <<vault, server, manifest, startup, events, verifying, reports, applied, used>>

Reconciliation(keys) ==
  [Idle EXCEPT !.kind = "reconcile", !.pc = "recover", !.batch = keys, !.todo = PathsOf(keys),
               !.revisions = pending.revision]

Sync(kind) ==
  [Idle EXCEPT !.kind = kind, !.pc = "recover", !.todo = Path, !.revisions = pending.revision]

(* periodicCheck: only when the queue, the journal, the vault or the server has changes *)
PeriodicSync ==
  /\ Periodic /\ gate = "open" /\ ~Syncing
  /\ \/ pending.queued # {}
     \/ \E p \in Path : disk[p] # base[p] \/ server[p] # base[p] \/ journal[p] # None
  /\ Enter(Sync("sync"))
  /\ UNCHANGED <<vault, server, manifest, startup, events, queue, reports, applied, used>>

(* The engine stops: the queue, its timers and the events on their way go. *)
Stop ==
  /\ used.stops < MaxStops /\ gate # "off"
  /\ gate' = "off" /\ recorded' = {} /\ events' = <<>>
  /\ pending' = [queued |-> {}, inFlight |-> {}, revision |-> NoRevisions, next |-> 0]
  /\ verifying' = {} /\ timer' = FALSE /\ check' = None
  /\ work' = Idle /\ reports' = {} /\ applied' = None /\ Spend("stops")
  /\ UNCHANGED <<vault, server, manifest, owed>>

(* initialize: events are recorded from before the scan of the start-up sync. *)
Start ==
  /\ gate = "off" /\ gate' = "recording"
  /\ owed' = {p \in Path : disk[p] # base[p] \/ journal[p] # None}
  /\ Enter(Sync("startup"))
  /\ UNCHANGED <<vault, server, manifest, recorded, events, queue, reports, applied, used>>

-----------------------------------------------------------------------------
(* The steps of the work under way. *)

Moves(pc) == work' = [work EXCEPT !.pc = pc]

Flushing == work.kind = "flush"

Fits(p) == \A q \in Twins(p) : server[q] = 0

NoteSynced(p, c) ==
  /\ base' = [base EXCEPT ![p] = c]
  /\ renames' = IF c = 0 THEN [renames EXCEPT ![p] = None] ELSE renames

(* What a request can fail of: nothing came back, or a status that a retry may change;
   a status that it cannot change; revoked access. *)
Failures == {"lost", "refused", "denied"}

(* isQueueTerminalFailure, isAuthFailure: what a flush makes of it *)
Judged(w, how) == [w EXCEPT !.terminal = @ \/ (Flushing /\ how \in {"refused", "denied", "namespace"}),
                            !.denied = @ \/ (Flushing /\ how = "denied")]

(* The work stops: a flush requeues what is not complete, a sync fails. *)
Fail(how) ==
  /\ work' = [Judged(work, how) EXCEPT !.pc = "saving", !.failing = TRUE, !.conflicts = {}]
  /\ pending' = IF Flushing
                THEN [pending EXCEPT !.queued = @ \cup (work.batch \ work.settled)]
                ELSE pending

(* recoverUploads: the journalled uploads are sent again, as they were. *)
Recover(p) ==
  LET j == journal[p] IN
  /\ work.pc = "recover" /\ j # None
  /\ journal' = [journal EXCEPT ![p] = None]
  /\ IF j.landed
     THEN NoteSynced(p, j.hash) /\ UNCHANGED server
     ELSE IF server[p] = j.expected /\ Fits(p)
     THEN NoteSynced(p, j.hash) /\ server' = [server EXCEPT ![p] = j.hash]
     ELSE UNCHANGED <<base, renames, server>>
  /\ UNCHANGED <<vault, startup, events, queue, check, work, reports, applied, used>>

RecoverFails ==
  /\ work.pc = "recover" /\ Lost /\ Spend("losses")
  /\ \E how \in Failures : Fail(how)
  /\ UNCHANGED <<vault, server, manifest, startup, events, verifying, timer, check, reports, applied>>

\* Mutant: the uploads go first, as for any other rename.
ClearingNone(w) == {}

(* Deletes that must precede an upload in their namespace *)
Clearing(w) == {p \in Path : w.expect[p] # 0 /\ Twins(p) \cap w.uploads # {}}

(* A flush conditions its deletes on the baselines of this moment. *)
Plan ==
  /\ work.pc = "recover" /\ \A p \in Path : journal[p] = None
  /\ IF Flushing
     THEN LET w == [work EXCEPT !.uploads = {p \in Path : Upload(p) \in work.batch},
                                !.expect = [p \in Path |-> IF Delete(p) \in work.batch
                                                           THEN base[p] ELSE 0]]
          IN work' = [w EXCEPT !.pc = "clearing", !.todo = Clearing(w)]
     ELSE work' = [work EXCEPT !.pc = "scan", !.looks = work.kind = "reconcile",
                               !.listed = {p \in Path : disk[p] # 0}]
  /\ UNCHANGED <<vault, server, manifest, startup, events, queue, check, reports, applied, used>>

(* classifyPath *)
Decision(p) ==
  LET local == disk[p]  remote == server[p]  b == base[p] IN
  CASE local = remote -> "none"
    [] 0 \notin {local, remote} /\ local # remote ->
         IF b = 0 \/ (local # b /\ remote # b) THEN "conflict"
         ELSE IF local # b THEN "upload" ELSE "download"
    [] local # 0 /\ remote = 0 -> IF local = b THEN "delete-local" ELSE "upload"
    [] local = 0 /\ remote # 0 -> IF remote = b THEN "delete" ELSE "download"

(* The keys a path settles: a reconciliation settles those it was given. *)
KeysOf(p, k) == IF work.kind = "reconcile" THEN {b \in work.batch : b[2] = p} ELSE {k}

Reconciled(p, keys) == work' = [work EXCEPT !.todo = @ \ {p}, !.settled = @ \cup keys,
                                            !.touched = @ \cup {p}]

(* A sync lists the vault once; a reconciliation looks at each path in its turn. *)
Found(p) == work.looks \/ (p \in work.listed <=> disk[p] # 0)

(* A file that came since the listing, or a synced one that went, is left to the next
   sync; reading a listed file that is gone fails this one. *)
Missed(p) ==
  /\ work.pc = "scan" /\ p \in work.todo /\ ~Found(p)
  /\ \/ Fail("lost")
     \/ /\ p \in work.listed => base[p] # 0
        /\ work' = [work EXCEPT !.todo = @ \ {p}] /\ UNCHANGED pending
  /\ UNCHANGED <<vault, server, manifest, startup, events, verifying, timer, check, reports, applied, used>>

(* A conflict keeps the local content in a copy and applies the remote one; a sync
   leaves the keys of its path to settleSynced. *)
Scan(p) ==
  LET d == Decision(p) IN
  /\ work.pc = "scan" /\ p \in work.todo /\ Found(p)
  /\ CASE d = "upload" -> /\ work' = [work EXCEPT !.todo = @ \ {p}, !.uploads = @ \cup {p},
                                                  !.remote[p] = server[p]]
                          /\ UNCHANGED <<disk, base, renames, events>>
       [] d = "delete" -> /\ work' = [work EXCEPT !.todo = @ \ {p}, !.expect[p] = server[p]]
                          /\ UNCHANGED <<disk, base, renames, events>>
       [] d = "none" -> /\ NoteSynced(p, disk[p])
                        /\ IF disk[p] = 0 /\ work.kind # "reconcile"
                           THEN work' = [work EXCEPT !.todo = @ \ {p}]
                           ELSE work' = [work EXCEPT !.todo = @ \ {p},
                                                     !.settled = @ \cup KeysOf(p, Upload(p))]
                        /\ UNCHANGED <<disk, events>>
       [] d \in {"download", "conflict"} ->
                        /\ disk' = [disk EXCEPT ![p] = server[p]]
                        /\ NoteSynced(p, server[p]) /\ Notify(<<"upload", p>>)
                        /\ Reconciled(p, IF d = "conflict" /\ work.kind # "reconcile" THEN {}
                                         ELSE KeysOf(p, Upload(p)))
       [] d = "delete-local" ->
                        /\ disk' = [disk EXCEPT ![p] = 0]
                        /\ NoteSynced(p, 0) /\ Notify(<<"delete", p>>)
                        /\ Reconciled(p, KeysOf(p, Delete(p)))
  /\ UNCHANGED <<made, parent, server, journal, startup, queue, check, reports, applied, used>>

ScanFails ==
  /\ work.pc = "scan" /\ Lost /\ Fail("lost") /\ Spend("losses")
  /\ UNCHANGED <<vault, server, manifest, startup, events, verifying, timer, check, reports, applied>>

EndScan ==
  /\ work.pc = "scan" /\ work.todo = {}
  /\ work' = [work EXCEPT !.pc = "clearing", !.todo = Clearing(work)]
  /\ UNCHANGED <<vault, server, manifest, startup, events, queue, check, reports, applied, used>>

-----------------------------------------------------------------------------
(* Deletes on the server. *)

(* routeFailure for deletes.  A flush requeues them; a sync plans a path that
   lost a race again. *)
DeletesFail(w, paths, conflict) ==
  LET keys == {Delete(p) : p \in paths} IN
  /\ work' = [w EXCEPT !.failing = @ \/ (paths # {} /\ (Flushing \/ ~conflict)),
                       !.sending = {}, !.todo = {}, !.failed = @ \cup paths,
                       !.expect = [p \in Path |-> IF p \in w.todo \cup w.sending THEN 0 ELSE @[p]],
                       !.conflicts = IF conflict THEN @ \cup keys ELSE @]
  /\ pending' = IF Flushing THEN [pending EXCEPT !.queued = @ \cup keys] ELSE pending

\* Mutant: the new name is not looked at.
RenameForgotten(p) == \A r \in Path : journal[r] = None

(* assertRenamePreserved *)
RenamePreserved(p) ==
  LET q == renames[p] IN
  /\ \A r \in Path : journal[r] = None
  /\ \/ q = None \/ p \in Twins(q)
     \/ disk[q] = 0 \/ base[q] = disk[q]

Deleting == work.pc \in {"clearing", "deleting"} /\ work.todo # {} /\ work.sending = {}

(* The checks before a batch is sent. *)
CheckDeletes ==
  /\ Deleting
  /\ IF \E p \in work.todo : disk[p] # 0 THEN DeletesFail(work, work.todo, TRUE)
     ELSE IF \E p \in work.todo : ~RenamePreserved(p) THEN DeletesFail(work, work.todo, FALSE)
     ELSE work' = [work EXCEPT !.sending = @ \cup work.todo] /\ UNCHANGED pending
  /\ UNCHANGED <<vault, server, manifest, startup, events, verifying, timer, check, reports, applied, used>>

Accepted == {p \in work.sending : server[p] \in {0, work.expect[p]}}

Delivered(paths) == server' = [p \in Path |-> IF p \in paths THEN 0 ELSE server[p]]

SendDeletes ==
  LET done == Accepted IN
  /\ work.pc \in {"clearing", "deleting"} /\ work.sending # {}
  /\ Delivered(done)
  /\ base' = [p \in Path |-> IF p \in done THEN 0 ELSE base[p]]
  /\ renames' = [p \in Path |-> IF p \in done THEN None ELSE renames[p]]
  /\ DeletesFail([work EXCEPT !.settled = @ \cup UNION {KeysOf(p, Delete(p)) : p \in done},
                              !.touched = @ \cup done],
                 work.sending \ done, TRUE)
  /\ UNCHANGED <<vault, journal, startup, events, verifying, timer, check, reports, applied, used>>

(* The request or its answer is lost, or the server answers that it will not do it. *)
LoseDeletes ==
  /\ work.pc \in {"clearing", "deleting"} /\ work.sending # {} /\ Lost /\ Spend("losses")
  /\ \E how \in Failures, paths \in {{}, Accepted} :
       /\ how # "lost" => paths = {}
       /\ Delivered(paths)
       /\ DeletesFail(Judged(work, how), work.sending, FALSE)
  /\ UNCHANGED <<vault, manifest, startup, events, verifying, timer, check, reports, applied>>

(* deferBlockedUploads: an upload waits for a failed delete in its namespace. *)
Blocked == IF Flushing THEN {p \in work.uploads : Twins(p) \cap work.failed # {}} ELSE {}

(* Paths that lost a race in a sync are planned again, and fail when they "did not
   converge": the batch is the first attempt of a reconciliation, and a sync hands the
   paths of its batch to one. *)
Again == ~Flushing /\ work.conflicts # {}

Retries == IF work.kind = "reconcile" THEN MaxAttempts - 1 ELSE MaxAttempts

Rescan(uploads) ==
  LET raced == PathsOf(work.conflicts)
      again == {p \in raced : work.tries[p] < Retries}
  IN work' = [work EXCEPT !.pc = "scan", !.todo = again, !.failing = @ \/ again # raced,
                          !.conflicts = {}, !.looks = TRUE, !.uploads = uploads,
                          !.tries = [p \in Path |-> IF p \in again THEN @[p] + 1 ELSE @[p]]]

EndClearing ==
  /\ work.pc = "clearing" /\ work.todo = {} /\ work.sending = {}
  /\ IF Again THEN Rescan(work.uploads)
     ELSE work' = [work EXCEPT !.pc = "uploading", !.todo = work.uploads \ Blocked,
                               !.failed = Blocked]
  /\ pending' = [pending EXCEPT !.queued = @ \cup {Upload(p) : p \in Blocked}]
  /\ UNCHANGED <<vault, server, manifest, startup, events, verifying, timer, check, reports, applied, used>>

-----------------------------------------------------------------------------
(* Uploads. *)

(* prepareUpload: the bytes and the hash they replace go into the journal.  A
   flush settles a file that is gone or that matches its baseline; only a full sync
   fails over one that is gone. *)
Prepare(p) ==
  LET expected == IF Flushing THEN base[p] ELSE work.remote[p] IN
  /\ work.pc = "uploading" /\ p \in work.todo
  /\ IF disk[p] = 0 \/ (Flushing /\ disk[p] = base[p])
     THEN /\ \E full \in {FALSE, ~Flushing} : work' = [work EXCEPT !.todo = @ \ {p},
                                                                    !.failing = @ \/ full]
          /\ UNCHANGED journal
     ELSE /\ work' = [work EXCEPT !.todo = @ \ {p}, !.sending = @ \cup {p}]
          /\ journal' = [journal EXCEPT ![p] =
                [hash |-> disk[p], expected |-> expected, landed |-> FALSE]]
  /\ UNCHANGED <<vault, server, base, renames, startup, events, queue, check, reports, applied, used>>

UploadFails(p, how) ==
  LET retry == how = "conflict" /\ ~Flushing IN
  /\ work' = [Judged(work, how) EXCEPT !.sending = @ \ {p}, !.failing = @ \/ ~retry,
        !.failed = @ \cup {p},
        !.clash = @ \/ how = "namespace",
        !.conflicts = IF how = "conflict" THEN @ \cup {Upload(p)} ELSE @]
  /\ pending' = IF Flushing THEN [pending EXCEPT !.queued = @ \cup {Upload(p)}] ELSE pending

SendUpload(p) ==
  LET j == journal[p] IN
  /\ work.pc = "uploading" /\ p \in work.sending
  /\ journal' = [journal EXCEPT ![p] = None]
  /\ IF ~Fits(p) THEN UploadFails(p, "namespace") /\ UNCHANGED <<server, base, renames>>
     ELSE IF server[p] # j.expected
     THEN UploadFails(p, "conflict") /\ UNCHANGED <<server, base, renames>>
     ELSE /\ server' = [server EXCEPT ![p] = j.hash]
          /\ NoteSynced(p, j.hash)
          /\ work' = [work EXCEPT !.sending = @ \ {p}, !.settled = @ \cup KeysOf(p, Upload(p))]
          /\ UNCHANGED pending
  /\ UNCHANGED <<vault, startup, events, verifying, timer, check, reports, applied, used>>

LoseUpload(p) ==
  LET j == journal[p] IN
  /\ work.pc = "uploading" /\ p \in work.sending /\ Lost /\ Spend("losses")
  /\ \/ (\E how \in Failures : UploadFails(p, how)) /\ UNCHANGED <<server, journal>>
     \/ /\ UploadFails(p, "lost") /\ Fits(p) /\ server[p] = j.expected
        /\ server' = [server EXCEPT ![p] = j.hash]
        /\ journal' = [journal EXCEPT ![p].landed = TRUE]
  /\ UNCHANGED <<vault, base, renames, startup, events, verifying, timer, check, reports, applied>>

Remaining == {p \in Path : work.expect[p] # 0}

\* Mutant: deletes wait for ever.
DeferredAlways == Remaining

(* planQueueDeletes: a terminal failure gets no retry that would run what is held back.
   A sync with an error defers every delete. *)
Deferred ==
  IF ~Flushing THEN IF work.failing THEN Remaining ELSE {}
  ELSE {p \in Remaining :
          \/ work.failing /\ (work.conflicts # {} \/ ~work.terminal \/ work.denied)
          \/ renames[p] \in work.failed}

EndUploads ==
  LET keys == {Delete(p) : p \in Deferred} IN
  /\ work.pc = "uploading" /\ work.todo = {} /\ work.sending = {}
  /\ IF Again THEN Rescan({}) /\ UNCHANGED pending
     ELSE /\ work' = [work EXCEPT !.pc = "deleting", !.todo = Remaining \ Deferred,
                        !.failing = @ \/ Deferred # {}, !.uploads = {},
                        !.conflicts = IF @ # {} THEN @ \cup keys ELSE @]
          /\ pending' = IF Flushing THEN [pending EXCEPT !.queued = @ \cup keys] ELSE pending
  /\ UNCHANGED <<vault, server, manifest, startup, events, verifying, timer, check, reports, applied, used>>

EndDeletes ==
  /\ work.pc = "deleting" /\ work.todo = {} /\ work.sending = {}
  /\ IF Again THEN Rescan({}) ELSE Moves("saving")
  /\ UNCHANGED <<vault, server, manifest, startup, events, queue, check, reports, applied, used>>

-----------------------------------------------------------------------------
(* How work ends.  recheckPendingPaths runs whenever "syncing" is left. *)

EndFlush ==
  /\ Flushing /\ work.pc = "saving"
  /\ pending' = Release(pending, work.batch, work.revisions)
  /\ verifying' = verifying \cup pending'.queued
  /\ reports' = reports \cup {[terminal |-> work.terminal, conflicts |-> work.conflicts,
                               batch |-> work.batch, revisions |-> work.revisions,
                               released |-> TRUE]}
  /\ work' = Idle
  /\ UNCHANGED <<vault, server, manifest, startup, events, timer, check, applied, used>>

(* After the result is recorded: a reconciliation of the paths that lost a
   race, refused during a sync, or the timer of the next attempt. *)
EndReport(r) ==
  /\ r \in reports /\ reports' = reports \ {r}
  /\ pending' = Finalize(pending, r)
  /\ IF r.conflicts # {}
     THEN /\ UNCHANGED timer
          /\ IF Syncing THEN UNCHANGED <<work, check>> ELSE Enter(Reconciliation(r.conflicts))
     ELSE /\ timer' = (timer \/ (pending.queued # {} /\ ~r.terminal))
          /\ UNCHANGED <<work, check>>
  /\ UNCHANGED <<vault, server, manifest, startup, events, verifying, applied, used>>

(* settleSyncResult, with the revisions of the start *)
EndSync ==
  /\ Syncing /\ ~Flushing /\ work.pc = "saving" /\ applied = None
  /\ pending' = IF work.failing THEN pending ELSE Settle(pending, work.settled, work.revisions)
  /\ timer' = (timer /\ pending'.queued # {})
  /\ applied' = [paths |-> IF work.failing THEN {} ELSE work.touched,
                 revisions |-> pending'.revision, kind |-> work.kind]
  /\ owed' = IF work.failing \/ work.kind = "reconcile" THEN owed ELSE {}
  /\ IF work.kind = "reconcile"
     THEN Moves("applying") /\ UNCHANGED verifying
     ELSE work' = Idle /\ verifying' = verifying \cup pending'.queued
  /\ UNCHANGED <<vault, server, manifest, gate, recorded, events, check, reports, used>>

(* settleSynced: the events of the files a sync wrote, by what the files now
   hold; then a start-up sync opens the gate and replays what it recorded. *)
EndApplied ==
  LET keys == {k \in pending.queued \cup pending.inFlight :
                 k[2] \in applied.paths /\ disk[k[2]] = base[k[2]]}
      settled == Settle(pending, keys, applied.revisions)
      opening == applied.kind = "startup"
  IN
  /\ applied # None /\ applied' = None
  /\ pending' = IF opening THEN Restore(settled, recorded) ELSE settled
  /\ timer' = IF opening /\ recorded # {} THEN TRUE ELSE timer /\ pending'.queued # {}
  /\ gate' = IF opening THEN "open" ELSE gate
  /\ recorded' = IF opening THEN {} ELSE recorded
  /\ work' = IF work.pc = "applying" THEN Idle ELSE work
  /\ verifying' = verifying \cup IF opening THEN recorded \cap pending'.queued
                                 ELSE IF work.pc = "applying" THEN pending'.queued ELSE {}
  /\ UNCHANGED <<vault, server, manifest, owed, events, check, reports, used>>

Init ==
  /\ disk = [p \in Path |-> IF p = Stored THEN 1 ELSE 0] /\ made = 1
  /\ server = disk /\ base = disk /\ parent = [c \in Content |-> 0]
  /\ renames = [p \in Path |-> None] /\ journal = [p \in Path |-> None]
  /\ gate = "open" /\ recorded = {} /\ owed = {} /\ events = <<>>
  /\ pending = [queued |-> {}, inFlight |-> {}, revision |-> NoRevisions, next |-> 0]
  /\ verifying = {} /\ check = None /\ timer = FALSE
  /\ work = Idle /\ reports = {} /\ applied = None
  /\ used = [edits |-> 0, foreign |-> 0, losses |-> 0, stops |-> 0]

User == \E p \in Path : Write(p) \/ Remove(p) \/ \E q \in Path : Rename(p, q)

Faults ==
  RecoverFails \/ ScanFails \/ LoseDeletes \/ (\E p \in Path : LoseUpload(p)) \/ Stop

Verification == BeginVerify \/ EndVerify \/ \E k \in Key : Verify(k)

Work ==
  \/ Plan \/ EndScan \/ CheckDeletes \/ SendDeletes \/ EndClearing \/ EndUploads \/ EndDeletes
  \/ EndFlush \/ EndSync
  \/ \E p \in Path : Recover(p) \/ Scan(p) \/ Missed(p) \/ Prepare(p) \/ SendUpload(p)

Next ==
  \/ User \/ Faults \/ Verification \/ Work
  \/ \E p \in Path : Foreign(p)
  \/ Deliver \/ Record
  \/ BeginFlush \/ PeriodicSync \/ Start \/ EndApplied
  \/ \E r \in reports : EndReport(r)

Spec == Init /\ [][Next]_vars

Undisturbed == check # None /\ check.active

(* Timers fire, requests are answered, and the vault delivers its events.  A verification
   starts 250 ms after the work that deferred it, so that now and then one ends before the
   next periodic sync. *)
FairSpec ==
  /\ Spec
  /\ WF_vars(Work) /\ WF_vars(Verification) /\ WF_vars(EndApplied)
  /\ SF_vars(BeginVerify) /\ SF_vars(Undisturbed /\ \E k \in Key : Verify(k))
  /\ SF_vars(Undisturbed /\ EndVerify)
  /\ WF_vars(Deliver \/ Record) /\ WF_vars(\E r \in reports : EndReport(r))
  /\ SF_vars(BeginFlush) /\ SF_vars(PeriodicSync) /\ WF_vars(Start)

-----------------------------------------------------------------------------
(* Properties. *)

Maybe(S) == S \cup {None}

(* The queue, its bookkeeping and the work under way have the shape the code gives
   them, and a key has a revision only while an event for it is unsettled. *)
TypeOK ==
  /\ {disk, server, base} \subseteq [Path -> Content]
  /\ made \in Content /\ renames \in [Path -> Maybe(Path)]
  /\ \A p \in Path : renames[p] # p
  /\ gate \in {"off", "recording", "open"} /\ owed \subseteq Path
  /\ recorded \cup verifying \cup pending.queued \cup pending.inFlight
       \cup work.batch \cup work.settled \cup work.conflicts \subseteq Key
  /\ \A k \in Key : /\ pending.revision[k] \in 0..pending.next
                     /\ pending.revision[k] # 0 => k \in pending.queued \cup pending.inFlight
  /\ timer \in BOOLEAN /\ (gate # "open" => reports = {} /\ pending.queued = {})

(* The keys in flight are those of the flush under way, and no others: a flush
   whose result is still being recorded has given up its own. *)
InFlightIsTheFlush == pending.inFlight = IF Flushing THEN work.batch ELSE {}

(* A change of the vault is never forgotten: a file that differs from its baseline
   has a key in the queue or in flight, an event on its way or recorded, or it
   changed while nothing was running and no sync has succeeded since. *)
NoChangeForgotten ==
  gate # "off" => \A p \in Path : disk[p] # base[p] =>
    \/ p \in owed
    \/ p \in PathsOf(pending.queued \cup pending.inFlight \cup recorded)
    \/ \E i \in DOMAIN events : p \in {events[i][2], events[i][Len(events[i])]}

(* Every ancestor of a content, and itself *)
Lineage(c) ==
  LET up[i \in 0..Cardinality(Content)] == IF i = 0 THEN c
        ELSE IF up[i - 1] = 0 THEN 0 ELSE parent[up[i - 1]]
  IN {up[i] : i \in DOMAIN up} \ {0}

\* This device sends the delete of an old name of the file that is now q, and no rename is
\* on its way to the queue.  A pair the server cannot store together is left out.
SendsOldName(p, q) ==
  /\ work.pc \in {"clearing", "deleting"} /\ work.sending = {} /\ events = <<>> /\ recorded = {}
  /\ p \in work'.sending /\ server[p] # 0 /\ p # q /\ p \notin Twins(q)
  /\ disk[q] # 0 /\ server[p] \in Lineage(disk[q])

(* A file the user only renamed or edited keeps a copy on the server: when this device sends
   the delete of an old name, the server has, or has acknowledged, a version of the file
   under another name.  (The code goes by the baseline of that name, which is stale if
   the answer to its own delete was lost: renamed back then, the file is on the server no
   more.  A third name is beyond it: a file renamed offline or during the start-up sync has
   no dependency, and renaming it again during the next upload lets the delete go first.) *)
RenameKeepsACopy ==
  [][\A p, q \in Path : SendsOldName(p, q) =>
       \E r \in Path \ {p} : {server[r], base[r]} \cap Lineage(disk[q]) # {}]_vars

(* A flush of a rename that only changes the case of a name is never refused: its delete
   comes first, and an upload whose delete failed waits.  Only what the flush could not
   know can make the server refuse the name: a change since it began, another device's
   change, or the old name of a file renamed while nothing ran, which no sync has settled
   yet.  (A sync sends its uploads even if the delete failed: the server refuses.) *)
NoVariantRefused ==
  Flushing /\ work.clash =>
    \/ used.edits > work.seen \/ used.foreign > 0
    \/ \E p \in owed : Twins(p) \cap work.failed # {}

Agreed ==
  gate = "open" /\ \A p \in Path : disk[p] = server[p] /\ base[p] = disk[p]

(* Once the user and the faults stop, every change reaches the server and every
   remote change the vault, and of the queue nothing stays but the delete of a file
   that is there again (whose reconciliation failed: a periodic sync does not settle it). *)
Settles ==
  <>[](Agreed /\ pending.inFlight = {} /\ \A k \in pending.queued : k[1] = "delete" /\ disk[k[2]] # 0)

=============================================================================
