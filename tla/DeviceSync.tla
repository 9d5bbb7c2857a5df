----------------------------- MODULE DeviceSync -----------------------------
(***************************************************************************)
(* One device's syncs against the server (sync/planner, sync/engine,        *)
(* sync/transfer, sync/local; worker/sync/metadata-handlers.ts): it reads   *)
(* the changelog from its cursor, or the whole manifest, page by page,      *)
(* scans the vault, decides each path by three states, and applies the      *)
(* decisions while the user and other devices go on changing both sides.    *)
(*                                                                          *)
(* A content is a number, 0 is an absent file.  The n-th row of the         *)
(* changelog has sequence number n and gives a file the revision n.  Every  *)
(* request is answered; lost answers are SyncQueue's subject, names that    *)
(* differ in case too.  Files that need a review because they are no text,  *)
(* skipped files and encryption are left out.  Other devices are changes on *)
(* the server, by edits of what is there.                                   *)
(***************************************************************************)
EXTENDS Integers, Sequences

CONSTANTS
  Path,         \* numbers, in the order of the manifest's pages
  ChangesPage,  \* rows of the changelog in a page
  MaxTries,     \* MAX_RECONCILE_ATTEMPTS: 3 in the code
  MaxCopies,    \* MAX_CONFLICT_COPY_ATTEMPTS: 3 in the code
  MaxMade,      \* bound: contents
  MaxSeq,       \* bound: changes on the server
  MaxRemovals,  \* bound: files the user removes
  MaxStops,     \* bound: syncs that are cut short
  Undo          \* whether the user goes back to earlier contents during a sync, too

ASSUME PathAssumption == Path \subseteq Nat \ {0}

ASSUME BoundAssumption ==
  /\ ChangesPage \in Nat \ {0} /\ {MaxTries, MaxCopies} \subseteq Nat \ {0}
  /\ Undo \in BOOLEAN
  /\ {MaxMade, MaxSeq, MaxRemovals, MaxStops} \subseteq Nat

Content == 0..MaxMade

(* A version: of a row, of a manifest entry, of the baseline *)
Version == [hash : Content, rev : 0..MaxSeq]

Gone == [hash |-> 0, rev |-> 0]

Action == {"none", "upload", "download", "conflict", "delete", "deleteLocal"}

Plan == [act : Action, local : Content, remote : Content, rev : 0..MaxSeq]

Job == [stage : {"todo", "held", "merged", "copied", "done"}, content : Content,
        rev : 0..MaxSeq, read : Content, tries : 0..MaxTries, copies : 0..MaxCopies]

VARIABLES
  rows,      \* files
  log,       \* changelog, with the rows that were pruned
  pruned,    \* how many of them were
  disk,      \* the vault
  base,      \* LocalManifest
  saved,     \* the manifest as of its last save
  cursor,    \* lastSeq in the settings
  copies,    \* contents in conflict copies and in the trash
  sync,      \* the sync under way
  made,      \* contents made so far
  origins,   \* per content the contents it was made from, itself included (history)
  dropped,   \* contents somebody removed or went back from (history)
  used       \* removals and stops so far

server == <<rows, log, pruned>>
device == <<disk, base, saved, cursor, copies>>
history == <<made, origins, dropped>>
vars == <<server, device, sync, history, used>>

NoPlan == [act |-> "none", local |-> 0, remote |-> 0, rev |-> 0]

Done == [stage |-> "done", content |-> 0, rev |-> 0, read |-> 0, tries |-> 0, copies |-> 0]

Todo(tries) == [Done EXCEPT !.stage = "todo", !.tries = tries]

Idle ==
  [pc |-> "idle", full |-> FALSE, since |-> 0, snapshot |-> 0, after |-> 0, last |-> 0,
   remote |-> [p \in Path |-> Gone], changed |-> {}, scanned |-> FALSE,
   local |-> [p \in Path |-> 0], todo |-> {}, plan |-> [p \in Path |-> NoPlan],
   job |-> [p \in Path |-> Done], failed |-> FALSE, quiet |-> TRUE]

Last == Len(log)

(* A publication or deletion: the row and its line in the changelog *)
Publish(p, hash) ==
  /\ Last < MaxSeq
  /\ log' = Append(log, [path |-> p, hash |-> hash])
  /\ rows' = [rows EXCEPT ![p] = IF hash = 0 THEN Gone ELSE [hash |-> hash, rev |-> Last + 1]]
  /\ UNCHANGED pruned

(* A new content, made from those of `from` *)
Make(from) ==
  /\ made < MaxMade /\ made' = made + 1
  /\ origins' = [origins EXCEPT ![made'] = {made'} \cup UNION {origins[c] : c \in from}]

Disturbs == sync' = [sync EXCEPT !.quiet = FALSE]

-----------------------------------------------------------------------------
(* The user and the other devices. *)

Write(p) ==
  /\ Make({disk[p]} \ {0})
  /\ disk' = [disk EXCEPT ![p] = made']
  /\ Disturbs
  /\ UNCHANGED <<server, base, saved, cursor, copies, dropped, used>>

(* The user restores an earlier content of the file, as an undo does. *)
GoBack(p) ==
  /\ Undo \/ sync.pc = "idle"
  /\ disk[p] # 0
  /\ \E c \in origins[disk[p]] \ {disk[p]} :
       /\ disk' = [disk EXCEPT ![p] = c]
       /\ dropped' = dropped \cup (origins[disk[p]] \ origins[c])
  /\ Disturbs
  /\ UNCHANGED <<server, base, saved, cursor, copies, made, origins, used>>

Remove(p) ==
  /\ disk[p] # 0 /\ used.removals < MaxRemovals
  /\ disk' = [disk EXCEPT ![p] = 0]
  /\ dropped' = dropped \cup origins[disk[p]]
  /\ used' = [used EXCEPT !.removals = @ + 1]
  /\ Disturbs
  /\ UNCHANGED <<server, base, saved, cursor, copies, made, origins>>

Foreign(p) ==
  /\ \/ Make({rows[p].hash} \ {0}) /\ Publish(p, made') /\ UNCHANGED dropped
     \/ /\ rows[p] # Gone /\ Publish(p, 0)
        /\ dropped' = dropped \cup origins[rows[p].hash]
        /\ UNCHANGED <<made, origins>>
  /\ Disturbs
  /\ UNCHANGED <<device, used>>

(* pruneChangelog: the oldest rows, never the newest.  (Rows live for days: those of a
   server that was empty when the first page was read outlive the reading.) *)
Prune ==
  /\ pruned' \in (pruned + 1)..(Last - 1)
  /\ sync.pc = "replay" => sync.since > 0
  /\ Disturbs
  /\ UNCHANGED <<rows, log, device, history, used>>

-----------------------------------------------------------------------------
(* The server's pages. *)

\* Mutant: a cursor before the retained rows is served what is left.
NeverExpired(since) == FALSE

(* isChangelogCursorExpired *)
Expired(since) == since > 0 /\ since # Last /\ since < pruned

Lesser(m, n) == IF m < n THEN m ELSE n

Greater(m, n) == IF m < n THEN n ELSE m

(* handleGetChanges: the rows after `since`, and whether there may be more *)
PageFrom(since) == Greater(since, pruned) + 1

PageTo(since) == Lesser(PageFrom(since) + ChangesPage - 1, Last)

HasMore(since) == PageTo(since) = PageFrom(since) + ChangesPage - 1

InPage(since, p) == {n \in PageFrom(since)..PageTo(since) : log[n].path = p}

VersionAt(n) == IF log[n].hash = 0 THEN Gone ELSE [hash |-> log[n].hash, rev |-> n]

Newest(ns) == CHOOSE n \in ns : \A m \in ns : m <= n

(* The later of two lines for a path replaces the earlier one. *)
Replayed(since, remote) ==
  [p \in Path |-> IF InPage(since, p) = {} THEN remote[p] ELSE VersionAt(Newest(InPage(since, p)))]

-----------------------------------------------------------------------------
(* Reading the server's side. *)

Begin ==
  /\ sync.pc = "idle"
  /\ sync' = [Idle EXCEPT !.pc = IF cursor > 0 THEN "changes" ELSE "manifest",
                          !.full = cursor = 0, !.since = cursor]
  /\ UNCHANGED <<server, device, history, used>>

Ends(saving, success) ==
  /\ sync' = Idle
  /\ saved' = IF saving THEN base ELSE saved
  /\ cursor' = IF success /\ sync.last > 0 THEN sync.last ELSE cursor
  /\ UNCHANGED <<disk, base, copies>>

\* Mutant: the new cursor is one too far.
FollowPast(next) ==
  LET since == sync.since IN
  sync' = [sync EXCEPT
    !.remote = Replayed(since, @), !.changed = @ \cup {p \in Path : InPage(since, p) # {}},
    !.since = IF HasMore(since) THEN PageTo(since) ELSE @,
    !.last = Last + 1, !.pc = IF HasMore(since) THEN @ ELSE next]

(* One page of changes; the last response gives the new cursor. *)
Follow(next) ==
  LET since == sync.since IN
  sync' = [sync EXCEPT
    !.remote = Replayed(since, @), !.changed = @ \cup {p \in Path : InPage(since, p) # {}},
    !.since = IF HasMore(since) THEN PageTo(since) ELSE @,
    !.last = Last, !.pc = IF HasMore(since) THEN @ ELSE next]

(* readIncrementalChangelog: an expired cursor falls back to a full sync. *)
ReadChanges ==
  /\ sync.pc = "changes"
  /\ IF Expired(sync.since)
     THEN sync' = [Idle EXCEPT !.pc = "manifest", !.full = TRUE, !.quiet = sync.quiet]
     ELSE Follow("scan")
  /\ UNCHANGED <<server, device, history, used>>

(* getManifest, one file in a page; the first page fixes the snapshot. *)
ReadManifest ==
  LET next == {p \in Path : p > sync.after /\ rows[p] # Gone}
      page == {p \in next : \A q \in next : p <= q}
      snapshot == IF sync.after = 0 THEN Last ELSE sync.snapshot
  IN
  /\ sync.pc = "manifest"
  /\ \E after \in IF next = {} THEN {sync.after} ELSE page :
       sync' = [sync EXCEPT !.snapshot = snapshot, !.since = snapshot, !.after = after,
         !.remote = [p \in Path |-> IF p \in page THEN rows[p] ELSE @[p]],
         !.pc = IF next = page THEN "replay" ELSE @]
  /\ UNCHANGED <<server, device, history, used>>

(* Then the changes since the snapshot, all of which must still be there *)
ReplayChanges ==
  /\ sync.pc = "replay"
  /\ IF Expired(sync.since) THEN Ends(FALSE, FALSE)
     ELSE Follow("scan") /\ UNCHANGED device
  /\ UNCHANGED <<server, history, used>>

(* An incremental sync scans after it read the changes, a full sync meanwhile. *)
Scan ==
  /\ ~sync.scanned
  /\ sync.pc = "scan" \/ (sync.full /\ sync.pc \in {"manifest", "replay"})
  /\ sync' = [sync EXCEPT !.scanned = TRUE, !.local = disk]
  /\ UNCHANGED <<server, device, history, used>>

-----------------------------------------------------------------------------
(* Decisions. *)

(* classifyPath *)
Decision(l, r, b) ==
  LET act ==
        IF l = r.hash THEN "none"
        ELSE IF l # 0 /\ r.hash # 0
        THEN IF b.hash \notin {l, r.hash} THEN "conflict"
             ELSE IF b.hash = l THEN "download" ELSE "upload"
        ELSE IF l # 0 THEN IF l = b.hash THEN "deleteLocal" ELSE "upload"
        ELSE IF r.hash = b.hash /\ b.rev # 0 /\ r.rev = b.rev THEN "delete" ELSE "download"
  IN [act |-> act, local |-> l, remote |-> r.hash, rev |-> r.rev]

\* Mutant: the baseline stays as it was.
AgreedKept(l, r, b) == b

(* The baseline of a path on which both sides agree *)
Agreed(l, r, b) == IF l # r.hash THEN b ELSE IF l = 0 THEN Gone ELSE r

(* createFullSyncPlan, with the baselines runFullSync gives the paths that agree *)
PlanFull ==
  LET plan == [p \in Path |-> Decision(sync.local[p], sync.remote[p], base[p])] IN
  /\ sync.full /\ sync.pc = "scan" /\ sync.scanned
  /\ sync' = [sync EXCEPT !.pc = "apply", !.plan = plan,
        !.job = [p \in Path |-> IF plan[p].act = "none" THEN Done ELSE Todo(0)]]
  /\ base' = [p \in Path |-> Agreed(sync.local[p], sync.remote[p], base[p])]
  /\ UNCHANGED <<server, disk, saved, cursor, copies, history, used>>

(* What the scan says of a path *)
Edited(p) == sync.local[p] # 0 /\ sync.local[p] # base[p].hash

Missing(p) == sync.local[p] = 0 /\ base[p].hash # 0

(* An upload over the version of the baseline, or of a file that is gone *)
UploadOver(hash) == [NoPlan EXCEPT !.act = "upload", !.remote = hash]

(* A path without a remote change *)
LocalOnly(p) ==
  IF Edited(p) THEN UploadOver(base[p].hash)
  ELSE IF Missing(p) THEN [act |-> "delete", local |-> 0, remote |-> base[p].hash, rev |-> base[p].rev]
  ELSE NoPlan

PlanIncremental ==
  LET plan == [p \in Path |-> IF p \in sync.changed THEN NoPlan ELSE LocalOnly(p)] IN
  /\ ~sync.full /\ sync.pc = "scan" /\ sync.scanned
  /\ sync' = [sync EXCEPT !.pc = "reconcile", !.todo = sync.changed, !.plan = plan,
        !.job = [p \in Path |-> IF plan[p].act = "none" THEN Done ELSE Todo(0)]]
  /\ UNCHANGED <<server, device, history, used>>

(* The remote deletion of a path *)
Deletion(p) ==
  IF Edited(p) THEN UploadOver(0)
  ELSE IF base[p] = Gone THEN NoPlan
  ELSE [NoPlan EXCEPT !.act = "deleteLocal", !.local = base[p].hash]

(* The remote version of a path, against what the file now holds; what is missing is
   downloaded, and a deletion was one already when the vault was scanned. *)
Change(p) ==
  LET plan == Decision(disk[p], sync.remote[p], base[p]) IN
  IF Missing(p) THEN Decision(0, sync.remote[p], base[p])
  ELSE IF plan.act = "delete" THEN [plan EXCEPT !.act = "download"]
  ELSE plan

(* reconcileIncrementalRemoteChanges, one path *)
Reconcile(p) ==
  LET remote == sync.remote[p]
      plan == IF remote = Gone THEN Deletion(p) ELSE Change(p)
  IN
  /\ sync.pc = "reconcile" /\ p \in sync.todo
  /\ sync' = [sync EXCEPT !.todo = @ \ {p}, !.plan[p] = plan,
                          !.job[p] = IF plan.act = "none" THEN Done ELSE Todo(0)]
  /\ base' = IF remote # Gone /\ ~Missing(p)
             THEN [base EXCEPT ![p] = Agreed(disk[p], remote, @)] ELSE base
  /\ UNCHANGED <<server, disk, saved, cursor, copies, history, used>>

EndReconcile ==
  /\ sync.pc = "reconcile" /\ sync.todo = {}
  /\ sync' = [sync EXCEPT !.pc = "apply"]
  /\ UNCHANGED <<server, device, history, used>>

-----------------------------------------------------------------------------
(* Applying the decisions, path by path. *)

At(p, act, stage) ==
  sync.pc = "apply" /\ sync.plan[p].act = act /\ sync.job[p].stage = stage

Move(p, job) == sync' = [sync EXCEPT !.job[p] = job]

Finish(p) == Move(p, Done)

Fail(p) == sync' = [sync EXCEPT !.job[p] = Done, !.failed = TRUE]

SetBase(p, version) == base' = [base EXCEPT ![p] = version]

(* reconcileVersionConflicts: the path is decided again by what both sides hold now (read
   one after the other by the code; either may change before the decision is applied). *)
AgainFrom(p, baseline) ==
  LET plan == Decision(disk[p], rows[p], baseline)
      tries == sync.job[p].tries + 1
  IN
  IF tries > MaxTries THEN Fail(p) /\ SetBase(p, baseline)
  ELSE /\ sync' = [sync EXCEPT !.plan[p] = plan,
                              !.job[p] = IF plan.act = "none" THEN Done ELSE Todo(tries)]
       /\ SetBase(p, Agreed(disk[p], rows[p], baseline))

Again(p) == AgainFrom(p, base[p])

(* A write that is deferred or raced fails the first time, and is decided again when
   the path is being reconciled. *)
LosesFrom(p, baseline) ==
  IF sync.job[p].tries = 0 THEN Fail(p) /\ SetBase(p, baseline) ELSE AgainFrom(p, baseline)

Loses(p) == LosesFrom(p, base[p])

(* downloadFile, validateDownloadedContent: another version is refused. *)
Fetch(p) ==
  /\ At(p, "download", "todo") \/ At(p, "conflict", "todo")
  /\ IF rows[p].hash = sync.plan[p].remote /\ rows[p] # Gone
     THEN /\ Move(p, [sync.job[p] EXCEPT !.stage = "held", !.content = rows[p].hash,
                                        !.rev = rows[p].rev])
          /\ UNCHANGED base
     ELSE Loses(p)
  /\ UNCHANGED <<server, disk, saved, cursor, copies, history, used>>

(* recordAppliedContent *)
Applied(p) ==
  /\ disk' = [disk EXCEPT ![p] = sync.job[p].content]
  /\ SetBase(p, [hash |-> sync.job[p].content, rev |-> sync.job[p].rev])
  /\ Finish(p)

\* Mutant: the download replaces whatever the file holds.
DownloadOver(p) ==
  /\ At(p, "download", "held") /\ Applied(p)
  /\ UNCHANGED <<server, saved, cursor, copies, history, used>>

(* applyRemoteContentIfUnchanged *)
Download(p) ==
  /\ At(p, "download", "held")
  /\ IF disk[p] = sync.plan[p].local THEN Applied(p) ELSE Loses(p) /\ UNCHANGED disk
  /\ UNCHANGED <<server, saved, cursor, copies, history, used>>

(* A conflict over a file that is gone *)
NothingToResolve(p) ==
  /\ At(p, "conflict", "held") /\ disk[p] = 0 /\ Loses(p)
  /\ UNCHANGED <<server, disk, saved, cursor, copies, history, used>>

(* tryAutoMergeMarkdownConflict: the merge is uploaded over the version it merged. *)
SendMerge(p) ==
  /\ At(p, "conflict", "held") /\ disk[p] # 0 /\ base[p] # Gone
  /\ IF rows[p].hash = sync.plan[p].remote
     THEN /\ Make({disk[p], sync.job[p].content}) /\ Publish(p, made')
          /\ Move(p, [sync.job[p] EXCEPT !.stage = "merged", !.content = made',
                                        !.rev = Last + 1, !.read = disk[p]])
          /\ UNCHANGED base
     ELSE Loses(p) /\ UNCHANGED <<server, made, origins>>
  /\ UNCHANGED <<disk, saved, cursor, copies, dropped, used>>

(* A file edited meanwhile stays; what was merged of it becomes the baseline. *)
ApplyMerge(p) ==
  /\ At(p, "conflict", "merged")
  /\ IF disk[p] = sync.job[p].read THEN Applied(p)
     ELSE LosesFrom(p, [hash |-> sync.job[p].read, rev |-> 0]) /\ UNCHANGED disk
  /\ UNCHANGED <<server, saved, cursor, copies, history, used>>

(* preserveLocalVersionsAndApplyRemote: a conflict copy, and one more for every edit
   that arrives before the remote version is written *)
CopyLocal(p) ==
  LET job == sync.job[p] IN
  /\ \/ At(p, "conflict", "held")
     \/ At(p, "conflict", "copied") /\ disk[p] # job.read /\ job.copies < MaxCopies
  /\ disk[p] # 0
  /\ copies' = copies \cup {disk[p]}
  /\ Move(p, [job EXCEPT !.stage = "copied", !.read = disk[p], !.copies = @ + 1])
  /\ UNCHANGED <<server, disk, base, saved, cursor, history, used>>

(* The remote content replaces what the last copy holds.  An edit since the file was last
   looked at defers it, as one does that needs a copy too many. *)
ApplyRemote(p) ==
  LET job == sync.job[p] IN
  /\ At(p, "conflict", "copied")
  /\ \/ disk[p] \in {0, job.read} /\ Applied(p)
     \/ disk[p] \notin {0, job.read} /\ Loses(p) /\ UNCHANGED disk
  /\ UNCHANGED <<server, saved, cursor, copies, history, used>>

(* deletePathLocallyIfUnchanged: a file that is gone is settled, one that was edited
   is uploaded again, (an incremental sync does this when it reconciles the path; here it
   may also come later) *)
HashLocal(p) ==
  /\ At(p, "deleteLocal", "todo")
  /\ \/ disk[p] = 0 /\ Finish(p) /\ SetBase(p, Gone)
     \/ disk[p] \notin {0, sync.plan[p].local} /\ UNCHANGED base
        /\ sync' = [sync EXCEPT !.plan[p] = UploadOver(0)]
     \/ disk[p] = sync.plan[p].local /\ Move(p, [sync.job[p] EXCEPT !.stage = "held"])
        /\ UNCHANGED base
  /\ UNCHANGED <<server, disk, saved, cursor, copies, history, used>>

(* and the trash receives what the file holds by then, unless it is another file. *)
TrashLocal(p) ==
  /\ At(p, "deleteLocal", "held")
  /\ \/ /\ disk' = [disk EXCEPT ![p] = 0] /\ copies' = copies \cup ({disk[p]} \ {0})
        /\ SetBase(p, Gone) /\ Finish(p)
     \/ disk[p] \notin {0, sync.plan[p].local} /\ Fail(p) /\ UNCHANGED <<disk, base, copies>>
  /\ UNCHANGED <<server, saved, cursor, history, used>>

(* A full sync and a reconciliation upload the file even if it matches its baseline. *)
Forced(p) == sync.full \/ sync.job[p].tries > 0

(* prepareUploadFromPath *)
Prepare(p) ==
  /\ At(p, "upload", "todo")
  /\ \/ disk[p] = 0 /\ Forced(p) /\ Loses(p)
     \/ disk[p] \in {0, base[p].hash} /\ ~Forced(p) /\ Finish(p) /\ UNCHANGED base
     \/ /\ disk[p] # 0 /\ (disk[p] # base[p].hash \/ Forced(p))
        /\ Move(p, [sync.job[p] EXCEPT !.stage = "held", !.content = disk[p]])
        /\ UNCHANGED base
  /\ UNCHANGED <<server, disk, saved, cursor, copies, history, used>>

(* uploadPreparedFiles; a full sync that finds its deletion of a local file overtaken
   by an edit uploads outside the batches, where a race is an error. *)
SendUpload(p) ==
  LET hash == sync.job[p].content IN
  /\ At(p, "upload", "held")
  /\ IF rows[p].hash = sync.plan[p].remote
     THEN Publish(p, hash) /\ SetBase(p, [hash |-> hash, rev |-> Last + 1]) /\ Finish(p)
     ELSE /\ IF sync.plan[p].local = 0 /\ Forced(p) THEN Loses(p) ELSE Again(p)
          /\ UNCHANGED server
  /\ UNCHANGED <<disk, saved, cursor, copies, history, used>>

(* A deletion that a full sync planned fails when it is overtaken. *)
Overtaken(p) == IF sync.full THEN Loses(p) ELSE Again(p)

(* deleteRemoteFiles: after everything else, and only if nothing failed; a path that is
   being reconciled has results of its own.  A file that is there again, or a baseline
   without a revision, is a race. *)
CheckAbsent(p) ==
  LET own == sync.job[p].tries > 0 IN
  /\ At(p, "delete", "todo")
  /\ own \/ \A q \in Path : sync.plan[q].act # "delete" => sync.job[q] = Done
  /\ \/ sync.failed /\ Fail(p) /\ UNCHANGED base
     \/ (own \/ ~sync.failed)
        /\ IF disk[p] # 0 \/ sync.plan[p].rev = 0 THEN Overtaken(p)
           ELSE Move(p, [sync.job[p] EXCEPT !.stage = "held"]) /\ UNCHANGED base
  /\ UNCHANGED <<server, disk, saved, cursor, copies, history, used>>

SendDelete(p) ==
  LET plan == sync.plan[p] IN
  /\ At(p, "delete", "held")
  /\ \/ rows[p] = [hash |-> plan.remote, rev |-> plan.rev] /\ Publish(p, 0)
        /\ SetBase(p, Gone) /\ Finish(p)
     \/ rows[p] = Gone /\ SetBase(p, Gone) /\ Finish(p) /\ UNCHANGED server
     \/ rows[p] \notin {Gone, [hash |-> plan.remote, rev |-> plan.rev]} /\ Overtaken(p)
        /\ UNCHANGED server
  /\ UNCHANGED <<disk, saved, cursor, copies, history, used>>

Applying(p) ==
  \/ Fetch(p) \/ Download(p) \/ NothingToResolve(p) \/ SendMerge(p) \/ ApplyMerge(p)
  \/ CopyLocal(p) \/ ApplyRemote(p) \/ HashLocal(p) \/ TrashLocal(p)
  \/ Prepare(p) \/ SendUpload(p) \/ CheckAbsent(p) \/ SendDelete(p)

AllDone == \A p \in Path : sync.job[p] = Done

\* Mutant: the cursor advances over a path that failed.
EndSyncRegardless ==
  /\ sync.pc = "apply" /\ AllDone /\ Ends(TRUE, TRUE)
  /\ UNCHANGED <<server, history, used>>

(* finalizeSyncResult: the manifest is saved, and the cursor advances only if nothing failed. *)
EndSync ==
  /\ sync.pc = "apply" /\ AllDone /\ Ends(TRUE, ~sync.failed)
  /\ UNCHANGED <<server, history, used>>

(* The program stops.  Of each path the manifest has what it had at its last save before
   the sync, or what the sync made of it: it is saved while uploads and deletes go on, too. *)
Stop ==
  /\ sync.pc # "idle" /\ used.stops < MaxStops
  /\ sync' = Idle /\ used' = [used EXCEPT !.stops = @ + 1]
  /\ \E kept \in SUBSET Path : base' = [p \in Path |-> IF p \in kept THEN base[p] ELSE saved[p]]
  /\ saved' = base'
  /\ UNCHANGED <<server, disk, cursor, copies, history>>

(* Some files are on the server, and the device is new or has synced them. *)
Init ==
  \E count \in 0..Lesser(MaxMade, MaxSeq), synced \in BOOLEAN :
  \E file \in [1..count -> Path] :
    /\ \A n \in 1..count : \A m \in 1..(n - 1) : file[m] < file[n]
    /\ log = [n \in 1..count |-> [path |-> file[n], hash |-> n]] /\ pruned = 0
    /\ rows \in [Path -> {Gone} \cup {[hash |-> n, rev |-> n] : n \in 1..count}]
    /\ \A p \in Path, n \in 1..count : rows[p].rev = n <=> file[n] = p
    /\ disk = [p \in Path |-> IF synced THEN rows[p].hash ELSE 0]
    /\ base = [p \in Path |-> IF synced THEN rows[p] ELSE Gone] /\ saved = base
    /\ cursor = IF synced THEN count ELSE 0
    /\ copies = {} /\ sync = Idle
    /\ made = count /\ origins = [c \in Content |-> IF c \in 1..count THEN {c} ELSE {}]
    /\ dropped = {} /\ used = [removals |-> 0, stops |-> 0]

Next ==
  \/ \E p \in Path : Write(p) \/ GoBack(p) \/ Remove(p) \/ Foreign(p)
  \/ Prune \/ Begin \/ ReadChanges \/ ReadManifest \/ ReplayChanges \/ Scan
  \/ PlanFull \/ PlanIncremental \/ EndReconcile \/ EndSync \/ Stop
  \/ \E p \in Path : Reconcile(p) \/ Applying(p)

Spec == Init /\ [][Next]_vars

-----------------------------------------------------------------------------
(* Properties. *)

Phase == {"idle", "changes", "manifest", "replay", "scan", "reconcile", "apply"}

SyncRun ==
  [pc : Phase, full : BOOLEAN, since : 0..MaxSeq, snapshot : 0..MaxSeq,
   after : Path \cup {0}, last : 0..MaxSeq, remote : [Path -> Version],
   changed : SUBSET Path, scanned : BOOLEAN, local : [Path -> Content], todo : SUBSET Path,
   plan : [Path -> Plan], job : [Path -> Job], failed : BOOLEAN, quiet : BOOLEAN]

(* No cursor and no page lies beyond the changelog, what is still to be reconciled has
   changed on the server, and a conflict has its copies only once it was preserved. *)
TypeOK ==
  /\ rows \in [Path -> Version] /\ base \in [Path -> Version] /\ saved \in [Path -> Version]
  /\ log \in Seq([path : Path, hash : Content]) /\ Last <= MaxSeq
  /\ disk \in [Path -> Content] /\ copies \subseteq Content /\ dropped \subseteq Content
  /\ made \in Content /\ origins \in [Content -> SUBSET Content]
  /\ pruned \in 0..Last /\ cursor \in 0..Last
  /\ sync \in SyncRun /\ {sync.since, sync.snapshot, sync.last} \subseteq 0..Last
  /\ sync.todo \subseteq sync.changed
  /\ \A p \in Path : sync.job[p].stage # "copied" => sync.job[p].copies = 0
  /\ used \in [removals : 0..MaxRemovals, stops : 0..MaxStops]

LinesOf(p, from, to) == {n \in (from + 1)..to : log[n].path = p}

(* The row of p when the changelog had n lines *)
RowAt(p, n) == IF LinesOf(p, 0, n) = {} THEN Gone ELSE VersionAt(Newest(LinesOf(p, 0, n)))

(* What a sync plans from is the server of one instant, that of the new cursor, although
   it was read page by page while files changed and old rows of the changelog were pruned:
   a full sync has every row of that instant, an incremental one that of every path with
   a change since its cursor. *)
PlansFromAnInstant ==
  sync.pc \in {"scan", "reconcile", "apply"} =>
    \A p \in Path :
      /\ (sync.full \/ p \in sync.changed) => sync.remote[p] = RowAt(p, sync.last)
      /\ (~sync.full /\ LinesOf(p, cursor, sync.last) # {}) => p \in sync.changed

(* Nothing stays hidden behind the cursor: a file that matches its baseline, so that no
   scan reports it, and whose last change on the server the cursor has passed, is what
   the server has.  (With Undo as FALSE: an edit undone while a sync runs hides a deletion,
   see DeletionsReachTheVault.) *)
NothingHidden ==
  \A p \in Path :
    LinesOf(p, cursor, Last) = {} /\ disk[p] = base[p].hash => disk[p] = rows[p].hash

(* What is still somewhere: in the vault, on the server, in a conflict copy or the trash *)
Kept == {disk[p] : p \in Path} \cup {rows[p].hash : p \in Path} \cup copies

(* No content is lost to a sync: unless somebody removed it or went back from it, it is
   part of a file of the vault, of the server, of a conflict copy or of the trash. *)
NoContentLost == \A c \in 1..made : c \in dropped \/ \E k \in Kept : c \in origins[k]

(* A sync during which nothing else happened succeeds, and leaves the vault, the manifest
   and the server equal. *)
QuietSyncAgrees ==
  [][EndSync /\ sync.quiet =>
       ~sync.failed /\ \A p \in Path : disk[p] = rows[p].hash /\ base[p] = rows[p]]_vars

(* docs/sync-pipeline.md: of a file that is unchanged in the vault and deleted on the
   server, the local file is deleted.  So once the cursor has passed the deletion, no
   file is left that matches its baseline. *)
DeletionsReachTheVault ==
  \A p \in Path :
    LinesOf(p, cursor, Last) = {} /\ rows[p] = Gone /\ disk[p] # 0 => disk[p] # base[p].hash

=============================================================================
