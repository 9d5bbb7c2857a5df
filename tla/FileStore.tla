------------------------------ MODULE FileStore ------------------------------
(***************************************************************************)
(* The committed-file store of the Worker (src/src/cloudflare/worker/sync  *)
(* and .../maintenance).  Two services hold its state and share no         *)
(* transaction: D1, whose batches are atomic, holds the tables; R2 holds   *)
(* immutable objects.  An upload leases a fresh key, puts the bytes under  *)
(* it, and publishes the key in one D1 batch.  Requests of many clients,   *)
(* retries of one operation, and maintenance interleave between any two    *)
(* calls.  A request that crashes is one that takes no further step, and   *)
(* an answer the client never receives is one nobody reads.                *)
(*                                                                         *)
(* Every request attempt creates at most one key, and keys are random and  *)
(* never reused, so an attempt and its key are the same element of Upload. *)
(***************************************************************************)
EXTENDS Integers, Sequences, FiniteSets

CONSTANTS
  Path,          \* vault paths
  Clash,         \* the pairs of paths that cannot both exist (portable name or folder/file)
  Hash,          \* file contents, told apart by their SHA-256
  Op,            \* operation IDs of clients
  Upload,        \* request attempts that store bytes, and the R2 key of each
  Note,          \* the attempts that are the server's own note writes
  Deletion,      \* delete requests
  MaxDay,        \* bound: the days the clocks and operation IDs range over
  RetryDays,     \* REMINDER_RETRY_DAYS: how long an operation ID may be retried
  MaxTries,      \* cleanup attempts before a lease is kept for inspection (8)
  None           \* no value

ASSUME ClashAssumption ==
  /\ Clash \subseteq Path \X Path
  /\ \A p, q \in Path : <<p, q>> \in Clash => <<q, p>> \in Clash /\ p # q

ASSUME NoteAssumption == Note \subseteq Upload

ASSUME NumberAssumption ==
  MaxDay \in Nat /\ RetryDays \in Nat \ {0} /\ MaxTries \in Nat \ {0}

(* Markers that are no key, operation or content. *)
NoOp == "no operation"
Absent == "absent"
Maintenance == "maintenance"
Rejected == "rejected"
Conflict == "version conflict"
Outdated == "operation expired"
Unknown == "outcome unknown"

(***************************************************************************)
(* A request: the operation it retries (NoOp for the server's own note     *)
(* writes), its target, the content it stores, the precondition (a content *)
(* hash, and for a restore also the exact revision), the retained version  *)
(* a restore copies, and the day in its operation ID.                      *)
(***************************************************************************)
Day == 0..MaxDay
Request == [op : Op \cup {NoOp}, path : Path, hash : Hash, expected : Hash \cup {Absent},
            revision : Upload \cup {None}, source : Upload \cup {None}, day : Day]

ASSUME MarkerAssumption ==
  /\ {Absent, None, Maintenance, Rejected, Conflict, Outdated, Unknown} \cap Upload = {}
  /\ None \notin {Rejected, Conflict} \cup Request \cup Hash \cup [hash : Hash, revision : Upload]
  /\ NoOp \notin Op
  /\ Absent \notin Hash

(* Clean-up runs, with the keys they work on and what they found about them. *)
Sweeper == Upload \cup {Maintenance}
SweepRun == [step : {"idle", "check", "delete", "leases", "dequeue"},
             keys : SUBSET Upload, unused : SUBSET Upload]
ClaimRun == [step : {"idle", "check", "look", "delete", "finish"},
             keys : SUBSET Upload, visible : SUBSET Upload, finished : SUBSET Upload]

DeletionRun == [step : {"idle", "loaded", "recheck", "deleted", "conflict"},
                revision : Upload \cup {None}]

VARIABLES
  request,    \* client: the payload each operation ID stands for
  now,        \* the day of the server clock, which may be set back
  floor,      \* D1 maintenance_state: the persisted operation floor
  receipts,   \* D1 upload_operations: a revision, Rejected or None
  files,      \* D1 files: the live revision of each path
  versions,   \* D1 file_versions: retained revisions
  expired,    \* the retained revisions whose expires_at has passed
  changelog,  \* D1 changelog, in seq order; a delete's row carries no revision
  queue,      \* D1 object_cleanup_queue
  staged,     \* D1 staged_uploads: the lease row of a key, or "none"
  age,        \* how the clocks stand to the lease's expires_at
  tries,      \* the lease's cleanup attempts
  put,        \* R2: whether the put of a key was issued and has landed
  bucket,     \* R2: the keys whose objects exist
  pc, job, answer,  \* the request attempts
  sweep,      \* the runs of deleteQueuedBucketObjects
  claim,      \* the run of cleanStagedUploads
  deletion    \* the delete requests

d1 == <<floor, receipts, files, versions, expired, changelog, queue, staged, age, tries>>
r2 == <<put, bucket>>
attempts == <<pc, job, answer>>
vars == <<request, now, d1, r2, attempts, sweep, claim, deletion>>

Idle == [step |-> "idle", keys |-> {}, unused |-> {}]
NoClaim == [step |-> "idle", keys |-> {}, visible |-> {}, finished |-> {}]

TypeOK ==
  /\ request \in [Op -> Request \cup {None}]
  /\ now \in Day /\ floor \in Day
  /\ receipts \in [Op -> Upload \cup {Rejected, None}]
  /\ files \in [Path -> Upload \cup {Absent}]
  /\ versions \subseteq Upload /\ expired \subseteq versions
  /\ changelog \in Seq([path : Path, revision : Upload \cup {Absent}])
  /\ queue \subseteq Upload
  /\ staged \in [Upload -> {"none", "pending", "deleting"}]
  /\ age \in [Upload -> {"fresh", "due", "expired", "never"}]
  /\ tries \in [Upload -> 0..MaxTries]
  /\ put \in [Upload -> {"none", "inflight", "landed"}]
  /\ bucket \subseteq Upload
  /\ pc \in [Upload -> {"idle", "begun", "putting", "staged", "reread", "row", "bytes", "discard",
                       "sweeping", "answered"}]
  /\ job \in [Upload -> Request \cup {None}]
  /\ answer \in [Upload -> Upload \cup {None, Conflict, Outdated, Unknown}]
  /\ sweep \in [Sweeper -> SweepRun]
  /\ claim \in ClaimRun
  /\ deletion \in [Deletion -> DeletionRun]

Init ==
  /\ request = [o \in Op |-> None]
  /\ now = 0 /\ floor = 0
  /\ receipts = [o \in Op |-> None]
  /\ files = [p \in Path |-> Absent]
  /\ versions = {} /\ expired = {} /\ queue = {} /\ bucket = {}
  /\ changelog = << >>
  /\ staged = [k \in Upload |-> "none"]
  /\ age = [k \in Upload |-> "fresh"]
  /\ tries = [k \in Upload |-> 0]
  /\ put = [k \in Upload |-> "none"]
  /\ pc = [a \in Upload |-> "idle"]
  /\ job = [a \in Upload |-> None]
  /\ answer = [a \in Upload |-> None]
  /\ sweep = [s \in Sweeper |-> Idle]
  /\ claim = NoClaim
  /\ deletion = [d \in Deletion |-> [step |-> "idle", revision |-> None]]

-----------------------------------------------------------------------------
(* Derived state. *)

Live == {files[p] : p \in Path} \ {Absent}

\* findReferencedStorageKeys: a key is referenced by its live row or a retained version.
Referenced == Live \cup versions

\* The revisions that were ever live; the changelog records each publication.
Published == {changelog[i].revision : i \in DOMAIN changelog} \ {Absent}

Larger(x, y) == IF x >= y THEN x ELSE y

\* Mutant: the window is taken from the clock alone.
OperationFloorUnpersisted == Larger(0, now - (RetryDays - 1))

\* Mutant: the window starts a day after the last retry day.
OperationFloorLate == Larger(floor, now + 1)

\* OPERATION_FLOOR: the persisted floor, or the start of the window when later.
OperationFloor == Larger(floor, now - (RetryDays - 1))

\* OPERATION_VALID
Valid(r) == OperationFloor <= r.day /\ r.day <= now

\* The lease rows of `keys` are deleted, and every other row stays.
DropLeases(keys) ==
  /\ staged' = [k \in Upload |-> IF k \in keys THEN "none" ELSE staged[k]]
  /\ age' = [k \in Upload |-> IF k \in keys THEN "fresh" ELSE age[k]]
  /\ tries' = [k \in Upload |-> IF k \in keys THEN 0 ELSE tries[k]]

-----------------------------------------------------------------------------
(* Clients and clocks. *)

\* Preconditions a client can hold: no file, or a revision it once saw at the path.
Seen(p) == {k \in Published : job[k].path = p}

UploadRequests ==
  [op : Op, path : Path, hash : Hash, expected : Hash \cup {Absent},
   revision : {None}, source : {None}, day : Day]

RestoreRequests ==
  {r \in [op : Op, path : Path, hash : Hash, expected : Hash \cup {Absent},
          revision : Published \cup {None}, source : Published, day : Day] :
     /\ r.path = job[r.source].path /\ r.hash = job[r.source].hash
     /\ IF r.revision = None THEN r.expected = Absent
        ELSE r.revision \in Seen(r.path) /\ r.expected = job[r.revision].hash}

NoteRequests ==
  [op : {NoOp}, path : Path, hash : Hash, expected : Hash \cup {Absent},
   revision : {None}, source : {None}, day : {0}]

\* The client's durable journal fixes what an operation ID means before the first send.
Submit(r) ==
  /\ request[r.op] = None
  /\ request' = [request EXCEPT ![r.op] = r]
  /\ UNCHANGED <<now, d1, r2, attempts, sweep, claim, deletion>>

\* The server clock moves, in either direction.
MoveClock ==
  /\ now' \in Day \ {now}
  /\ UNCHANGED <<request, d1, r2, attempts, sweep, claim, deletion>>

\* expires_at of a lease passes: first for the Worker's clock, which cleanup
\* reads, while the D1 clock, which publication reads, is still behind it.
LeaseAges(k) ==
  /\ staged[k] # "none"
  /\ \/ age[k] = "fresh" /\ age' = [age EXCEPT ![k] = "due"]
     \/ age[k] = "due" /\ age' = [age EXCEPT ![k] = "expired"]
  /\ UNCHANGED <<request, now, floor, receipts, files, versions, expired, changelog, queue,
                 staged, tries, r2, attempts, sweep, claim, deletion>>

VersionAges(k) ==
  /\ k \in versions \ expired
  /\ expired' = expired \cup {k}
  /\ UNCHANGED <<request, now, floor, receipts, files, versions, changelog, queue, staged, age,
                 tries, r2, attempts, sweep, claim, deletion>>

-----------------------------------------------------------------------------
(* Request attempts up to the commit. *)

Respond(a, value) ==
  /\ pc' = [pc EXCEPT ![a] = "answered"]
  /\ answer' = [answer EXCEPT ![a] = value]

\* beginUploadOperation: the stored receipt answers a replay; a new operation
\* must carry a day inside the retry window.
Begin(a, o) ==
  /\ a \notin Note /\ pc[a] = "idle" /\ request[o] # None
  /\ job' = [job EXCEPT ![a] = request[o]]
  /\ \/ /\ receipts[o] # None
        /\ Respond(a, IF receipts[o] = Rejected THEN Conflict ELSE receipts[o])
     \/ /\ receipts[o] = None /\ ~Valid(request[o])
        /\ Respond(a, Outdated)
     \/ /\ receipts[o] = None /\ Valid(request[o])
        /\ pc' = [pc EXCEPT ![a] = "begun"]
        /\ UNCHANGED answer
  /\ UNCHANGED <<request, now, d1, r2, sweep, claim, deletion>>

\* writeCommittedMarkdownFile: the server writes a note of its own, without an operation.
BeginNote(a, r) ==
  /\ a \in Note /\ pc[a] = "idle"
  /\ job' = [job EXCEPT ![a] = r]
  /\ pc' = [pc EXCEPT ![a] = "begun"]
  /\ UNCHANGED <<request, now, d1, r2, answer, sweep, claim, deletion>>

\* trackStagedUploads inserts the lease, then bucket.put is issued.  A crash
\* between the two is a put that never lands.  A restore reads the retained
\* copy first; from then on it holds the bytes and needs the version no more.
Stage(a) ==
  /\ pc[a] = "begun"
  /\ job[a].source # None => job[a].source \in (versions \ expired) \cap bucket
  /\ staged' = [staged EXCEPT ![a] = "pending"]
  /\ put' = [put EXCEPT ![a] = "inflight"]
  /\ pc' = [pc EXCEPT ![a] = "putting"]
  /\ UNCHANGED <<request, now, floor, receipts, files, versions, expired, changelog, queue, age,
                 tries, bucket, job, answer, sweep, claim, deletion>>

\* R2 stores the object, perhaps long after the Worker stopped waiting.
PutLands(k) ==
  /\ put[k] = "inflight"
  /\ put' = [put EXCEPT ![k] = "landed"]
  /\ bucket' = bucket \cup {k}
  /\ UNCHANGED <<request, now, d1, attempts, sweep, claim, deletion>>

PutReturns(a) ==
  /\ pc[a] = "putting" /\ put[a] = "landed"
  /\ pc' = [pc EXCEPT ![a] = "staged"]
  /\ UNCHANGED <<request, now, d1, r2, job, answer, sweep, claim, deletion>>

\* Any failure before the commit is applied ends the attempt and cleans nothing up.
Fail(a) ==
  /\ pc[a] \in {"begun", "putting", "staged"}
  /\ Respond(a, Unknown)
  /\ UNCHANGED <<request, now, d1, r2, job, sweep, claim, deletion>>

-----------------------------------------------------------------------------
(* commitStagedFile: one D1 batch, in one of five outcomes. *)

Target(a) == files[job[a].path]

\* Mutant: the names are checked before the batch only.
NamespaceUnchecked(p) == p \in Path

\* fileNamespaceGuard
NamespaceFree(p) == \A q \in Path : <<p, q>> \in Clash => files[q] = Absent

\* Mutant: any unexpired lease row will do, claimed or not.
LeaseExists(a) == staged[a] # "none" /\ age[a] \in {"fresh", "due"}

\* stagedUploadGuard
LeaseHolds(a) == staged[a] = "pending" /\ age[a] \in {"fresh", "due"}

\* uploadGuard, and the row that uploadMutation inserts or replaces
CanPublish(a) ==
  /\ LeaseHolds(a)
  /\ NamespaceFree(job[a].path)
  /\ job[a].op # NoOp => receipts[job[a].op] = None
  /\ IF job[a].expected = Absent THEN Target(a) = Absent
     ELSE /\ Target(a) # Absent
          /\ job[Target(a)].hash = job[a].expected
          /\ job[a].revision # None => Target(a) = job[a].revision

\* recordUploadReceipt: an operation outside its window makes the receipt NULL,
\* and the constraint on the column aborts the whole batch.
Aborts(a) == job[a].op # NoOp /\ receipts[job[a].op] = None /\ ~Valid(job[a])

\* The replaced copy is retained, or its object is queued.  keepReplacedVersionSql
\* decides by time and size; a restore always keeps the copy it replaces.
Replace(a) ==
  IF Target(a) = Absent THEN UNCHANGED <<versions, queue>>
  ELSE \/ versions' = versions \cup {Target(a)} /\ UNCHANGED queue
       \/ job[a].source = None /\ queue' = queue \cup {Target(a)} /\ UNCHANGED versions

\* Mutant: a restore makes the retained key live again, and discards its own.
PublishRetained(a) ==
  /\ pc[a] = "staged" /\ CanPublish(a) /\ ~Aborts(a)
  /\ versions' = versions \cup ({Target(a)} \ {Absent})
  /\ queue' = IF job[a].source = None THEN queue ELSE queue \cup {a}
  /\ files' = [files EXCEPT ![job[a].path] = IF job[a].source = None THEN a ELSE job[a].source]
  /\ changelog' = Append(changelog, [path |-> job[a].path, revision |-> a])
  /\ DropLeases({a})
  /\ receipts' = IF job[a].op = NoOp THEN receipts ELSE [receipts EXCEPT ![job[a].op] = a]
  /\ Respond(a, a)
  /\ UNCHANGED <<request, now, floor, expired, r2, job, sweep, claim, deletion>>

Publish(a) ==
  /\ pc[a] = "staged" /\ CanPublish(a) /\ ~Aborts(a)
  /\ Replace(a)
  /\ files' = [files EXCEPT ![job[a].path] = a]
  /\ changelog' = Append(changelog, [path |-> job[a].path, revision |-> a])
  /\ DropLeases({a})
  /\ receipts' = IF job[a].op = NoOp THEN receipts ELSE [receipts EXCEPT ![job[a].op] = a]
  /\ Respond(a, a)
  /\ UNCHANGED <<request, now, floor, expired, r2, job, sweep, claim, deletion>>

\* Mutant: only successes are recorded.
RefuseUnrecorded(a) ==
  /\ pc[a] = "staged" /\ ~CanPublish(a) /\ ~Aborts(a)
  /\ job[a].op # NoOp /\ receipts[job[a].op] = None
  /\ pc' = [pc EXCEPT ![a] = "discard"]
  /\ answer' = [answer EXCEPT ![a] = Conflict]
  /\ UNCHANGED <<request, now, d1, r2, job, sweep, claim, deletion>>

\* Mutant: the changelog row does not depend on the revision being live.
RefuseLogged(a) ==
  /\ pc[a] = "staged" /\ ~CanPublish(a) /\ ~Aborts(a)
  /\ job[a].op # NoOp /\ receipts[job[a].op] = None
  /\ receipts' = [receipts EXCEPT ![job[a].op] = Rejected]
  /\ changelog' = Append(changelog, [path |-> job[a].path, revision |-> a])
  /\ pc' = [pc EXCEPT ![a] = "discard"]
  /\ answer' = [answer EXCEPT ![a] = Conflict]
  /\ UNCHANGED <<request, now, floor, files, versions, expired, queue, staged, age, tries, r2, job,
                 sweep, claim, deletion>>

\* "A request that once failed may never become a new write on a later retry."
Refuse(a) ==
  /\ pc[a] = "staged" /\ ~CanPublish(a) /\ ~Aborts(a)
  /\ job[a].op # NoOp /\ receipts[job[a].op] = None
  /\ receipts' = [receipts EXCEPT ![job[a].op] = Rejected]
  /\ pc' = [pc EXCEPT ![a] = "discard"]
  /\ answer' = [answer EXCEPT ![a] = Conflict]
  /\ UNCHANGED <<request, now, floor, files, versions, expired, changelog, queue, staged, age,
                 tries, r2, job, sweep, claim, deletion>>

Abort(a) ==
  /\ pc[a] = "staged" /\ Aborts(a)
  /\ Respond(a, Unknown)
  /\ UNCHANGED <<request, now, d1, r2, job, sweep, claim, deletion>>

\* Nothing changed: another attempt recorded the receipt, or a note's precondition
\* failed.  What to answer is read afterwards, in a query of its own.
Miss(a) ==
  /\ pc[a] = "staged" /\ ~CanPublish(a)
  /\ job[a].op # NoOp => receipts[job[a].op] # None
  /\ pc' = [pc EXCEPT ![a] = "reread"]
  /\ UNCHANGED <<request, now, d1, r2, job, answer, sweep, claim, deletion>>

\* readUploadReceipt.  Pruning may have removed the receipt since the batch.
ReadReceipt(a) ==
  /\ pc[a] = "reread" /\ job[a].op # NoOp
  /\ LET receipt == receipts[job[a].op] IN
     IF receipt = None THEN Respond(a, Unknown)
     ELSE /\ pc' = [pc EXCEPT ![a] = "discard"]
          /\ answer' = [answer EXCEPT ![a] = IF receipt = Rejected THEN Conflict ELSE receipt]
  /\ UNCHANGED <<request, now, d1, r2, job, sweep, claim, deletion>>

\* A note's batch that changed nothing: first assertFileNamespaceAvailable looks
\* for a name that clashes.
ReadNames(a) ==
  /\ pc[a] = "reread" /\ job[a].op = NoOp
  /\ \/ /\ NamespaceFree(job[a].path)
        /\ pc' = [pc EXCEPT ![a] = "row"]
        /\ UNCHANGED answer
     \/ /\ ~NamespaceFree(job[a].path)
        /\ pc' = [pc EXCEPT ![a] = "discard"]
        /\ answer' = [answer EXCEPT ![a] = Conflict]
  /\ UNCHANGED <<request, now, d1, r2, job, sweep, claim, deletion>>

\* Mutant: whatever is live is taken for the note's bytes.
ReadRowUnverified(a) ==
  /\ pc[a] = "row" /\ job[a].op = NoOp /\ Target(a) # Absent
  /\ pc' = [pc EXCEPT ![a] = "bytes"]
  /\ answer' = [answer EXCEPT ![a] = Target(a)]
  /\ UNCHANGED <<request, now, d1, r2, job, sweep, claim, deletion>>

\* Then the live row is read: a note whose bytes are already live has succeeded,
\* unless the caller's extra statements had to commit with it.
ReadRow(a) ==
  /\ pc[a] = "row" /\ job[a].op = NoOp
  /\ \/ /\ pc' = [pc EXCEPT ![a] = "discard"]
        /\ answer' = [answer EXCEPT ![a] = Conflict]
     \/ /\ Target(a) # Absent /\ job[Target(a)].hash = job[a].hash
        /\ pc' = [pc EXCEPT ![a] = "bytes"]
        /\ answer' = [answer EXCEPT ![a] = Target(a)]
  /\ UNCHANGED <<request, now, d1, r2, job, sweep, claim, deletion>>

\* readVerifiedBytes: clean-up may have taken the object since the row was read,
\* and then the request fails and cleans nothing up.
ReadBytes(a) ==
  /\ pc[a] = "bytes"
  /\ IF answer[a] \in bucket THEN pc' = [pc EXCEPT ![a] = "discard"] /\ UNCHANGED answer
     ELSE Respond(a, Unknown)
  /\ UNCHANGED <<request, now, d1, r2, job, sweep, claim, deletion>>

-----------------------------------------------------------------------------
(* Deletions. *)

\* handleBatchDelete reads the current rows before it deletes any of them.  The
\* client names the exact revision it consumes.
LoadDeletion(d, k) ==
  /\ deletion[d].step = "idle"
  /\ deletion' = [deletion EXCEPT ![d] =
        [step |-> IF files[job[k].path] = Absent THEN "deleted" ELSE "loaded",
         revision |-> k]]
  /\ UNCHANGED <<request, now, d1, r2, attempts, sweep, claim>>

\* Mutant: the batch deletes whatever is live at the path.
CommitDeletionAnyway(d) ==
  LET p == job[deletion[d].revision].path IN
  /\ deletion[d].step = "loaded"
  /\ files[p] # Absent
  /\ files' = [files EXCEPT ![p] = Absent]
  /\ versions' = versions \cup {files[p]}
  /\ changelog' = Append(changelog, [path |-> p, revision |-> Absent])
  /\ deletion' = [deletion EXCEPT ![d].step = "deleted"]
  /\ UNCHANGED <<request, now, floor, receipts, expired, queue, staged, age, tries, r2, attempts,
                 sweep, claim>>

\* commitFileDelete's batch
CommitDeletion(d) ==
  LET k == deletion[d].revision
      p == job[k].path
  IN
  /\ deletion[d].step = "loaded"
  /\ IF files[p] = k
     THEN /\ files' = [files EXCEPT ![p] = Absent]
          /\ versions' = versions \cup {k}
          /\ changelog' = Append(changelog, [path |-> p, revision |-> Absent])
          /\ deletion' = [deletion EXCEPT ![d].step = "deleted"]
     ELSE /\ deletion' = [deletion EXCEPT ![d].step = "recheck"]
          /\ UNCHANGED <<files, versions, changelog>>
  /\ UNCHANGED <<request, now, floor, receipts, expired, queue, staged, age, tries, r2, attempts,
                 sweep, claim>>

\* A path that has meanwhile become absent is an idempotent success.
RecheckDeletion(d) ==
  /\ deletion[d].step = "recheck"
  /\ deletion' = [deletion EXCEPT ![d].step =
        IF files[job[deletion[d].revision].path] = Absent THEN "deleted" ELSE "conflict"]
  /\ UNCHANGED <<request, now, d1, r2, attempts, sweep, claim>>

-----------------------------------------------------------------------------
(* deleteQueuedBucketObjects: an attempt runs it on the key it gave up, and     *)
(* maintenance on the queued keys.  Every step is a call of its own.           *)

\* deleteBucketObjectsOrQueue queues the key first, and goes on if that fails.
QueueDiscard(a) ==
  /\ pc[a] = "discard"
  /\ queue' \in {queue, queue \cup {a}}
  /\ sweep' = [sweep EXCEPT ![a] = [step |-> "check", keys |-> {a}, unused |-> {}]]
  /\ pc' = [pc EXCEPT ![a] = "sweeping"]
  /\ UNCHANGED <<request, now, floor, receipts, files, versions, expired, changelog, staged, age,
                 tries, r2, job, answer, claim, deletion>>

\* One maintenance pass runs at a time, and its tasks run one after another.
MaintenanceFree == sweep[Maintenance].step = "idle" /\ claim.step = "idle"

\* drainObjectCleanupQueue
DrainQueue ==
  /\ MaintenanceFree /\ queue # {}
  /\ sweep' = [sweep EXCEPT ![Maintenance] = [step |-> "check", keys |-> queue, unused |-> {}]]
  /\ UNCHANGED <<request, now, d1, r2, attempts, claim, deletion>>

SweepCheck(s) ==
  LET unused == sweep[s].keys \ Referenced IN
  /\ sweep[s].step = "check"
  /\ sweep' = [sweep EXCEPT ![s].step = IF unused = {} THEN "leases" ELSE "delete",
                            ![s].unused = unused]
  /\ UNCHANGED <<request, now, d1, r2, attempts, claim, deletion>>

SweepDelete(s) ==
  /\ sweep[s].step = "delete"
  /\ bucket' = bucket \ sweep[s].unused
  /\ sweep' = [sweep EXCEPT ![s].step = "leases", ![s].unused = {}]
  /\ UNCHANGED <<request, now, d1, put, attempts, claim, deletion>>

SweepLeases(s) ==
  /\ sweep[s].step = "leases"
  /\ DropLeases(sweep[s].keys)
  /\ sweep' = [sweep EXCEPT ![s].step = "dequeue"]
  /\ UNCHANGED <<request, now, floor, receipts, files, versions, expired, changelog, queue, r2,
                 attempts, claim, deletion>>

\* The attempt answers once its clean-up has ended, well or not.
EndSweep(s) ==
  /\ sweep' = [sweep EXCEPT ![s] = Idle]
  /\ pc' = [a \in Upload |-> IF a = s THEN "answered" ELSE pc[a]]

SweepDequeue(s) ==
  /\ sweep[s].step = "dequeue"
  /\ queue' = queue \ sweep[s].keys
  /\ EndSweep(s)
  /\ UNCHANGED <<request, now, floor, receipts, files, versions, expired, changelog, staged, age,
                 tries, r2, job, answer, claim, deletion>>

\* A call fails, and the rest is left to a later pass.  A failed R2 delete may
\* have removed some of its objects.
SweepFails(s) ==
  /\ sweep[s].step # "idle"
  /\ \E gone \in SUBSET sweep[s].unused :
        /\ gone # {} => sweep[s].step = "delete"
        /\ bucket' = bucket \ gone
  /\ EndSweep(s)
  /\ UNCHANGED <<request, now, d1, put, job, answer, claim, deletion>>

-----------------------------------------------------------------------------
(* Maintenance. *)

\* enqueueExpiredFileVersions
ExpireVersions ==
  /\ MaintenanceFree /\ expired # {}
  /\ queue' = queue \cup expired
  /\ versions' = versions \ expired
  /\ expired' = {}
  /\ UNCHANGED <<request, now, floor, receipts, files, changelog, staged, age, tries, r2, attempts,
                 sweep, claim, deletion>>

\* pruneOperationReceipts publishes the floor and drops receipts below it, in one
\* transaction; one batch may leave some of them for a later pass.
PruneReceipts ==
  /\ MaintenanceFree
  /\ floor' = OperationFloor
  /\ \E pruned \in SUBSET {o \in Op : receipts[o] # None /\ request[o].day < OperationFloor} :
        receipts' = [o \in Op |-> IF o \in pruned THEN None ELSE receipts[o]]
  /\ <<floor', receipts'>> # <<floor, receipts>>
  /\ UNCHANGED <<request, now, files, versions, expired, changelog, queue, staged, age, tries, r2,
                 attempts, sweep, claim, deletion>>

\* Mutant: a lease claimed by a pass that stopped is not claimed again.
ClaimPending ==
  LET due == {k \in Upload : staged[k] = "pending" /\ age[k] \in {"due", "expired"}} IN
  /\ MaintenanceFree /\ due # {}
  /\ staged' = [k \in Upload |-> IF k \in due THEN "deleting" ELSE staged[k]]
  /\ claim' = [NoClaim EXCEPT !.step = "check", !.keys = due]
  /\ UNCHANGED <<request, now, floor, receipts, files, versions, expired, changelog, queue, age,
                 tries, r2, attempts, sweep, deletion>>

\* cleanStagedUploads: "claim before checking R2: expired leases cannot publish
\* after this point."
ClaimLeases ==
  LET due == {k \in Upload : staged[k] # "none" /\ age[k] \in {"due", "expired"}} IN
  /\ MaintenanceFree /\ due # {}
  /\ staged' = [k \in Upload |-> IF k \in due THEN "deleting" ELSE staged[k]]
  /\ claim' = [NoClaim EXCEPT !.step = "check", !.keys = due]
  /\ UNCHANGED <<request, now, floor, receipts, files, versions, expired, changelog, queue, age,
                 tries, r2, attempts, sweep, deletion>>

\* deleteClaimedObjects looks the keys up in D1 ...
ClaimCheck ==
  /\ claim.step = "check"
  /\ claim' = [claim EXCEPT !.step = "look", !.finished = claim.keys \cap Referenced]
  /\ UNCHANGED <<request, now, d1, r2, attempts, sweep, deletion>>

\* Mutant: an absent object needs no lease any more.
ClaimLookForgets ==
  /\ claim.step = "look"
  /\ \E visible \in SUBSET ((claim.keys \ claim.finished) \cap bucket) :
        claim' = [claim EXCEPT !.step = "delete", !.visible = visible,
                               !.finished = claim.keys \ visible]
  /\ UNCHANGED <<request, now, d1, r2, attempts, sweep, deletion>>

\* ... and those it did not find there in R2, where a lookup may fail.
ClaimLook ==
  /\ claim.step = "look"
  /\ \E visible \in SUBSET ((claim.keys \ claim.finished) \cap bucket) :
        claim' = [claim EXCEPT !.step = "delete", !.visible = visible]
  /\ UNCHANGED <<request, now, d1, r2, attempts, sweep, deletion>>

ClaimDelete ==
  /\ claim.step = "delete"
  /\ \/ /\ bucket' = bucket \ claim.visible
        /\ claim' = [claim EXCEPT !.step = "finish", !.finished = @ \cup claim.visible]
     \/ /\ \E gone \in SUBSET claim.visible : bucket' = bucket \ gone
        /\ claim' = [claim EXCEPT !.step = "finish"]
  /\ UNCHANGED <<request, now, d1, put, attempts, sweep, deletion>>

\* "An absent object may still be uploading.  Keep its record instead of losing
\* a late write."
ClaimFinish ==
  LET Waits(k) == k \in claim.keys \ claim.finished /\ staged[k] # "none"
      Done(k) == k \in claim.finished
  IN
  /\ claim.step = "finish"
  /\ staged' = [k \in Upload |-> IF Done(k) THEN "none" ELSE staged[k]]
  /\ tries' = [k \in Upload |-> IF Done(k) THEN 0 ELSE IF Waits(k) THEN tries[k] + 1 ELSE tries[k]]
  /\ age' = [k \in Upload |-> IF Done(k) THEN "fresh"
                             ELSE IF ~Waits(k) THEN age[k]
                             ELSE IF tries[k] + 1 >= MaxTries THEN "never" ELSE "fresh"]
  /\ claim' = NoClaim
  /\ UNCHANGED <<request, now, floor, receipts, files, versions, expired, changelog, queue, r2,
                 attempts, sweep, deletion>>

\* The pass stops; a claimed lease keeps its state and is claimed again.
ClaimFails ==
  /\ claim.step # "idle"
  /\ claim' = NoClaim
  /\ UNCHANGED <<request, now, d1, r2, attempts, sweep, deletion>>

-----------------------------------------------------------------------------
Client ==
  \/ \E r \in UploadRequests : Submit(r)
  \/ \E r \in RestoreRequests : Submit(r)
  \/ \E d \in Deletion, k \in Published : LoadDeletion(d, k)

Attempt(a) ==
  \/ \E o \in Op : Begin(a, o)
  \/ \E r \in NoteRequests : BeginNote(a, r)
  \/ Stage(a) \/ PutReturns(a) \/ Fail(a)
  \/ Publish(a) \/ Refuse(a) \/ Abort(a) \/ Miss(a)
  \/ ReadReceipt(a) \/ ReadNames(a) \/ ReadRow(a) \/ ReadBytes(a)
  \/ QueueDiscard(a)

Delete(d) == CommitDeletion(d) \/ RecheckDeletion(d)

Sweep(s) == SweepCheck(s) \/ SweepDelete(s) \/ SweepLeases(s) \/ SweepDequeue(s) \/ SweepFails(s)

Maintain ==
  \/ DrainQueue \/ ExpireVersions \/ PruneReceipts
  \/ ClaimLeases \/ ClaimCheck \/ ClaimLook \/ ClaimDelete \/ ClaimFinish \/ ClaimFails

Environment ==
  \/ MoveClock
  \/ \E k \in Upload : PutLands(k) \/ LeaseAges(k) \/ VersionAges(k)

Next ==
  \/ Client
  \/ \E a \in Upload : Attempt(a)
  \/ \E d \in Deletion : Delete(d)
  \/ \E s \in Sweeper : Sweep(s)
  \/ Maintain
  \/ Environment

Spec == Init /\ [][Next]_vars

\* Maintenance passes recur, expiry times are reached, and no call fails for ever:
\* a task that can start in infinitely many passes starts, and each of its calls
\* succeeds in one of them.  Requests, clients and puts owe nothing.
Fairness ==
  /\ \A k \in Upload : WF_vars(LeaseAges(k)) /\ WF_vars(VersionAges(k))
  /\ SF_vars(DrainQueue) /\ SF_vars(ExpireVersions) /\ SF_vars(ClaimLeases)
  /\ SF_vars(SweepCheck(Maintenance)) /\ SF_vars(SweepDelete(Maintenance))
  /\ SF_vars(SweepLeases(Maintenance)) /\ SF_vars(SweepDequeue(Maintenance))
  /\ SF_vars(ClaimCheck) /\ SF_vars(ClaimLook) /\ SF_vars(ClaimDelete) /\ SF_vars(ClaimFinish)

FairSpec == Spec /\ Fairness

-----------------------------------------------------------------------------
(* Safety. *)

\* Every revision the database refers to, live or retained, has its object in R2,
\* whatever clean-up, retries and late puts are under way.
NoDanglingRevision == Referenced \subseteq bucket

\* Nothing is stored for ever by accident: an object, or a put that may still
\* land, is referenced or is owned by a lease or the clean-up queue.
ObjectsTracked ==
  \A k \in Upload :
    k \in bucket \/ put[k] = "inflight" => k \in Referenced \cup queue \/ staged[k] # "none"

\* However often an operation is retried, and even after its receipt is pruned
\* and the server clock is set back, it publishes at most one revision.
OperationAppliedOnce ==
  \A j, k \in Published : job[j].op = job[k].op /\ job[j].op # NoOp => j = k

\* An operation some attempt was told has failed never takes effect, then or later.
RejectionIsFinal ==
  \A a \in Upload :
    pc[a] = "answered" /\ answer[a] = Conflict /\ job[a].op # NoOp
      => \A k \in Published : job[k].op # job[a].op

\* An attempt that reports a revision names one that was published at its path
\* with its content.
SuccessIsReal ==
  \A a \in Upload :
    pc[a] = "answered" /\ answer[a] \in Upload
      => /\ answer[a] \in Published
         /\ job[answer[a]].path = job[a].path /\ job[answer[a]].hash = job[a].hash

\* A confirmed deletion is final: no retry, restore or late commit brings the
\* consumed revision back.
DeletedStaysDeleted ==
  \A d \in Deletion : deletion[d].step = "deleted" => deletion[d].revision \notin Live

\* A path becomes absent only by a delete request that names the revision then
\* live: a file replaced or recreated since the client read it, and since the
\* request itself loaded the rows, stays.
OnlyNamedRevisionsDeleted ==
  [][\A p \in Path : files[p] # Absent /\ files'[p] = Absent
       => \E d \in Deletion : deletion[d].revision = files[p]]_vars

\* A device that applies the changelog in order arrives at the live files.
ChangelogAgrees ==
  \A p \in Path :
    LET rows == {i \in DOMAIN changelog : changelog[i].path = p} IN
    IF rows = {} THEN files[p] = Absent
    ELSE \E last \in rows : (\A i \in rows : i <= last) /\ changelog[last].revision = files[p]

\* Concurrent creations never leave two files whose names cannot coexist on a device.
LiveNamesCompatible ==
  \A p, q \in Path : <<p, q>> \in Clash => files[p] = Absent \/ files[q] = Absent

\* An object nobody refers to, left by whatever crash, conflict or expiry, is
\* eventually published by its own attempt or deleted, unless its lease was set
\* aside for inspection.
UnreferencedReclaimed ==
  \A k \in Upload :
    (k \in bucket /\ k \notin Referenced)
      ~> (k \notin bucket \/ k \in Referenced \/ (staged[k] # "none" /\ age[k] = "never"))

-----------------------------------------------------------------------------
(* The store implements the registers of FileRegister.  An operation is        *)
(* closed once it was refused, or once the persisted floor has passed its day. *)

Writers(o) == {k \in Published : job[k].op = o}

Register == INSTANCE FileRegister WITH
  Revision <- Upload,
  live <- [p \in Path |-> IF files[p] = Absent THEN None
                          ELSE [hash |-> job[files[p]].hash, revision |-> files[p]]],
  used <- Published,
  outcome <- [o \in Op |->
    IF Writers(o) # {} THEN CHOOSE k \in Writers(o) : TRUE
    ELSE IF receipts[o] = Rejected THEN "closed"
    ELSE IF request[o] # None /\ request[o].day < floor THEN "closed"
    ELSE None]

\* Every behaviour of the store is one of the registers.
ImplementsRegister == Register!Spec

=============================================================================
